----------------------------- MODULE ProcessProofs -----------------------------
(***************************************************************************)
(* Theorems about the life of the process: for every command line, file and *)
(* clock.                                                                   *)
(***************************************************************************)
EXTENDS Process, Induction, FiniteSetTheorems

Names == {"udp", "tcp", "test", "cn", "server"}
All == Streams \cup Names

-------------------------------------------------------------------------------
(* Descriptors *)

LEMMA SocketNames ==
    /\ ToSet(Sockets) = Names /\ Len(Sockets) = 5 /\ DOMAIN Sockets = 1 .. 5
    /\ \A i \in 1 .. 5 : Sockets[i] \in Names
    /\ \A i, j \in 1 .. 5 : Sockets[i] = Sockets[j] => i = j
    /\ Streams \cap Names = {}
    /\ \A x \in Names : \E i \in 1 .. 5 : x = Sockets[i]
<1>1. Len(Sockets) = 5 /\ DOMAIN Sockets = 1 .. 5
  BY DEF Sockets
<1>2. /\ Sockets[1] = "udp" /\ Sockets[2] = "tcp" /\ Sockets[3] = "test" /\ Sockets[4] = "cn"
      /\ Sockets[5] = "server"
  BY DEF Sockets
<1>3. \A i \in 1 .. 5 : i = 1 \/ i = 2 \/ i = 3 \/ i = 4 \/ i = 5
  OBVIOUS
<1>4. ToSet(Sockets) = Names
  BY <1>1, <1>2, <1>3 DEF ToSet, Names
<1>5. QED
  BY <1>1, <1>2, <1>3, <1>4 DEF Names, Streams

LEMMA AtMostEight == IsFiniteSet(All) /\ Cardinality(All) <= 8
<1> DEFINE s == <<"stdin", "stdout", "stderr", "udp", "tcp", "test", "cn", "server">>
           g == [i \in 1 .. 8 |-> s[i]]
<1>1. /\ s[1] = "stdin" /\ s[2] = "stdout" /\ s[3] = "stderr" /\ s[4] = "udp"
      /\ s[5] = "tcp" /\ s[6] = "test" /\ s[7] = "cn" /\ s[8] = "server"
  OBVIOUS
<1>2. \A i \in 1 .. 8 : i = 1 \/ i = 2 \/ i = 3 \/ i = 4 \/ i = 5 \/ i = 6 \/ i = 7 \/ i = 8
  OBVIOUS
<1>3. g \in Surjection(1 .. 8, All)
  <2>1. \A i \in 1 .. 8 : g[i] \in All
    BY <1>1, <1>2 DEF All, Names, Streams
  <2>2. \A x \in All : \E i \in 1 .. 8 : g[i] = x
    BY <1>1 DEF All, Names, Streams
  <2>3. QED
    BY <2>1, <2>2 DEF Surjection
<1>4. ExistsSurjection(1 .. 8, All)
  BY <1>3 DEF ExistsSurjection
<1>5. QED
  BY <1>4, FS_SurjCardinalityBound, FS_NatSurjection

\* The lowest free number is one of nine, and nobody else's.
LEMMA LowestIsFree ==
    ASSUME NEW x \in Names
    PROVE  /\ LowestFor(x) \in 0 .. 8
           /\ \A y \in All \ {x} : fd[y] # LowestFor(x)
<1> DEFINE T == {fd[y] : y \in All \ {x}}
<1>1. (0 .. 8) \ T # {}
  <2>1. SUFFICES ASSUME 0 .. 8 \subseteq T
                 PROVE  FALSE
    OBVIOUS
  <2>2. \A n \in 0 .. 8 : \E y \in All : fd[y] = n
    BY <2>1
  <2>3. PICK g \in [0 .. 8 -> All] : \A n \in 0 .. 8 : fd[g[n]] = n
    <3>1. [n \in 0 .. 8 |-> CHOOSE y \in All : fd[y] = n] \in [0 .. 8 -> All]
      BY <2>2
    <3>2. \A n \in 0 .. 8 : fd[CHOOSE y \in All : fd[y] = n] = n
      BY <2>2
    <3>3. QED
      BY <3>1, <3>2
  <2>4. IsFiniteSet(0 .. 8) /\ Cardinality(0 .. 8) = 9
    <3>1. 0 \in Int /\ 8 \in Int /\ ~(0 > 8) /\ 8 - 0 + 1 = 9
      OBVIOUS
    <3>2. QED
      BY <3>1, FS_Interval
  <2>5. Cardinality(All) < 9
    <3>1. Cardinality(All) \in Nat
      BY AtMostEight, FS_CardinalityType
    <3>2. QED
      BY <3>1, AtMostEight
  <2>6. PICK N : N = 0 .. 8
    OBVIOUS
  <2>7. IsFiniteSet(N) /\ IsFiniteSet(All) /\ Cardinality(All) < Cardinality(N) /\ g \in [N -> All]
    BY <2>4, <2>5, <2>6, AtMostEight, Zenon
  <2>8. PICK m \in N, n \in N : m # n /\ g[m] = g[n]
    BY <2>7, FS_PigeonHole
  <2>9. QED
    BY <2>3, <2>6, <2>8
<1>2. PICK m \in (0 .. 8) \ T : \A n \in (0 .. 8) \ T : m <= n
  <2>1. (0 .. 8) \ T \subseteq Nat
    OBVIOUS
  <2>2. QED
    BY <1>1, <2>1, LeastNat
<1>3. Min((0 .. 8) \ T) \in (0 .. 8) \ T
  BY <1>2 DEF Min
<1>4. LowestFor(x) = Min((0 .. 8) \ T)
  BY SocketNames DEF LowestFor, All
<1>5. QED
  BY <1>3, <1>4

\* Sockets that have a number each, and not the same, have five.
LEMMA FiveNumbers ==
    ASSUME \A x, y \in Names : x # y => fd[x] # fd[y]
    PROVE  Cardinality({fd[x] : x \in ToSet(Sockets)}) = Len(Sockets)
<1> DEFINE T == {fd[x] : x \in ToSet(Sockets)}
           g == [i \in 1 .. 5 |-> fd[Sockets[i]]]
<1>1. g \in Bijection(1 .. 5, T)
  <2>1. g \in Injection(1 .. 5, T)
    BY SocketNames DEF Injection, IsInjective
  <2>2. g \in Surjection(1 .. 5, T)
    BY SocketNames DEF Surjection
  <2>3. QED
    BY <2>1, <2>2 DEF Bijection
<1>2. ExistsBijection(1 .. 5, T) /\ 5 \in Nat
  BY <1>1 DEF ExistsBijection
<1>3. Cardinality(T) = 5
  BY <1>2, FS_CountingElements
<1>4. QED
  BY <1>3, SocketNames

-------------------------------------------------------------------------------
(* The clock *)

LEMMA ModuloLemma ==
    ASSUME NEW a \in Int, NEW n \in Nat \ {0}
    PROVE  a % n \in 0 .. n - 1 /\ (a \in 0 .. n - 1 => a % n = a)
OBVIOUS

\* The difference is a number of half the range either way, and right while it is
\* within it.
LEMMA WrappedLemma ==
    ASSUME NEW x \in Int
    PROVE  /\ Wrapped(x) \in -(LongRange \div 2) .. LongRange \div 2 - 1
           /\ x \in 0 .. LongRange \div 2 - 1 => Wrapped(x) = x
<1>1. PICK h \in Nat : h = LongRange \div 2 /\ LongRange = 2 * h /\ h # 0
  BY ProcessAssumption
<1>2. PICK a \in Int : a = x + h
  BY <1>1
<1>3. 2 * h \in Nat \ {0}
  BY <1>1
<1>4. a % (2 * h) \in 0 .. 2 * h - 1 /\ (a \in 0 .. 2 * h - 1 => a % (2 * h) = a)
  BY <1>3, ModuloLemma
<1>5. PICK r \in Int : r = a % (2 * h)
  BY <1>4
<1>6. Wrapped(x) = r - h
  BY <1>1, <1>2, <1>5 DEF Wrapped
<1>7. r - h \in -h .. h - 1 /\ (x \in 0 .. h - 1 => r - h = x)
  BY <1>1, <1>2, <1>4, <1>5
<1>8. QED
  BY <1>1, <1>6, <1>7

-------------------------------------------------------------------------------
(* The inductive invariant *)

Types == /\ pc \in Ends \cup Loop \cup Names
                    \cup {"parsed", "detach", "sigaction", "ev_init", "sans_run", "stuck"}
         /\ input.argv \in Seq(STRING)
         /\ fd \in [All -> -1 .. 8]
         /\ handler \in BOOLEAN /\ run \in BOOLEAN /\ heard \in BOOLEAN /\ jumped \in BOOLEAN
         /\ ahead \in -(LongRange \div 2) .. LongRange \div 2 - 1
         /\ age \in 0 .. SECOND + 1
         /\ sets \in 0 .. MaxSets

LEMMA SameTypes == TypeOK <=> Types
BY SocketNames DEF TypeOK, Types, All

Daemon == conf.conf.daemon

\* No socket has the number of anyone else.
Apart == \A x \in Names, y \in All : x # y /\ fd[x] # -1 => fd[x] # fd[y]

\* main has come to the i-th socket, or further.
Past(i) == \/ \E j \in 1 .. 5 : j > i /\ pc = Sockets[j]
           \/ pc = "sans_run" \/ Serving

\* Until then there is none.
Unopened == pc \in {"parsed", "detach", "sigaction", "ev_init"} => \A x \in Names : fd[x] = -1

Opened == \A i \in 1 .. 5 : Past(i) => fd[Sockets[i]] # -1

\* Only a daemon lets go of descriptor 0.
StdinKept == pc \in {"parsed", "sigaction", "ev_init", "sans_run"} \cup Names =>
                Daemon \/ fd["stdin"] = 0

Handled == pc \in {"ev_init", "sans_run"} \cup Names \cup Loop => handler

\* From the end of ev_init on only signal_cb clears run.
RunUnlessHeard == pc \in {"sans_run"} \cup Names \cup Loop => run \/ heard

Ending == /\ pc = "success" => heard
          /\ pc = "aborted" => Daemon
          /\ pc = "detach" => Daemon

\* The clock shows the time since the last tick, if nobody has set it.
ClockRight == ~jumped /\ age <= SECOND => ahead = age

ProcInv == /\ Types /\ Apart /\ Opened /\ Unopened /\ StdinKept /\ Handled /\ RunUnlessHeard
           /\ Ending /\ ClockRight

-------------------------------------------------------------------------------
(* The steps *)

LEMMA HalfRange == LongRange \div 2 \in Nat /\ LongRange \div 2 > SECOND + 1 /\ SECOND \in Nat \ {0}
<1>1. PICK h \in Nat : h = LongRange \div 2 /\ LongRange = 2 * h
  BY ProcessAssumption
<1>2. h > SECOND + 1 /\ SECOND \in Nat \ {0}
  BY <1>1, ProcessAssumption
<1>3. QED
  BY <1>1, <1>2

\* Time is measured as it passes.
LEMMA TimePassesLemma ==
    ASSUME Types, ClockRight, NEW u \in Waits, TimePasses(u)
    PROVE  /\ ahead' \in -(LongRange \div 2) .. LongRange \div 2 - 1
           /\ age' \in 0 .. SECOND + 1 /\ jumped' = jumped /\ sets' = sets
           /\ ClockRight'
<1>1. PICK h \in Nat : h = LongRange \div 2 /\ h > SECOND + 1 /\ SECOND \in Nat \ {0}
  BY HalfRange
<1>2. u \in Nat /\ ahead \in Int /\ age \in Nat /\ age <= SECOND + 1
  BY <1>1, ProcessAssumption DEF Types
<1>3. /\ ahead' = Wrapped(ahead + u) /\ age' = Min({age + u, SECOND + 1})
      /\ jumped' = jumped /\ sets' = sets
  BY DEF TimePasses
<1>4. age + u \in Nat /\ SECOND + 1 \in Nat /\ ahead + u \in Int
  BY <1>1, <1>2
<1>5. age' = IF age + u <= SECOND + 1 THEN age + u ELSE SECOND + 1
  BY <1>3, <1>4, MinOfTwo
<1>6. /\ ahead' \in -(LongRange \div 2) .. LongRange \div 2 - 1
      /\ ahead + u \in 0 .. LongRange \div 2 - 1 => ahead' = ahead + u
  BY <1>3, <1>4, WrappedLemma
<1>7. ASSUME ~jumped', age' <= SECOND
      PROVE  ahead' = age'
  <2>1. age' = age + u /\ age + u <= SECOND /\ age <= SECOND
    BY <1>1, <1>2, <1>5, <1>7
  <2>2. ahead = age
    BY <1>3, <1>7, <2>1 DEF ClockRight
  <2>3. ahead + u \in 0 .. h - 1
    BY <1>1, <1>2, <2>1, <2>2
  <2>4. QED
    BY <1>1, <1>6, <2>1, <2>2, <2>3
<1>8. age' \in 0 .. SECOND + 1
  BY <1>1, <1>2, <1>5
<1>9. QED
  BY <1>3, <1>6, <1>7, <1>8 DEF ClockRight

LEMMA OpenSocketStep ==
    ASSUME ProcInv, NEW i \in DOMAIN Sockets, OpenSocket(i)
    PROVE  ProcInv'
<1>1. i \in 1 .. 5 /\ Sockets[i] \in Names /\ pc = Sockets[i]
  BY SocketNames DEF OpenSocket
<1>2. PICK u \in Waits : TimePasses(u)
  BY DEF OpenSocket
<1>3. /\ ahead' \in -(LongRange \div 2) .. LongRange \div 2 - 1
      /\ age' \in 0 .. SECOND + 1 /\ jumped' = jumped /\ sets' = sets /\ ClockRight'
  BY <1>2, TimePassesLemma DEF ProcInv
<1>4. UNCHANGED <<input, conf, handler, run, heard>>
  BY DEF OpenSocket, confVars
<1>5. handler /\ (run \/ heard) /\ (Daemon \/ fd["stdin"] = 0)
  BY <1>1 DEF ProcInv, Handled, RunUnlessHeard, StdinKept
<1>6. CASE pc' = "failure" /\ fd' = fd
  <2>1. Types'
    BY <1>3, <1>4, <1>6 DEF ProcInv, Types, Ends
  <2>2. ~Past(1)' /\ \A k \in 1 .. 5 : ~Past(k)'
    BY <1>6, SocketNames DEF Past, Serving, Loop, Names
  <2>3. Apart' /\ Opened'
    BY <1>6, <2>2 DEF ProcInv, Apart, Opened
  <2>4. QED
    BY <1>3, <1>6, <2>1, <2>3 DEF ProcInv, StdinKept, Handled, RunUnlessHeard, Ending, Unopened,
                                      Names, Loop
<1>7. CASE /\ pc' = IF i < 5 THEN Sockets[i + 1] ELSE "sans_run"
           /\ fd' = [fd EXCEPT ![Sockets[i]] = LowestFor(Sockets[i])]
  <2>1. PICK x \in Names : x = Sockets[i] /\ x \in All /\ x \notin Streams
    BY <1>1, SocketNames DEF All
  <2>2. fd \in [All -> -1 .. 8]
    BY DEF ProcInv, Types
  <2>3. /\ fd'[x] = LowestFor(x) /\ fd'[x] \in 0 .. 8 /\ fd' \in [All -> -1 .. 8]
        /\ \A y \in All \ {x} : fd'[y] = fd[y] /\ fd[y] # LowestFor(x)
    BY <1>7, <2>1, <2>2, LowestIsFree
  <2>4. pc' \in Names \cup {"sans_run"}
    <3>1. i < 5 => i + 1 \in 1 .. 5
      BY <1>1
    <3>2. QED
      BY <1>7, <3>1, SocketNames
  <2>5. Types'
    BY <1>3, <1>4, <2>3, <2>4 DEF ProcInv, Types
  <2>6. Apart'
    <3>1. SUFFICES ASSUME NEW a \in Names, NEW b \in All, a # b, fd'[a] # -1
                   PROVE  fd'[a] # fd'[b]
      BY DEF Apart
    <3>2. a \in All
      BY DEF All
    <3>3. CASE a = x
      BY <2>3, <3>1, <3>3
    <3>4. CASE b = x
      BY <2>3, <3>1, <3>2, <3>4
    <3>5. CASE a # x /\ b # x
      BY <2>3, <3>1, <3>2, <3>5 DEF ProcInv, Apart
    <3>6. QED
      BY <3>3, <3>4, <3>5
  <2>7. Opened'
    <3>1. SUFFICES ASSUME NEW k \in 1 .. 5, Past(k)'
                   PROVE  fd'[Sockets[k]] # -1
      BY DEF Opened
    <3>2. k <= i
      <4>1. CASE i < 5
        <5>1. pc' = Sockets[i + 1] /\ i + 1 \in 1 .. 5
          BY <1>1, <1>7, <4>1
        <5>2. \A j \in 1 .. 5 : pc' = Sockets[j] => j = i + 1
          BY <5>1, SocketNames
        <5>3. pc' \in Names
          BY <5>1, SocketNames
        <5>4. PICK j \in 1 .. 5 : j > k /\ pc' = Sockets[j]
          BY <3>1, <5>3 DEF Past, Serving, Loop, Names
        <5>5. QED
          BY <1>1, <5>2, <5>4
      <4>2. CASE ~(i < 5)
        BY <1>1, <4>2
      <4>3. QED
        BY <4>1, <4>2
    <3>3. CASE k = i
      BY <2>1, <2>3, <3>3
    <3>4. CASE k # i
      <4>1. k < i
        BY <1>1, <3>2, <3>4
      <4>2. fd[Sockets[k]] # -1
        BY <1>1, <4>1 DEF Past, ProcInv, Opened
      <4>3. Sockets[k] \in All \ {x}
        BY <1>1, <2>1, <3>4, SocketNames DEF All
      <4>4. QED
        BY <2>3, <4>2, <4>3
    <3>5. QED
      BY <3>3, <3>4
  <2>8. fd'["stdin"] = fd["stdin"]
    <3>1. "stdin" \in All \ {x}
      BY <2>1 DEF All, Streams
    <3>2. QED
      BY <2>3, <3>1
  <2>9. StdinKept' /\ Handled' /\ RunUnlessHeard'
    BY <1>4, <1>5, <2>8 DEF StdinKept, Handled, RunUnlessHeard, Daemon
  <2>10. Ending' /\ Unopened'
    BY <2>4 DEF Ending, Unopened, Names
  <2>11. QED
    BY <1>3, <2>5, <2>6, <2>7, <2>9, <2>10 DEF ProcInv
<1>8. QED
  BY <1>6, <1>7, SocketNames DEF OpenSocket, Go

\* The steps that leave descriptors as they are, and do not come to a socket.
LEMMA SameNumbers ==
    ASSUME ProcInv, fd' = fd, ~\E i \in 1 .. 5 : Past(i)' /\ ~Past(i)
    PROVE  Apart' /\ Opened' /\ fd' \in [All -> -1 .. 8]
BY DEF ProcInv, Apart, Opened, Types

LEMMA NoneYet == pc \notin {"sans_run"} \cup Names \cup Loop => \A i \in 1 .. 5 : ~Past(i)
BY SocketNames DEF Past, Serving

LEMMA NoneAtFirst == pc = Sockets[1] => \A i \in 1 .. 5 : ~Past(i)
<1>1. \A j \in 1 .. 5 : Sockets[j] = Sockets[1] => j = 1
  BY SocketNames
<1>2. Sockets[1] \in Names
  BY SocketNames
<1>3. QED
  BY <1>1, <1>2 DEF Past, Serving, Loop, Names

LEMMA StartStep ==
    ASSUME ProcInv, Fork \/ Sigaction \/ EvInit
    PROVE  ProcInv'
<1>1. UNCHANGED <<conf, fd, heard, jumped, sets>>
  BY DEF Fork, Sigaction, EvInit, confVars, clockVars
<1>2. input' \in {input, NoInput} /\ input'.argv \in Seq(STRING)
  <2>1. input' = input \/ input' = NoInput
    BY DEF Fork, Sigaction, EvInit, confVars
  <2>2. NoInput.argv \in Seq(STRING)
    BY DEF NoInput
  <2>3. input.argv \in Seq(STRING)
    BY DEF ProcInv, Types
  <2>4. QED
    BY <2>1, <2>2, <2>3
<1>3. \A i \in 1 .. 5 : ~Past(i)'
  <2>1. NoneYet' /\ NoneAtFirst'
    BY NoneYet, NoneAtFirst, PTL
  <2>2. CASE Fork \/ Sigaction
    <3>1. pc' \notin {"sans_run"} \cup Names \cup Loop
      BY <2>2 DEF Fork, Sigaction, Go, Names, Loop
    <3>2. QED
      BY <3>1, <2>1
  <2>3. CASE EvInit
    BY <2>3, <2>1 DEF EvInit, Go
  <2>4. QED
    BY <2>2, <2>3
<1>4. Apart' /\ Opened' /\ fd' \in [All -> -1 .. 8]
  BY <1>1, <1>3, SameNumbers
<1>5. CASE Fork
  <2>1. /\ pc = "parsed" /\ pc' \in {"failure", "detach", "sigaction"}
        /\ pc' = "detach" => Daemon
        /\ UNCHANGED <<handler, run, ahead, age>>
    BY <1>5 DEF Fork, Go, Daemon, clockVars
  <2>2. Types'
    BY <1>1, <1>2, <1>4, <2>1 DEF ProcInv, Types, Ends
  <2>3. StdinKept' /\ Ending' /\ Handled' /\ RunUnlessHeard' /\ Unopened'
    BY <1>1, <2>1 DEF ProcInv, StdinKept, Ending, Handled, RunUnlessHeard, Unopened, Daemon, Names, Loop
  <2>4. ClockRight'
    BY <1>1, <2>1 DEF ProcInv, ClockRight
  <2>5. QED
    BY <1>4, <2>2, <2>3, <2>4 DEF ProcInv
<1>6. CASE Sigaction
  <2>1. /\ pc = "sigaction" /\ pc' = "ev_init" /\ handler' = TRUE
        /\ UNCHANGED <<run, ahead, age>>
    BY <1>6 DEF Sigaction, Go, clockVars
  <2>2. Types'
    BY <1>1, <1>2, <1>4, <2>1 DEF ProcInv, Types
  <2>3. StdinKept' /\ Ending' /\ Handled' /\ RunUnlessHeard' /\ Unopened'
    BY <1>1, <2>1 DEF ProcInv, StdinKept, Ending, Handled, RunUnlessHeard, Unopened, Daemon, Names, Loop
  <2>4. ClockRight'
    BY <1>1, <2>1 DEF ProcInv, ClockRight
  <2>5. QED
    BY <1>4, <2>2, <2>3, <2>4 DEF ProcInv
<1>7. CASE EvInit
  <2>1. /\ pc = "ev_init" /\ pc' = Sockets[1] /\ pc' \in Names /\ run' = TRUE
        /\ ahead' = 0 /\ age' = 0 /\ handler' = handler
    BY <1>7, SocketNames DEF EvInit, Go, RunAfterInit
  <2>2. 0 \in -(LongRange \div 2) .. LongRange \div 2 - 1 /\ 0 \in 0 .. SECOND + 1
    BY HalfRange
  <2>3. Types'
    BY <1>1, <1>2, <1>4, <2>1, <2>2 DEF ProcInv, Types
  <2>4. StdinKept' /\ Ending' /\ Handled' /\ RunUnlessHeard' /\ Unopened'
    BY <1>1, <2>1 DEF ProcInv, StdinKept, Ending, Handled, RunUnlessHeard, Unopened, Daemon, Names
  <2>5. ClockRight'
    BY <2>1 DEF ClockRight
  <2>6. QED
    BY <1>4, <2>3, <2>4, <2>5 DEF ProcInv
<1>8. QED
  BY <1>5, <1>6, <1>7

LEMMA DetachStep ==
    ASSUME ProcInv, Detach
    PROVE  ProcInv'
<1>1. /\ pc = "detach" /\ pc' \in {"failure", "sigaction"} /\ Daemon
      /\ UNCHANGED <<input, conf, handler, run, heard, ahead, age, jumped, sets>>
  BY DEF Detach, Go, confVars, clockVars, ProcInv, Ending
<1>2. /\ {"stdin", "stdout", "stderr"} \subseteq All
      /\ \A x \in Names : x \notin {"stdin", "stdout", "stderr"} /\ x \in All
  BY DEF All, Streams, Names
<1>3. fd' \in [All -> -1 .. 8] /\ \A x \in Names : fd'[x] = fd[x]
  <2>1. fd \in [All -> -1 .. 8]
    BY DEF ProcInv, Types
  <2>2. CASE fd' = fd
    BY <2>1, <2>2
  <2>3. CASE fd' = [fd EXCEPT !.stdin = -1]
    BY <1>2, <2>1, <2>3
  <2>4. CASE fd' = [fd EXCEPT !.stdin = -1, !.stdout = 0, !.stderr = 1]
    <3>1. PICK f \in [All -> -1 .. 8] : f = [fd EXCEPT !["stdin"] = -1]
      <4>1. [fd EXCEPT !["stdin"] = -1] \in [All -> -1 .. 8]
        BY <1>2, <2>1
      <4>2. QED
        BY <4>1
    <3>2. PICK g \in [All -> -1 .. 8] : g = [f EXCEPT !["stdout"] = 0]
      <4>1. [f EXCEPT !["stdout"] = 0] \in [All -> -1 .. 8]
        BY <1>2
      <4>2. QED
        BY <4>1
    <3>3. fd' = [g EXCEPT !["stderr"] = 1]
      BY <2>4, <3>1, <3>2
    <3>4. \A x \in Names : f[x] = fd[x] /\ g[x] = f[x] /\ fd'[x] = g[x]
      BY <1>2, <2>1, <3>1, <3>2, <3>3
    <3>5. fd' \in [All -> -1 .. 8]
      BY <1>2, <3>3
    <3>6. QED
      BY <3>4, <3>5
  <2>5. QED
    BY <2>2, <2>3, <2>4 DEF Detach
<1>4. Types'
  BY <1>1, <1>3 DEF ProcInv, Types, Ends
<1>5. ASSUME NEW x \in Names
      PROVE  fd'[x] = -1
  <2>1. fd[x] = -1
    BY <1>1, <1>5 DEF ProcInv, Unopened
  <2>2. QED
    BY <1>3, <2>1
<1>6. Apart' /\ Unopened'
  BY <1>5 DEF Apart, Unopened
<1>7. Opened'
  <2>1. NoneYet'
    BY NoneYet, PTL
  <2>2. pc' \notin {"sans_run"} \cup Names \cup Loop
    BY <1>1 DEF Names, Loop
  <2>3. QED
    BY <2>1, <2>2 DEF Opened
<1>8. StdinKept' /\ Ending' /\ Handled' /\ RunUnlessHeard'
  BY <1>1 DEF ProcInv, StdinKept, Ending, Handled, RunUnlessHeard, Daemon, Names, Loop
<1>9. ClockRight'
  BY <1>1 DEF ProcInv, ClockRight
<1>10. QED
  BY <1>4, <1>6, <1>7, <1>8, <1>9 DEF ProcInv

\* All sockets are open when the watchers are started.
LEMMA AllOpen ==
    ASSUME ProcInv, pc = "sans_run" \/ Serving
    PROVE  /\ \A x \in Names : fd[x] # -1
           /\ \A x, y \in Names : x # y => fd[x] # fd[y]
<1>1. \A x \in Names : fd[x] # -1
  BY SocketNames DEF ProcInv, Opened, Past
<1>2. QED
  BY <1>1 DEF ProcInv, Apart, All

LEMMA StartWatchersStep ==
    ASSUME ProcInv, StartWatchers
    PROVE  ProcInv'
<1>1. /\ pc = "sans_run" /\ pc' \in {"aborted", "check"}
      /\ UNCHANGED <<input, fd, handler, heard, run, ahead, age, jumped, sets>>
      /\ pc' = "aborted" => conf' = conf /\ \E i \in DOMAIN Sockets : fd[Sockets[i]] = 0
  BY DEF StartWatchers, Go, RunAtStart, clockVars
<1>2. handler /\ (run \/ heard) /\ (Daemon \/ fd["stdin"] = 0)
  BY <1>1 DEF ProcInv, Handled, RunUnlessHeard, StdinKept
<1>3. Types'
  BY <1>1 DEF ProcInv, Types, Ends, Loop
<1>4. \A i \in 1 .. 5 : Past(i)
  BY <1>1 DEF Past
<1>5. Apart' /\ Opened'
  BY <1>1, <1>4, SameNumbers
<1>6. pc' = "aborted" => Daemon'
  <2>1. SUFFICES ASSUME pc' = "aborted"
                 PROVE  Daemon
    BY <1>1 DEF Daemon
  <2>2. PICK x \in Names : fd[x] = 0
    BY <1>1, <2>1, SocketNames
  <2>3. "stdin" \in All /\ x # "stdin"
    BY DEF All, Streams, Names
  <2>4. fd["stdin"] # 0
    BY <2>2, <2>3 DEF ProcInv, Apart
  <2>5. QED
    BY <1>2, <2>4
<1>7. StdinKept' /\ Ending' /\ Handled' /\ RunUnlessHeard' /\ Unopened'
  BY <1>1, <1>2, <1>6 DEF StdinKept, Ending, Handled, RunUnlessHeard, Unopened, Names
<1>8. ClockRight'
  BY <1>1 DEF ProcInv, ClockRight
<1>9. QED
  BY <1>3, <1>5, <1>7, <1>8 DEF ProcInv

LEMMA CheckStep ==
    ASSUME ProcInv, Check
    PROVE  ProcInv'
<1>1. /\ pc = "check"
      /\ UNCHANGED <<input, conf, handler, heard, run, ahead, age, jumped, sets>>
      /\ \/ run /\ pc' = "select" /\ fd' = fd
         \/ /\ ~run /\ pc' = "success"
            /\ fd' = [x \in DOMAIN fd |-> IF x \in Streams THEN fd[x] ELSE -1]
  BY DEF Check, Go, confVars, clockVars
<1>2. handler /\ (run \/ heard) /\ fd \in [All -> -1 .. 8]
  BY <1>1 DEF ProcInv, Handled, RunUnlessHeard, Loop, Types
<1>3. fd' \in [All -> -1 .. 8]
  BY <1>1, <1>2
<1>4. Types'
  BY <1>1, <1>3 DEF ProcInv, Types, Ends, Loop
<1>5. Apart' /\ Opened'
  <2>1. CASE fd' = fd
    <3>1. \A i \in 1 .. 5 : Past(i)
      BY <1>1 DEF Past, Serving, Loop
    <3>2. QED
      BY <2>1, <3>1, SameNumbers
  <2>2. CASE /\ pc' = "success"
             /\ fd' = [x \in DOMAIN fd |-> IF x \in Streams THEN fd[x] ELSE -1]
    <3>1. \A x \in Names : fd'[x] = -1
      BY <1>2, <2>2, SocketNames DEF All
    <3>2. NoneYet'
      BY NoneYet, PTL
    <3>3. pc' \notin {"sans_run"} \cup Names \cup Loop
      BY <2>2 DEF Names, Loop
    <3>4. QED
      BY <3>1, <3>2, <3>3 DEF Apart, Opened
  <2>3. QED
    BY <1>1, <2>1, <2>2
<1>6. StdinKept' /\ Ending' /\ Handled' /\ RunUnlessHeard' /\ Unopened'
  BY <1>1, <1>2 DEF StdinKept, Ending, Handled, RunUnlessHeard, Unopened, Names
<1>7. ClockRight'
  BY <1>1 DEF ProcInv, ClockRight
<1>8. QED
  BY <1>4, <1>5, <1>6, <1>7 DEF ProcInv

\* A step of the loop from one of its steps to another, or a clock that is set.
LEMMA LoopStep ==
    ASSUME ProcInv, Serving, pc' \in Loop,
           UNCHANGED <<input, conf, fd, handler, run, heard>>,
           ahead' \in -(LongRange \div 2) .. LongRange \div 2 - 1, age' \in 0 .. SECOND + 1,
           jumped' \in BOOLEAN, sets' \in 0 .. MaxSets, ClockRight'
    PROVE  ProcInv'
<1>1. handler /\ (run \/ heard)
  BY DEF ProcInv, Handled, RunUnlessHeard, Serving
<1>2. Types'
  BY DEF ProcInv, Types
<1>3. \A i \in 1 .. 5 : Past(i)
  BY DEF Past
<1>4. Apart' /\ Opened'
  BY <1>3, SameNumbers
<1>5. StdinKept' /\ Ending' /\ Handled' /\ RunUnlessHeard' /\ Unopened'
  BY <1>1 DEF StdinKept, Ending, Handled, RunUnlessHeard, Unopened, Names, Loop
<1>6. QED
  BY <1>2, <1>4, <1>5 DEF ProcInv

\* A callback that ends the process, or does not come back.
LEMMA CallbackStep ==
    ASSUME ProcInv, pc' \in {"died", "stuck"},
           UNCHANGED <<input, conf, fd, handler, run, heard>>,
           ahead' \in -(LongRange \div 2) .. LongRange \div 2 - 1, age' \in 0 .. SECOND + 1,
           jumped' \in BOOLEAN, sets' \in 0 .. MaxSets, ClockRight'
    PROVE  ProcInv'
<1>1. Types'
  BY DEF ProcInv, Types, Ends
<1>2. NoneYet'
  BY NoneYet, PTL
<1>3. pc' \notin {"sans_run"} \cup Names \cup Loop
  BY DEF Names, Loop
<1>4. Apart' /\ Opened'
  BY <1>2, <1>3, SameNumbers
<1>5. StdinKept' /\ Ending' /\ Handled' /\ RunUnlessHeard' /\ Unopened'
  BY DEF StdinKept, Ending, Handled, RunUnlessHeard, Unopened, Names, Loop
<1>6. QED
  BY <1>1, <1>4, <1>5 DEF ProcInv

LEMMA SelectStep ==
    ASSUME ProcInv, NEW u \in Waits, Select(u)
    PROVE  ProcInv'
<1>1. /\ pc = "select" /\ pc' \in {"clock", "died", "stuck"} /\ TimePasses(u)
      /\ UNCHANGED <<input, conf, fd, handler, run, heard>>
  BY DEF Select, AfterCallbacks, Go, confVars
<1>2. /\ ahead' \in -(LongRange \div 2) .. LongRange \div 2 - 1
      /\ age' \in 0 .. SECOND + 1 /\ jumped' = jumped /\ sets' = sets /\ ClockRight'
  BY <1>1, TimePassesLemma DEF ProcInv
<1>3. jumped' \in BOOLEAN /\ sets' \in 0 .. MaxSets
  BY <1>2 DEF ProcInv, Types
<1>4. Serving /\ pc' \in Loop \cup {"died", "stuck"}
  BY <1>1 DEF Serving, Loop
<1>5. QED
  BY <1>1, <1>2, <1>3, <1>4, LoopStep, CallbackStep

LEMMA ClockStep ==
    ASSUME ProcInv, TickCb \/ NoTick
    PROVE  ProcInv'
<1>1. /\ pc = "clock" /\ pc' \in {"check", "died", "stuck"}
      /\ UNCHANGED <<input, conf, fd, handler, run, heard, sets>>
      /\ \/ ahead' = 0 /\ age' = 0 /\ jumped' = FALSE
         \/ ahead' = ahead /\ age' = age /\ jumped' = jumped
  BY DEF TickCb, NoTick, AfterCallbacks, Go, TvAfter, confVars
<1>2. /\ ahead' \in -(LongRange \div 2) .. LongRange \div 2 - 1 /\ age' \in 0 .. SECOND + 1
      /\ jumped' \in BOOLEAN /\ sets' \in 0 .. MaxSets
  <2>1. 0 \in -(LongRange \div 2) .. LongRange \div 2 - 1 /\ 0 \in 0 .. SECOND + 1
    BY HalfRange
  <2>2. QED
    BY <1>1, <2>1 DEF ProcInv, Types
<1>3. ClockRight'
  BY <1>1 DEF ProcInv, ClockRight
<1>4. Serving /\ pc' \in Loop \cup {"died", "stuck"}
  BY <1>1 DEF Serving, Loop
<1>5. QED
  BY <1>1, <1>2, <1>3, <1>4, LoopStep, CallbackStep

LEMMA SetClockStep ==
    ASSUME ProcInv, NEW d \in ClockSteps, SetClock(d)
    PROVE  ProcInv'
<1>1. /\ Serving /\ ahead' = Wrapped(ahead + d) /\ jumped' = TRUE
      /\ sets < MaxSets /\ sets' = sets + 1
      /\ UNCHANGED <<pc, input, conf, fd, handler, run, heard, age>>
  BY DEF SetClock, confVars
<1>2. ahead + d \in Int
  BY HalfRange, ProcessAssumption DEF ProcInv, Types
<1>3. ahead' \in -(LongRange \div 2) .. LongRange \div 2 - 1
  BY <1>1, <1>2, WrappedLemma
<1>4. sets' \in 0 .. MaxSets /\ age' \in 0 .. SECOND + 1
  BY <1>1, ProcessAssumption DEF ProcInv, Types
<1>5. ClockRight'
  BY <1>1 DEF ClockRight
<1>6. pc' \in Loop
  BY <1>1 DEF Serving
<1>7. QED
  BY <1>1, <1>3, <1>4, <1>5, <1>6, LoopStep

LEMMA SignalStep ==
    ASSUME ProcInv, Signal
    PROVE  ProcInv'
<1>1. /\ ~Ended /\ UNCHANGED <<input, conf, fd, handler, ahead, age, jumped, sets>>
      /\ \/ handler /\ run' = FALSE /\ heard' = (heard \/ pc # "ev_init") /\ pc' = pc
         \/ ~handler /\ pc' = "killed" /\ run' = run /\ heard' = heard
  BY DEF Signal, Go, confVars, clockVars
<1>2. ClockRight'
  BY <1>1 DEF ProcInv, ClockRight
<1>3. CASE handler /\ run' = FALSE /\ heard' = (heard \/ pc # "ev_init") /\ pc' = pc
  <2>1. heard' \in BOOLEAN /\ run' \in BOOLEAN
    BY <1>3
  <2>2. Types'
    BY <1>1, <1>3, <2>1 DEF ProcInv, Types
  <2>3. \A i \in 1 .. 5 : Past(i)' => Past(i)
    BY <1>3 DEF Past, Serving
  <2>4. Apart' /\ Opened'
    BY <1>1, <2>3, SameNumbers
  <2>5. RunUnlessHeard'
    BY <1>3 DEF RunUnlessHeard, Names, Loop
  <2>6. Ending'
    BY <1>1, <1>3 DEF ProcInv, Ending, Daemon, Ended, Ends
  <2>7. StdinKept' /\ Handled' /\ Unopened'
    BY <1>1, <1>3 DEF ProcInv, StdinKept, Handled, Daemon, Unopened
  <2>8. QED
    BY <1>2, <2>2, <2>4, <2>5, <2>6, <2>7 DEF ProcInv
<1>4. CASE ~handler /\ pc' = "killed" /\ run' = run /\ heard' = heard
  <2>1. Types'
    BY <1>1, <1>4 DEF ProcInv, Types, Ends
  <2>2. NoneYet'
    BY NoneYet, PTL
  <2>3. pc' \notin {"sans_run"} \cup Names \cup Loop
    BY <1>4 DEF Names, Loop
  <2>4. Apart' /\ Opened'
    BY <1>1, <2>2, <2>3, SameNumbers
  <2>5. StdinKept' /\ Ending' /\ Handled' /\ RunUnlessHeard' /\ Unopened'
    BY <1>4 DEF StdinKept, Ending, Handled, RunUnlessHeard, Unopened, Names, Loop
  <2>6. QED
    BY <1>2, <2>1, <2>4, <2>5 DEF ProcInv
<1>5. QED
  BY <1>1, <1>3, <1>4

-------------------------------------------------------------------------------
(* The theorems *)

LEMMA InitInv == Init => ProcInv
<1> SUFFICES ASSUME Init
             PROVE  ProcInv
  OBVIOUS
<1>1. /\ pc = "parsed" /\ input \in Inputs /\ handler = FALSE /\ run = FALSE /\ ahead = 0
      /\ heard = FALSE /\ age = 0 /\ jumped = FALSE /\ sets = 0
  BY DEF Init
<1>2. fd = [x \in All |-> CASE x = "stdin" -> 0 [] x = "stdout" -> 1 [] x = "stderr" -> 2
                            [] OTHER -> -1]
  BY SocketNames DEF Init, All
<1>3. fd \in [All -> -1 .. 8]
  <2>1. \A x \in All : fd[x] \in {0, 1, 2, -1}
    BY <1>2
  <2>2. {0, 1, 2, -1} \subseteq -1 .. 8
    OBVIOUS
  <2>3. QED
    BY <1>2, <2>1, <2>2
<1>4. fd["stdin"] = 0 /\ \A x \in Names : fd[x] = -1
  BY <1>2 DEF All, Names, Streams
<1>5. Types
  <2>1. 0 \in -(LongRange \div 2) .. LongRange \div 2 - 1 /\ 0 \in 0 .. SECOND + 1
    BY HalfRange
  <2>2. 0 \in 0 .. MaxSets /\ input.argv \in Seq(STRING)
    BY <1>1, ProcessAssumption
  <2>3. QED
    BY <1>1, <1>3, <2>1, <2>2 DEF Types
<1>6. Apart /\ Opened /\ Unopened
  <2>1. \A i \in 1 .. 5 : ~Past(i)
    BY <1>1, NoneYet DEF Names, Loop
  <2>2. QED
    BY <1>4, <2>1 DEF Apart, Opened, Unopened
<1>7. StdinKept /\ Handled /\ RunUnlessHeard /\ Ending /\ ClockRight
  BY <1>1, <1>4 DEF StdinKept, Handled, RunUnlessHeard, Ending, ClockRight, Names, Loop
<1>8. QED
  BY <1>5, <1>6, <1>7 DEF ProcInv

LEMMA NextInv == ProcInv /\ [Next]_vars => ProcInv'
<1>1. ASSUME ProcInv, Next
      PROVE  ProcInv'
  <2>1. ASSUME NEW i \in DOMAIN Sockets, OpenSocket(i)
        PROVE  ProcInv'
    BY <1>1, <2>1, OpenSocketStep
  <2>2. ASSUME NEW u \in Waits, Select(u)
        PROVE  ProcInv'
    BY <1>1, <2>2, SelectStep
  <2>3. ASSUME NEW d \in ClockSteps, SetClock(d)
        PROVE  ProcInv'
    BY <1>1, <2>3, SetClockStep
  <2>4. CASE Fork \/ Sigaction \/ EvInit
    BY <1>1, <2>4, StartStep
  <2>5. CASE Detach
    BY <1>1, <2>5, DetachStep
  <2>6. CASE StartWatchers
    BY <1>1, <2>6, StartWatchersStep
  <2>7. CASE Check
    BY <1>1, <2>7, CheckStep
  <2>8. CASE TickCb \/ NoTick
    BY <1>1, <2>8, ClockStep
  <2>9. CASE Signal
    BY <1>1, <2>9, SignalStep
  <2>10. QED
    BY <1>1, <2>1, <2>2, <2>3, <2>4, <2>5, <2>6, <2>7, <2>8, <2>9 DEF Next, Main
<1>2. ASSUME ProcInv, UNCHANGED vars
      PROVE  ProcInv'
  <2>1. UNCHANGED <<pc, input, conf, fd, handler, run, heard, ahead, age, jumped, sets>>
    BY <1>2 DEF vars, confVars, clockVars
  <2>2. \A i \in 1 .. 5 : Past(i)' => Past(i)
    BY <2>1 DEF Past, Serving
  <2>3. Apart' /\ Opened'
    BY <1>2, <2>1, <2>2, SameNumbers
  <2>4. Types' /\ ClockRight'
    BY <1>2, <2>1 DEF ProcInv, Types, ClockRight
  <2>5. StdinKept' /\ Ending' /\ Handled' /\ RunUnlessHeard' /\ Unopened'
    BY <1>2, <2>1 DEF ProcInv, StdinKept, Ending, Handled, RunUnlessHeard, Unopened, Daemon
  <2>6. QED
    BY <2>3, <2>4, <2>5 DEF ProcInv
<1>3. QED
  BY <1>1, <1>2

LEMMA AlwaysInv == Spec => []ProcInv
BY InitInv, NextInv, PTL DEF Spec

\* main returns success only after signal_cb told ev_run to stop; what it serves
\* it serves with its handlers set and five sockets of their own; and the asserts
\* of sans_run fail only where daemonize has closed stdin.
THEOREM ProcessEndsAsTold == Spec => []EndsAsTold
<1>1. ProcInv => EndsAsTold
  <2> SUFFICES ASSUME ProcInv
               PROVE  EndsAsTold
    OBVIOUS
  <2>1. TypeOK /\ (pc = "success" => heard) /\ (pc = "aborted" => conf.conf.daemon)
    BY SameTypes DEF ProcInv, Ending, Daemon
  <2>2. Serving => handler
    BY DEF ProcInv, Handled, Serving
  <2>3. Serving => Cardinality({fd[x] : x \in ToSet(Sockets)}) = Len(Sockets)
    BY AllOpen, FiveNumbers
  <2>4. QED
    BY <2>1, <2>2, <2>3 DEF EndsAsTold
<1>2. QED
  BY <1>1, AlwaysInv, PTL

\* ev_run calls tick_cb more than a second after it did before, whatever the length
\* of a step, the width of a long and the number of rounds, unless the clock was
\* set in between.
THEOREM ProcessTickNotEarly == Spec => TickNotEarly
<1>1. ASSUME ProcInv, TickCb
      PROVE  age > SECOND \/ jumped
  <2>1. SUFFICES ASSUME ~jumped, age <= SECOND
                 PROVE  FALSE
    <3>1. age \in Int /\ SECOND \in Int
      BY <1>1, HalfRange DEF ProcInv, Types
    <3>2. QED
      BY <2>1, <3>1
  <2>2. ahead = age /\ ahead > SECOND
    BY <1>1, <2>1 DEF ProcInv, ClockRight, TickCb, Due
  <2>3. age \in Int /\ SECOND \in Int
    BY <1>1, HalfRange DEF ProcInv, Types
  <2>4. QED
    BY <2>1, <2>2, <2>3
<1>2. ProcInv /\ [Next]_vars => [TickCb => age > SECOND \/ jumped]_vars
  BY <1>1
<1>3. QED
  BY <1>2, AlwaysInv, PTL DEF Spec, TickNotEarly

-------------------------------------------------------------------------------
(* Texts *)

LEMMA LeastOf ==
    ASSUME NEW T, T \subseteq Nat, T # {}
    PROVE  Min(T) \in T /\ \A y \in T : Min(T) <= y
<1>1. \E x \in T : \A y \in T : x <= y
  BY LeastNat
<1>2. QED
  BY <1>1 DEF Min

LEMMA GreatestOf ==
    ASSUME NEW n \in Nat, NEW T, T \subseteq 1 .. n, T # {}
    PROVE  Max(T) \in T /\ \A y \in T : y <= Max(T)
<1> DEFINE D == {n - x : x \in T}
<1>1. D \subseteq Nat /\ D # {}
  <2>1. ASSUME NEW x \in T
        PROVE  n - x \in Nat
    <3>1. x \in 1 .. n
      OBVIOUS
    <3>2. QED
      BY <3>1
  <2>2. QED
    BY <2>1
<1>2. PICK d \in D : \A y \in D : d <= y
  BY <1>1, LeastNat
<1>3. PICK x \in T : d = n - x
  BY <1>2
<1>4. \A y \in T : y <= x
  <2>1. TAKE y \in T
  <2>2. n - y \in D /\ y \in 1 .. n /\ x \in 1 .. n
    BY <1>3
  <2>3. d <= n - y
    BY <1>2, <2>2
  <2>4. QED
    BY <1>3, <2>2, <2>3
<1>5. QED
  BY <1>4 DEF Max

LEMMA PartsOfText ==
    ASSUME NEW text \in Seq(STRING), NEW i \in 1 .. Len(text)
    PROVE  /\ Before(text, i) \in Seq(STRING) /\ Len(Before(text, i)) = i - 1
           /\ \A k \in 1 .. i - 1 : Before(text, i)[k] = text[k]
           /\ After(text, i) \in Seq(STRING) /\ Len(After(text, i)) = Len(text) - i
           /\ \A k \in 1 .. Len(text) - i : After(text, i)[k] = text[i + k]
<1>1. PICK n \in Nat : n = Len(text)
  BY LenProperties
<1>2. i \in 1 .. n /\ i - 1 \in 0 .. n /\ i + 1 \in 1 .. n + 1
  BY <1>1
<1>3. /\ Before(text, i) \in Seq(STRING) /\ Len(Before(text, i)) = i - 1
      /\ \A k \in 1 .. i - 1 : Before(text, i)[k] = text[k]
  BY <1>1, <1>2 DEF Before
<1>4. /\ After(text, i) \in Seq(STRING) /\ Len(After(text, i)) = n - i
      /\ \A k \in 1 .. n - i : After(text, i)[k] = text[i + k]
  BY <1>1, <1>2 DEF After
<1>5. QED
  BY <1>1, <1>3, <1>4

LEMMA PieceOfText ==
    ASSUME NEW text \in Seq(STRING), NEW i \in Nat, NEW j \in Nat, 1 <= i, j <= Len(text)
    PROVE  /\ SubSeq(text, i, j) \in Seq(STRING)
           /\ i <= j + 1 => Len(SubSeq(text, i, j)) = j + 1 - i
           /\ \A k \in 1 .. j + 1 - i : SubSeq(text, i, j)[k] = text[i + k - 1]
<1>1. PICK n \in Nat : n = Len(text)
  BY LenProperties
<1>2. \A k \in i .. j : text[k] \in STRING
  <2>1. TAKE k \in i .. j
  <2>2. k \in 1 .. n
    BY <1>1
  <2>3. QED
    BY <1>1, <2>2, ElementOfSeq
<1>3. /\ SubSeq(text, i, j) \in Seq(STRING)
      /\ Len(SubSeq(text, i, j)) = IF i <= j THEN (j - i) + 1 ELSE 0
      /\ \A k \in 1 .. (j - i) + 1 : SubSeq(text, i, j)[k] = text[(i + k) - 1]
  BY <1>2, SubSeqProperties
<1>4. (j - i) + 1 = j + 1 - i
  OBVIOUS
<1>5. QED
  BY <1>3, <1>4

LEMMA CopiedType ==
    ASSUME NEW text \in Seq(STRING), NEW size \in Nat \ {0}
    PROVE  Copied(text, size) \in Seq(STRING)
<1>1. PICK n \in Nat : n = Len(text)
  BY LenProperties
<1>2. PICK m \in Nat : m = Min({Len(text), size - 1}) /\ m <= n
  <2>1. size - 1 \in Nat
    OBVIOUS
  <2>2. Min({n, size - 1}) \in Nat /\ Min({n, size - 1}) <= n
    BY <2>1, MinOfTwo
  <2>3. QED
    BY <1>1, <2>2
<1>3. SubSeq(text, 1, m) \in Seq(STRING)
  <2>1. \A k \in 1 .. m : text[k] \in STRING
    <3>1. TAKE k \in 1 .. m
    <3>2. k \in 1 .. n
      BY <1>2
    <3>3. QED
      BY <1>1, <3>2, ElementOfSeq
  <2>2. 1 \in Int /\ m \in Int
    OBVIOUS
  <2>3. QED
    BY <2>1, <2>2, SubSeqProperties
<1>4. QED
  BY <1>2, <1>3 DEF Copied

LEMMA TrimmedType ==
    ASSUME NEW line \in Seq(STRING)
    PROVE  Trimmed(line) \in Seq(STRING)
<1> DEFINE ink == {i \in DOMAIN line : line[i] \notin Spaces}
<1>1. PICK n \in Nat : n = Len(line) /\ DOMAIN line = 1 .. n
  BY LenProperties
<1>2. CASE ink = {}
  BY <1>2 DEF Trimmed
<1>3. CASE ink # {}
  <2>1. ink \subseteq 1 .. n
    BY <1>1
  <2> HIDE DEF ink
  <2>2. Min(ink) \in 1 .. n /\ Max(ink) \in 1 .. n
    <3>1. ink \subseteq Nat
      BY <2>1
    <3>2. QED
      BY <1>3, <2>1, <3>1, LeastOf, GreatestOf
  <2>3. SubSeq(line, Min(ink), Max(ink)) \in Seq(STRING)
    BY <1>1, <2>2, PieceOfText
  <2>4. QED
    BY <1>3, <2>3 DEF Trimmed, ink
<1>4. QED
  BY <1>2, <1>3

\* White space at the end of a line does not matter.
LEMMA TrimmedSpace ==
    ASSUME NEW text \in Seq(STRING), NEW b \in Nat, NEW p \in Nat, 1 <= b, b <= p + 1,
           p + 1 <= Len(text), text[p + 1] \in Spaces
    PROVE  Trimmed(SubSeq(text, b, p + 1)) = Trimmed(SubSeq(text, b, p))
<1> DEFINE l == SubSeq(text, b, p + 1)
           m == SubSeq(text, b, p)
           inkl == {i \in DOMAIN l : l[i] \notin Spaces}
           inkm == {i \in DOMAIN m : m[i] \notin Spaces}
<1>1. PICK n \in Nat : n = p + 1 - b
  OBVIOUS
<1>2. /\ l \in Seq(STRING) /\ Len(l) = n + 1 /\ \A i \in 1 .. n + 1 : l[i] = text[b + i - 1]
      /\ m \in Seq(STRING) /\ Len(m) = n /\ \A i \in 1 .. n : m[i] = text[b + i - 1]
  <2>1. Len(text) \in Nat
    BY LenProperties
  <2>2. (p + 1) + 1 - b = n + 1 /\ b <= (p + 1) + 1 /\ p <= Len(text)
    BY <1>1, <2>1
  <2>3. QED
    BY <1>1, <2>2, PieceOfText
<1>3. DOMAIN l = 1 .. n + 1 /\ DOMAIN m = 1 .. n
  BY <1>2, LenProperties
<1>4. l[n + 1] \in Spaces
  <2>1. n + 1 \in 1 .. n + 1 /\ b + (n + 1) - 1 = p + 1
    BY <1>1
  <2>2. QED
    BY <1>2, <2>1
<1> HIDE DEF l, m
<1>5. \A i \in 1 .. n : l[i] = m[i]
  <2>1. TAKE i \in 1 .. n
  <2>2. i \in 1 .. n + 1
    OBVIOUS
  <2>3. QED
    BY <1>2, <2>2
<1>6. inkl = inkm
  <2>1. ASSUME NEW i \in inkl
        PROVE  i \in inkm
    <3>1. i \in 1 .. n + 1 /\ l[i] \notin Spaces /\ i # n + 1
      BY <1>3, <1>4
    <3>2. i \in 1 .. n
      BY <3>1
    <3>3. QED
      BY <1>3, <1>5, <3>1, <3>2
  <2>2. ASSUME NEW i \in inkm
        PROVE  i \in inkl
    <3>1. i \in 1 .. n /\ i \in 1 .. n + 1 /\ m[i] \notin Spaces
      BY <1>3
    <3>2. QED
      BY <1>3, <1>5, <3>1
  <2>3. QED
    BY <2>1, <2>2
<1>7. CASE inkl = {}
  BY <1>6, <1>7 DEF Trimmed, l, m
<1>8. CASE inkl # {}
  <2>1. PICK lo \in 1 .. n, hi \in 1 .. n : lo = Min(inkm) /\ hi = Max(inkm)
    <3>1. inkm \subseteq 1 .. n /\ inkm # {} /\ inkm \subseteq Nat
      BY <1>3, <1>6, <1>8
    <3> HIDE DEF inkm
    <3>2. Min(inkm) \in inkm /\ Max(inkm) \in inkm
      BY <3>1, LeastOf, GreatestOf
    <3>3. QED
      BY <3>1, <3>2
  <2>2. Trimmed(l) = SubSeq(l, lo, hi) /\ Trimmed(m) = SubSeq(m, lo, hi)
    BY <1>6, <1>8, <2>1 DEF Trimmed
  <2>3. /\ SubSeq(l, lo, hi) \in Seq(STRING) /\ SubSeq(m, lo, hi) \in Seq(STRING)
        /\ Len(SubSeq(l, lo, hi)) = Len(SubSeq(m, lo, hi))
        /\ \A k \in 1 .. Len(SubSeq(l, lo, hi)) : SubSeq(l, lo, hi)[k] = SubSeq(m, lo, hi)[k]
    <3>1. /\ \A k \in lo .. hi : l[k] \in STRING
          /\ \A k \in lo .. hi : m[k] \in STRING
      <4>1. ASSUME NEW k \in lo .. hi
            PROVE  l[k] \in STRING /\ m[k] \in STRING
        <5>1. k \in 1 .. n /\ k \in 1 .. n + 1
          OBVIOUS
        <5>2. QED
          BY <1>2, <5>1, ElementOfSeq
      <4>2. QED
        BY <4>1
    <3>2. /\ SubSeq(l, lo, hi) \in Seq(STRING)
          /\ Len(SubSeq(l, lo, hi)) = IF lo <= hi THEN (hi - lo) + 1 ELSE 0
          /\ \A k \in 1 .. (hi - lo) + 1 : SubSeq(l, lo, hi)[k] = l[(lo + k) - 1]
      BY <3>1, SubSeqProperties
    <3>3. /\ SubSeq(m, lo, hi) \in Seq(STRING)
          /\ Len(SubSeq(m, lo, hi)) = IF lo <= hi THEN (hi - lo) + 1 ELSE 0
          /\ \A k \in 1 .. (hi - lo) + 1 : SubSeq(m, lo, hi)[k] = m[(lo + k) - 1]
      BY <3>1, SubSeqProperties
    <3>4. ASSUME NEW k \in 1 .. Len(SubSeq(l, lo, hi))
          PROVE  SubSeq(l, lo, hi)[k] = SubSeq(m, lo, hi)[k]
      <4>1. k \in 1 .. (hi - lo) + 1
        BY <3>2
      <4>2. (lo + k) - 1 \in 1 .. n
        BY <4>1
      <4>3. QED
        BY <1>5, <3>2, <3>3, <4>1, <4>2
    <3>5. Len(SubSeq(l, lo, hi)) = Len(SubSeq(m, lo, hi))
      BY <3>2, <3>3
    <3>6. QED
      BY <3>2, <3>3, <3>4, <3>5, Zenon
  <2>4. SubSeq(l, lo, hi) = SubSeq(m, lo, hi)
    BY <2>3, SeqEqual
  <2>5. QED
    BY <2>2, <2>4 DEF l, m
<1>9. QED
  BY <1>7, <1>8

LEMMA TrimmedBlank ==
    /\ Trimmed(<< >>) = << >>
    /\ Trimmed(<<NEWLINE>>) = << >>
<1>1. DOMAIN << >> = {} /\ DOMAIN <<NEWLINE>> = {1} /\ <<NEWLINE>>[1] = NEWLINE
  OBVIOUS
<1>2. QED
  BY <1>1 DEF Trimmed, Spaces

-------------------------------------------------------------------------------
(* Lines *)

Keys == AddressKeys \cup {"user"}

Confs == [user : Seq(STRING), daemon : BOOLEAN, nspresolver : BOOLEAN, verbose : BOOLEAN,
          pidfile : STRING \cup {""}, logfile : STRING \cup {""},
          addr : [AddressKeys -> Seq(STRING)], port : [AddressKeys -> Seq(STRING)]]
States == [ok : BOOLEAN, conf : Confs, want : {""}, confFile : Seq(STRING)]

\* A line sets key k; to what; and it is not one that can be understood.
SetsKey(text, k) == Len(text) > 1 /\ text[1] = k /\ text[2] = "="
ValueIn(text) == After(text, 2)
BadLine(text) ==
    /\ text # << >> /\ text[1] # "#"
    /\ \/ Found(text, "=") = {}
       \/ \E k \in AddressKeys : SetsKey(text, k) /\ Found(ValueIn(text), ":") = {}

\* What a value makes of the configuration.
UserOf(value) == Copied(value, UserSize)
AddrOf(value) == Copied(Before(value, Colon(value)), AddrSize)
PortOf(value) == Copied(After(value, Colon(value)), PortSize)

KeyHas(got, k, value) ==
    IF k = "user" THEN got.user = UserOf(value)
    ELSE got.addr[k] = AddrOf(value) /\ got.port[k] = PortOf(value)
KeyKept(got, k, before) ==
    IF k = "user" THEN got.user = before.user
    ELSE got.addr[k] = before.addr[k] /\ got.port[k] = before.port[k]

LEMMA SizesAreSizes == UserSize \in Nat \ {0} /\ AddrSize \in Nat \ {0} /\ PortSize \in Nat \ {0}
BY ConfAssumption

LEMMA KeysAreWords == \A k \in Keys : k # "=" /\ k # "#"
BY DEF Keys, AddressKeys

\* A key stands before the first equals sign, alone.
LEMMA KeyStands ==
    ASSUME NEW text \in Seq(STRING), Found(text, "=") # {}, NEW k \in Keys
    PROVE  /\ Min(Found(text, "=")) \in 1 .. Len(text)
           /\ Before(text, Min(Found(text, "="))) = <<k>> <=> SetsKey(text, k)
           /\ SetsKey(text, k) => After(text, Min(Found(text, "="))) = ValueIn(text)
<1>1. PICK n \in Nat : n = Len(text) /\ DOMAIN text = 1 .. n
  BY LenProperties
<1> DEFINE F == Found(text, "=")
<1>2. F \subseteq 1 .. n /\ F \subseteq Nat /\ F # {} /\ \A i \in 1 .. n : i \in F <=> text[i] = "="
  BY <1>1 DEF Found
<1> HIDE DEF F
<1>3. PICK eq \in 1 .. n : eq = Min(F) /\ eq \in F /\ \A y \in F : eq <= y
  BY <1>2, LeastOf
<1>4. text[eq] = "="
  BY <1>2, <1>3
<1>5. /\ Before(text, eq) \in Seq(STRING) /\ Len(Before(text, eq)) = eq - 1
      /\ \A j \in 1 .. eq - 1 : Before(text, eq)[j] = text[j]
  BY <1>1, PartsOfText
<1>6. ASSUME Before(text, eq) = <<k>>
      PROVE  eq = 2 /\ SetsKey(text, k)
  <2>1. Len(Before(text, eq)) = 1 /\ Before(text, eq)[1] = k
    BY <1>6
  <2>2. eq = 2
    <3>1. eq - 1 = 1
      BY <1>5, <2>1
    <3>2. QED
      BY <3>1
  <2>3. text[1] = k
    BY <1>5, <2>1, <2>2
  <2>4. QED
    BY <1>1, <1>4, <2>2, <2>3 DEF SetsKey
<1>7. ASSUME SetsKey(text, k)
      PROVE  eq = 2 /\ Before(text, eq) = <<k>>
  <2>1. n > 1 /\ text[1] = k /\ text[2] = "="
    BY <1>1, <1>7 DEF SetsKey
  <2>2. 1 \in 1 .. n /\ 2 \in 1 .. n
    BY <2>1
  <2>3. 2 \in F /\ 1 \notin F
    BY <1>2, <2>1, <2>2, KeysAreWords
  <2>4. eq <= 2 /\ eq # 1
    BY <1>3, <2>3
  <2>5. eq = 2
    BY <2>4
  <2>6. Len(Before(text, eq)) = 1 /\ Before(text, eq)[1] = k
    BY <1>5, <2>1, <2>5
  <2>7. <<k>> \in Seq(STRING) /\ Len(<<k>>) = 1 /\ <<k>>[1] = k
    BY <1>1, <2>1, <2>2, ElementOfSeq
  <2>8. Before(text, eq) = <<k>>
    <3>1. Len(Before(text, eq)) = Len(<<k>>)
      BY <2>6, <2>7
    <3>2. \A j \in 1 .. Len(Before(text, eq)) : Before(text, eq)[j] = <<k>>[j]
      BY <2>6
    <3>3. QED
      BY <1>5, <2>7, <3>1, <3>2, SeqEqual
  <2>9. QED
    BY <2>5, <2>8
<1>8. QED
  BY <1>1, <1>3, <1>6, <1>7 DEF F, ValueIn

\* A colon of a value is found.
LEMMA ColonStands ==
    ASSUME NEW value \in Seq(STRING), Found(value, ":") # {}
    PROVE  /\ Colon(value) \in 1 .. Len(value) /\ value[Colon(value)] = ":"
           /\ \A i \in 1 .. Len(value) : value[i] = ":" => i <= Colon(value)
           /\ UserOf(value) \in Seq(STRING)
           /\ AddrOf(value) \in Seq(STRING) /\ PortOf(value) \in Seq(STRING)
<1>1. PICK n \in Nat : n = Len(value) /\ DOMAIN value = 1 .. n
  BY LenProperties
<1> DEFINE F == Found(value, ":")
<1>2. F \subseteq 1 .. n /\ F # {} /\ \A i \in 1 .. n : i \in F <=> value[i] = ":"
  BY <1>1 DEF Found
<1> HIDE DEF F
<1>3. Max(F) \in F /\ \A y \in F : y <= Max(F)
  BY <1>2, GreatestOf
<1>4. Colon(value) = Max(F)
  BY DEF Colon, F
<1>5. Colon(value) \in 1 .. n /\ value[Colon(value)] = ":"
  BY <1>2, <1>3, <1>4
<1>6. Before(value, Colon(value)) \in Seq(STRING) /\ After(value, Colon(value)) \in Seq(STRING)
  BY <1>1, <1>5, PartsOfText
<1>7. UserOf(value) \in Seq(STRING) /\ AddrOf(value) \in Seq(STRING) /\ PortOf(value) \in Seq(STRING)
  BY <1>6, SizesAreSizes, CopiedType DEF UserOf, AddrOf, PortOf
<1>8. QED
  BY <1>1, <1>2, <1>3, <1>4, <1>5, <1>7

\* What a line does: what it sets is set, and nothing else; a bad one is refused.
SettingMeans(st, next, text) ==
    /\ next \in States
    /\ next.want = st.want /\ next.confFile = st.confFile
    /\ next.ok <=> st.ok /\ ~BadLine(text)
    /\ next.ok =>
          \A k \in Keys :
             /\ SetsKey(text, k) => KeyHas(next.conf, k, ValueIn(text))
             /\ ~SetsKey(text, k) => KeyKept(next.conf, k, st.conf)

LEMMA SettingLemma ==
    ASSUME NEW st \in States, NEW line \in Seq(STRING)
    PROVE  SettingMeans(st, Setting(st, line), Trimmed(line))
<1> DEFINE text == Trimmed(line)
           eq == Min(Found(text, "="))
           key == Before(text, eq)
           value == After(text, eq)
<1>1. text \in Seq(STRING)
  BY TrimmedType
<1> HIDE DEF text
<1>k. \A k \in Keys : KeyKept(st.conf, k, st.conf)
  BY DEF KeyKept
<1>r. Refused(st) \in States /\ ~Refused(st).ok /\ Refused(st).want = st.want
      /\ Refused(st).confFile = st.confFile
  BY DEF Refused, States
<1>2. CASE ~st.ok \/ text = << >> \/ text[1] = "#"
  <2>1. Setting(st, line) = st
    BY <1>2, Zenon DEF Setting, text
  <2>2. \A k \in Keys : st.ok => ~SetsKey(text, k)
    <3>1. Len(<< >>) = 0
      OBVIOUS
    <3>2. QED
      BY <1>2, <3>1, KeysAreWords DEF SetsKey
  <2>3. st.ok => ~BadLine(text)
    BY <1>2 DEF BadLine
  <2>4. st.ok \in BOOLEAN
    BY DEF States
  <2>5. SettingMeans(st, st, text)
    BY <1>k, <2>2, <2>3, <2>4 DEF SettingMeans
  <2>6. QED
    BY <2>1, <2>5 DEF text
<1>3. CASE st.ok /\ text # << >> /\ text[1] # "#"
  <2>1. Setting(st, line) =
           IF Found(text, "=") = {} THEN Refused(st)
           ELSE IF key = <<"user">> THEN [st EXCEPT !.conf.user = Copied(value, UserSize)]
           ELSE IF \A k \in AddressKeys : key # <<k>> THEN st
           ELSE IF Found(value, ":") = {} THEN Refused(st)
           ELSE [st EXCEPT !.conf.addr[key[1]] = Copied(Before(value, Colon(value)), AddrSize),
                           !.conf.port[key[1]] = Copied(After(value, Colon(value)), PortSize)]
    BY <1>3 DEF Setting, text
  <2>2. CASE Found(text, "=") = {}
    <3>1. BadLine(text)
      BY <1>3, <2>2 DEF BadLine
    <3>2. Setting(st, line) = Refused(st)
      BY <2>1, <2>2
    <3>3. QED
      BY <1>r, <3>1, <3>2 DEF SettingMeans, text
  <2>3. CASE Found(text, "=") # {}
    <3>1. /\ eq \in 1 .. Len(text)
          /\ \A k \in Keys : /\ key = <<k>> <=> SetsKey(text, k)
                             /\ SetsKey(text, k) => value = ValueIn(text)
      <4>1. "user" \in Keys
        BY DEF Keys
      <4>2. QED
        BY <1>1, <2>3, <4>1, KeyStands
    <3>2. value \in Seq(STRING)
      BY <1>1, <3>1, PartsOfText
    <3>3. \A j, k \in Keys : SetsKey(text, j) /\ SetsKey(text, k) => j = k
      BY DEF SetsKey
    <3>4. "user" \in Keys /\ AddressKeys \subseteq Keys /\ "user" \notin AddressKeys
      BY DEF Keys, AddressKeys
    <3>5. BadLine(text) <=> \E k \in AddressKeys : SetsKey(text, k) /\ Found(value, ":") = {}
      BY <1>3, <2>3, <3>1, <3>4 DEF BadLine
    <3> HIDE DEF eq, key, value
    <3>6. CASE SetsKey(text, "user")
      <4>1. Setting(st, line) = [st EXCEPT !.conf.user = UserOf(value)]
        BY <2>1, <2>3, <3>1, <3>4, <3>6 DEF UserOf
      <4>2. ~BadLine(text)
        BY <3>3, <3>4, <3>5, <3>6
      <4>3. UserOf(value) \in Seq(STRING)
        BY <3>2, SizesAreSizes, CopiedType DEF UserOf
      <4> DEFINE next == [st EXCEPT !.conf.user = UserOf(value)]
      <4>4. /\ next \in States /\ next.ok /\ next.want = st.want /\ next.confFile = st.confFile
            /\ next.conf.user = UserOf(value)
            /\ next.conf.addr = st.conf.addr /\ next.conf.port = st.conf.port
        BY <1>3, <4>3 DEF States, Confs
      <4> HIDE DEF next
      <4>5. \A k \in Keys : SetsKey(text, k) <=> k = "user"
        BY <3>3, <3>4, <3>6
      <4>6. KeyHas(next.conf, "user", ValueIn(text))
        BY <3>1, <3>4, <3>6, <4>4 DEF KeyHas
      <4>7. \A k \in Keys : k # "user" => KeyKept(next.conf, k, st.conf)
        BY <4>4 DEF KeyKept
      <4>8. SettingMeans(st, next, text)
        BY <1>3, <4>2, <4>4, <4>5, <4>6, <4>7 DEF SettingMeans
      <4>9. QED
        BY <4>1, <4>8 DEF text, next
    <3>7. CASE \A k \in Keys : ~SetsKey(text, k)
      <4>1. Setting(st, line) = st
        BY <2>1, <2>3, <3>1, <3>4, <3>7
      <4>2. ~BadLine(text)
        BY <3>4, <3>5, <3>7
      <4>3. SettingMeans(st, st, text)
        BY <1>3, <1>k, <3>7, <4>2 DEF SettingMeans
      <4>4. QED
        BY <4>1, <4>3 DEF text
    <3>8. ASSUME NEW a \in AddressKeys, SetsKey(text, a)
          PROVE  SettingMeans(st, Setting(st, line), text)
      <4>1. key = <<a>> /\ key[1] = a /\ a # "user" /\ ~SetsKey(text, "user")
        BY <3>1, <3>3, <3>4, <3>8
      <4>2. key # <<"user">>
        BY <3>1, <3>4, <4>1
      <4>3. value = ValueIn(text)
        BY <3>1, <3>4, <3>8
      <4>4. CASE Found(value, ":") = {}
        <5>1. Setting(st, line) = Refused(st)
          BY <2>1, <2>3, <4>1, <4>2, <4>4
        <5>2. BadLine(text)
          BY <3>5, <3>8, <4>4
        <5>3. QED
          BY <1>r, <5>1, <5>2 DEF SettingMeans
      <4>5. CASE Found(value, ":") # {}
        <5> DEFINE next == [st EXCEPT !.conf.addr[a] = AddrOf(value), !.conf.port[a] = PortOf(value)]
        <5>1. Setting(st, line) = next
          BY <2>1, <2>3, <4>1, <4>2, <4>5 DEF AddrOf, PortOf
        <5>2. ~BadLine(text)
          BY <3>5, <4>5
        <5>3. AddrOf(value) \in Seq(STRING) /\ PortOf(value) \in Seq(STRING)
          BY <3>2, <4>5, ColonStands
        <5>4. /\ next \in States /\ next.ok /\ next.want = st.want /\ next.confFile = st.confFile
              /\ next.conf.user = st.conf.user
              /\ next.conf.addr = [st.conf.addr EXCEPT ![a] = AddrOf(value)]
              /\ next.conf.port = [st.conf.port EXCEPT ![a] = PortOf(value)]
              /\ st.conf.addr \in [AddressKeys -> Seq(STRING)]
              /\ st.conf.port \in [AddressKeys -> Seq(STRING)]
          BY <1>3, <5>3 DEF States, Confs
        <5> HIDE DEF next
        <5>5. \A k \in Keys : SetsKey(text, k) <=> k = a
          BY <3>3, <3>4, <3>8
        <5>6. KeyHas(next.conf, a, ValueIn(text))
          BY <4>1, <4>3, <5>4 DEF KeyHas
        <5>7. \A k \in Keys : k # a => KeyKept(next.conf, k, st.conf)
          <6>1. TAKE k \in Keys
          <6>2. k = "user" \/ k \in AddressKeys
            BY DEF Keys
          <6>3. QED
            BY <5>4, <6>2 DEF KeyKept
        <5>8. SettingMeans(st, next, text)
          BY <1>3, <5>2, <5>4, <5>5, <5>6, <5>7 DEF SettingMeans
        <5>9. QED
          BY <5>1, <5>8
      <4>6. QED
        BY <4>4, <4>5
    <3>9. QED
      BY <3>6, <3>7, <3>8 DEF text, Keys
  <2>4. QED
    BY <2>2, <2>3
<1>4. QED
  BY <1>2, <1>3

-------------------------------------------------------------------------------
(* Line after line *)

Round(file, last, i) ==
    IF LineRead(file, last.begin, i)
    THEN [st |-> Setting(last.st, SubSeq(file, last.begin, i)), begin |-> i + 1]
    ELSE last
ReadRow(st, file, f, i) == IF i = 0 THEN [st |-> st, begin |-> 1] ELSE Round(file, f[i - 1], i)
ReadTo(st, file, f, k) == f = [i \in 0 .. k |-> ReadRow(st, file, f, i)]

LEMMA ReadConfUnfolds ==
    ASSUME NEW st, NEW file \in Seq(STRING)
    PROVE  \E f : ReadTo(st, file, f, Len(file)) /\ ReadConf(st, file) = f[Len(file)].st
<1>1. Len(file) \in Nat
  BY LenProperties
<1> DEFINE T == {k \in Nat : \E f : ReadTo(st, file, f, k)}
<1>2. 0 \in T
  <2> DEFINE f == [i \in 0 .. 0 |-> [st |-> st, begin |-> 1]]
  <2>1. f = [i \in 0 .. 0 |-> ReadRow(st, file, f, i)]
    BY DEF ReadRow
  <2>2. ReadTo(st, file, f, 0)
    BY <2>1 DEF ReadTo
  <2>3. QED
    BY <2>2
<1>3. ASSUME NEW k \in Nat, k \in T
      PROVE  k + 1 \in T
  <2>1. PICK f : ReadTo(st, file, f, k)
    BY <1>3
  <2> DEFINE g == [i \in 0 .. k + 1 |-> IF i <= k THEN f[i] ELSE Round(file, f[k], k + 1)]
  <2>2. \A i \in 0 .. k : f[i] = ReadRow(st, file, f, i)
    BY <2>1 DEF ReadTo
  <2>3. ASSUME NEW i \in 0 .. k + 1
        PROVE  g[i] = ReadRow(st, file, g, i)
    <3>1. CASE i = 0
      <4>1. i \in 0 .. k /\ i <= k
        BY <3>1
      <4>2. g[i] = ReadRow(st, file, f, i)
        BY <2>2, <4>1
      <4>3. QED
        BY <3>1, <4>2 DEF ReadRow
    <3>2. CASE i # 0
      <4>1. i - 1 \in 0 .. k /\ i - 1 \in 0 .. k + 1 /\ i - 1 <= k
        BY <3>2
      <4>2. g[i - 1] = f[i - 1]
        BY <4>1
      <4>3. CASE i <= k
        <5>1. g[i] = ReadRow(st, file, f, i)
          BY <2>2, <4>3
        <5>2. QED
          BY <3>2, <4>2, <5>1 DEF ReadRow
      <4>4. CASE ~(i <= k)
        <5>1. i = k + 1 /\ i - 1 = k
          BY <4>4
        <5>2. g[i] = Round(file, f[i - 1], i)
          BY <4>4, <5>1
        <5>3. QED
          BY <3>2, <4>2, <5>2 DEF ReadRow
      <4>5. QED
        BY <4>3, <4>4
    <3>3. QED
      BY <3>1, <3>2
  <2>4. g = [i \in 0 .. k + 1 |-> ReadRow(st, file, g, i)]
    BY <2>3
  <2> HIDE DEF g
  <2>5. QED
    BY <2>4 DEF ReadTo
<1>4. Len(file) \in T
  BY <1>1, <1>2, <1>3, SetInduction
<1> DEFINE after == CHOOSE f : ReadTo(st, file, f, Len(file))
<1>5. ReadTo(st, file, after, Len(file))
  BY <1>4
<1>6. ReadConf(st, file) = after[Len(file)].st
  BY DEF ReadConf, ReadTo, ReadRow, Round
<1>7. QED
  BY <1>5, <1>6

\* The lines of a file, by where they begin.
Starts(file) == {1} \cup {j + 1 : j \in Found(file, NEWLINE)}
EndAt(file, i) == Min({j \in Found(file, NEWLINE) : j >= i} \cup {Len(file) + 1})
TextAt(file, i) == Trimmed(SubSeq(file, i, EndAt(file, i) - 1))
LineAt(file, i) == [at |-> i, size |-> EndAt(file, i) - i, text |-> TextAt(file, i)]

LEMMA LinesLemma ==
    ASSUME NEW file
    PROVE  LinesOf(file) = {LineAt(file, i) : i \in Starts(file)}
BY Zenon DEF LinesOf, LineAt, TextAt, EndAt, Starts

LEMMA StartsLemma ==
    ASSUME NEW file \in Seq(STRING)
    PROVE  /\ Len(file) \in Nat
           /\ \A j : j \in Found(file, NEWLINE) <=> j \in 1 .. Len(file) /\ file[j] = NEWLINE
           /\ Starts(file) \subseteq 1 .. Len(file) + 1
           /\ \A i \in 1 .. Len(file) : i + 1 \in Starts(file) <=> file[i] = NEWLINE
<1>1. Len(file) \in Nat /\ DOMAIN file = 1 .. Len(file)
  BY LenProperties
<1>2. \A j : j \in Found(file, NEWLINE) <=> j \in 1 .. Len(file) /\ file[j] = NEWLINE
  BY <1>1 DEF Found
<1>3. Starts(file) \subseteq 1 .. Len(file) + 1
  BY <1>1, <1>2 DEF Starts
<1>4. ASSUME NEW i \in 1 .. Len(file)
      PROVE  i + 1 \in Starts(file) <=> file[i] = NEWLINE
  <2>1. ASSUME i + 1 \in Starts(file)
        PROVE  file[i] = NEWLINE
    <3>1. i + 1 # 1
      BY <1>1
    <3>2. PICK j \in Found(file, NEWLINE) : i + 1 = j + 1
      BY <2>1, <3>1 DEF Starts
    <3>3. i = j
      BY <1>1, <1>2, <3>2
    <3>4. QED
      BY <1>2, <3>3
  <2>2. ASSUME file[i] = NEWLINE
        PROVE  i + 1 \in Starts(file)
    BY <1>2, <2>2 DEF Starts
  <2>3. QED
    BY <2>1, <2>2
<1>5. QED
  BY <1>1, <1>2, <1>3, <1>4

\* A line ends at the first newline, or at the end of the file.
EndsAt(file, i, e) ==
    /\ e \in i .. Len(file) + 1
    /\ e <= Len(file) => file[e] = NEWLINE
    /\ \A j \in i .. e - 1 : file[j] # NEWLINE

LEMMA EndAtLemma ==
    ASSUME NEW file \in Seq(STRING), NEW i \in 1 .. Len(file) + 1
    PROVE  EndsAt(file, i, EndAt(file, i)) /\ \A e : EndsAt(file, i, e) => EndAt(file, i) = e
<1> DEFINE T == {j \in Found(file, NEWLINE) : j >= i} \cup {Len(file) + 1}
<1>1. PICK n \in Nat : n = Len(file)
  BY StartsLemma
<1>2. \A j : j \in T <=> (j \in 1 .. n /\ file[j] = NEWLINE /\ j >= i) \/ j = n + 1
  BY <1>1, StartsLemma
<1>3. T \subseteq Nat /\ T # {}
  BY <1>2
<1>4. EndAt(file, i) = Min(T)
  BY DEF EndAt
<1> HIDE DEF T
<1>5. Min(T) \in T /\ \A y \in T : Min(T) <= y
  BY <1>3, LeastOf
<1>6. PICK m \in Nat : m = Min(T)
  BY <1>3, <1>5
<1>7. m \in i .. n + 1 /\ (m <= n => file[m] = NEWLINE)
  BY <1>1, <1>2, <1>5, <1>6
<1>8. ASSUME NEW j \in i .. m - 1
      PROVE  file[j] # NEWLINE
  <2>1. j \in 1 .. n /\ j >= i /\ ~(m <= j)
    BY <1>1, <1>7
  <2>2. QED
    BY <1>2, <1>5, <1>6, <2>1
<1>9. ASSUME NEW e, EndsAt(file, i, e)
      PROVE  m = e
  <2>1. e \in i .. n + 1 /\ (e <= n => file[e] = NEWLINE) /\ \A j \in i .. e - 1 : file[j] # NEWLINE
    BY <1>1, <1>9 DEF EndsAt
  <2>2. e \in T
    BY <1>1, <1>2, <2>1
  <2>3. m <= e
    BY <1>5, <1>6, <2>2
  <2>4. ASSUME m < e
        PROVE  FALSE
    <3>1. m \in i .. e - 1 /\ m <= n
      BY <1>7, <2>1, <2>4
    <3>2. QED
      BY <1>7, <2>1, <3>1
  <2>5. QED
    BY <2>1, <2>3, <2>4
<1>10. QED
  BY <1>1, <1>4, <1>6, <1>7, <1>8, <1>9 DEF EndsAt

LEMMA TextAtType ==
    ASSUME NEW file \in Seq(STRING), NEW i \in Starts(file)
    PROVE  TextAt(file, i) \in Seq(STRING)
<1>1. PICK n \in Nat : n = Len(file) /\ i \in 1 .. n + 1
  BY StartsLemma
<1>2. PICK e \in i .. n + 1 : e = EndAt(file, i)
  BY <1>1, EndAtLemma DEF EndsAt
<1>3. e - 1 \in Nat /\ e - 1 <= n /\ i \in Nat /\ 1 <= i
  BY <1>1, <1>2
<1>4. SubSeq(file, i, e - 1) \in Seq(STRING)
  BY <1>1, <1>3, PieceOfText
<1>5. QED
  BY <1>2, <1>4, TrimmedType DEF TextAt

\* What has been made of the lines that begin in done.
KeyDone(file, got, k, done) ==
    \/ (\A i \in done : ~SetsKey(TextAt(file, i), k)) /\ KeyKept(got, k, EmptyConf)
    \/ \E i \in done :
          /\ SetsKey(TextAt(file, i), k)
          /\ \A m \in done : SetsKey(TextAt(file, m), k) => m <= i
          /\ KeyHas(got, k, ValueIn(TextAt(file, i)))
DoneLines(file, st, done) ==
    /\ st.ok <=> \A i \in done : ~BadLine(TextAt(file, i))
    /\ st.ok => \A k \in Keys : KeyDone(file, st.conf, k, done)

LEMMA OneMoreLine ==
    ASSUME NEW file, NEW st \in States, NEW next, NEW done \in SUBSET Nat, NEW b \in Nat,
           \A i \in done : i <= b,
           DoneLines(file, st, done), SettingMeans(st, next, TextAt(file, b))
    PROVE  DoneLines(file, next, done \cup {b})
<1>1. next.ok <=> \A i \in done \cup {b} : ~BadLine(TextAt(file, i))
  BY DEF DoneLines, SettingMeans
<1>2. ASSUME next.ok, NEW k \in Keys
      PROVE  KeyDone(file, next.conf, k, done \cup {b})
  <2>1. st.ok /\ KeyDone(file, st.conf, k, done)
    BY <1>2 DEF DoneLines, SettingMeans
  <2>2. CASE SetsKey(TextAt(file, b), k)
    <3>1. KeyHas(next.conf, k, ValueIn(TextAt(file, b)))
      BY <1>2, <2>2 DEF SettingMeans
    <3>2. \A m \in done \cup {b} : SetsKey(TextAt(file, m), k) => m <= b
      OBVIOUS
    <3>3. QED
      BY <2>2, <3>1, <3>2 DEF KeyDone
  <2>3. CASE ~SetsKey(TextAt(file, b), k)
    <3>1. KeyKept(next.conf, k, st.conf)
      BY <1>2, <2>3 DEF SettingMeans
    <3>2. KeyKept(st.conf, k, EmptyConf) => KeyKept(next.conf, k, EmptyConf)
      BY <3>1 DEF KeyKept
    <3>3. \A v : KeyHas(st.conf, k, v) => KeyHas(next.conf, k, v)
      BY <3>1 DEF KeyKept, KeyHas
    <3>4. CASE (\A i \in done : ~SetsKey(TextAt(file, i), k)) /\ KeyKept(st.conf, k, EmptyConf)
      BY <2>3, <3>2, <3>4 DEF KeyDone
    <3>5. ASSUME NEW i \in done, SetsKey(TextAt(file, i), k),
                 \A m \in done : SetsKey(TextAt(file, m), k) => m <= i,
                 KeyHas(st.conf, k, ValueIn(TextAt(file, i)))
          PROVE  KeyDone(file, next.conf, k, done \cup {b})
      <4>1. KeyHas(next.conf, k, ValueIn(TextAt(file, i)))
        BY <3>3, <3>5
      <4>2. \A m \in done \cup {b} : SetsKey(TextAt(file, m), k) => m <= i
        BY <2>3, <3>5
      <4>3. QED
        BY <3>5, <4>1, <4>2 DEF KeyDone
    <3>6. QED
      BY <2>1, <3>4, <3>5 DEF KeyDone
  <2>4. QED
    BY <2>2, <2>3
<1>3. QED
  BY <1>1, <1>2 DEF DoneLines

\* read_conf has taken p symbols, and the lines that begin before r.begin are done.
\* It stands at the start of a line or, behind one that just fits in the buffer,
\* at its newline.
Reading(file, r, p) ==
    /\ r.st \in States
    /\ r.begin \in 1 .. p + 1
    /\ \A j \in r.begin .. p : file[j] # NEWLINE
    /\ r.begin <= Len(file) => r.begin \in Starts(file) \/ file[r.begin] = NEWLINE
    /\ p = Len(file) => r.begin = p + 1
    /\ p < r.begin + LINE_MAX - 2
    /\ DoneLines(file, r.st, {i \in Starts(file) : i < r.begin})

ShortLines(file) == \A i \in Starts(file) : EndAt(file, i) - i < LINE_MAX

LEMMA OneElement ==
    ASSUME NEW S, NEW l \in Seq(S), Len(l) = 1
    PROVE  l = <<l[1]>>
<1>1. PICK c \in S : c = l[1]
  BY ElementOfSeq
<1>2. <<c>> \in Seq(S) /\ Len(<<c>>) = 1 /\ <<c>>[1] = c
  OBVIOUS
<1>3. \A j \in 1 .. Len(l) : l[j] = <<c>>[j]
  BY <1>1, <1>2
<1>4. QED
  BY <1>1, <1>2, <1>3, SeqEqual

LEMMA RoundStep ==
    ASSUME NEW file \in Seq(STRING), ShortLines(file), NEW r, NEW p \in Nat, p < Len(file),
           Reading(file, r, p)
    PROVE  Reading(file, Round(file, r, p + 1), p + 1)
<1>1. PICK n \in Nat, b \in Nat, max \in Nat :
         /\ n = Len(file) /\ b = r.begin /\ max = LINE_MAX /\ max > 2
         /\ b \in 1 .. p + 1 /\ p + 1 \in 1 .. n /\ b \in 1 .. n
  <2>1. Len(file) \in Nat /\ LINE_MAX \in Nat /\ LINE_MAX > 2
    BY StartsLemma, ConfAssumption
  <2>2. r.begin \in 1 .. p + 1
    BY DEF Reading
  <2>3. QED
    BY <2>1, <2>2
<1>2. /\ r.st \in States
      /\ \A j \in b .. p : file[j] # NEWLINE
      /\ b \in Starts(file) \/ file[b] = NEWLINE
      /\ p < b + max - 2
      /\ DoneLines(file, r.st, {i \in Starts(file) : i < b})
  BY <1>1 DEF Reading
<1>3. /\ Starts(file) \subseteq 1 .. n + 1
      /\ \A i \in 1 .. n : i + 1 \in Starts(file) <=> file[i] = NEWLINE
  BY <1>1, StartsLemma
<1>4. CASE ~LineRead(file, b, p + 1)
  <2>1. Round(file, r, p + 1) = r
    BY <1>1, <1>4 DEF Round
  <2>2. file[p + 1] # NEWLINE /\ p + 1 # b + max - 2 /\ p + 1 # n
    BY <1>1, <1>4 DEF LineRead
  <2>3. \A j \in b .. p + 1 : file[j] # NEWLINE
    <3>1. \A j \in b .. p + 1 : j \in b .. p \/ j = p + 1
      BY <1>1
    <3>2. QED
      BY <1>2, <2>2, <3>1
  <2>4. b \in 1 .. (p + 1) + 1 /\ p + 1 < b + max - 2
    BY <1>1, <1>2, <2>2
  <2>5. QED
    BY <1>1, <1>2, <2>1, <2>2, <2>3, <2>4 DEF Reading
<1>5. CASE LineRead(file, b, p + 1)
  <2> DEFINE line == SubSeq(file, b, p + 1)
             next == Setting(r.st, line)
             new == [st |-> next, begin |-> (p + 1) + 1]
             done == {i \in Starts(file) : i < b}
             after == {i \in Starts(file) : i < (p + 1) + 1}
  <2>1. Round(file, r, p + 1) = new
    BY <1>1, <1>5 DEF Round
  <2>2. line \in Seq(STRING)
    BY <1>1, PieceOfText
  <2>3. SettingMeans(r.st, next, Trimmed(line))
    BY <1>2, <2>2, SettingLemma
  <2>4. next \in States
    BY <2>3 DEF SettingMeans
  <2>5. after = done \cup (IF b \in Starts(file) THEN {b} ELSE {})
    <3>1. ASSUME NEW i \in Starts(file), i < (p + 1) + 1, ~(i < b), i # b
          PROVE  FALSE
      <4>1. i \in 1 .. n + 1
        BY <1>3
      <4>2. i - 1 \in b .. p /\ i - 1 \in 1 .. n /\ (i - 1) + 1 = i
        BY <1>1, <3>1, <4>1
      <4>3. file[i - 1] = NEWLINE
        BY <1>3, <4>2
      <4>4. QED
        BY <1>2, <4>2, <4>3
    <3>2. \A i \in Starts(file) : i < b \/ i = b => i < (p + 1) + 1
      BY <1>1, <1>3
    <3>3. QED
      BY <3>1, <3>2
  <2>6. CASE b \in Starts(file)
    <3>1. EndsAt(file, b, EndAt(file, b)) /\ \A e : EndsAt(file, b, e) => EndAt(file, b) = e
      <4>1. b \in 1 .. Len(file) + 1
        BY <1>1
      <4>2. QED
        BY <4>1, EndAtLemma
    <3>2. PICK e \in b .. n + 1 : e = EndAt(file, b)
      BY <1>1, <3>1 DEF EndsAt
    <3>3. /\ e <= n => file[e] = NEWLINE
          /\ \A j \in b .. e - 1 : file[j] # NEWLINE
      BY <1>1, <3>1, <3>2 DEF EndsAt
    <3>4. e >= p + 1
      <4>1. SUFFICES ASSUME e <= p
                     PROVE  FALSE
        BY <1>1, <3>2
      <4>2. e \in b .. p /\ e <= n
        BY <1>1, <3>2, <4>1
      <4>3. QED
        BY <1>2, <3>3, <4>2
    <3>5. /\ Trimmed(line) = TextAt(file, b)
          /\ (p + 1) + 1 <= n => (p + 1) + 1 \in Starts(file) \/ file[(p + 1) + 1] = NEWLINE
      <4>1. CASE file[p + 1] = NEWLINE
        <5>1. EndsAt(file, b, p + 1)
          <6>1. p + 1 \in b .. n + 1 /\ (p + 1) - 1 = p
            BY <1>1
          <6>2. QED
            BY <1>1, <1>2, <4>1, <6>1 DEF EndsAt
        <5>2. TextAt(file, b) = Trimmed(SubSeq(file, b, p))
          <6>1. EndAt(file, b) = p + 1 /\ (p + 1) - 1 = p
            BY <3>1, <5>1
          <6>2. QED
            BY <6>1 DEF TextAt
        <5>3. Trimmed(line) = Trimmed(SubSeq(file, b, p))
          <6>1. 1 <= b /\ b <= p + 1 /\ p + 1 <= Len(file) /\ file[p + 1] \in Spaces
            BY <1>1, <4>1 DEF Spaces
          <6>2. QED
            BY <6>1, TrimmedSpace
        <5>4. (p + 1) + 1 \in Starts(file)
          BY <1>1, <1>3, <4>1
        <5>5. QED
          BY <5>2, <5>3, <5>4
      <4>2. CASE file[p + 1] # NEWLINE
        <5>1. e >= (p + 1) + 1
          <6>1. e # p + 1
            BY <1>1, <3>3, <4>2
          <6>2. QED
            BY <1>1, <3>2, <3>4, <6>1
        <5>2. e <= (p + 1) + 1
          <6>1. CASE p + 1 = n
            BY <1>1, <3>2, <6>1
          <6>2. CASE p + 1 # n
            <7>1. p + 1 = b + max - 2
              BY <1>1, <1>5, <4>2, <6>2 DEF LineRead
            <7>2. e - b < max
              BY <1>1, <2>6, <3>2 DEF ShortLines
            <7>3. QED
              BY <1>1, <3>2, <7>1, <7>2
          <6>3. QED
            BY <6>1, <6>2
        <5>3. e = (p + 1) + 1 /\ e - 1 = p + 1
          BY <1>1, <3>2, <5>1, <5>2
        <5>4. Trimmed(line) = TextAt(file, b)
          BY <3>2, <5>3 DEF TextAt
        <5>5. QED
          BY <3>3, <5>3, <5>4
      <4>3. QED
        BY <4>1, <4>2
    <3> HIDE DEF line
    <3>6. DoneLines(file, next, after)
      <4>1. SettingMeans(r.st, next, TextAt(file, b))
        BY <2>3, <3>5
      <4>2. done \in SUBSET Nat /\ \A i \in done : i <= b
        BY <1>1, <1>3
      <4> HIDE DEF next, done
      <4>3. DoneLines(file, next, done \cup {b})
        BY <1>1, <1>2, <4>1, <4>2, OneMoreLine DEF done
      <4>4. QED
        BY <2>5, <2>6, <4>3
    <3> HIDE DEF next
    <3>7. Reading(file, new, p + 1)
      <4>1. new.st = next /\ new.begin = (p + 1) + 1
        OBVIOUS
      <4>2. (p + 1) + 1 \in 1 .. (p + 1) + 1 /\ \A j \in (p + 1) + 1 .. p + 1 : FALSE
        OBVIOUS
      <4>3. p + 1 < (p + 1) + 1 + max - 2
        BY <1>1
      <4>4. QED
        BY <1>1, <2>4, <3>5, <3>6, <4>1, <4>2, <4>3 DEF Reading
    <3>8. QED
      BY <2>1, <3>7
  <2>7. CASE b \notin Starts(file)
    <3>1. file[b] = NEWLINE /\ b = p + 1
      <4>1. file[b] = NEWLINE
        BY <1>2, <2>7
      <4>2. b \notin b .. p
        BY <1>2, <4>1
      <4>3. QED
        BY <1>1, <4>1, <4>2
    <3>2. line = <<NEWLINE>>
      <4>1. line \in Seq(STRING) /\ Len(line) = 1 /\ line[1] = file[b]
        <5>1. (p + 1) + 1 - b = 1 /\ b <= (p + 1) + 1 /\ 1 \in 1 .. (p + 1) + 1 - b /\ b + 1 - 1 = b
              /\ 1 <= b /\ p + 1 <= Len(file) /\ p + 1 \in Nat
          BY <1>1, <3>1
        <5>2. QED
          BY <5>1, PieceOfText
      <4> HIDE DEF line
      <4>2. line = <<line[1]>>
        BY <4>1, OneElement
      <4>3. QED
        BY <3>1, <4>1, <4>2
    <3>3. next = r.st
      BY <3>2, TrimmedBlank, Zenon DEF Setting
    <3>4. after = done
      BY <2>5, <2>7
    <3>5. (p + 1) + 1 \in Starts(file)
      BY <1>1, <1>3, <3>1
    <3> HIDE DEF next
    <3>6. Reading(file, new, p + 1)
      <4>1. new.st = next /\ new.begin = (p + 1) + 1
        OBVIOUS
      <4>2. (p + 1) + 1 \in 1 .. (p + 1) + 1 /\ \A j \in (p + 1) + 1 .. p + 1 : FALSE
        OBVIOUS
      <4>3. p + 1 < (p + 1) + 1 + max - 2
        BY <1>1
      <4>4. DoneLines(file, next, after)
        BY <1>2, <3>3, <3>4
      <4>5. QED
        BY <1>1, <2>4, <3>5, <4>1, <4>2, <4>3, <4>4 DEF Reading
    <3>7. QED
      BY <2>1, <3>6
  <2>8. QED
    BY <2>6, <2>7
<1>6. QED
  BY <1>4, <1>5

\* All lines are read.
LEMMA ReadConfLemma ==
    ASSUME NEW file \in Seq(STRING), ShortLines(file), NEW st \in States, st.ok,
           \A k \in Keys : KeyKept(st.conf, k, EmptyConf)
    PROVE  /\ ReadConf(st, file) \in States
           /\ DoneLines(file, ReadConf(st, file), {i \in Starts(file) : i < Len(file) + 1})
<1>1. PICK n \in Nat : n = Len(file)
  BY StartsLemma
<1>2. PICK f : ReadTo(st, file, f, n) /\ ReadConf(st, file) = f[n].st
  BY <1>1, ReadConfUnfolds
<1>3. \A i \in 0 .. n : f[i] = ReadRow(st, file, f, i)
  BY <1>2 DEF ReadTo
<1> DEFINE T == {p \in Nat : p <= n => Reading(file, f[p], p)}
<1>4. 0 \in T
  <2> DEFINE r == [st |-> st, begin |-> 1]
  <2>1. f[0] = r
    BY <1>1, <1>3 DEF ReadRow
  <2>2. {i \in Starts(file) : i < 1} = {}
    BY <1>1, StartsLemma
  <2>3. DoneLines(file, st, {})
    BY DEF DoneLines, KeyDone
  <2>4. 1 \in Starts(file)
    BY DEF Starts
  <2>5. 1 \in 1 .. 0 + 1 /\ (\A j \in 1 .. 0 : FALSE) /\ 0 < 1 + LINE_MAX - 2
    BY ConfAssumption
  <2>6. r.st = st /\ r.begin = 1
    OBVIOUS
  <2> HIDE DEF r
  <2>7. Reading(file, r, 0)
    <3>1. DoneLines(file, r.st, {i \in Starts(file) : i < r.begin})
      BY <2>2, <2>3, <2>6
    <3>2. r.begin \in 1 .. 0 + 1 /\ (\A j \in r.begin .. 0 : FALSE) /\ 0 < r.begin + LINE_MAX - 2
      BY <2>5, <2>6
    <3>3. r.begin \in Starts(file) /\ r.begin = 0 + 1 /\ r.st \in States
      BY <2>4, <2>6
    <3>4. QED
      BY <3>1, <3>2, <3>3 DEF Reading
  <2>8. QED
    BY <2>1, <2>7
<1>5. ASSUME NEW p \in Nat, p \in T
      PROVE  p + 1 \in T
  <2>1. SUFFICES ASSUME p + 1 <= n
                 PROVE  Reading(file, f[p + 1], p + 1)
    OBVIOUS
  <2>2. p < n /\ p <= n /\ p + 1 \in 0 .. n /\ p + 1 # 0 /\ (p + 1) - 1 = p
    BY <2>1
  <2>3. f[p + 1] = Round(file, f[p], p + 1)
    BY <1>3, <2>2 DEF ReadRow
  <2>4. QED
    BY <1>1, <1>5, <2>2, <2>3, RoundStep
<1>6. Reading(file, f[n], n)
  <2> HIDE DEF T
  <2>1. n \in T
    BY <1>4, <1>5, SetInduction
  <2>2. n <= n
    OBVIOUS
  <2>3. QED
    BY <2>1, <2>2 DEF T
<1>7. f[n].begin = n + 1 /\ f[n].st \in States
  BY <1>1, <1>6 DEF Reading
<1>8. DoneLines(file, f[n].st, {i \in Starts(file) : i < n + 1})
  BY <1>6, <1>7 DEF Reading
<1>9. QED
  BY <1>1, <1>2, <1>7, <1>8

-------------------------------------------------------------------------------
(* What the file says *)

\* The lines that set a key, and those that are wrong.
LEMMA SettingsLemma ==
    ASSUME NEW file \in Seq(STRING)
    PROVE  /\ \A k : \A l : l \in Settings(file, k) <=>
                 \E i \in Starts(file) : l = LineAt(file, i) /\ SetsKey(TextAt(file, i), k)
           /\ \A i \in Starts(file) : Wrong(file, LineAt(file, i)) <=> BadLine(TextAt(file, i))
<1>1. \A i : LineAt(file, i).at = i /\ LineAt(file, i).text = TextAt(file, i)
  BY DEF LineAt
<1>2. ASSUME NEW k, NEW l
      PROVE  l \in Settings(file, k) <=>
                 \E i \in Starts(file) : l = LineAt(file, i) /\ SetsKey(TextAt(file, i), k)
  BY <1>1, LinesLemma DEF Settings, SetsKey
<1>3. ASSUME NEW i \in Starts(file)
      PROVE  Wrong(file, LineAt(file, i)) <=> BadLine(TextAt(file, i))
  <2>1. \A k : LineAt(file, i) \in Settings(file, k) <=> SetsKey(TextAt(file, i), k)
    BY <1>1, <1>2
  <2>2. QED
    BY <1>1, <2>1 DEF Wrong, BadLine, ValueIn
<1>4. QED
  BY <1>2, <1>3

\* What is behind the last newline may be empty, and then it says nothing.
LEMMA LastIsEmpty ==
    ASSUME NEW file \in Seq(STRING), NEW i \in Starts(file), ~(i < Len(file) + 1)
    PROVE  TextAt(file, i) = << >> /\ ~BadLine(TextAt(file, i)) /\ \A k : ~SetsKey(TextAt(file, i), k)
<1>1. PICK n \in Nat : n = Len(file) /\ i \in 1 .. n + 1 /\ i = n + 1
  BY StartsLemma
<1>2. EndAt(file, i) = n + 1
  <2>1. EndsAt(file, i, n + 1)
    BY <1>1 DEF EndsAt
  <2>2. QED
    BY <1>1, <2>1, EndAtLemma
<1>3. SubSeq(file, i, EndAt(file, i) - 1) = << >>
  <2>1. EndAt(file, i) - 1 = n /\ n < i /\ i \in Int /\ n \in Int
    BY <1>1, <1>2
  <2>2. QED
    BY <2>1, SubSeqEmpty
<1>4. TextAt(file, i) = << >>
  BY <1>3, TrimmedBlank DEF TextAt
<1>5. Len(<< >>) = 0
  OBVIOUS
<1>6. QED
  BY <1>4, <1>5 DEF BadLine, SetsKey

\* The last line for a key.
LEMMA GivenLemma ==
    ASSUME NEW file \in Seq(STRING), NEW got, NEW k,
           KeyDone(file, got, k, {i \in Starts(file) : i < Len(file) + 1})
    PROVE  \/ Given(file, k) = << >> /\ KeyKept(got, k, EmptyConf)
           \/ /\ KeyHas(got, k, Given(file, k))
              /\ \E i \in Starts(file) :
                    SetsKey(TextAt(file, i), k) /\ Given(file, k) = ValueIn(TextAt(file, i))
<1> DEFINE done == {i \in Starts(file) : i < Len(file) + 1}
<1>1. \A i \in Starts(file) : SetsKey(TextAt(file, i), k) => i \in done
  BY LastIsEmpty
<1>2. \A l : l \in Settings(file, k) <=>
                 \E i \in Starts(file) : l = LineAt(file, i) /\ SetsKey(TextAt(file, i), k)
  BY SettingsLemma
<1>3. \A i : LineAt(file, i).at = i /\ LineAt(file, i).text = TextAt(file, i)
  BY DEF LineAt
<1>4. CASE (\A i \in done : ~SetsKey(TextAt(file, i), k)) /\ KeyKept(got, k, EmptyConf)
  <2>1. Settings(file, k) = {}
    BY <1>1, <1>2, <1>4
  <2>2. QED
    BY <1>4, <2>1 DEF Given
<1>5. ASSUME NEW i \in done, SetsKey(TextAt(file, i), k),
             \A m \in done : SetsKey(TextAt(file, m), k) => m <= i,
             KeyHas(got, k, ValueIn(TextAt(file, i)))
      PROVE  /\ KeyHas(got, k, Given(file, k))
             /\ \E j \in Starts(file) :
                   SetsKey(TextAt(file, j), k) /\ Given(file, k) = ValueIn(TextAt(file, j))
  <2> DEFINE last == CHOOSE l \in Settings(file, k) : \A m \in Settings(file, k) : m.at <= l.at
  <2>1. LineAt(file, i) \in Settings(file, k)
    BY <1>2, <1>5
  <2>2. \A m \in Settings(file, k) : m.at <= LineAt(file, i).at
    BY <1>1, <1>2, <1>3, <1>5
  <2>3. last \in Settings(file, k) /\ \A m \in Settings(file, k) : m.at <= last.at
    BY <2>1, <2>2
  <2>4. PICK j \in Starts(file) : last = LineAt(file, j) /\ SetsKey(TextAt(file, j), k)
    BY <1>2, <2>3
  <2>5. j <= i /\ i <= j /\ i \in Nat /\ j \in Nat
    <3>1. j <= i
      BY <1>1, <1>5, <2>4
    <3>2. LineAt(file, i).at <= last.at
      BY <2>1, <2>3
    <3>3. i <= j
      BY <1>3, <2>4, <3>2
    <3>4. PICK n \in Nat : n = Len(file) /\ i \in 1 .. n + 1 /\ j \in 1 .. n + 1
      BY StartsLemma
    <3>5. QED
      BY <3>1, <3>3, <3>4
  <2>6. last = LineAt(file, i)
    BY <2>4, <2>5
  <2> HIDE DEF last
  <2>7. Given(file, k) = After(last.text, 2)
    <3>1. Settings(file, k) # {}
      BY <2>1
    <3>2. QED
      BY <3>1, Zenon DEF Given, last
  <2>8. Given(file, k) = ValueIn(TextAt(file, i))
    BY <1>3, <2>6, <2>7 DEF ValueIn
  <2>9. QED
    BY <1>5, <2>8
<1>6. QED
  BY <1>4, <1>5, Zenon DEF KeyDone

\* The only colon behind which there is none.
LEMMA LastColon ==
    ASSUME NEW value \in Seq(STRING), Found(value, ":") # {}
    PROVE  Colon(value) = CHOOSE i \in Found(value, ":") : Found(After(value, i), ":") = {}
<1>0. PICK n \in Nat : n = Len(value) /\ DOMAIN value = 1 .. n
  BY LenProperties
<1>1. PICK c \in 1 .. n :
         n = Len(value) /\ DOMAIN value = 1 .. n /\ c = Colon(value) /\ value[c] = ":"
  BY <1>0, ColonStands
<1>2. \A i \in 1 .. n : value[i] = ":" => i <= c
  BY <1>1, ColonStands
<1>3. ASSUME NEW i \in 1 .. n
      PROVE  Found(After(value, i), ":") = {} <=> \A j \in i + 1 .. n : value[j] # ":"
  <2>1. /\ After(value, i) \in Seq(STRING) /\ Len(After(value, i)) = n - i
        /\ \A k \in 1 .. n - i : After(value, i)[k] = value[i + k]
    BY <1>1, PartsOfText
  <2>2. DOMAIN After(value, i) = 1 .. n - i
    BY <2>1, LenProperties
  <2>3. ASSUME Found(After(value, i), ":") = {}, NEW j \in i + 1 .. n
        PROVE  value[j] # ":"
    <3>1. j - i \in 1 .. n - i /\ i + (j - i) = j
      OBVIOUS
    <3>2. After(value, i)[j - i] # ":"
      BY <2>2, <2>3, <3>1 DEF Found
    <3>3. QED
      BY <2>1, <3>1, <3>2
  <2>4. ASSUME \A j \in i + 1 .. n : value[j] # ":"
        PROVE  Found(After(value, i), ":") = {}
    <3>1. \A k \in 1 .. n - i : i + k \in i + 1 .. n
      OBVIOUS
    <3>2. QED
      BY <2>1, <2>2, <2>4, <3>1 DEF Found
  <2>5. QED
    BY <2>3, <2>4
<1>4. c \in Found(value, ":") /\ Found(After(value, c), ":") = {}
  <2>1. \A j \in c + 1 .. n : j \in 1 .. n /\ ~(j <= c)
    OBVIOUS
  <2>2. QED
    BY <1>1, <1>2, <1>3, <2>1 DEF Found
<1>5. ASSUME NEW i \in Found(value, ":"), Found(After(value, i), ":") = {}
      PROVE  i = c
  <2>1. i \in 1 .. n /\ value[i] = ":"
    BY <1>1 DEF Found
  <2>2. i <= c
    BY <1>2, <2>1
  <2>3. ~(c \in i + 1 .. n)
    BY <1>1, <1>3, <1>5, <2>1
  <2>4. QED
    BY <1>1, <2>1, <2>2, <2>3
<1>6. QED
  BY <1>1, <1>4, <1>5

\* The states of read_conf's loop say what the lines of the file say.
LEMMA AllRight ==
    ASSUME NEW file \in Seq(STRING), NEW st,
           DoneLines(file, st, {i \in Starts(file) : i < Len(file) + 1})
    PROVE  st.ok <=> \A l \in LinesOf(file) : ~Wrong(file, l)
<1> DEFINE done == {i \in Starts(file) : i < Len(file) + 1}
<1>1. st.ok <=> \A i \in done : ~BadLine(TextAt(file, i))
  BY DEF DoneLines
<1>2. \A i \in Starts(file) : i \in done \/ ~BadLine(TextAt(file, i))
  BY LastIsEmpty
<1>3. (\A i \in done : ~BadLine(TextAt(file, i))) <=> \A i \in Starts(file) : ~BadLine(TextAt(file, i))
  BY <1>2
<1>4. (\A l \in LinesOf(file) : ~Wrong(file, l)) <=> \A i \in Starts(file) : ~Wrong(file, LineAt(file, i))
  BY LinesLemma
<1>5. QED
  BY <1>1, <1>3, <1>4, SettingsLemma

LEMMA CopiedNothing == \A n \in Nat \ {0} : Copied(<< >>, n) = << >>
<1>1. TAKE n \in Nat \ {0}
<1>2. << >> \in Seq(STRING) /\ Len(<< >>) = 0
  OBVIOUS
<1>3. PICK m \in Nat : m = n - 1
  OBVIOUS
<1>4. Min({0, m}) = 0
  <2>1. {0, m} \subseteq Nat /\ {0, m} # {}
    OBVIOUS
  <2>2. Min({0, m}) \in {0, m} /\ \A y \in {0, m} : Min({0, m}) <= y
    BY <2>1, LeastOf
  <2>3. Min({0, m}) <= 0 /\ Min({0, m}) \in Nat
    BY <2>2
  <2>4. QED
    BY <2>3
<1>5. SubSeq(<< >>, 1, 0) = << >>
  BY SubSeqEmpty
<1>6. QED
  BY <1>2, <1>3, <1>4, <1>5 DEF Copied

LEMMA SaysLemma ==
    ASSUME NEW file \in Seq(STRING), NEW st \in States,
           DoneLines(file, st, {i \in Starts(file) : i < Len(file) + 1})
    PROVE  Says(file, [ok |-> st.ok, conf |-> WithDefaults(st.conf)])
<1> DEFINE outcome == [ok |-> st.ok, conf |-> WithDefaults(st.conf)]
<1>1. outcome.ok <=> \A l \in LinesOf(file) : ~Wrong(file, l)
  BY AllRight
<1>2. /\ outcome.conf.user = st.conf.user
      /\ \A k \in AddressKeys : /\ outcome.conf.addr[k] = Default(st.conf.addr[k], DefaultAddr[k])
                                /\ outcome.conf.port[k] = Default(st.conf.port[k], DefaultPort(k))
  BY DEF States, Confs, WithDefaults
<1>3. ASSUME st.ok, NEW k \in Keys
      PROVE  \/ Given(file, k) = << >> /\ KeyKept(st.conf, k, EmptyConf)
             \/ /\ KeyHas(st.conf, k, Given(file, k))
                /\ \E i \in Starts(file) :
                      SetsKey(TextAt(file, i), k) /\ Given(file, k) = ValueIn(TextAt(file, i))
  <2>1. KeyDone(file, st.conf, k, {i \in Starts(file) : i < Len(file) + 1})
    BY <1>3 DEF DoneLines
  <2>2. QED
    BY <2>1, GivenLemma
<1>4. ASSUME st.ok
      PROVE  st.conf.user = Copied(Given(file, "user"), UserSize)
  <2>1. "user" \in Keys
    BY DEF Keys
  <2>2. CASE Given(file, "user") = << >> /\ KeyKept(st.conf, "user", EmptyConf)
    <3>1. st.conf.user = << >>
      BY <2>2 DEF KeyKept, EmptyConf
    <3>2. QED
      BY <2>2, <3>1, CopiedNothing, SizesAreSizes
  <2>3. CASE KeyHas(st.conf, "user", Given(file, "user"))
    BY <2>3 DEF KeyHas, UserOf
  <2>4. QED
    BY <1>3, <1>4, <2>1, <2>2, <2>3
<1>5. ASSUME st.ok, NEW k \in AddressKeys, NEW value, value = Given(file, k),
             NEW colon, colon = CHOOSE i \in Found(value, ":") : Found(After(value, i), ":") = {}
      PROVE  /\ st.conf.addr[k] = Copied(IF value = << >> THEN << >> ELSE Before(value, colon), AddrSize)
             /\ st.conf.port[k] = Copied(IF value = << >> THEN << >> ELSE After(value, colon), PortSize)
  <2>1. k \in Keys /\ k # "user"
    BY DEF Keys, AddressKeys
  <2>2. CASE value = << >> /\ KeyKept(st.conf, k, EmptyConf)
    <3>1. st.conf.addr[k] = << >> /\ st.conf.port[k] = << >>
      BY <2>1, <2>2 DEF KeyKept, EmptyConf
    <3>2. QED
      BY <2>2, <3>1, CopiedNothing, SizesAreSizes
  <2>3. ASSUME KeyHas(st.conf, k, value), NEW i \in Starts(file),
               SetsKey(TextAt(file, i), k), value = ValueIn(TextAt(file, i))
        PROVE  /\ st.conf.addr[k] = Copied(IF value = << >> THEN << >> ELSE Before(value, colon), AddrSize)
               /\ st.conf.port[k] = Copied(IF value = << >> THEN << >> ELSE After(value, colon), PortSize)
    <3> DEFINE text == TextAt(file, i)
    <3>1. text \in Seq(STRING) /\ SetsKey(text, k) /\ value = ValueIn(text)
      BY <2>3, TextAtType
    <3>2. ~BadLine(text)
      BY <1>1, <1>5, LinesLemma, SettingsLemma
    <3> HIDE DEF text
    <3>3. PICK n \in Nat : n = Len(text) /\ n > 1
      BY <3>1, LenProperties DEF SetsKey
    <3>4. text[1] = k /\ text[2] = "=" /\ text # << >>
      <4>1. Len(<< >>) = 0
        OBVIOUS
      <4>2. QED
        BY <3>1, <3>3, <4>1 DEF SetsKey
    <3>5. text[1] # "#"
      BY <2>1, <3>4, KeysAreWords
    <3>6. Found(value, ":") # {}
      BY <3>1, <3>2, <3>4, <3>5 DEF BadLine
    <3>7. value \in Seq(STRING)
      <4>1. 2 \in 1 .. n
        BY <3>3
      <4>2. QED
        BY <3>1, <3>3, <4>1, PartsOfText DEF ValueIn
    <3>8. value # << >>
      BY <3>6 DEF Found
    <3>9. colon = Colon(value)
      BY <1>5, <3>6, <3>7, LastColon
    <3>10. QED
      BY <2>1, <2>3, <3>8, <3>9 DEF KeyHas, AddrOf, PortOf
  <2>4. QED
    BY <1>3, <1>5, <2>1, <2>2, <2>3
<1>6. ASSUME st.ok, NEW k \in AddressKeys
      PROVE  LET value == Given(file, k)
                 colon == CHOOSE i \in Found(value, ":") : Found(After(value, i), ":") = {}
                 addr == IF value = << >> THEN << >> ELSE Before(value, colon)
                 port == IF value = << >> THEN << >> ELSE After(value, colon)
             IN /\ outcome.conf.addr[k] = Default(Copied(addr, AddrSize), DefaultAddr[k])
                /\ outcome.conf.port[k] = Default(Copied(port, PortSize), DefaultPort(k))
  BY <1>2, <1>5, <1>6
<1>7. outcome.ok = st.ok
  OBVIOUS
<1> HIDE DEF outcome
<1>8. Says(file, outcome)
  BY <1>1, <1>2, <1>4, <1>6, <1>7 DEF Says
<1>9. QED
  BY <1>8 DEF outcome

-------------------------------------------------------------------------------
(* The command line *)

NoOption == [ok |-> TRUE, conf |-> EmptyConf, want |-> "", confFile |-> << >>]
ArgRow(argv, f, i) == IF i = 0 THEN NoOption ELSE Option(f[i - 1], argv[i])
ArgsTo(argv, f, k) == f = [i \in 0 .. k |-> ArgRow(argv, f, i)]

LEMMA ArgsUnfold ==
    ASSUME NEW argv \in Seq(STRING)
    PROVE  \E f : ArgsTo(argv, f, Len(argv))
<1>1. Len(argv) \in Nat
  BY LenProperties
<1> DEFINE T == {k \in Nat : \E f : ArgsTo(argv, f, k)}
<1>2. 0 \in T
  <2> DEFINE f == [i \in 0 .. 0 |-> NoOption]
  <2>1. f = [i \in 0 .. 0 |-> ArgRow(argv, f, i)]
    BY DEF ArgRow
  <2>2. ArgsTo(argv, f, 0)
    BY <2>1 DEF ArgsTo
  <2>3. QED
    BY <2>2
<1>3. ASSUME NEW k \in Nat, k \in T
      PROVE  k + 1 \in T
  <2>1. PICK f : ArgsTo(argv, f, k)
    BY <1>3
  <2> DEFINE g == [i \in 0 .. k + 1 |-> IF i <= k THEN f[i] ELSE Option(f[k], argv[k + 1])]
  <2>2. \A i \in 0 .. k : f[i] = ArgRow(argv, f, i)
    BY <2>1 DEF ArgsTo
  <2>3. ASSUME NEW i \in 0 .. k + 1
        PROVE  g[i] = ArgRow(argv, g, i)
    <3>1. CASE i = 0
      <4>1. i \in 0 .. k /\ i <= k
        BY <3>1
      <4>2. g[i] = ArgRow(argv, f, i)
        BY <2>2, <4>1
      <4>3. QED
        BY <3>1, <4>2 DEF ArgRow
    <3>2. CASE i # 0
      <4>1. i - 1 \in 0 .. k /\ i - 1 \in 0 .. k + 1 /\ i - 1 <= k
        BY <3>2
      <4>2. g[i - 1] = f[i - 1]
        BY <4>1
      <4>3. CASE i <= k
        <5>1. g[i] = ArgRow(argv, f, i)
          BY <2>2, <4>3
        <5>2. QED
          BY <3>2, <4>2, <5>1 DEF ArgRow
      <4>4. CASE ~(i <= k)
        <5>1. i = k + 1 /\ i - 1 = k
          BY <4>4
        <5>2. g[i] = Option(f[i - 1], argv[i])
          BY <4>4, <5>1
        <5>3. QED
          BY <3>2, <4>2, <5>2 DEF ArgRow
      <4>5. QED
        BY <4>3, <4>4
    <3>3. QED
      BY <3>1, <3>2
  <2>4. g = [i \in 0 .. k + 1 |-> ArgRow(argv, g, i)]
    BY <2>3
  <2> HIDE DEF g
  <2>5. QED
    BY <2>4 DEF ArgsTo
<1>4. Len(argv) \in T
  BY <1>1, <1>2, <1>3, SetInduction
<1>5. QED
  BY <1>4

\* parse_args opens the file that -c names.
Parsed(read) == [ok |-> read.ok, conf |-> WithDefaults(read.conf)]

LEMMA ParseArgsUnfolds ==
    ASSUME NEW argv \in Seq(STRING), NEW files
    PROVE  \E f : /\ ArgsTo(argv, f, Len(argv))
                  /\ LET options == f[Len(argv)]
                     IN options.ok /\ options.want = "" /\ options.confFile # << >>
                           /\ options.confFile[1] \in DOMAIN files
                        => ParseArgs(argv, files) = Parsed(ReadConf(options, files[options.confFile[1]]))
<1> DEFINE after == CHOOSE f : ArgsTo(argv, f, Len(argv))
           options == after[Len(argv)]
<1>1. ArgsTo(argv, after, Len(argv))
  BY ArgsUnfold
<1>2. ParseArgs(argv, files) =
         Parsed(IF ~options.ok \/ options.want # "" THEN Refused(options)
                ELSE IF options.confFile = << >> THEN options
                ELSE IF options.confFile[1] \notin DOMAIN files THEN Refused(options)
                ELSE ReadConf(options, files[options.confFile[1]]))
  BY DEF ParseArgs, ArgsTo, ArgRow, NoOption, Parsed
<1> HIDE DEF after
<1>3. QED
  BY <1>1, <1>2

\* What a flag does to the options.
FileWanted(st, name) ==
    /\ st \in States /\ st.ok
    /\ st.confFile = <<name>>
    /\ \A k \in Keys : KeyKept(st.conf, k, EmptyConf)

LEMMA EmptyConfType == EmptyConf \in Confs
<1>1. << >> \in Seq(STRING)
  OBVIOUS
<1>2. QED
  BY <1>1 DEF EmptyConf, Confs

LEMMA FlagStep ==
    ASSUME NEW st, NEW name, FileWanted(st, name), NEW arg \in {"-d", "-u", "-v"}
    PROVE  FileWanted(Option(st, arg), name)
<1>1. st.ok /\ st.want = ""
  BY DEF FileWanted, States
<1>2. Option(st, arg) =
           CASE arg \in {"-c", "--pidfile", "--logfile"} -> [st EXCEPT !.want = arg]
             [] arg = "-d" -> [st EXCEPT !.conf.daemon = TRUE]
             [] arg = "-v" -> [st EXCEPT !.conf.verbose = TRUE]
             [] arg = "-u" -> [st EXCEPT !.conf.nspresolver = TRUE]
             [] OTHER -> Refused(st)
  BY <1>1 DEF Option
<1>3. \/ Option(st, arg) = [st EXCEPT !.conf.daemon = TRUE]
      \/ Option(st, arg) = [st EXCEPT !.conf.verbose = TRUE]
      \/ Option(st, arg) = [st EXCEPT !.conf.nspresolver = TRUE]
  BY <1>2
<1> DEFINE next == Option(st, arg)
<1>4. next \in States /\ next.ok /\ next.confFile = st.confFile
      /\ next.conf.user = st.conf.user /\ next.conf.addr = st.conf.addr
      /\ next.conf.port = st.conf.port
  <2>1. PICK c \in Confs, given \in Seq(STRING) :
           st = [ok |-> TRUE, conf |-> c, want |-> "", confFile |-> given]
    BY <1>1 DEF FileWanted, States
  <2>2. ASSUME NEW d \in Confs, next = [st EXCEPT !.conf = d],
               d.user = c.user, d.addr = c.addr, d.port = c.port
        PROVE  /\ next \in States /\ next.ok /\ next.confFile = st.confFile
               /\ next.conf.user = st.conf.user /\ next.conf.addr = st.conf.addr
               /\ next.conf.port = st.conf.port
    <3>1. next = [ok |-> TRUE, conf |-> d, want |-> "", confFile |-> given]
      BY <2>1, <2>2
    <3> HIDE DEF next
    <3>2. QED
      BY <2>1, <2>2, <3>1 DEF States
  <2>3. [c EXCEPT !.daemon = TRUE] \in Confs /\ [c EXCEPT !.verbose = TRUE] \in Confs
        /\ [c EXCEPT !.nspresolver = TRUE] \in Confs
    BY DEF Confs
  <2>4. \/ next = [st EXCEPT !.conf = [c EXCEPT !.daemon = TRUE]]
        \/ next = [st EXCEPT !.conf = [c EXCEPT !.verbose = TRUE]]
        \/ next = [st EXCEPT !.conf = [c EXCEPT !.nspresolver = TRUE]]
    BY <1>3, <2>1
  <2> HIDE DEF next
  <2>5. \A d \in {[c EXCEPT !.daemon = TRUE], [c EXCEPT !.verbose = TRUE],
                  [c EXCEPT !.nspresolver = TRUE]} :
           d.user = c.user /\ d.addr = c.addr /\ d.port = c.port
    BY DEF Confs
  <2>6. QED
    BY <2>2, <2>3, <2>4, <2>5
<1> HIDE DEF next
<1>5. \A k \in Keys : KeyKept(next.conf, k, EmptyConf)
  BY <1>4 DEF KeyKept, FileWanted
<1>6. QED
  BY <1>4, <1>5 DEF FileWanted, next

LEMMA NamedFile ==
    ASSUME NEW c, NEW w, NEW none, NEW empty, NEW named, NEW r,
           r = [ok |-> TRUE, conf |-> c, want |-> w, confFile |-> none]
    PROVE  [r EXCEPT !.want = empty, !.confFile = named] =
              [ok |-> TRUE, conf |-> c, want |-> empty, confFile |-> named]
<1> DEFINE R == [ok : BOOLEAN, conf : {c}, want : {w, empty}, confFile : {none, named}]
           s == [r EXCEPT !.want = empty, !.confFile = named]
           t == [ok |-> TRUE, conf |-> c, want |-> empty, confFile |-> named]
<1>1. r \in R /\ t \in R
  OBVIOUS
<1>2. s \in R
  BY <1>1
<1>3. s.ok = TRUE /\ s.conf = c /\ s.want = empty /\ s.confFile = named
  BY <1>1
<1>4. t.ok = TRUE /\ t.conf = c /\ t.want = empty /\ t.confFile = named
  OBVIOUS
<1> HIDE DEF s, t
<1>5. s = t
  BY <1>1, <1>2, <1>3, <1>4
<1>6. QED
  BY <1>5 DEF s, t

LEMMA OptionsLemma ==
    ASSUME NEW argv \in Seq(STRING), Len(argv) >= 2, argv[1] = "-c",
           \A i \in 3 .. Len(argv) : argv[i] \in {"-d", "-u", "-v"},
           NEW f, ArgsTo(argv, f, Len(argv))
    PROVE  FileWanted(f[Len(argv)], argv[2])
<1>1. PICK n \in Nat : n = Len(argv) /\ n >= 2
  BY LenProperties
<1>2. \A i \in 0 .. n : f[i] = ArgRow(argv, f, i)
  BY <1>1 DEF ArgsTo
<1>3. f[0] = NoOption
  BY <1>1, <1>2 DEF ArgRow
<1>4. f[1] = [ok |-> TRUE, conf |-> EmptyConf, want |-> "-c", confFile |-> << >>]
  <2>1. f[1] = Option(NoOption, "-c")
    BY <1>1, <1>2, <1>3 DEF ArgRow
  <2>2. QED
    BY <2>1 DEF Option, NoOption
<1>5. f[2] = [ok |-> TRUE, conf |-> EmptyConf, want |-> "", confFile |-> <<argv[2]>>]
  <2>1. f[2] = Option(f[1], argv[2])
    BY <1>1, <1>2 DEF ArgRow
  <2>2. f[1].ok /\ f[1].want = "-c"
    BY <1>4
  <2>3. f[2] = [f[1] EXCEPT !.want = "", !.confFile = <<argv[2]>>]
    BY <2>1, <2>2 DEF Option
  <2> DEFINE r == f[1]
             named == <<argv[2]>>
             none == << >>
  <2>4. r = [ok |-> TRUE, conf |-> EmptyConf, want |-> "-c", confFile |-> none]
    BY <1>4
  <2>5. f[2] = [r EXCEPT !.want = "", !.confFile = named]
    BY <2>3
  <2> HIDE DEF r, named, none
  <2>6. f[2] = [ok |-> TRUE, conf |-> EmptyConf, want |-> "", confFile |-> named]
    BY <2>4, <2>5, NamedFile, Zenon
  <2>7. QED
    BY <2>6 DEF named
<1>6. FileWanted(f[2], argv[2])
  <2>1. PICK name \in STRING : name = argv[2]
    <3>1. 2 \in 1 .. n
      BY <1>1
    <3>2. QED
      BY <1>1, <3>1, ElementOfSeq
  <2>2. <<name>> \in Seq(STRING)
    OBVIOUS
  <2>3. f[2] = [ok |-> TRUE, conf |-> EmptyConf, want |-> "", confFile |-> <<name>>]
    BY <1>5, <2>1
  <2> DEFINE st == [ok |-> TRUE, conf |-> EmptyConf, want |-> "", confFile |-> <<name>>]
  <2>4. st \in States /\ st.ok /\ st.confFile = <<name>> /\ st.conf = EmptyConf
    BY <2>2, EmptyConfType DEF States
  <2> HIDE DEF st
  <2>5. FileWanted(st, name)
    BY <2>4 DEF FileWanted, KeyKept
  <2>6. QED
    BY <2>1, <2>3, <2>5 DEF st
<1> DEFINE T == {p \in Nat : 2 + p <= n => FileWanted(f[2 + p], argv[2])}
<1>7. 0 \in T
  BY <1>6
<1>8. ASSUME NEW p \in Nat, p \in T
      PROVE  p + 1 \in T
  <2>1. SUFFICES ASSUME 2 + (p + 1) <= n
                 PROVE  FileWanted(f[2 + (p + 1)], argv[2])
    OBVIOUS
  <2>2. PICK i \in 3 .. n : i = 2 + (p + 1) /\ i - 1 = 2 + p /\ i \in 0 .. n /\ i # 0
    BY <1>1, <2>1
  <2>3. FileWanted(f[i - 1], argv[2])
    BY <1>8, <2>1, <2>2
  <2>4. f[i] = Option(f[i - 1], argv[i])
    BY <1>2, <2>2 DEF ArgRow
  <2>5. argv[i] \in {"-d", "-u", "-v"}
    BY <1>1, <2>2
  <2>6. FileWanted(f[i], argv[2])
    BY <2>3, <2>4, <2>5, FlagStep
  <2>7. QED
    BY <2>2, <2>6
<1>9. PICK p \in Nat : 2 + p = n
  <2>1. n - 2 \in Nat /\ 2 + (n - 2) = n
    BY <1>1
  <2>2. QED
    BY <2>1
<1>10. \A q \in Nat : q \in T
  <2> HIDE DEF T
  <2>1. QED
    BY <1>7, <1>8, SetInduction
<1>11. p \in T
  BY <1>10
<1>12. QED
  BY <1>1, <1>9, <1>11

\* A file whose lines fit in the buffer says what the configuration is.
LEMMA NamedFileSays ==
    ASSUME NEW argv \in Seq(STRING), NEW files, argv[2] \in DOMAIN files,
           NEW file \in Seq(STRING), file = files[argv[2]],
           Len(argv) >= 2, argv[1] = "-c",
           \A i \in 3 .. Len(argv) : argv[i] \in {"-d", "-u", "-v"},
           \A l \in LinesOf(file) : l.size < LINE_MAX
    PROVE  Says(file, ParseArgs(argv, files))
<1>1. PICK f : /\ ArgsTo(argv, f, Len(argv))
               /\ LET options == f[Len(argv)]
                  IN options.ok /\ options.want = "" /\ options.confFile # << >>
                        /\ options.confFile[1] \in DOMAIN files
                     => ParseArgs(argv, files) = Parsed(ReadConf(options, files[options.confFile[1]]))
  BY ParseArgsUnfolds
<1>2. PICK options : options = f[Len(argv)] /\ FileWanted(options, argv[2])
  BY <1>1, OptionsLemma
<1>3. /\ options \in States /\ options.ok /\ options.want = "" /\ options.confFile = <<argv[2]>>
      /\ \A k \in Keys : KeyKept(options.conf, k, EmptyConf)
  BY <1>2 DEF FileWanted, States
<1>4. options.confFile # << >> /\ options.confFile[1] = argv[2]
  <2> DEFINE name == argv[2]
  <2>1. options.confFile = <<name>>
    BY <1>3
  <2> HIDE DEF name
  <2>2. DOMAIN <<name>> = {1} /\ <<name>>[1] = name /\ DOMAIN << >> = {}
    OBVIOUS
  <2>3. options.confFile # << >> /\ options.confFile[1] = name
    BY <2>1, <2>2
  <2>4. QED
    BY <2>3 DEF name
<1>5. ParseArgs(argv, files) = Parsed(ReadConf(options, file))
  BY <1>1, <1>2, <1>3, <1>4
<1>6. ShortLines(file)
  <2>1. SUFFICES ASSUME NEW i \in Starts(file)
                 PROVE  EndAt(file, i) - i < LINE_MAX
    BY DEF ShortLines
  <2>2. LineAt(file, i) \in LinesOf(file) /\ LineAt(file, i).size = EndAt(file, i) - i
    BY LinesLemma DEF LineAt
  <2>3. QED
    BY <2>2
<1>7. PICK st \in States : st = ReadConf(options, file)
                           /\ DoneLines(file, st, {i \in Starts(file) : i < Len(file) + 1})
  BY <1>3, <1>6, ReadConfLemma
<1>8. Says(file, Parsed(st))
  BY <1>7, SaysLemma DEF Parsed
<1>9. QED
  BY <1>5, <1>7, <1>8

LEMMA ReadAsWritten == Init => ConfAsWritten
<1>1. SUFFICES ASSUME Init, FileNamed,
                      \A l \in LinesOf(input.files[input.argv[2]]) : l.size < LINE_MAX
               PROVE  Says(input.files[input.argv[2]], conf)
  BY DEF ConfAsWritten
<1>2. input.argv \in Seq(STRING) /\ \A f \in DOMAIN input.files : input.files[f] \in Seq(STRING)
  BY <1>1, ProcessAssumption DEF Init
<1>3. input.files[input.argv[2]] \in Seq(STRING)
  BY <1>1, <1>2 DEF FileNamed
<1>4. conf = ParseArgs(input.argv, input.files)
  BY <1>1 DEF Init
<1>5. QED
  BY <1>1, <1>2, <1>3, <1>4, NamedFileSays DEF FileNamed

\* Nothing but the beginning is before fork.
LEMMA StillAsWritten == ConfAsWritten /\ [Next]_vars => ConfAsWritten'
<1>1. SUFFICES ASSUME ConfAsWritten, [Next]_vars, pc' = "parsed"
               PROVE  ConfAsWritten'
  BY DEF ConfAsWritten
<1>2. pc = "parsed" /\ UNCHANGED <<input, conf>>
  <2>1. CASE UNCHANGED vars
    BY <1>1, <2>1 DEF vars, confVars
  <2>2. CASE Signal
    BY <1>1, <2>2 DEF Signal, Go, confVars
  <2>3. ASSUME NEW d \in ClockSteps, SetClock(d)
        PROVE  pc = "parsed" /\ UNCHANGED <<input, conf>>
    BY <1>1, <2>3 DEF SetClock, confVars
  <2>4. CASE Main
    <3>1. \A i \in DOMAIN Sockets : ~OpenSocket(i)
      BY <1>1, SocketNames DEF OpenSocket, Go, Sockets
    <3>2. QED
      BY <1>1, <2>4, <3>1 DEF Main, Fork, Detach, Sigaction, EvInit, StartWatchers, Check, TickCb,
         NoTick, Select, AfterCallbacks, Go, Sockets
  <2>5. QED
    BY <1>1, <2>1, <2>2, <2>3, <2>4 DEF Next
<1>3. QED
  BY <1>1, <1>2 DEF ConfAsWritten, FileNamed

\* A configuration file that is named on the command line, whatever it holds and
\* however long it is, is taken as it says, as long as its lines fit in the
\* buffer (read_conf, parse_args).
THEOREM ProcessConfAsWritten == Spec => []ConfAsWritten
BY ReadAsWritten, StillAsWritten, PTL DEF Spec
===============================================================================
