------------------------------- MODULE Induction -------------------------------
(***************************************************************************)
(* Induction over sets of naturals, and with it what the operators of the   *)
(* community modules return that the specifications are built from.         *)
(***************************************************************************)
EXTENDS Naturals, Sequences, SequencesExt, SequenceTheorems, WellFoundedInduction, TLAPS

Below == {p \in Nat \X Nat : p[1] < p[2]}

LEMMA BelowIsWellFounded == IsWellFoundedOn(Below, Nat)
<1>1. OpToRel(<, Nat) = Below
  BY DEF OpToRel, Below
<1>2. QED
  BY <1>1, NatLessThanWellFounded

\* A set of naturals has a least element.
LEMMA LeastNat ==
    ASSUME NEW T, T \subseteq Nat, T # {}
    PROVE  \E x \in T : \A y \in T : x <= y
<1>1. PICK x \in T : \A y \in T : <<y, x>> \notin Below
  BY BelowIsWellFounded, WFMin
<1>2. ASSUME NEW y \in T
      PROVE  x <= y
  <2>1. x \in Nat /\ y \in Nat /\ <<y, x>> \notin Below
    BY <1>1
  <2>2. ~(y < x)
    BY <2>1 DEF Below
  <2>3. QED
    BY <2>1, <2>2
<1>3. QED
  BY <1>2

\* A set with 0, and with the successor of each of its naturals, has them all.
LEMMA SetInduction ==
    ASSUME NEW T, 0 \in T, \A i \in Nat : i \in T => i + 1 \in T
    PROVE  Nat \subseteq T
<1> DEFINE Rest == Nat \ T
<1>1. SUFFICES ASSUME Rest # {}
               PROVE  FALSE
  OBVIOUS
<1>2. PICK x \in Rest : \A y \in Rest : x <= y
  BY <1>1, LeastNat
<1>3. x \in Nat /\ x # 0 /\ x - 1 \in Nat /\ x - 1 \notin Rest
  BY <1>2
<1>4. (x - 1) + 1 \in T
  BY <1>3
<1>5. QED
  BY <1>2, <1>3, <1>4

LEMMA MinOfTwo ==
    ASSUME NEW a \in Nat, NEW b \in Nat
    PROVE  /\ Min({a, b}) \in Nat
           /\ Min({a, b}) = IF a <= b THEN a ELSE b
<1>1. Min({a, b}) = CHOOSE x \in {a, b} : \A y \in {a, b} : x =< y
  BY DEF Min
<1>2. \E x \in {a, b} : \A y \in {a, b} : x =< y
  BY a <= b \/ b <= a
<1>3. Min({a, b}) \in {a, b} /\ \A y \in {a, b} : Min({a, b}) =< y
  BY <1>1, <1>2
<1>4. QED
  BY <1>3

-------------------------------------------------------------------------------
(* FlattenSeq *)

Join(a, b) == a \o b

LEMMA JoinProperties ==
    ASSUME NEW S
    PROVE  /\ \A a, b \in Seq(S) : Join(a, b) \in Seq(S)
           /\ \A a, b, c \in Seq(S) : Join(Join(a, b), c) = Join(a, Join(b, c))
<1>1. ASSUME NEW a \in Seq(S), NEW b \in Seq(S)
      PROVE  Join(a, b) \in Seq(S)
  BY ConcatProperties, Zenon DEF Join
<1>2. ASSUME NEW a \in Seq(S), NEW b \in Seq(S), NEW c \in Seq(S)
      PROVE  Join(Join(a, b), c) = Join(a, Join(b, c))
  <2>1. (a \o b) \o c = a \o (b \o c)
    BY ConcatAssociative
  <2>2. QED
    BY <2>1 DEF Join
<1>3. QED
  BY <1>1, <1>2

Flattens(f, s, n) ==
    \A i \in 1 .. n : f[i] = IF i = 1 THEN s[i] ELSE Join(f[i - 1], s[i])

LEMMA FlattenerExists ==
    ASSUME NEW S, NEW s \in Seq(Seq(S))
    PROVE  \E f \in [1 .. Len(s) -> Seq(S)] : Flattens(f, s, Len(s))
<1> DEFINE T == {n \in Nat : n <= Len(s) => \E f \in [1 .. n -> Seq(S)] : Flattens(f, s, n)}
<1>0. Len(s) \in Nat /\ \A i \in 1 .. Len(s) : s[i] \in Seq(S)
  BY LenProperties, ElementOfSeq
<1>1. 0 \in T
  <2>1. [i \in 1 .. 0 |-> << >>] \in [1 .. 0 -> Seq(S)]
    OBVIOUS
  <2>2. Flattens([i \in 1 .. 0 |-> << >>], s, 0)
    BY DEF Flattens
  <2>3. QED
    BY <2>1, <2>2
<1>2. ASSUME NEW n \in Nat, n \in T
      PROVE  n + 1 \in T
  <2>1. SUFFICES ASSUME n + 1 <= Len(s)
                 PROVE  \E f \in [1 .. n + 1 -> Seq(S)] : Flattens(f, s, n + 1)
    OBVIOUS
  <2>2. PICK f \in [1 .. n -> Seq(S)] : Flattens(f, s, n)
    BY <1>0, <1>2, <2>1
  <2> DEFINE e == IF n = 0 THEN s[1] ELSE Join(f[n], s[n + 1])
             g == [i \in 1 .. n + 1 |-> IF i = n + 1 THEN e ELSE f[i]]
  <2>3. e \in Seq(S)
    <3>1. CASE n = 0
      BY <1>0, <2>1, <3>1
    <3>2. CASE n # 0
      <4>1. f[n] \in Seq(S) /\ s[n + 1] \in Seq(S)
        BY <1>0, <2>1, <3>2
      <4>2. QED
        BY <3>2, <4>1, JoinProperties
    <3>3. QED
      BY <3>1, <3>2
  <2>4. g \in [1 .. n + 1 -> Seq(S)]
    BY <2>3
  <2>5. Flattens(g, s, n + 1)
    <3>1. SUFFICES ASSUME NEW i \in 1 .. n + 1
                   PROVE  g[i] = IF i = 1 THEN s[i] ELSE Join(g[i - 1], s[i])
      BY DEF Flattens
    <3>2. CASE i = n + 1
      <4>1. g[i] = e
        BY <3>2
      <4>2. n # 0 => g[i - 1] = f[n]
        BY <3>2
      <4>3. QED
        BY <3>2, <4>1, <4>2
    <3>3. CASE i # n + 1
      <4>1. i \in 1 .. n /\ g[i] = f[i] /\ (i # 1 => g[i - 1] = f[i - 1])
        BY <3>3
      <4>2. QED
        BY <2>2, <4>1 DEF Flattens
    <3>4. QED
      BY <3>2, <3>3
  <2>6. QED
    BY <2>4, <2>5
<1> HIDE DEF T
<1>3. Nat \subseteq T
  BY <1>1, <1>2, SetInduction
<1>4. QED
  BY <1>0, <1>3 DEF T

\* FlattenSeq is the last value of a function that puts a sequence behind what
\* it has put together so far.
LEMMA FlattenSeqIs ==
    ASSUME NEW S, NEW s \in Seq(Seq(S)), s # << >>
    PROVE  \E f \in [1 .. Len(s) -> Seq(S)] :
              Flattens(f, s, Len(s)) /\ FlattenSeq(s) = f[Len(s)]
<1> DEFINE F(g) == [i \in 1 .. Len(s) |-> IF i = 1 THEN s[i] ELSE Join(g[i - 1], s[i])]
           f == CHOOSE g : g = F(g)
<1>1. Len(s) \in Nat \ {0}
  BY EmptySeq
<1>2. PICK h \in [1 .. Len(s) -> Seq(S)] : Flattens(h, s, Len(s))
  BY FlattenerExists
<1>3. h = F(h)
  BY <1>2 DEF Flattens
<1>4. f = F(f)
  BY <1>3
<1>5. FlattenSeq(s) = f[Len(s)]
  BY <1>1 DEF FlattenSeq, Join
<1> HIDE DEF f
<1>6. \A i \in 1 .. Len(s) : f[i] = IF i = 1 THEN s[i] ELSE Join(f[i - 1], s[i])
  BY <1>4
<1> DEFINE T == {i \in Nat : i + 1 <= Len(s) => f[i + 1] = h[i + 1]}
<1>7. 0 \in T
  BY <1>1, <1>2, <1>6 DEF Flattens
<1>8. ASSUME NEW i \in Nat, i \in T
      PROVE  i + 1 \in T
  <2>1. SUFFICES ASSUME i + 2 <= Len(s)
                 PROVE  f[i + 2] = h[i + 2]
    OBVIOUS
  <2>2. i + 2 \in 1 .. Len(s) /\ i + 2 # 1 /\ (i + 2) - 1 = i + 1 /\ f[i + 1] = h[i + 1]
    BY <1>1, <1>8, <2>1
  <2>3. f[i + 2] = Join(f[i + 1], s[i + 2])
    BY <1>6, <2>2
  <2>4. h[i + 2] = Join(h[i + 1], s[i + 2])
    BY <1>2, <2>2 DEF Flattens
  <2>5. QED
    BY <2>2, <2>3, <2>4
<1> HIDE DEF T
<1>9. Nat \subseteq T
  BY <1>7, <1>8, SetInduction
<1>10. f[Len(s)] = h[Len(s)]
  <2>1. Len(s) - 1 \in T
    BY <1>1, <1>9
  <2>2. QED
    BY <1>1, <2>1 DEF T
<1>11. QED
  BY <1>2, <1>5, <1>10

LEMMA FlattensSteps ==
    ASSUME NEW f, NEW s, NEW n \in Nat, n >= 1, Flattens(f, s, n)
    PROVE  /\ f[1] = s[1]
           /\ \A i \in Nat : 1 <= i /\ i + 1 <= n => f[i + 1] = Join(f[i], s[i + 1])
<1>1. 1 \in 1 .. n
  OBVIOUS
<1>2. ASSUME NEW i \in Nat, 1 <= i, i + 1 <= n
      PROVE  f[i + 1] = Join(f[i], s[i + 1])
  <2>1. i + 1 \in 1 .. n /\ i + 1 # 1 /\ (i + 1) - 1 = i
    BY <1>2
  <2>2. QED
    BY <2>1 DEF Flattens
<1>3. QED
  BY <1>1, <1>2 DEF Flattens

Shifted(S, s, t, n, f, g) ==
    /\ n \in Nat /\ n >= 1
    /\ Flattens(f, s, n + 1) /\ Flattens(g, t, n)
    /\ \A i \in 1 .. n + 1 : s[i] \in Seq(S)
    /\ \A i \in 1 .. n : t[i] = s[i + 1] /\ g[i] \in Seq(S)

InFront(s, n, f, g) == f[n + 1] = Join(s[1], g[n])

LEMMA FlattenersShift ==
    ASSUME NEW S, NEW s, NEW t, NEW n, NEW f, NEW g, Shifted(S, s, t, n, f, g)
    PROVE  InFront(s, n, f, g)
<1> USE DEF Shifted, InFront
<1>0. /\ f[1] = s[1] /\ g[1] = t[1]
      /\ \A i \in Nat : 1 <= i /\ i + 1 <= n + 1 => f[i + 1] = Join(f[i], s[i + 1])
      /\ \A i \in Nat : 1 <= i /\ i + 1 <= n => g[i + 1] = Join(g[i], t[i + 1])
  BY FlattensSteps, n + 1 \in Nat, n + 1 >= 1
<1> DEFINE P(i) == 1 <= i /\ i <= n => f[i + 1] = Join(s[1], g[i])
           T == {i \in Nat : P(i)}
<1>1. P(0)
  OBVIOUS
<1>2. ASSUME NEW i \in Nat, P(i)
      PROVE  P(i + 1)
  <2>1. SUFFICES ASSUME i + 1 <= n
                 PROVE  f[(i + 1) + 1] = Join(s[1], g[i + 1])
    OBVIOUS
  <2>2. i + 1 \in Nat /\ 1 <= i + 1 /\ (i + 1) + 1 <= n + 1 /\ i + 1 \in 1 .. n /\ 1 \in 1 .. n
    BY <2>1
  <2>3. f[(i + 1) + 1] = Join(f[i + 1], s[(i + 1) + 1])
    BY <1>0, <2>2
  <2>4. t[i + 1] = s[(i + 1) + 1] /\ t[1] = s[1 + 1]
    BY <2>2
  <2>5. CASE i = 0
    BY <1>0, <2>3, <2>4, <2>5
  <2>6. CASE i # 0
    <3>1. f[i + 1] = Join(s[1], g[i]) /\ g[i + 1] = Join(g[i], t[i + 1])
      BY <1>0, <1>2, <2>1, <2>6
    <3>2. PICK a \in Seq(S), b \in Seq(S), c \in Seq(S) :
                 a = s[1] /\ b = g[i] /\ c = s[(i + 1) + 1]
      BY <2>1, <2>6
    <3>3. Join(Join(a, b), c) = Join(a, Join(b, c))
      BY JoinProperties
    <3>4. QED
      BY <2>3, <2>4, <3>1, <3>2, <3>3
  <2>7. QED
    BY <2>5, <2>6
<1>3. 0 \in T /\ \A i \in Nat : i \in T => i + 1 \in T
  BY <1>1, <1>2
<1> HIDE DEF T
<1>4. n \in T
  BY <1>3, SetInduction
<1>5. QED
  BY <1>4 DEF T

\* FlattenSeq takes its sequences from the front.
LEMMA FlattenSeqFront ==
    ASSUME NEW S, NEW s \in Seq(Seq(S)), s # << >>
    PROVE  FlattenSeq(s) = Join(s[1], FlattenSeq(Tail(s)))
<1>1. /\ Len(s) \in Nat /\ Len(s) >= 1
      /\ Tail(s) \in Seq(Seq(S)) /\ Len(Tail(s)) = Len(s) - 1
      /\ \A i \in 1 .. Len(Tail(s)) : Tail(s)[i] = s[i + 1]
      /\ \A i \in 1 .. Len(s) : s[i] \in Seq(S)
  BY EmptySeq, HeadTailProperties, ElementOfSeq
<1>2. PICK f \in [1 .. Len(s) -> Seq(S)] :
              Flattens(f, s, Len(s)) /\ FlattenSeq(s) = f[Len(s)]
  BY FlattenSeqIs
<1>3. CASE Tail(s) = << >>
  <2>1. Len(s) = 1 /\ FlattenSeq(Tail(s)) = << >>
    <3>1. Len(Tail(s)) = 0
      BY <1>3, EmptySeq
    <3>2. FlattenSeq(Tail(s)) = Tail(s)
      BY <3>1 DEF FlattenSeq
    <3>3. QED
      BY <1>1, <1>3, <3>1, <3>2
  <2>2. FlattenSeq(s) = s[1]
    BY <1>2, <2>1 DEF Flattens
  <2>3. QED
    BY <1>1, <2>1, <2>2, ConcatEmptySeq DEF Join
<1>4. CASE Tail(s) # << >>
  <2>1. PICK g \in [1 .. Len(Tail(s)) -> Seq(S)] :
                Flattens(g, Tail(s), Len(Tail(s))) /\ FlattenSeq(Tail(s)) = g[Len(Tail(s))]
    BY <1>1, <1>4, FlattenSeqIs
  <2>2. Len(Tail(s)) \in Nat \ {0}
    BY <1>1, <1>4, EmptySeq
  <2>3. PICK n \in Nat \ {0} : n = Len(Tail(s))
    BY <2>2
  <2>4. n \in Nat /\ n >= 1 /\ Len(s) = n + 1
    BY <1>1, <2>3
  <2>5. Shifted(S, s, Tail(s), n, f, g)
    BY <1>1, <1>2, <2>1, <2>3, <2>4 DEF Shifted
  <2>6. InFront(s, n, f, g)
    BY <2>5, FlattenersShift
  <2>7. QED
    BY <1>2, <2>1, <2>3, <2>4, <2>6 DEF InFront
<1>5. QED
  BY <1>3, <1>4

LEMMA FlattenSeqType ==
    ASSUME NEW S, NEW s \in Seq(Seq(S))
    PROVE  FlattenSeq(s) \in Seq(S)
<1>1. CASE s = << >>
  BY <1>1, EmptySeq DEF FlattenSeq
<1>2. CASE s # << >>
  <2>1. Len(s) \in Nat /\ Len(s) >= 1
    BY <1>2, EmptySeq
  <2>2. PICK f \in [1 .. Len(s) -> Seq(S)] : FlattenSeq(s) = f[Len(s)]
    BY <1>2, FlattenSeqIs
  <2>3. Len(s) \in 1 .. Len(s)
    BY <2>1
  <2>4. QED
    BY <2>2, <2>3
<1>3. QED
  BY <1>1, <1>2

\* c is a, which has m elements, with b, which has n, behind it.
Appends(S, c, a, m, b, n) ==
    /\ c \in Seq(S) /\ Len(c) = m + n
    /\ \A k \in 1 .. m : c[k] = a[k]
    /\ \A k \in 1 .. n : c[m + k] = b[k]

LEMMA AppendsLemma ==
    ASSUME NEW S, NEW a \in Seq(S), NEW b \in Seq(S), NEW m, NEW n, m = Len(a), n = Len(b)
    PROVE  Appends(S, a \o b, a, m, b, n)
BY ConcatProperties DEF Appends

LEMMA TwoJoined ==
    ASSUME NEW S, NEW x \in S, NEW y \in S
    PROVE  <<x>> \o <<y>> = <<x, y>>
<1> DEFINE a == <<x>>
           b == <<y>>
           s == a \o b
<1>1. /\ a \in Seq(S) /\ Len(a) = 1 /\ a[1] = x
      /\ b \in Seq(S) /\ Len(b) = 1 /\ b[1] = y
  OBVIOUS
<1> HIDE DEF a, b
<1>2. /\ s \in Seq(S) /\ Len(s) = Len(a) + Len(b)
      /\ \A i \in 1 .. Len(a) : s[i] = a[i]
      /\ \A i \in 1 .. Len(b) : s[Len(a) + i] = b[i]
  <2>1. a \in Seq(S) /\ b \in Seq(S)
    BY <1>1
  <2>2. QED
    BY <2>1, ConcatProperties
<1> HIDE DEF s
<1>3. s \in Seq(S) /\ Len(s) = 2 /\ s[1] = x /\ s[2] = y
  BY <1>1, <1>2
<1>4. s = <<x, y>>
  BY <1>3
<1>5. QED
  BY <1>4 DEF a, b, s

LEMMA ThreeJoined ==
    ASSUME NEW S, NEW x \in S, NEW y \in S, NEW z \in S
    PROVE  <<x, y>> \o <<z>> = <<x, y, z>>
<1> DEFINE a == <<x, y>>
           b == <<z>>
           s == a \o b
<1>1. /\ a \in Seq(S) /\ Len(a) = 2 /\ a[1] = x /\ a[2] = y
      /\ b \in Seq(S) /\ Len(b) = 1 /\ b[1] = z
  OBVIOUS
<1> HIDE DEF a, b
<1>2. /\ s \in Seq(S) /\ Len(s) = Len(a) + Len(b)
      /\ \A i \in 1 .. Len(a) : s[i] = a[i]
      /\ \A i \in 1 .. Len(b) : s[Len(a) + i] = b[i]
  <2>1. a \in Seq(S) /\ b \in Seq(S)
    BY <1>1
  <2>2. QED
    BY <2>1, ConcatProperties
<1> HIDE DEF s
<1>3. s \in Seq(S) /\ Len(s) = 3 /\ s[1] = x /\ s[2] = y /\ s[3] = z
  BY <1>1, <1>2
<1>4. s = <<x, y, z>>
  BY <1>3
<1>5. QED
  BY <1>4 DEF a, b, s

\* Sequences of lo to hi elements each, put together.
LEMMA FlattenSeqLen ==
    ASSUME NEW S, NEW s \in Seq(Seq(S)), NEW lo \in Nat, NEW hi \in Nat,
           \A i \in 1 .. Len(s) : lo <= Len(s[i]) /\ Len(s[i]) <= hi
    PROVE  Len(s) * lo <= Len(FlattenSeq(s)) /\ Len(FlattenSeq(s)) <= Len(s) * hi
<1>1. CASE s = << >>
  <2>1. Len(s) = 0 /\ Len(FlattenSeq(s)) = 0
    BY <1>1, EmptySeq DEF FlattenSeq
  <2>2. QED
    BY <2>1
<1>2. CASE s # << >>
  <2>1. PICK n \in Nat : n = Len(s) /\ n >= 1
    BY <1>2, EmptySeq, LenProperties
  <2>2. PICK f \in [1 .. n -> Seq(S)] : Flattens(f, s, n) /\ FlattenSeq(s) = f[n]
    BY <1>2, <2>1, FlattenSeqIs
  <2>3. /\ f[1] = s[1]
        /\ \A i \in Nat : 1 <= i /\ i + 1 <= n => f[i + 1] = Join(f[i], s[i + 1])
    BY <2>1, <2>2, FlattensSteps
  <2> DEFINE T == {i \in Nat : i + 1 <= n => /\ (i + 1) * lo <= Len(f[i + 1])
                                             /\ Len(f[i + 1]) <= (i + 1) * hi}
  <2>4. 0 \in T
    <3>1. 1 \in 1 .. n
      BY <2>1
    <3>2. (0 + 1) * lo = lo /\ (0 + 1) * hi = hi /\ 0 + 1 = 1
      OBVIOUS
    <3>3. QED
      BY <2>1, <2>3, <3>1, <3>2
  <2>5. ASSUME NEW i \in Nat, i \in T
        PROVE  i + 1 \in T
    <3>1. SUFFICES ASSUME (i + 1) + 1 <= n
                   PROVE  /\ ((i + 1) + 1) * lo <= Len(f[(i + 1) + 1])
                          /\ Len(f[(i + 1) + 1]) <= ((i + 1) + 1) * hi
      OBVIOUS
    <3>2. PICK j \in 1 .. n : j = i + 1 /\ j + 1 \in 1 .. n
      BY <2>1, <3>1
    <3>3. f[j + 1] = Join(f[j], s[j + 1]) /\ f[j] \in Seq(S) /\ s[j + 1] \in Seq(S)
      <4>1. j \in Nat /\ 1 <= j /\ j + 1 <= n
        BY <3>2
      <4>2. s[j + 1] \in Seq(S)
        BY <2>1, <3>2, ElementOfSeq
      <4>3. QED
        BY <2>3, <3>2, <4>1, <4>2
    <3>4. /\ Len(f[j + 1]) = Len(f[j]) + Len(s[j + 1])
          /\ Len(f[j]) \in Nat /\ Len(s[j + 1]) \in Nat
      BY <3>3, ConcatProperties, LenProperties DEF Join
    <3>5. j * lo <= Len(f[j]) /\ Len(f[j]) <= j * hi
      BY <2>5, <3>1, <3>2
    <3>6. lo <= Len(s[j + 1]) /\ Len(s[j + 1]) <= hi
      BY <2>1, <3>2
    <3>7. /\ (j + 1) * lo = j * lo + lo /\ (j + 1) * hi = j * hi + hi
          /\ j * lo \in Nat /\ j * hi \in Nat
      OBVIOUS
    <3>8. (j + 1) * lo <= Len(f[j + 1]) /\ Len(f[j + 1]) <= (j + 1) * hi
      <4>1. PICK x \in Nat, y \in Nat : x = Len(f[j]) /\ y = Len(s[j + 1])
        BY <3>4
      <4>2. PICK u \in Nat, v \in Nat : u = j * lo /\ v = j * hi
        BY <3>7
      <4>3. u <= x /\ x <= v /\ lo <= y /\ y <= hi
        BY <3>5, <3>6, <4>1, <4>2
      <4>4. u + lo <= x + y /\ x + y <= v + hi
        BY <4>3
      <4>5. Len(f[j + 1]) = x + y /\ (j + 1) * lo = u + lo /\ (j + 1) * hi = v + hi
        BY <3>4, <3>7, <4>1, <4>2
      <4>6. QED
        BY <4>4, <4>5
    <3>9. QED
      BY <3>2, <3>8
  <2> HIDE DEF T
  <2>6. n - 1 \in T
    <3>1. Nat \subseteq T
      BY <2>4, <2>5, SetInduction
    <3>2. QED
      BY <2>1, <3>1
  <2>7. QED
    BY <2>1, <2>2, <2>6 DEF T
<1>3. QED
  BY <1>1, <1>2

\* w is what the sequences of s are put together to: each begins in it where
\* the one before it ends.
Places(off, s, w) ==
    /\ off \in [0 .. Len(s) -> Nat]
    /\ off[0] = 0 /\ off[Len(s)] = Len(w)
    /\ \A j \in 1 .. Len(s) :
          /\ off[j] = off[j - 1] + Len(s[j])
          /\ \A k \in 1 .. Len(s[j]) : w[off[j - 1] + k] = s[j][k]

LEMMA GrowsTo ==
    ASSUME NEW n \in Nat, NEW off \in [0 .. n -> Nat], \A i \in 1 .. n : off[i - 1] <= off[i],
           NEW x \in 0 .. n, NEW y \in 0 .. n, x <= y
    PROVE  off[x] <= off[y]
<1> DEFINE R == {d \in Nat : x + d <= n => off[x] <= off[x + d]}
<1>1. 0 \in R
  OBVIOUS
<1>2. ASSUME NEW d \in Nat, d \in R
      PROVE  d + 1 \in R
  <2>1. SUFFICES ASSUME x + (d + 1) <= n
                 PROVE  off[x] <= off[x + (d + 1)]
    OBVIOUS
  <2>2. x + (d + 1) \in 1 .. n /\ (x + (d + 1)) - 1 = x + d /\ x + d \in 0 .. n /\ x + d <= n
    BY <2>1
  <2>3. off[x] <= off[x + d]
    BY <1>2, <2>2
  <2>4. off[x + d] <= off[x + (d + 1)]
    BY <2>2
  <2>5. off[x] \in Nat /\ off[x + d] \in Nat /\ off[x + (d + 1)] \in Nat
    BY <2>2
  <2>6. QED
    BY <2>3, <2>4, <2>5
<1> HIDE DEF R
<1>3. Nat \subseteq R
  BY <1>1, <1>2, SetInduction
<1>4. y - x \in R /\ x + (y - x) = y
  BY <1>3
<1>5. QED
  BY <1>4 DEF R

LEMMA FlattenSeqPlaces ==
    ASSUME NEW S, NEW s \in Seq(Seq(S))
    PROVE  \E off : Places(off, s, FlattenSeq(s))
<1>1. CASE s = << >>
  <2>1. Len(s) = 0 /\ Len(FlattenSeq(s)) = 0
    BY <1>1, EmptySeq DEF FlattenSeq
  <2>2. Places([j \in 0 .. 0 |-> 0], s, FlattenSeq(s))
    BY <2>1 DEF Places
  <2>3. QED
    BY <2>2
<1>2. CASE s # << >>
  <2>1. PICK n \in Nat : n = Len(s) /\ n >= 1
    BY <1>2, EmptySeq, LenProperties
  <2>2. PICK f \in [1 .. n -> Seq(S)] : Flattens(f, s, n) /\ FlattenSeq(s) = f[n]
    BY <1>2, <2>1, FlattenSeqIs
  <2>3. /\ f[1] = s[1]
        /\ \A i \in Nat : 1 <= i /\ i + 1 <= n => f[i + 1] = Join(f[i], s[i + 1])
    BY <2>1, <2>2, FlattensSteps
  <2>4. /\ \A i \in 1 .. n : f[i] \in Seq(S) /\ Len(f[i]) \in Nat
        /\ \A i \in 1 .. n : s[i] \in Seq(S) /\ Len(s[i]) \in Nat
    <3>1. \A i \in 1 .. n : f[i] \in Seq(S) /\ s[i] \in Seq(S)
      BY <2>1, ElementOfSeq
    <3>2. QED
      BY <3>1, LenProperties
  <2> DEFINE off == [j \in 0 .. n |-> IF j = 0 THEN 0 ELSE Len(f[j])]
  <2>5. off \in [0 .. n -> Nat] /\ off[0] = 0 /\ \A j \in 1 .. n : off[j] = Len(f[j])
    BY <2>4
  <2> HIDE DEF off
  <2>6. ASSUME NEW j \in 1 .. n
        PROVE  Appends(S, f[j], IF j = 1 THEN << >> ELSE f[j - 1], off[j - 1], s[j], Len(s[j]))
    <3>1. CASE j = 1
      <4>1. f[j] = s[j] /\ off[j - 1] = 0 /\ 1 \in 1 .. n
        BY <2>1, <2>3, <2>5, <3>1
      <4>2. QED
        BY <2>4, <3>1, <4>1 DEF Appends
    <3>2. CASE j # 1
      <4>1. PICK i \in 1 .. n : i = j - 1 /\ i + 1 = j /\ i + 1 <= n /\ i \in Nat
        BY <3>2
      <4>2. f[j] = f[i] \o s[j]
        <5>1. f[i + 1] = Join(f[i], s[i + 1])
          BY <2>3, <4>1
        <5>2. QED
          BY <4>1, <5>1 DEF Join
      <4>3. off[i] = Len(f[i])
        BY <2>5
      <4>4. Appends(S, f[i] \o s[j], f[i], off[i], s[j], Len(s[j]))
        BY <2>4, <4>3, AppendsLemma
      <4>5. QED
        BY <3>2, <4>1, <4>2, <4>4
    <3>3. QED
      BY <3>1, <3>2
  <2>7. ASSUME NEW j \in 1 .. n
        PROVE  /\ off[j] = off[j - 1] + Len(s[j])
               /\ \A k \in 1 .. Len(s[j]) : f[j][off[j - 1] + k] = s[j][k]
    BY <2>5, <2>6 DEF Appends
  \* What stands in a prefix stands in those behind it.
  <2> DEFINE Stands(i) == \A j \in 1 .. n : j <= i =>
                             \A k \in 1 .. Len(s[j]) : f[i][off[j - 1] + k] = s[j][k]
             T == {i \in Nat : i + 1 <= n => Stands(i + 1)}
  <2>8. 0 \in T
    <3>1. SUFFICES ASSUME NEW j \in 1 .. n, j <= 0 + 1, NEW k \in 1 .. Len(s[j])
                   PROVE  f[0 + 1][off[j - 1] + k] = s[j][k]
      OBVIOUS
    <3>2. j = 1 /\ 0 + 1 = 1
      BY <3>1
    <3>3. QED
      BY <2>7, <3>2
  <2>9. ASSUME NEW i \in Nat, i \in T
        PROVE  i + 1 \in T
    <3>1. SUFFICES ASSUME (i + 1) + 1 <= n, NEW j \in 1 .. n, j <= (i + 1) + 1,
                          NEW k \in 1 .. Len(s[j])
                   PROVE  f[(i + 1) + 1][off[j - 1] + k] = s[j][k]
      OBVIOUS
    <3>2. PICK h \in 1 .. n : h = i + 1 /\ h + 1 \in 1 .. n /\ h + 1 = (i + 1) + 1 /\ h + 1 # 1
      BY <2>1, <3>1
    <3>3. CASE j = h + 1
      BY <2>7, <3>2, <3>3
    <3>4. CASE j # h + 1
      <4>1. j <= h
        BY <3>1, <3>2, <3>4
      <4>2. f[h][off[j - 1] + k] = s[j][k]
        BY <2>9, <3>1, <3>2, <4>1
      <4>3. off[j - 1] + k \in 1 .. off[h]
        <5>1. off[j] = off[j - 1] + Len(s[j]) /\ off[j - 1] \in Nat /\ off[j] \in Nat
          BY <2>5, <2>7
        <5>2. \A i0 \in 1 .. n : off[i0 - 1] <= off[i0]
          <6>1. TAKE i0 \in 1 .. n
          <6>2. i0 - 1 \in 0 .. n
            OBVIOUS
          <6>3. off[i0 - 1] \in Nat /\ Len(s[i0]) \in Nat /\ off[i0] = off[i0 - 1] + Len(s[i0])
            BY <2>4, <2>5, <2>7, <6>2
          <6>4. QED
            BY <6>3
        <5>3. off[j] <= off[h] /\ off[h] \in Nat
          <6>1. j \in 0 .. n /\ h \in 0 .. n
            OBVIOUS
          <6>2. QED
            BY <2>5, <4>1, <5>2, <6>1, GrowsTo
        <5>4. PICK a \in Nat, b \in Nat, l \in Nat : a = off[j - 1] /\ b = off[h] /\ l = Len(s[j])
          BY <2>4, <5>1, <5>3
        <5>5. k \in 1 .. l /\ a + l <= b
          BY <5>1, <5>3, <5>4
        <5>6. a + k \in 1 .. b
          BY <5>5
        <5>7. QED
          BY <5>4, <5>6
      <4>4. Appends(S, f[h + 1], f[h], off[h], s[h + 1], Len(s[h + 1]))
        <5>1. (h + 1) - 1 = h
          OBVIOUS
        <5>2. QED
          BY <2>6, <3>2, <5>1
      <4>5. f[h + 1][off[j - 1] + k] = f[h][off[j - 1] + k]
        BY <4>3, <4>4 DEF Appends
      <4>6. QED
        BY <3>2, <4>2, <4>5
    <3>5. QED
      BY <3>3, <3>4
  <2> HIDE DEF T
  <2>10. n - 1 \in T
    <3>1. Nat \subseteq T
      BY <2>8, <2>9, SetInduction
    <3>2. QED
      BY <2>1, <3>1
  <2>11. Stands(n)
    BY <2>1, <2>10 DEF T
  <2>12. Places(off, s, f[n])
    <3>1. n \in 1 .. n /\ \A j \in 1 .. n : j <= n
      BY <2>1
    <3>2. off[n] = Len(f[n])
      BY <2>5, <3>1
    <3>3. \A j \in 1 .. n : \A k \in 1 .. Len(s[j]) : f[n][off[j - 1] + k] = s[j][k]
      BY <2>11, <3>1
    <3>4. \A j \in 1 .. n : off[j] = off[j - 1] + Len(s[j])
      BY <2>7
    <3>5. QED
      BY <2>1, <2>5, <3>2, <3>3, <3>4 DEF Places
  <2>13. QED
    BY <2>2, <2>12
<1>3. QED
  BY <1>1, <1>2

-------------------------------------------------------------------------------
(* Functions that are defined from one side *)

Stepping(S, n, base, step) == n \in Nat /\ base \in S /\ step \in [1 .. n -> [S -> S]]
Iterates(f, S, n, base, step) ==
    f \in [0 .. n -> S] /\ f[0] = base /\ \A i \in 1 .. n : f[i] = step[i][f[i - 1]]

\* A function that looks at its value before exists.
LEMMA PrefixFunction ==
    ASSUME NEW S, NEW n, NEW base, NEW step, Stepping(S, n, base, step)
    PROVE  \E f : Iterates(f, S, n, base, step)
<1> USE DEF Stepping, Iterates
<1> DEFINE Good(f, k) == f[0] = base /\ \A i \in 1 .. k : f[i] = step[i][f[i - 1]]
           T == {k \in Nat : k <= n => \E f \in [0 .. k -> S] : Good(f, k)}
<1>1. 0 \in T
  <2>1. [i \in 0 .. 0 |-> base] \in [0 .. 0 -> S] /\ Good([i \in 0 .. 0 |-> base], 0)
    OBVIOUS
  <2>2. QED
    BY <2>1
<1>2. ASSUME NEW k \in Nat, k \in T
      PROVE  k + 1 \in T
  <2>1. SUFFICES ASSUME k + 1 <= n
                 PROVE  \E f \in [0 .. k + 1 -> S] : Good(f, k + 1)
    OBVIOUS
  <2>2. PICK f \in [0 .. k -> S] : Good(f, k)
    BY <1>2, <2>1
  <2> DEFINE e == step[k + 1][f[k]]
             g == [i \in 0 .. k + 1 |-> IF i = k + 1 THEN e ELSE f[i]]
  <2>3. e \in S
    BY <2>1
  <2>4. g \in [0 .. k + 1 -> S] /\ g[0] = base
    BY <2>2, <2>3
  <2>5. ASSUME NEW i \in 1 .. k + 1
        PROVE  g[i] = step[i][g[i - 1]]
    <3>1. CASE i = k + 1
      BY <3>1
    <3>2. CASE i # k + 1
      <4>1. i \in 1 .. k /\ g[i] = f[i] /\ g[i - 1] = f[i - 1]
        BY <3>2
      <4>2. QED
        BY <2>2, <4>1
    <3>3. QED
      BY <3>1, <3>2
  <2>6. QED
    BY <2>4, <2>5
<1> HIDE DEF T
<1>3. n \in T
  BY <1>1, <1>2, SetInduction
<1>4. QED
  BY <1>3 DEF T

\* From each position of 1 .. n one goes on to one behind it, up to n + 1.
Onward(next, n) ==
    n \in Nat /\ next \in [1 .. n -> 1 .. n + 1] /\ \A i \in 1 .. n : next[i] > i

Looking(S, n, base, step, next) ==
    base \in S /\ step \in [1 .. n -> [S -> S]] /\ Onward(next, n)
Unrolls(f, S, n, base, step, next) ==
    /\ f \in [1 .. n + 1 -> S] /\ f[n + 1] = base
    /\ \A i \in 1 .. n : f[i] = step[i][f[next[i]]]

\* A function that looks at a value behind exists.
LEMMA SuffixFunction ==
    ASSUME NEW S, NEW n, NEW base, NEW step, NEW next, Looking(S, n, base, step, next)
    PROVE  \E f : Unrolls(f, S, n, base, step, next)
<1> USE DEF Onward, Looking, Unrolls
<1> DEFINE Good(f, k) == f[n + 1] = base /\ \A i \in k .. n : f[i] = step[i][f[next[i]]]
           T == {k \in Nat : k <= n => \E f \in [(n + 1) - k .. n + 1 -> S] : Good(f, (n + 1) - k)}
<1>1. 0 \in T
  <2> DEFINE f == [i \in (n + 1) - 0 .. n + 1 |-> base]
  <2>1. f \in [(n + 1) - 0 .. n + 1 -> S] /\ Good(f, (n + 1) - 0)
    OBVIOUS
  <2>2. QED
    BY <2>1
<1>2. ASSUME NEW k \in Nat, k \in T
      PROVE  k + 1 \in T
  <2>1. SUFFICES ASSUME k + 1 <= n
                 PROVE  \E f \in [(n + 1) - (k + 1) .. n + 1 -> S] : Good(f, (n + 1) - (k + 1))
    OBVIOUS
  <2>2. PICK f \in [(n + 1) - k .. n + 1 -> S] : Good(f, (n + 1) - k)
    BY <1>2, <2>1
  <2>3. PICK m \in 1 .. n : m = n - k /\ (n + 1) - (k + 1) = m /\ (n + 1) - k = m + 1
    BY <2>1
  <2>4. next[m] \in m + 1 .. n + 1
    OBVIOUS
  <2> DEFINE e == step[m][f[next[m]]]
             g == [i \in m .. n + 1 |-> IF i = m THEN e ELSE f[i]]
  <2>5. e \in S
    BY <2>2, <2>3, <2>4
  <2>6. g \in [m .. n + 1 -> S] /\ g[n + 1] = base
    BY <2>2, <2>3, <2>5
  <2>7. ASSUME NEW i \in m .. n
        PROVE  g[i] = step[i][g[next[i]]]
    <3>1. CASE i = m
      BY <2>4, <3>1
    <3>2. CASE i # m
      <4>1. i \in m + 1 .. n /\ next[i] \in m + 1 .. n + 1
        BY <3>2
      <4>2. g[i] = f[i] /\ g[next[i]] = f[next[i]]
        BY <4>1
      <4>3. QED
        BY <2>2, <2>3, <4>1, <4>2
    <3>3. QED
      BY <3>1, <3>2
  <2>8. QED
    BY <2>3, <2>6, <2>7
<1> HIDE DEF T
<1>3. n \in T
  BY <1>1, <1>2, SetInduction
<1>4. PICK f \in [(n + 1) - n .. n + 1 -> S] : Good(f, (n + 1) - n)
  BY <1>3 DEF T
<1>5. (n + 1) - n = 1
  OBVIOUS
<1>6. QED
  BY <1>4, <1>5

JoinsFrom(f, n, piece, next) ==
    f = [i \in 1 .. n + 1 |-> IF i > n THEN << >> ELSE Join(piece[i], f[next[i]])]

\* So does one that puts something in front of the sequence it finds there.
LEMMA SuffixJoin ==
    ASSUME NEW n, NEW piece, NEW next, Onward(next, n)
    PROVE  \E f : JoinsFrom(f, n, piece, next)
<1> USE DEF Onward, JoinsFrom
<1> DEFINE Good(f, k) == f[n + 1] = << >> /\ \A i \in k .. n : f[i] = Join(piece[i], f[next[i]])
           T == {k \in Nat : k <= n => \E f : Good(f, (n + 1) - k)}
<1>1. 0 \in T
  <2> DEFINE f == [i \in n + 1 .. n + 1 |-> << >>]
  <2>1. Good(f, (n + 1) - 0)
    OBVIOUS
  <2>2. QED
    BY <2>1
<1>2. ASSUME NEW k \in Nat, k \in T
      PROVE  k + 1 \in T
  <2>1. SUFFICES ASSUME k + 1 <= n
                 PROVE  \E f : Good(f, (n + 1) - (k + 1))
    OBVIOUS
  <2>2. PICK f : Good(f, (n + 1) - k)
    BY <1>2, <2>1
  <2>3. PICK m \in 1 .. n : m = n - k /\ (n + 1) - (k + 1) = m /\ (n + 1) - k = m + 1
    BY <2>1
  <2> DEFINE g == [i \in m .. n + 1 |-> IF i = m THEN Join(piece[m], f[next[m]]) ELSE f[i]]
  <2>4. g[n + 1] = << >>
    BY <2>2, <2>3
  <2>5. ASSUME NEW i \in m .. n
        PROVE  g[i] = Join(piece[i], g[next[i]])
    <3>1. next[i] \in m + 1 .. n + 1
      OBVIOUS
    <3>2. g[next[i]] = f[next[i]]
      BY <3>1
    <3>3. CASE i = m
      BY <3>2, <3>3
    <3>4. CASE i # m
      <4>1. i \in m + 1 .. n /\ g[i] = f[i]
        BY <3>4
      <4>2. QED
        BY <2>2, <2>3, <3>2, <4>1
    <3>5. QED
      BY <3>3, <3>4
  <2>6. QED
    BY <2>3, <2>4, <2>5
<1> HIDE DEF T
<1>3. n \in T
  BY <1>1, <1>2, SetInduction
<1>4. PICK f : Good(f, (n + 1) - n)
  BY <1>3 DEF T
<1> DEFINE h == [i \in 1 .. n + 1 |-> f[i]]
<1>5. ASSUME NEW i \in 1 .. n + 1
      PROVE  h[i] = IF i > n THEN << >> ELSE Join(piece[i], h[next[i]])
  <2>1. CASE i = n + 1
    BY <1>4, <2>1
  <2>2. CASE i # n + 1
    <3>1. i \in 1 .. n /\ ~(i > n) /\ next[i] \in 1 .. n + 1 /\ (n + 1) - n = 1
      BY <2>2
    <3>2. h[next[i]] = f[next[i]] /\ h[i] = f[i]
      BY <3>1
    <3>3. QED
      BY <1>4, <3>1, <3>2
  <2>3. QED
    BY <2>1, <2>2
<1>6. h = [i \in 1 .. n + 1 |-> IF i > n THEN << >> ELSE Join(piece[i], h[next[i]])]
  BY <1>5
<1>7. QED
  BY <1>6

\* What is so at the end, and at each position from which one goes on to a
\* position where it is so, is so everywhere.
LEMMA SuffixInduction ==
    ASSUME NEW n, NEW next, Onward(next, n),
           NEW T, n + 1 \in T, \A i \in 1 .. n : next[i] \in T => i \in T
    PROVE  1 .. n + 1 \subseteq T
<1> USE DEF Onward
<1> DEFINE R == {k \in Nat : k <= n => (n + 1) - k .. n + 1 \subseteq T}
<1>1. 0 \in R
  OBVIOUS
<1>2. ASSUME NEW k \in Nat, k \in R
      PROVE  k + 1 \in R
  <2>1. SUFFICES ASSUME k + 1 <= n
                 PROVE  (n + 1) - (k + 1) .. n + 1 \subseteq T
    OBVIOUS
  <2>2. PICK m \in 1 .. n : m = n - k /\ (n + 1) - (k + 1) = m /\ (n + 1) - k = m + 1
    BY <2>1
  <2>3. m + 1 .. n + 1 \subseteq T
    BY <1>2, <2>1, <2>2
  <2>4. next[m] \in T
    BY <2>3
  <2>5. m \in T
    BY <2>4
  <2>6. QED
    BY <2>2, <2>3, <2>5
<1> HIDE DEF R
<1>3. n \in R
  BY <1>1, <1>2, SetInduction
<1>4. (n + 1) - n = 1
  OBVIOUS
<1>5. QED
  BY <1>3, <1>4 DEF R
===============================================================================
