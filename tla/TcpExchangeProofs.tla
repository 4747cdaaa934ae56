--------------------------- MODULE TcpExchangeProofs ---------------------------
(***************************************************************************)
(* Theorems about DNS over TCP under the event loop: for any number of      *)
(* clients, connections, slots and messages.                                *)
(***************************************************************************)
EXTENDS TcpExchange, Induction, FiniteSetTheorems

Peers == Clients \cup Upstreams

-------------------------------------------------------------------------------
(* The list of watchers *)

Lists == [Slots -> Watchers \cup {NULL}]
In(wl) == {wl[s] : s \in Slots} \ {NULL}

\* No watcher is in two slots.
OneSlot(wl) == \A s, t \in Slots : wl[s] # NULL /\ wl[s] = wl[t] => s = t

LEMMA FirstOfSlots ==
    ASSUME NEW T, T \subseteq Slots, T # {}
    PROVE  First(T) \in T
<1>1. T \subseteq Nat
  BY ExchangeAssumption DEF Slots
<1>2. \E s \in T : \A t \in T : s <= t
  BY <1>1, LeastNat
<1>3. QED
  BY <1>2 DEF First

LEMMA StoppedList ==
    ASSUME NEW wl \in Lists, NEW w
    PROVE  /\ Stopped(wl, w) \in Lists
           /\ In(Stopped(wl, w)) = In(wl) \ {w}
           /\ w \in In(wl) => Stopped(wl, w) # wl
           /\ OneSlot(wl) => OneSlot(Stopped(wl, w))
BY DEF Stopped, Lists, In, OneSlot

LEMMA StartedList ==
    ASSUME NEW wl \in Lists, NEW w \in Watchers, Vacant(wl) # {}
    PROVE  /\ Started(wl, w) \in Lists
           /\ In(Started(wl, w)) = In(wl) \cup {w}
           /\ Started(wl, w) # wl
           /\ OneSlot(wl) /\ w \notin In(wl) => OneSlot(Started(wl, w))
<1>1. PICK s \in Slots : s = First(Vacant(wl)) /\ wl[s] = NULL
  <2>1. Vacant(wl) \subseteq Slots
    BY DEF Vacant
  <2>2. First(Vacant(wl)) \in Vacant(wl)
    BY <2>1, FirstOfSlots
  <2>3. QED
    BY <2>2 DEF Vacant
<1>2. w # NULL
  BY ExchangeAssumption
<1>3. Started(wl, w) = [wl EXCEPT ![s] = w]
  BY <1>1 DEF Started
<1>4. /\ Started(wl, w)[s] = w
      /\ \A t \in Slots : t # s => Started(wl, w)[t] = wl[t]
      /\ Started(wl, w) \in Lists
  BY <1>3 DEF Lists
<1>5. In(Started(wl, w)) = In(wl) \cup {w}
  BY <1>1, <1>2, <1>4 DEF In
<1>6. Started(wl, w) # wl
  BY <1>1, <1>2, <1>4
<1>7. ASSUME OneSlot(wl), w \notin In(wl)
      PROVE  OneSlot(Started(wl, w))
  BY <1>2, <1>4, <1>7 DEF OneSlot, In
<1>8. QED
  BY <1>4, <1>5, <1>6, <1>7

\* Two slots are vacant when there are two or more.
LEMMA SecondVacant ==
    ASSUME NEW wl \in Lists, Cardinality(Vacant(wl)) >= 2, NEW w \in Watchers
    PROVE  Vacant(wl) # {} /\ Vacant(Started(wl, w)) # {}
<1>1. IsFiniteSet(Vacant(wl))
  <2>1. 0 \in Int /\ WLIST_SIZE - 1 \in Int
    BY ExchangeAssumption
  <2>2. IsFiniteSet(Slots)
    BY <2>1, FS_Interval DEF Slots
  <2>3. Vacant(wl) \subseteq Slots
    BY DEF Vacant
  <2>4. QED
    BY <2>2, <2>3, FS_Subset
<1>2. Vacant(wl) # {}
  BY FS_EmptySet, <1>1
<1>3. PICK s \in Vacant(wl) : s = First(Vacant(wl))
  BY <1>2, FirstOfSlots DEF Vacant
<1>4. \E t \in Vacant(wl) : t # s
  <2>1. SUFFICES ASSUME Vacant(wl) \subseteq {s}
                 PROVE  FALSE
    OBVIOUS
  <2>2. Cardinality({s}) = 1 /\ IsFiniteSet({s})
    BY FS_Singleton
  <2>3. Cardinality(Vacant(wl)) <= Cardinality({s}) /\ Cardinality(Vacant(wl)) \in Nat
    BY <1>1, <2>1, <2>2, FS_Subset, FS_CardinalityType
  <2>4. QED
    BY <2>2, <2>3
<1>5. QED
  BY <1>2, <1>3, <1>4 DEF Started, Vacant, Lists

-------------------------------------------------------------------------------
(* Sequences of bytes *)

\* What two sequences that make up the same have in common.
LEMMA CommonFront ==
    ASSUME NEW a \in Seq(Nat), NEW b \in Seq(Nat), NEW c \in Seq(Nat), NEW d \in Seq(Nat),
           a \o b = c \o d
    PROVE  /\ \A n \in Nat : n <= Len(a) /\ n <= Len(c) => SubSeq(a, 1, n) = SubSeq(c, 1, n)
           /\ Len(c) <= Len(a) => SubSeq(a, Len(c) + 1, Len(a)) \o b = d
           /\ Len(a) + Len(b) = Len(c) + Len(d)
<1>1. /\ Len(a) \in Nat /\ Len(b) \in Nat /\ Len(c) \in Nat /\ Len(d) \in Nat
      /\ Len(a) + Len(b) = Len(c) + Len(d)
  BY ConcatProperties, LenProperties
<1>2. \A i \in 1 .. Len(a) + Len(b) :
         (IF i <= Len(a) THEN a[i] ELSE b[i - Len(a)]) =
         (IF i <= Len(c) THEN c[i] ELSE d[i - Len(c)])
  BY <1>1, ConcatProperties
<1>3. ASSUME NEW n \in Nat, n <= Len(a), n <= Len(c)
      PROVE  SubSeq(a, 1, n) = SubSeq(c, 1, n)
  <2>1. \A i \in 1 .. n : a[i] = c[i] /\ a[i] \in Nat /\ c[i] \in Nat
    <3>1. ASSUME NEW i \in 1 .. n
          PROVE  i \in 1 .. Len(a) /\ i \in 1 .. Len(c) /\ i \in 1 .. Len(a) + Len(b)
      BY <1>1, <1>3
    <3>2. (\A i \in 1 .. Len(a) : a[i] \in Nat) /\ (\A i \in 1 .. Len(c) : c[i] \in Nat)
      BY ElementOfSeq, Zenon
    <3>3. ASSUME NEW i \in 1 .. n
          PROVE  a[i] = c[i]
      <4>1. i <= Len(a) /\ i <= Len(c)
        BY <1>1, <3>1
      <4>2. QED
        BY <1>2, <3>1, <4>1
    <3>4. QED
      BY <3>1, <3>2, <3>3
  <2>2. /\ SubSeq(a, 1, n) \in Seq(Nat) /\ SubSeq(c, 1, n) \in Seq(Nat)
        /\ Len(SubSeq(a, 1, n)) = n /\ Len(SubSeq(c, 1, n)) = n
        /\ \A i \in 1 .. n : SubSeq(a, 1, n)[i] = a[i] /\ SubSeq(c, 1, n)[i] = c[i]
    BY <2>1, SubSeqProperties
  <2>3. QED
    BY <2>1, <2>2, SeqEqual
<1>4. ASSUME Len(c) <= Len(a)
      PROVE  SubSeq(a, Len(c) + 1, Len(a)) \o b = d
  <2> DEFINE e == SubSeq(a, Len(c) + 1, Len(a))
  <2>1. /\ e \in Seq(Nat) /\ Len(e) = Len(a) - Len(c)
        /\ \A i \in 1 .. Len(a) - Len(c) : e[i] = a[i + Len(c)]
    <3>1. \A i \in Len(c) + 1 .. Len(a) : a[i] \in Nat
      BY <1>1, ElementOfSeq
    <3>2. /\ e \in Seq(Nat)
          /\ Len(e) = IF Len(c) + 1 <= Len(a) THEN Len(a) - (Len(c) + 1) + 1 ELSE 0
          /\ \A i \in 1 .. Len(a) - (Len(c) + 1) + 1 : e[i] = a[Len(c) + 1 + i - 1]
      BY <1>1, <3>1, SubSeqProperties
    <3>3. QED
      BY <1>1, <1>4, <3>2
  <2> HIDE DEF e
  <2>2. /\ e \o b \in Seq(Nat) /\ Len(e \o b) = Len(d)
        /\ \A i \in 1 .. Len(d) : (e \o b)[i] = IF i <= Len(e) THEN e[i] ELSE b[i - Len(e)]
    <3>1. /\ e \o b \in Seq(Nat) /\ Len(e \o b) = Len(e) + Len(b)
          /\ \A i \in 1 .. Len(e) + Len(b) :
                (e \o b)[i] = IF i <= Len(e) THEN e[i] ELSE b[i - Len(e)]
      <4>1. e \in Seq(Nat) /\ b \in Seq(Nat)
        BY <2>1
      <4>2. QED
        BY <4>1, ConcatProperties
    <3>2. Len(e) + Len(b) = Len(d)
      BY <1>1, <2>1
    <3>3. QED
      BY <3>1, <3>2
  <2>3. ASSUME NEW i \in 1 .. Len(d)
        PROVE  (e \o b)[i] = d[i]
    <3>1. i + Len(c) \in 1 .. Len(a) + Len(b) /\ ~(i + Len(c) <= Len(c))
      BY <1>1
    <3>2. (IF i + Len(c) <= Len(a) THEN a[i + Len(c)] ELSE b[(i + Len(c)) - Len(a)]) =
          d[(i + Len(c)) - Len(c)]
      BY <1>2, <3>1
    <3>3. (i + Len(c)) - Len(c) = i /\ (i + Len(c)) - Len(a) = i - Len(e)
      BY <1>1, <2>1
    <3>a. (e \o b)[i] = IF i <= Len(e) THEN e[i] ELSE b[i - Len(e)]
      BY <2>2
    <3>4. CASE i + Len(c) <= Len(a)
      <4>1. i <= Len(e) /\ i \in 1 .. Len(a) - Len(c)
        BY <1>1, <2>1, <3>4
      <4>2. e[i] = a[i + Len(c)]
        BY <2>1, <4>1
      <4>3. QED
        BY <3>2, <3>3, <3>4, <3>a, <4>1, <4>2
    <3>5. CASE ~(i + Len(c) <= Len(a))
      <4>1. ~(i <= Len(e))
        BY <1>1, <2>1, <3>5
      <4>2. QED
        BY <3>2, <3>3, <3>5, <3>a, <4>1
    <3>6. QED
      BY <3>4, <3>5
  <2>4. e \o b = d
    BY <2>2, <2>3, SeqEqual
  <2>5. QED
    BY <2>4 DEF e
<1>5. QED
  BY <1>1, <1>3, <1>4

LEMMA JoinBytes ==
    /\ \A a, b \in Seq(Nat) : Join(a, b) \in Seq(Nat) /\ Len(Join(a, b)) = Len(a) + Len(b)
    /\ \A a, b, c \in Seq(Nat) : Join(Join(a, b), c) = Join(a, Join(b, c))
    /\ \A a \in Seq(Nat) : Join(<< >>, a) = a /\ Join(a, << >>) = a
<1>1. /\ \A a, b \in Seq(Nat) : Join(a, b) \in Seq(Nat)
      /\ \A a, b, c \in Seq(Nat) : Join(Join(a, b), c) = Join(a, Join(b, c))
  <2>1. ASSUME NEW a \in Seq(Nat), NEW b \in Seq(Nat)
        PROVE  Join(a, b) \in Seq(Nat)
    BY ConcatProperties, Zenon DEF Join
  <2>2. ASSUME NEW a \in Seq(Nat), NEW b \in Seq(Nat), NEW c \in Seq(Nat)
        PROVE  Join(Join(a, b), c) = Join(a, Join(b, c))
    BY JoinProperties
  <2>3. QED
    BY <2>1, <2>2
<1>2. ASSUME NEW a \in Seq(Nat), NEW b \in Seq(Nat)
      PROVE  Len(Join(a, b)) = Len(a) + Len(b)
  BY ConcatProperties DEF Join
<1>3. ASSUME NEW a \in Seq(Nat)
      PROVE  Join(<< >>, a) = a /\ Join(a, << >>) = a
  BY ConcatEmptySeq DEF Join
<1>4. QED
  BY <1>1, <1>2, <1>3

\* The front of what begins with c is c, and the rest what follows c.
LEMMA TakeFront ==
    ASSUME NEW a \in Seq(Nat), NEW b \in Seq(Nat), NEW c \in Seq(Nat), NEW d \in Seq(Nat),
           Join(a, b) = Join(c, d)
    PROVE  /\ Len(c) <= Len(a) => SubSeq(a, 1, Len(c)) = SubSeq(c, 1, Len(c))
           /\ Len(c) <= Len(a) => Join(SubSeq(a, Len(c) + 1, Len(a)), b) = d
           /\ \A n \in Nat : n <= Len(a) /\ n <= Len(c) => SubSeq(a, 1, n) = SubSeq(c, 1, n)
<1>1. a \o b = c \o d
  BY DEF Join
<1>2. /\ \A n \in Nat : n <= Len(a) /\ n <= Len(c) => SubSeq(a, 1, n) = SubSeq(c, 1, n)
      /\ Len(c) <= Len(a) => SubSeq(a, Len(c) + 1, Len(a)) \o b = d
  BY <1>1, CommonFront
<1>3. Len(c) \in Nat /\ Len(c) <= Len(c)
  BY LenProperties
<1>4. QED
  BY <1>2, <1>3 DEF Join

LEMMA MessageLemma ==
    ASSUME NEW l \in Nat
    PROVE  /\ Text(l) \in Seq(Nat) /\ Len(Text(l)) = l
           /\ <<0, l>> \in Seq(Nat) /\ Len(<<0, l>>) = 2
           /\ MessageOf(l) = <<0, l>> \o Text(l)
           /\ MessageOf(l) \in Seq(Nat) /\ Len(MessageOf(l)) = 2 + l
<1>1. Text(l) \in Seq(Nat) /\ Len(Text(l)) = l
  BY DEF Text
<1>2. <<0, l>> \in Seq(Nat) /\ Len(<<0, l>>) = 2
  OBVIOUS
<1>3. MessageOf(l) = <<0, l>> \o Text(l)
  BY DEF MessageOf
<1>4. QED
  BY <1>1, <1>2, <1>3, ConcatProperties

\* The messages of lengths s from the k-th on.
Rest(s, k) == FlattenSeq([i \in 1 .. Len(s) - k + 1 |-> MessageOf(s[i + k - 1])])

LEMMA RestLemma ==
    ASSUME NEW s \in Seq(Nat)
    PROVE  /\ \A k \in 1 .. Len(s) + 1 : Rest(s, k) \in Seq(Nat)
           /\ Rest(s, Len(s) + 1) = << >>
           /\ \A k \in 1 .. Len(s) : Rest(s, k) = Join(MessageOf(s[k]), Rest(s, k + 1))
<1> DEFINE M(k) == [i \in 1 .. Len(s) - k + 1 |-> MessageOf(s[i + k - 1])]
<1>1. Len(s) \in Nat /\ \A k \in 1 .. Len(s) : s[k] \in Nat /\ MessageOf(s[k]) \in Seq(Nat)
  BY LenProperties, ElementOfSeq, MessageLemma
<1>2. ASSUME NEW k \in 1 .. Len(s) + 1
      PROVE  M(k) \in Seq(Seq(Nat)) /\ Len(M(k)) = Len(s) - k + 1
  <2>0. Len(s) - k + 1 \in Nat
    BY <1>1
  <2>1. PICK n \in Nat : n = Len(s) - k + 1
    BY <2>0
  <2>2. \A i \in 1 .. n : MessageOf(s[i + k - 1]) \in Seq(Nat)
    BY <1>1, <2>1
  <2>3. QED
    BY <2>1, <2>2
<1>3. \A k \in 1 .. Len(s) + 1 : Rest(s, k) \in Seq(Nat)
  BY <1>2, FlattenSeqType DEF Rest
<1>4. Rest(s, Len(s) + 1) = << >>
  <2>1. M(Len(s) + 1) = << >>
    BY <1>1, <1>2, EmptySeq
  <2>2. QED
    BY <2>1 DEF Rest, FlattenSeq
<1>5. ASSUME NEW k \in 1 .. Len(s)
      PROVE  Rest(s, k) = Join(MessageOf(s[k]), Rest(s, k + 1))
  <2>1. k \in 1 .. Len(s) + 1 /\ k + 1 \in 1 .. Len(s) + 1
    BY <1>1
  <2>2. M(k) \in Seq(Seq(Nat)) /\ M(k) # << >> /\ Len(M(k)) = Len(s) - k + 1
    <3>1. Len(M(k)) # 0
      BY <1>1, <1>2, <2>1
    <3>2. QED
      BY <1>2, <2>1, <3>1, EmptySeq
  <2>3. M(k)[1] = MessageOf(s[k])
    BY <1>1
  <2>4. Tail(M(k)) = M(k + 1)
    <3>0. PICK m, t : m = M(k) /\ t = M(k + 1)
      OBVIOUS
    <3>1. /\ Tail(m) \in Seq(Seq(Nat)) /\ Len(Tail(m)) = Len(m) - 1
          /\ \A i \in 1 .. Len(Tail(m)) : Tail(m)[i] = m[i + 1]
      <4>1. m \in Seq(Seq(Nat)) /\ m # << >>
        BY <2>2, <3>0
      <4>2. QED
        BY <4>1, HeadTailProperties
    <3>2. Len(m) = Len(s) - k + 1 /\ t \in Seq(Seq(Nat)) /\ Len(t) = Len(s) - (k + 1) + 1
      BY <1>2, <2>1, <3>0
    <3>3. \A i \in 1 .. Len(s) - k : m[i + 1] = t[i]
      BY <1>1, <3>0
    <3>4. Len(Tail(m)) = Len(s) - k /\ Len(t) = Len(s) - k
      <4>1. PICK n : n = Len(s)
        OBVIOUS
      <4>2. n \in Nat /\ k \in 1 .. n
        BY <1>1, <4>1
      <4>3. (n - k + 1) - 1 = n - k /\ n - (k + 1) + 1 = n - k
        BY <4>2
      <4>4. QED
        BY <3>1, <3>2, <4>1, <4>3, Zenon
    <3>5. Tail(m) = t
      <4>1. \A i \in 1 .. Len(Tail(m)) : Tail(m)[i] = t[i]
        BY <3>1, <3>3, <3>4
      <4>2. QED
        BY <3>1, <3>2, <3>4, <4>1, SeqEqual, Zenon
    <3>6. QED
      BY <3>0, <3>5
  <2>5. QED
    BY <2>2, <2>3, <2>4, FlattenSeqFront DEF Rest
<1>6. QED
  BY <1>3, <1>4, <1>5

\* Each message has two bytes or more.
LEMMA RestShrinks ==
    ASSUME NEW s \in Seq(Nat)
    PROVE  \A k \in 1 .. Len(s) : Len(Rest(s, k)) = 2 + s[k] + Len(Rest(s, k + 1))
<1>1. SUFFICES ASSUME NEW k \in 1 .. Len(s)
               PROVE  Len(Rest(s, k)) = 2 + s[k] + Len(Rest(s, k + 1))
  OBVIOUS
<1>2. k + 1 \in 1 .. Len(s) + 1 /\ s[k] \in Nat
  BY LenProperties, ElementOfSeq
<1>3. /\ MessageOf(s[k]) \in Seq(Nat) /\ Rest(s, k + 1) \in Seq(Nat)
      /\ Len(MessageOf(s[k])) = 2 + s[k]
      /\ Rest(s, k) = MessageOf(s[k]) \o Rest(s, k + 1)
  BY <1>2, RestLemma, MessageLemma DEF Join
<1>4. Len(Rest(s, k)) = Len(MessageOf(s[k])) + Len(Rest(s, k + 1))
  BY <1>3, ConcatProperties
<1>5. QED
  BY <1>3, <1>4

LEMMA Descent ==
    ASSUME NEW m \in Nat, NEW L \in [1 .. m -> Nat],
           \A i, h \in 1 .. m : h = i + 1 => L[i] >= L[h] + 2,
           NEW j \in 1 .. m, NEW k \in 1 .. m, j < k
    PROVE  L[j] >= L[k] + 2
<1> DEFINE T == {d \in Nat : \A i, h \in 1 .. m : h = i + d /\ d > 0 => L[i] >= L[h] + 2}
<1>1. 0 \in T
  OBVIOUS
<1>2. ASSUME NEW d \in Nat, d \in T
      PROVE  d + 1 \in T
  <2>1. SUFFICES ASSUME NEW i \in 1 .. m, NEW h \in 1 .. m, h = i + (d + 1)
                 PROVE  L[i] >= L[h] + 2
    OBVIOUS
  <2>2. PICK g \in 1 .. m : g = i + d /\ h = g + 1
    <3>1. i + d \in 1 .. m /\ h = (i + d) + 1
      BY <2>1
    <3>2. QED
      BY <3>1
  <2>3. PICK p \in Nat, q \in Nat, r \in Nat : p = L[i] /\ q = L[g] /\ r = L[h]
    OBVIOUS
  <2>4. q >= r + 2
    BY <2>2, <2>3
  <2>5. CASE d = 0
    <3>1. g = i
      BY <2>2, <2>5
    <3>2. QED
      BY <2>3, <2>4, <3>1
  <2>6. CASE d > 0
    <3>1. p >= q + 2
      BY <1>2, <2>2, <2>3, <2>6
    <3>2. p >= r + 2
      BY <2>3, <2>4, <3>1
    <3>3. QED
      BY <2>3, <3>2
  <2>7. QED
    BY <2>5, <2>6
<1>3. Nat \subseteq T
  <2> HIDE DEF T
  <2>1. QED
    BY <1>1, <1>2, SetInduction
<1>4. PICK d \in Nat : d > 0 /\ k = j + d
  <2>1. k - j \in Nat /\ k - j > 0 /\ k = j + (k - j)
    OBVIOUS
  <2>2. QED
    BY <2>1
<1>5. d \in T
  BY <1>3
<1>6. QED
  BY <1>4, <1>5

LEMMA RestOrder ==
    ASSUME NEW s \in Seq(Nat), NEW j \in 1 .. Len(s) + 1, NEW k \in 1 .. Len(s) + 1, j < k
    PROVE  Len(Rest(s, j)) >= Len(Rest(s, k)) + 2
<1>1. PICK m \in Nat : m = Len(s) + 1
  <2>1. Len(s) + 1 \in Nat
    BY LenProperties
  <2>2. QED
    BY <2>1
<1>2. PICK L \in [1 .. m -> Nat] : \A i \in 1 .. m : L[i] = Len(Rest(s, i))
  <2>1. \A i \in 1 .. m : Len(Rest(s, i)) \in Nat
    BY <1>1, RestLemma, LenProperties
  <2>2. [i \in 1 .. m |-> Len(Rest(s, i))] \in [1 .. m -> Nat]
    BY <2>1
  <2>3. QED
    BY <2>2
<1>3. ASSUME NEW i \in 1 .. m, NEW h \in 1 .. m, h = i + 1
      PROVE  L[i] >= L[h] + 2
  <2>1. i \in 1 .. Len(s) /\ s[i] \in Nat
    <3>1. i \in 1 .. Len(s)
      BY <1>1, <1>3, LenProperties
    <3>2. QED
      BY <3>1, ElementOfSeq
  <2>2. Len(Rest(s, i)) = 2 + s[i] + Len(Rest(s, h))
    BY <1>3, <2>1, RestShrinks
  <2>3. PICK p \in Nat, q \in Nat, r \in Nat : p = L[i] /\ q = s[i] /\ r = L[h]
    BY <2>1
  <2>4. p = 2 + q + r
    BY <1>2, <2>2, <2>3
  <2>5. p >= r + 2
    BY <2>4
  <2>6. QED
    BY <2>3, <2>5
<1>4. j \in 1 .. m /\ k \in 1 .. m
  BY <1>1
<1>5. L[j] >= L[k] + 2
  BY <1>3, <1>4, Descent
<1>6. QED
  BY <1>2, <1>4, <1>5

\* Where a length or a text of lengths s ends, bytes are still owed.
Pauses(s, bytes) ==
    \E k \in 1 .. Len(s) + 1 :
       \/ Len(bytes) = Len(Rest(s, k))
       \/ k <= Len(s) /\ Len(bytes) = Len(Rest(s, k)) - 2

\* Where a message begins, one byte never comes alone.
LEMMA NeverOne ==
    ASSUME NEW s \in Seq(Nat), NEW k \in 1 .. Len(s) + 1, NEW a \in Seq(Nat), NEW b \in Seq(Nat),
           a \o b = Rest(s, k), Pauses(s, b)
    PROVE  Len(a) # 1
<1>1. Len(a) \in Nat /\ Len(b) \in Nat /\ Len(Rest(s, k)) = Len(a) + Len(b)
  BY ConcatProperties, LenProperties
<1>2. PICK j \in 1 .. Len(s) + 1 :
         Len(b) = Len(Rest(s, j)) \/ Len(b) = Len(Rest(s, j)) - 2
  BY DEF Pauses
<1>3. Len(Rest(s, j)) \in Nat /\ Len(Rest(s, k)) \in Nat
  BY RestLemma, LenProperties
<1>4. j < k => Len(Rest(s, j)) >= Len(Rest(s, k)) + 2
  BY RestOrder
<1>5. k < j => Len(Rest(s, k)) >= Len(Rest(s, j)) + 2
  BY RestOrder
<1>6. j < k \/ j = k \/ k < j
  BY LenProperties
<1>7. PICK p \in Nat, q \in Nat, u \in Nat, v \in Nat :
         p = Len(a) /\ q = Len(b) /\ u = Len(Rest(s, j)) /\ v = Len(Rest(s, k))
  BY <1>1, <1>3
<1>8. v = p + q /\ (q = u \/ q = u - 2) /\ (u = v \/ u >= v + 2 \/ v >= u + 2)
  BY <1>1, <1>2, <1>4, <1>5, <1>6, <1>7
<1>9. p # 1
  BY <1>8
<1>10. QED
  BY <1>7, <1>9

-------------------------------------------------------------------------------
(* A peer, as the program and the peer itself see it *)

Reader(x) == IF x \in Clients THEN <<x, "qrecv">> ELSE <<x, "rrecv">>
Sender(x) == IF x \in Clients THEN <<x, "rsend">> ELSE <<x, "qsend">>

\* What the context of watcher w is at.
At(w) == IF w \notin Watched THEN "off" ELSE IF w \in past THEN "text" ELSE "length"

View(x) ==
    [peer |-> IF x \in Clients THEN "client" ELSE "upstream",
     fd |-> fd[x], link |-> link[x], inbox |-> inbox[x], owed |-> owed[x],
     outbox |-> outbox[x], msglen |-> msglen[x], handed |-> handed[x], sends |-> sends[x],
     read |-> At(Reader(x)), write |-> At(Sender(x)),
     marks |-> {m \in {"waiting", "cut", "missed", "early"} :
                  \/ m = "waiting" /\ x \in waiting
                  \/ m = "cut" /\ x \in pieces
                  \/ m = "missed" /\ x \in missed
                  \/ m = "early" /\ x \in early}]

Typed(v) ==
    /\ v.peer \in {"client", "upstream"}
    /\ v.fd \in {"none", "open", "closed"}
    /\ v.link \in {"none", "calling", "up", "fin", "reset", "broken"}
    /\ v.inbox \in Seq(Nat) /\ v.owed \in Seq(Nat) /\ v.outbox \in Seq(Nat)
    /\ v.sends \in Seq(Nat) /\ v.msglen \in Nat
    /\ v.read \in {"off", "length", "text"} /\ v.write \in {"off", "length", "text"}

\* Unless a piece was cut off, a peer has been sent nothing, the length, or all of
\* the message: the length when its sender is past it.
OutgoingOK(v) ==
    "cut" \notin v.marks =>
       /\ v.outbox \in {<< >>, <<0, 2>>, Message}
       /\ v.write = "length" => v.outbox = << >>
       /\ v.write = "text" => v.outbox = <<0, 2>>
       /\ v.fd = "none" => v.outbox = << >>

\* A client is read, or waits, or is written, one at a time and with its socket
\* open; it is closed after an error or after the whole answer.
ClientOK(v) ==
    /\ v.fd = "none" <=> v.link \in {"none", "calling"}
    /\ v.read # "off" \/ "waiting" \in v.marks \/ v.write # "off" => v.fd = "open"
    /\ v.read = "off" \/ v.write = "off"
    /\ "waiting" \in v.marks => v.read = "off" /\ v.write = "off"
    /\ "cut" \notin v.marks /\ (v.read # "off" \/ "waiting" \in v.marks) => v.outbox = << >>
    /\ "cut" \notin v.marks /\ v.fd = "closed" /\ v.link = "up" => v.outbox = Message

\* Nothing comes from server before it has the query, and what closes the socket of
\* an upstream under the other watcher has left a mark.
UpstreamOK(v) ==
    /\ v.fd = "none" <=> v.link = "none"
    /\ v.link # "calling"
    /\ v.read # "off" \/ v.write # "off" => v.fd # "none"
    /\ "cut" \notin v.marks /\ Len(v.outbox) < 4 => v.inbox = << >>
    /\ "cut" \notin v.marks /\ v.write # "off" /\ v.link # "up" => "early" \in v.marks
    /\ v.fd = "closed" /\ (v.read # "off" \/ v.write # "off") =>
          "early" \in v.marks \/ "cut" \in v.marks

\* What has arrived and what was to follow are the rest of the peer's messages, from
\* where its reader has come to.
AlignedAt(v, k, rem) ==
    /\ k \in 1 .. Len(v.sends) + 1 /\ rem \in Seq(Nat)
    /\ v.read = "text" => /\ k \in 1 .. Len(v.sends) /\ v.sends[k] # 0
                          /\ v.msglen = Kept(v.sends[k])
    /\ Join(v.inbox, rem) = IF v.read = "text"
                            THEN Join(Text(v.sends[k]), Rest(v.sends, k + 1))
                            ELSE Rest(v.sends, k)
    /\ v.link \in {"none", "calling", "up"} => rem = v.owed
    /\ "cut" \in v.marks \/ Pauses(v.sends, rem)

IncomingOK(v) ==
    /\ "missed" \in v.marks => v.link \notin {"none", "calling"} /\ v.read # "length"
    /\ "missed" \notin v.marks /\ (v.read # "off" \/ v.link \in {"none", "calling"}) =>
          \E k, rem : AlignedAt(v, k, rem)

HandedOK(v) ==
    v.handed # << >> /\ "missed" \notin v.marks =>
       \E l \in ToSet(v.sends) : v.handed = SubSeq(Text(l), 1, Kept(l))

Good(v) == /\ OutgoingOK(v) /\ IncomingOK(v) /\ HandedOK(v)
           /\ v.peer = "client" => ClientOK(v)
           /\ v.peer = "upstream" => UpstreamOK(v)

LEMMA KeptLemma ==
    ASSUME NEW l \in Nat
    PROVE  /\ Kept(l) \in 0 .. NS_PACKETSZ
           /\ Kept(l) <= l
           /\ Kept(l) = 0 <=> l = 0
<1>1. NS_PACKETSZ \in Nat /\ NS_PACKETSZ # 0
  BY ExchangeAssumption
<1>2. Kept(l) = IF l <= NS_PACKETSZ THEN l ELSE NS_PACKETSZ
  BY <1>1, MinOfTwo DEF Kept
<1>3. QED
  BY <1>1, <1>2

\* A length is read: the text that follows is to come, or the next message.
LEMMA LengthRead ==
    ASSUME NEW v, Typed(v), NEW k, NEW rem, AlignedAt(v, k, rem),
           v.read = "length", Len(v.inbox) >= 2,
           NEW w,
           w.msglen = Kept(v.inbox[1] * 256 + v.inbox[2]),
           w.read = IF w.msglen = 0 THEN "length" ELSE "text",
           w.inbox = SubSeq(v.inbox, 3, Len(v.inbox)),
           w.sends = v.sends, w.link = v.link, w.owed = v.owed, w.marks = v.marks
    PROVE  \E j : AlignedAt(w, j, rem)
<1>1. PICK a, s : a = v.inbox /\ s = v.sends
  OBVIOUS
<1>2. /\ a \in Seq(Nat) /\ s \in Seq(Nat) /\ rem \in Seq(Nat) /\ k \in 1 .. Len(s) + 1
      /\ Join(a, rem) = Rest(s, k) /\ Len(a) \in Nat /\ Len(a) >= 2 /\ Len(s) \in Nat
      /\ Len(rem) \in Nat
  BY <1>1, LenProperties DEF Typed, AlignedAt
<1>3. k \in 1 .. Len(s)
  <2>1. CASE k = Len(s) + 1
    <3>1. Rest(s, k) = << >>
      BY <1>2, <2>1, RestLemma
    <3>2. Len(a) + Len(rem) = 0
      BY <1>2, <3>1, JoinBytes
    <3>3. QED
      BY <1>2, <3>2
  <2>2. PICK n \in Nat : n = Len(s)
    BY <1>2
  <2>3. k \in 1 .. n + 1
    BY <1>2, <2>2
  <2>4. k \in 1 .. n \/ k = n + 1
    BY <2>3
  <2>5. QED
    BY <2>1, <2>2, <2>4
<1>4. PICK l \in Nat : l = s[k]
  BY <1>2, <1>3, ElementOfSeq
<1>5. k + 1 \in 1 .. Len(s) + 1
  <2>1. PICK n \in Nat : n = Len(s)
    BY <1>2
  <2>2. k + 1 \in 1 .. n + 1
    BY <1>3, <2>1
  <2>3. QED
    BY <2>1, <2>2
<1>a. PICK h \in Seq(Nat), t \in Seq(Nat), r \in Seq(Nat) :
         h = <<0, l>> /\ t = Text(l) /\ r = Rest(s, k + 1) /\ Len(h) = 2
  <2>1. Rest(s, k + 1) \in Seq(Nat)
    BY <1>2, <1>5, RestLemma
  <2>2. Text(l) \in Seq(Nat) /\ <<0, l>> \in Seq(Nat) /\ Len(<<0, l>>) = 2
    BY MessageLemma
  <2>3. QED
    BY <2>1, <2>2
<1>b. Join(t, r) \in Seq(Nat) /\ Join(a, rem) = Join(h, Join(t, r))
  <2>1. Rest(s, k) = Join(Join(h, t), r)
    <3>1. Rest(s, k) = Join(MessageOf(l), r)
      BY <1>2, <1>3, <1>4, <1>a, RestLemma
    <3>2. MessageOf(l) = Join(h, t)
      BY <1>a, MessageLemma DEF Join
    <3>3. QED
      BY <3>1, <3>2
  <2>2. QED
    BY <1>2, <2>1, JoinBytes
<1>6. SubSeq(a, 1, 2) = SubSeq(h, 1, 2) /\ Join(SubSeq(a, 3, Len(a)), rem) = Join(t, r)
  <2>1. PICK q \in Seq(Nat) : q = Join(t, r)
    BY <1>b
  <2>2. Join(a, rem) = Join(h, q)
    BY <1>b, <2>1
  <2>3. /\ Len(h) <= Len(a) => SubSeq(a, 1, Len(h)) = SubSeq(h, 1, Len(h))
        /\ Len(h) <= Len(a) => Join(SubSeq(a, Len(h) + 1, Len(a)), rem) = q
    BY <1>2, <2>2, TakeFront
  <2>4. QED
    BY <1>2, <1>a, <2>1, <2>3
<1>7. a[1] = 0 /\ a[2] = l
  <2>1. a[1] = SubSeq(a, 1, 2)[1] /\ a[2] = SubSeq(a, 1, 2)[2]
    BY <1>2
  <2>2. SubSeq(h, 1, 2)[1] = 0 /\ SubSeq(h, 1, 2)[2] = l
    BY <1>a
  <2>3. QED
    BY <1>6, <2>1, <2>2
<1>8. w.msglen = Kept(l)
  BY <1>1, <1>7
<1>9. Join(w.inbox, rem) = Join(t, r) /\ w.sends = s
  BY <1>1, <1>6
<1>10. CASE l = 0
  <2>1. w.read = "length"
    BY <1>8, <1>10, KeptLemma
  <2>2. Join(w.inbox, rem) = Rest(s, k + 1)
    <3>1. t = << >>
      BY <1>10, <1>a, MessageLemma, EmptySeq
    <3>2. QED
      BY <1>9, <1>a, <3>1, JoinBytes
  <2>3. AlignedAt(w, k + 1, rem)
    BY <1>1, <1>2, <1>5, <1>9, <2>1, <2>2 DEF AlignedAt
  <2>4. QED
    BY <2>3
<1>11. CASE l # 0
  <2>1. w.read = "text"
    BY <1>8, <1>11, KeptLemma
  <2>2. AlignedAt(w, k, rem)
    BY <1>1, <1>2, <1>3, <1>4, <1>8, <1>9, <1>11, <1>a, <2>1 DEF AlignedAt
  <2>3. QED
    BY <2>2
<1>12. QED
  BY <1>10, <1>11

\* As much of the text as there is room for is what was sent.
LEMMA TextRead ==
    ASSUME NEW v, Typed(v), NEW k, NEW rem, AlignedAt(v, k, rem),
           v.read = "text", v.msglen <= Len(v.inbox)
    PROVE  \E l \in ToSet(v.sends) : SubSeq(v.inbox, 1, v.msglen) = SubSeq(Text(l), 1, Kept(l))
<1>1. PICK a, s, n : a = v.inbox /\ s = v.sends /\ n = v.msglen
  OBVIOUS
<1>2. /\ a \in Seq(Nat) /\ s \in Seq(Nat) /\ rem \in Seq(Nat) /\ k \in 1 .. Len(s)
      /\ n = Kept(s[k]) /\ n <= Len(a)
      /\ Join(a, rem) = Join(Text(s[k]), Rest(s, k + 1))
  BY <1>1 DEF Typed, AlignedAt
<1>3. PICK l \in Nat : l = s[k] /\ l \in ToSet(s)
  BY <1>2, ElementOfSeq DEF ToSet
<1>4. n \in Nat /\ n <= l
  <2>1. n = Kept(l)
    BY <1>2, <1>3
  <2>2. Kept(l) \in 0 .. NS_PACKETSZ /\ Kept(l) <= l
    BY KeptLemma
  <2>3. QED
    BY <2>1, <2>2
<1>5. PICK t \in Seq(Nat), r \in Seq(Nat) : t = Text(l) /\ r = Rest(s, k + 1) /\ Len(t) = l
  <2>1. Rest(s, k + 1) \in Seq(Nat)
    <3>1. PICK i \in Nat : i = Len(s)
      BY <1>2, LenProperties
    <3>2. k + 1 \in 1 .. i + 1
      BY <1>2, <3>1
    <3>3. QED
      BY <1>2, <3>1, <3>2, RestLemma
  <2>2. Text(l) \in Seq(Nat) /\ Len(Text(l)) = l
    BY MessageLemma
  <2>3. QED
    BY <2>1, <2>2
<1>6. SubSeq(a, 1, n) = SubSeq(t, 1, n)
  <2>1. Join(a, rem) = Join(t, r)
    BY <1>2, <1>3, <1>5
  <2>2. \A i \in Nat : i <= Len(a) /\ i <= Len(t) => SubSeq(a, 1, i) = SubSeq(t, 1, i)
    BY <1>2, <2>1, TakeFront
  <2>3. QED
    BY <1>2, <1>4, <1>5, <2>2
<1>7. QED
  BY <1>1, <1>2, <1>3, <1>5, <1>6

LEMMA CutInTwo ==
    ASSUME NEW o \in Seq(Nat), NEW n \in 1 .. Len(o)
    PROVE  /\ SubSeq(o, 1, n) \in Seq(Nat) /\ SubSeq(o, n + 1, Len(o)) \in Seq(Nat)
           /\ Join(SubSeq(o, 1, n), SubSeq(o, n + 1, Len(o))) = o
           /\ Len(SubSeq(o, 1, n)) = n
<1>1. PICK m \in Nat : m = Len(o)
  BY LenProperties
<1>2. (\A i \in 1 .. m : o[i] \in Nat) /\ n \in 1 .. m
  BY <1>1, ElementOfSeq
<1>3. PICK a : a = SubSeq(o, 1, n)
  OBVIOUS
<1>4. PICK b : b = SubSeq(o, n + 1, Len(o))
  OBVIOUS
<1>5. a \in Seq(Nat) /\ Len(a) = n /\ \A i \in 1 .. n : a[i] = o[i]
  <2>1. \A i \in 1 .. n : o[i] \in Nat
    BY <1>2
  <2>2. /\ a \in Seq(Nat) /\ Len(a) = IF 1 <= n THEN n - 1 + 1 ELSE 0
        /\ \A i \in 1 .. n - 1 + 1 : a[i] = o[1 + i - 1]
    BY <1>2, <1>3, <2>1, SubSeqProperties
  <2>3. QED
    BY <1>2, <2>2
<1>6. b \in Seq(Nat) /\ Len(b) = m - n /\ \A i \in 1 .. m - n : b[i] = o[i + n]
  <2>1. \A i \in n + 1 .. m : o[i] \in Nat
    BY <1>2
  <2>2. /\ b \in Seq(Nat) /\ Len(b) = IF n + 1 <= m THEN m - (n + 1) + 1 ELSE 0
        /\ \A i \in 1 .. m - (n + 1) + 1 : b[i] = o[(n + 1) + i - 1]
    BY <1>1, <1>2, <1>4, <2>1, SubSeqProperties
  <2>3. QED
    BY <1>2, <2>2
<1>7. a \o b = o
  <2>1. /\ a \o b \in Seq(Nat) /\ Len(a \o b) = Len(a) + Len(b)
        /\ \A i \in 1 .. Len(a) + Len(b) :
              (a \o b)[i] = IF i <= Len(a) THEN a[i] ELSE b[i - Len(a)]
    <3>1. a \in Seq(Nat) /\ b \in Seq(Nat)
      BY <1>5, <1>6
    <3>2. QED
      BY <3>1, ConcatProperties
  <2>2. Len(a) + Len(b) = m
    BY <1>2, <1>5, <1>6
  <2>3. ASSUME NEW i \in 1 .. m
        PROVE  (a \o b)[i] = o[i]
    <3>1. CASE i <= n
      <4>1. i \in 1 .. n
        BY <3>1
      <4>2. QED
        BY <1>5, <2>1, <2>2, <3>1, <4>1
    <3>2. CASE ~(i <= n)
      <4>1. i - n \in 1 .. m - n /\ (i - n) + n = i
        BY <1>2, <3>2
      <4>2. b[i - n] = o[i]
        BY <1>6, <4>1
      <4>3. QED
        BY <1>5, <2>1, <2>2, <3>2, <4>2
    <3>3. QED
      BY <3>1, <3>2
  <2>4. QED
    BY <1>1, <2>1, <2>2, <2>3, SeqEqual
<1>8. QED
  BY <1>3, <1>4, <1>5, <1>6, <1>7 DEF Join

\* What arrives is taken off what was to come.
LEMMA Arrived ==
    ASSUME NEW v, Typed(v), NEW k, NEW rem, AlignedAt(v, k, rem), v.link = "up",
           NEW n \in 1 .. Len(v.owed),
           NEW w,
           w.inbox = Join(v.inbox, SubSeq(v.owed, 1, n)),
           w.owed = SubSeq(v.owed, n + 1, Len(v.owed)),
           "cut" \in w.marks \/ Pauses(w.sends, w.owed),
           w.sends = v.sends, w.link = v.link, w.read = v.read, w.msglen = v.msglen
    PROVE  AlignedAt(w, k, w.owed)
<1>1. PICK o \in Seq(Nat) : o = v.owed /\ o = rem /\ n \in 1 .. Len(o)
  BY DEF Typed, AlignedAt
<1>2. PICK a \in Seq(Nat), b \in Seq(Nat) :
         a = SubSeq(o, 1, n) /\ b = SubSeq(o, n + 1, Len(o)) /\ Join(a, b) = o
  BY <1>1, CutInTwo
<1>3. Join(w.inbox, w.owed) = Join(v.inbox, rem) /\ w.owed \in Seq(Nat)
  <2>1. v.inbox \in Seq(Nat)
    BY DEF Typed
  <2>2. Join(Join(v.inbox, a), b) = Join(v.inbox, Join(a, b))
    BY <2>1, JoinBytes
  <2>3. QED
    BY <1>1, <1>2, <2>2
<1>4. QED
  BY <1>3 DEF AlignedAt

\* A single byte is never all that there is of a length, unless a piece was cut off.
LEMMA TwoBytes ==
    ASSUME NEW v, Typed(v), NEW k, NEW rem, AlignedAt(v, k, rem),
           v.read = "length", "cut" \notin v.marks
    PROVE  Len(v.inbox) # 1
<1>1. PICK s \in Seq(Nat), a \in Seq(Nat) : s = v.sends /\ a = v.inbox
  BY DEF Typed
<1>2. /\ k \in 1 .. Len(s) + 1 /\ rem \in Seq(Nat) /\ Join(a, rem) = Rest(s, k)
      /\ Pauses(s, rem)
  BY <1>1 DEF AlignedAt
<1>3. a \o rem = Rest(s, k)
  BY <1>2 DEF Join
<1>4. QED
  BY <1>1, <1>2, <1>3, NeverOne

-------------------------------------------------------------------------------
(* The inductive invariant *)

PollOK == poll # NULL => \E s \in Nat : \E S : poll = [slot |-> s, ready |-> S]

\* What the walk has yet to call is ready.
Fresh == poll # NULL /\ dead = "no" => \A s \in Due : Fires(wlist[s])

ListInv == TypeOK /\ sends \in Sends /\ fd[LISTEN] = "open" /\ OneSlot(wlist) /\ PollOK /\ Fresh

PeersGood == \A x \in Peers : Good(View(x))

ExchInv == ListInv /\ PeersGood

LEMMA Jobs ==
    ASSUME NEW x \in Peers
    PROVE  /\ Reader(x) \in Watchers /\ Sender(x) \in Watchers /\ Reader(x) # Sender(x)
           /\ Reader(x)[1] = x /\ Sender(x)[1] = x
           /\ Event(Reader(x)) = "read" /\ Event(Sender(x)) = "write"
           /\ Reader(x) # <<LISTEN, "accept">> /\ Sender(x) # <<LISTEN, "accept">>
           /\ x # LISTEN
           /\ \A w \in Watchers : w[1] = x => w = Reader(x) \/ w = Sender(x)
BY ExchangeAssumption DEF Peers, Reader, Sender, Watchers, Event

LEMMA JobsOf ==
    ASSUME NEW w \in Watchers
    PROVE  /\ w[2] = "accept" <=> w = <<LISTEN, "accept">>
           /\ w[2] \in {"qrecv", "rrecv"} => w[1] \in Peers /\ w = Reader(w[1])
           /\ w[2] \in {"qsend", "rsend"} => w[1] \in Peers /\ w = Sender(w[1])
           /\ w[2] \in {"qrecv", "rsend"} <=> w[1] \in Clients
           /\ w[2] \in {"rrecv", "qsend"} <=> w[1] \in Upstreams
           /\ w[1] \in Sockets
BY ExchangeAssumption DEF Peers, Reader, Sender, Watchers, Sockets

LEMMA TypedView ==
    ASSUME TypeOK, sends \in Sends, NEW x \in Peers
    PROVE  Typed(View(x))
<1>1. x \in Sockets \ {LISTEN} /\ x \in Clients \cup Upstreams
  BY ExchangeAssumption DEF Peers, Sockets
<1>2. /\ fd[x] \in {"none", "open", "closed"}
      /\ link[x] \in {"none", "calling", "up", "fin", "reset", "broken"}
      /\ inbox[x] \in Seq(Nat) /\ owed[x] \in Seq(Nat) /\ outbox[x] \in Seq(Nat)
      /\ msglen[x] \in 0 .. NS_PACKETSZ
  BY <1>1 DEF TypeOK
<1>3. sends[x] \in Seq(Nat)
  BY <1>1, ExchangeAssumption
<1>4. /\ At(Reader(x)) \in {"off", "length", "text"}
      /\ At(Sender(x)) \in {"off", "length", "text"}
  BY DEF At
<1>5. NS_PACKETSZ \in Nat
  BY ExchangeAssumption
<1>6. QED
  BY <1>2, <1>3, <1>4, <1>5 DEF Typed, View

\* An action that leaves a peer as it is, or good, for every peer.
LEMMA PeersStayGood ==
    ASSUME PeersGood,
           \A x \in Peers : View(x)' = View(x) \/ \E v : v = View(x)' /\ Good(v)
    PROVE  PeersGood'
<1>1. SUFFICES ASSUME NEW x \in Peers
               PROVE  Good(View(x))'
  BY DEF PeersGood
<1>2. PICK v : v = View(x)
  OBVIOUS
<1>3. Good(v)
  BY <1>2 DEF PeersGood
<1>4. PICK w : w = View(x)' /\ Good(w)
  BY <1>2, <1>3
<1>5. QED
  BY <1>4

\* The walk ends, or goes on to what it has yet to call.
LEMMA WalkOnFresh ==
    ASSUME ListInv, dead = "no", poll # NULL, NEW s \in Due, WalkOn(s),
           wlist' = wlist /\ dead' = "no" =>
              \A w \in Watched \ {wlist[s]} : Fires(w) => Fires(w)'
    PROVE  PollOK' /\ Fresh'
<1>1. CASE wlist' # wlist
  BY <1>1 DEF WalkOn, PollOK, Fresh
<1>2. CASE wlist' = wlist
  <2>1. PICK n \in Nat : \E S : poll = [slot |-> n, ready |-> S]
    BY DEF ListInv, PollOK
  <2>2. PICK S : poll = [slot |-> n, ready |-> S]
    BY <2>1
  <2>3. s \in Nat /\ s \in Slots
    BY ExchangeAssumption DEF Due, Slots
  <2>4. poll' = [slot |-> s + 1, ready |-> S]
    BY <1>2, <2>2 DEF WalkOn
  <2>5. ASSUME NEW t \in Due', dead' = "no"
        PROVE  Fires(wlist[t])'
    <3>1. t \in Slots /\ t >= s + 1 /\ wlist[t] # NULL
          /\ <<wlist[t][1], Event(wlist[t])>> \in S
      BY <1>2, <2>4, <2>5 DEF Due, Event
    <3>2. t \in Due /\ t # s
      <4>1. s >= n /\ t \in Nat
        BY <2>2, <3>1, ExchangeAssumption DEF Due, Slots
      <4>2. t >= n /\ t # s
        BY <2>3, <3>1, <4>1
      <4>3. QED
        BY <2>2, <3>1, <4>2 DEF Due
    <3>3. wlist[t] \in Watched \ {wlist[s]} /\ Fires(wlist[t])
      <4>1. Fires(wlist[t])
        BY <3>2 DEF ListInv, Fresh
      <4>2. wlist[t] # wlist[s]
        BY <2>3, <3>1, <3>2 DEF ListInv, OneSlot
      <4>3. QED
        BY <3>1, <4>1, <4>2 DEF Watched
    <3>4. PICK w : w = wlist[t]
      OBVIOUS
    <3>5. Fires(w)'
      BY <1>2, <2>5, <3>3, <3>4
    <3>6. QED
      BY <1>2, <3>4, <3>5 DEF Fires, Event, Writable, Readable
  <2>6. PollOK'
    <3>1. s + 1 \in Nat
      BY <2>3
    <3>2. QED
      BY <2>4, <3>1, Zenon DEF PollOK
  <2>7. Fresh'
    BY <2>5 DEF Fresh
  <2>8. QED
    BY <2>6, <2>7
<1>3. QED
  BY <1>1, <1>2

LEMMA StaysFresh ==
    ASSUME ListInv, UNCHANGED <<wlist, poll, dead>>,
           \A w \in Watched : Fires(w) => Fires(w)'
    PROVE  PollOK' /\ Fresh'
<1>1. PollOK'
  BY DEF ListInv, PollOK
<1>2. ASSUME poll # NULL, dead = "no", NEW s \in Due'
      PROVE  Fires(wlist[s])'
  <2>1. s \in Due
    BY DEF Due, Event
  <2>2. wlist[s] \in Watched /\ Fires(wlist[s])
    BY <1>2, <2>1 DEF ListInv, Fresh, Due, Watched
  <2>3. PICK w : w = wlist[s]
    OBVIOUS
  <2>4. Fires(w)'
    BY <2>2, <2>3
  <2>5. QED
    BY <2>3, <2>4 DEF Fires, Event, Writable, Readable
<1>3. QED
  BY <1>1, <1>2 DEF Fresh

\* As long as its sender is at work, a peer does not have the whole message.
LEMMA ShortYet ==
    ASSUME NEW v, Typed(v), OutgoingOK(v), "cut" \notin v.marks, v.write # "off"
    PROVE  Len(v.outbox) < 4
<1>1. v.outbox = << >> \/ v.outbox = <<0, 2>>
  BY DEF Typed, OutgoingOK
<1>2. Len(<< >>) = 0 /\ Len(<<0, 2>>) = 2
  OBVIOUS
<1>3. PICK n : n = Len(v.outbox)
  OBVIOUS
<1>4. n = 0 \/ n = 2
  BY <1>1, <1>2, <1>3, Zenon
<1>5. n < 4
  BY <1>4
<1>6. QED
  BY <1>3, <1>5, Zenon

\* What peer y sees of a step that is not about it.
SameFor(y) ==
    /\ fd'[y] = fd[y] /\ link'[y] = link[y] /\ inbox'[y] = inbox[y] /\ owed'[y] = owed[y]
    /\ outbox'[y] = outbox[y] /\ msglen'[y] = msglen[y] /\ handed'[y] = handed[y]
    /\ sends'[y] = sends[y]
    /\ y \in waiting' <=> y \in waiting
    /\ y \in pieces' <=> y \in pieces
    /\ y \in missed' <=> y \in missed
    /\ y \in early' <=> y \in early
    /\ Reader(y) \in Watched' <=> Reader(y) \in Watched
    /\ Sender(y) \in Watched' <=> Sender(y) \in Watched
    /\ Reader(y) \in past' <=> Reader(y) \in past
    /\ Sender(y) \in past' <=> Sender(y) \in past

LEMMA SameView ==
    ASSUME NEW y, SameFor(y)
    PROVE  View(y)' = View(y)
<1>1. At(Reader(y))' = At(Reader(y)) /\ At(Sender(y))' = At(Sender(y))
  BY DEF SameFor, At, Reader, Sender
<1>2. View(y).marks' = View(y).marks
  BY DEF SameFor, View
<1>3. QED
  BY <1>1, <1>2 DEF SameFor, View

\* What keeps a watcher ready.
LEMMA StillFires ==
    ASSUME NEW w \in Watchers, Fires(w), fd'[w[1]] = fd[w[1]],
           \A k \in Clients : link[k] = "calling" => link'[k] = "calling",
           w[1] \in Peers =>
              /\ link[w[1]] # "none" => link'[w[1]] # "none"
              /\ Event(w) = "read" =>
                    /\ inbox[w[1]] # << >> => inbox'[w[1]] # << >>
                    /\ link[w[1]] \in {"fin", "reset", "broken"} =>
                          link'[w[1]] \in {"fin", "reset", "broken"}
    PROVE  Fires(w)'
<1>1. CASE w[1] = LISTEN
  <2>1. Event(w) = "read"
    BY <1>1, ExchangeAssumption DEF Watchers, Event
  <2>2. QED
    BY <1>1, <2>1 DEF Fires, Readable, Event
<1>2. CASE w[1] \in Peers
  <2>1. w[1] # LISTEN
    BY <1>2, Jobs
  <2>2. QED
    BY <1>2, <2>1 DEF Fires, Readable, Writable, Event
<1>3. QED
  BY <1>1, <1>2, JobsOf DEF Sockets, Peers

-------------------------------------------------------------------------------
(* The peers *)

LEMMA ClientCallsStep ==
    ASSUME ExchInv, NEW x \in Clients, ClientCalls(x)
    PROVE  ExchInv'
<1> USE DEF ClientCalls, loopVars, recvVars
<1>1. x \in Peers /\ x \in Sockets \ {LISTEN}
  BY ExchangeAssumption DEF Peers, Sockets
<1>2. TypeOK /\ link'[x] = "calling" /\ \A y \in Peers \ {x} : link'[y] = link[y]
  BY <1>1, ExchangeAssumption DEF ExchInv, ListInv, TypeOK, Peers, Sockets
<1>3. TypeOK' /\ sends' \in Sends /\ fd'[LISTEN] = "open" /\ OneSlot(wlist')
  BY <1>1 DEF ExchInv, ListInv, TypeOK, Watched
<1>4. PollOK' /\ Fresh'
  <2>1. ASSUME NEW w \in Watched, Fires(w)
        PROVE  Fires(w)'
    <3>1. w \in Watchers
      BY <1>2 DEF TypeOK, Watched
    <3>2. \A k \in Clients : link[k] = "calling" => link'[k] = "calling"
      BY <1>2 DEF Peers
    <3>3. link[x] = "none"
      OBVIOUS
    <3>4. QED
      BY <1>2, <2>1, <3>1, <3>2, <3>3, StillFires
  <2>2. ListInv /\ UNCHANGED <<wlist, poll, dead>>
    BY DEF ExchInv
  <2>3. QED
    BY <2>1, <2>2, StaysFresh
<1>5. ASSUME NEW y \in Peers \ {x}
      PROVE  View(y)' = View(y)
  <2>1. SameFor(y)
    BY <1>2 DEF SameFor, Watched
  <2>2. QED
    BY <2>1, SameView
<1>6. PICK v : v = View(x)
  OBVIOUS
<1>7. PICK w : w = View(x)'
  OBVIOUS
<1>8. Typed(v) /\ Good(v) /\ v.link = "none"
  BY <1>1, <1>2, <1>6, TypedView DEF ExchInv, ListInv, PeersGood, View
<1>9. /\ w.link = "calling" /\ w.peer = v.peer /\ w.fd = v.fd /\ w.inbox = v.inbox
      /\ w.owed = v.owed /\ w.outbox = v.outbox /\ w.msglen = v.msglen
      /\ w.handed = v.handed /\ w.sends = v.sends /\ w.read = v.read /\ w.write = v.write
      /\ w.marks = v.marks /\ v.peer = "client"
  BY <1>2, <1>6, <1>7 DEF View, At, Watched
<1>10. Good(w)
  <2>1. IncomingOK(w)
    BY <1>8, <1>9 DEF Good, IncomingOK, AlignedAt
  <2>2. OutgoingOK(w) /\ HandedOK(w)
    BY <1>8, <1>9 DEF Good, OutgoingOK, HandedOK
  <2>3. ClientOK(w)
    BY <1>8, <1>9 DEF Good, ClientOK
  <2>4. QED
    BY <1>9, <2>1, <2>2, <2>3 DEF Good
<1>11. PeersGood'
  BY <1>5, <1>7, <1>10, PeersStayGood DEF ExchInv
<1>12. QED
  BY <1>3, <1>4, <1>11 DEF ExchInv, ListInv

LEMMA BetweenIsPauses ==
    ASSUME NEW x \in Peers, NEW b
    PROVE  Between(x, b) <=> Pauses(sends[x], b)
BY DEF Between, Pauses, Rest

LEMMA ArriveStep ==
    ASSUME ExchInv, NEW x \in Peers, Arrive(x)
    PROVE  ExchInv'
<1>1. x \in Sockets \ {LISTEN} /\ TypeOK /\ sends \in Sends
  BY ExchangeAssumption DEF Peers, Sockets, ExchInv, ListInv
<1>2. inbox[x] \in Seq(Nat) /\ owed[x] \in Seq(Nat)
  BY <1>1 DEF TypeOK
<1>3. PICK n \in 1 .. Len(owed[x]) :
         /\ inbox' = [inbox EXCEPT ![x] = inbox[x] \o SubSeq(owed[x], 1, n)]
         /\ owed' = [owed EXCEPT ![x] = SubSeq(owed[x], n + 1, Len(owed[x]))]
         /\ pieces' = IF Between(x, owed'[x]) THEN pieces ELSE pieces \cup {x}
  <2>1. PICK n \in (IF x \in pieces THEN {Len(owed[x])} ELSE 1 .. Len(owed[x])) \ {0} :
           /\ inbox' = [inbox EXCEPT ![x] = @ \o SubSeq(owed[x], 1, n)]
           /\ owed' = [owed EXCEPT ![x] = SubSeq(@, n + 1, Len(@))]
           /\ pieces' = IF Between(x, owed'[x]) THEN pieces ELSE pieces \cup {x}
    BY DEF Arrive
  <2>2. n \in 1 .. Len(owed[x])
    BY <1>2, LenProperties
  <2>3. QED
    BY <2>1, <2>2
<1>4. /\ link[x] = "up"
      /\ x \in Upstreams => Len(outbox[x]) >= 4
      /\ UNCHANGED <<wlist, past, poll, fd, waiting, dead, link, outbox, early, msglen, handed,
                     missed, sends>>
  BY DEF Arrive, loopVars, recvVars
<1>5. PICK o \in Seq(Nat), a \in Seq(Nat), b \in Seq(Nat), i \in Seq(Nat) :
         /\ o = owed[x] /\ a = SubSeq(o, 1, n) /\ b = SubSeq(o, n + 1, Len(o))
         /\ i = Join(inbox[x], a)
  <2>1. SubSeq(owed[x], 1, n) \in Seq(Nat) /\ SubSeq(owed[x], n + 1, Len(owed[x])) \in Seq(Nat)
    BY <1>2, CutInTwo
  <2>2. Join(inbox[x], SubSeq(owed[x], 1, n)) \in Seq(Nat)
    BY <1>2, <2>1, JoinBytes
  <2>3. QED
    BY <1>2, <2>1, <2>2
<1>6. inbox' = [inbox EXCEPT ![x] = i] /\ owed' = [owed EXCEPT ![x] = b]
  BY <1>3, <1>5 DEF Join
<1>7. /\ inbox'[x] = i /\ owed'[x] = b
      /\ \A y \in Peers \ {x} : inbox'[y] = inbox[y] /\ owed'[y] = owed[y]
      /\ {inbox', owed'} \subseteq [Sockets \ {LISTEN} -> Seq(Nat)]
  BY <1>1, <1>6 DEF TypeOK, Peers, Sockets
<1>8. i # << >>
  <2>1. Len(i) = Len(inbox[x]) + Len(a) /\ Len(a) = n
    <3>1. n \in 1 .. Len(o)
      BY <1>5
    <3>2. Len(a) = n
      BY <1>5, <3>1, CutInTwo
    <3>3. QED
      BY <1>2, <1>5, <3>2, JoinBytes
  <2>2. QED
    BY <1>2, <2>1, LenProperties, EmptySeq
<1>9. TypeOK' /\ sends' \in Sends /\ fd'[LISTEN] = "open" /\ OneSlot(wlist')
  <2>1. pieces' \subseteq Sockets
    BY <1>1, <1>3 DEF TypeOK
  <2>2. QED
    BY <1>1, <1>4, <1>7, <2>1 DEF ExchInv, ListInv, TypeOK, Watched
<1>10. PollOK' /\ Fresh'
  <2>1. ASSUME NEW w \in Watched, Fires(w)
        PROVE  Fires(w)'
    <3>1. w \in Watchers
      BY <1>1 DEF TypeOK, Watched
    <3>2. QED
      BY <1>4, <1>7, <1>8, <2>1, <3>1, StillFires
  <2>2. ListInv /\ UNCHANGED <<wlist, poll, dead>>
    BY <1>4 DEF ExchInv
  <2>3. QED
    BY <2>1, <2>2, StaysFresh
<1>11. ASSUME NEW y \in Peers \ {x}
       PROVE  View(y)' = View(y)
  <2>1. y \in pieces' <=> y \in pieces
    BY <1>3
  <2>2. SameFor(y)
    BY <1>4, <1>7, <2>1 DEF SameFor, Watched
  <2>3. QED
    BY <2>2, SameView
<1>12. PICK v : v = View(x)
  OBVIOUS
<1>13. PICK w : w = View(x)'
  OBVIOUS
<1>14. Typed(v) /\ Good(v) /\ v.link = "up" /\ v.owed = o /\ v.inbox = inbox[x]
       /\ (v.peer = "upstream" => Len(v.outbox) >= 4) /\ v.sends = sends[x]
  <2>1. Typed(v)
    BY <1>1, <1>12, TypedView
  <2>2. Good(v)
    BY <1>12 DEF ExchInv, PeersGood
  <2>3. v.link = "up" /\ v.owed = o /\ v.inbox = inbox[x] /\ v.sends = sends[x]
    BY <1>4, <1>5, <1>12 DEF View
  <2>4. v.outbox = outbox[x] /\ (v.peer = "upstream" => x \in Upstreams)
    BY <1>12 DEF View, Peers
  <2>5. QED
    BY <1>4, <2>1, <2>2, <2>3, <2>4
<1>15. /\ w.inbox = i /\ w.owed = b /\ w.link = v.link /\ w.peer = v.peer /\ w.fd = v.fd
       /\ w.outbox = v.outbox /\ w.msglen = v.msglen /\ w.sends = v.sends
       /\ w.handed = v.handed /\ w.read = v.read /\ w.write = v.write
  BY <1>4, <1>7, <1>12, <1>13 DEF View, At, Watched
<1>16. /\ "cut" \in v.marks => "cut" \in w.marks
       /\ \A m \in {"missed", "early", "waiting"} : m \in v.marks <=> m \in w.marks
       /\ "cut" \in w.marks \/ Between(x, owed'[x])
  BY <1>3, <1>4, <1>12, <1>13 DEF View
<1>17. "cut" \in w.marks \/ Pauses(w.sends, w.owed)
  BY <1>7, <1>14, <1>15, <1>16, BetweenIsPauses
<1>18. Good(w)
  <2>1. IncomingOK(w)
    <3>1. ASSUME NEW k, NEW rem, AlignedAt(v, k, rem)
          PROVE  \E j, r : AlignedAt(w, j, r)
      <4>1. AlignedAt(w, k, w.owed)
        BY <1>5, <1>14, <1>15, <1>17, <3>1, Arrived
      <4>2. QED
        BY <4>1
    <3>2. QED
      BY <1>14, <1>15, <1>16, <3>1 DEF Good, IncomingOK
  <2>2. OutgoingOK(w) /\ HandedOK(w)
    BY <1>14, <1>15, <1>16 DEF Good, OutgoingOK, HandedOK
  <2>3. w.peer = "client" => ClientOK(w)
    BY <1>14, <1>15, <1>16 DEF Good, ClientOK
  <2>4. w.peer = "upstream" => UpstreamOK(w)
    <3>1. Len(w.outbox) \in Nat
      BY <1>14, <1>15, LenProperties DEF Typed
    <3>2. w.peer = "upstream" => ~(Len(w.outbox) < 4)
      BY <1>14, <1>15, <3>1
    <3>3. QED
      BY <1>14, <1>15, <1>16, <3>2 DEF Good, UpstreamOK
  <2>5. QED
    BY <2>1, <2>2, <2>3, <2>4 DEF Good
<1>19. PeersGood'
  BY <1>11, <1>13, <1>18, PeersStayGood DEF ExchInv
<1>20. QED
  BY <1>9, <1>10, <1>19 DEF ExchInv, ListInv

LEMMA PeerClosesStep ==
    ASSUME ExchInv, NEW x \in Peers, PeerCloses(x)
    PROVE  ExchInv'
<1>1. x \in Sockets \ {LISTEN} /\ TypeOK /\ sends \in Sends /\ (x \in Upstreams \/ x \in Clients)
  BY ExchangeAssumption DEF Peers, Sockets, ExchInv, ListInv
<1>2. PICK l \in {"fin", "reset"} : link' = [link EXCEPT ![x] = l]
  BY DEF PeerCloses
<1>3. /\ link[x] = "up" /\ owed' = [owed EXCEPT ![x] = << >>]
      /\ early' = IF x \in Upstreams /\ Len(outbox[x]) < 4 THEN early \cup {x} ELSE early
      /\ UNCHANGED <<wlist, past, poll, fd, waiting, dead, inbox, outbox, pieces, msglen, handed,
                     missed, sends>>
  BY DEF PeerCloses, loopVars, recvVars
<1>4. /\ link'[x] = l /\ owed'[x] = << >>
      /\ \A y \in Peers \ {x} : link'[y] = link[y] /\ owed'[y] = owed[y]
  BY <1>1, <1>2, <1>3 DEF TypeOK, Peers, Sockets
<1>5. TypeOK' /\ sends' \in Sends /\ fd'[LISTEN] = "open" /\ OneSlot(wlist')
  <2>1. owed' \in [Sockets \ {LISTEN} -> Seq(Nat)]
    BY <1>1, <1>3 DEF TypeOK
  <2>2. link' \in [Sockets \ {LISTEN} -> {"none", "calling", "up", "fin", "reset", "broken"}]
    BY <1>1, <1>2 DEF TypeOK
  <2>3. early' \subseteq Upstreams
    BY <1>1, <1>3 DEF TypeOK
  <2>4. QED
    BY <1>1, <1>3, <2>1, <2>2, <2>3 DEF ExchInv, ListInv, TypeOK, Watched
<1>6. PollOK' /\ Fresh'
  <2>1. ASSUME NEW w \in Watched, Fires(w)
        PROVE  Fires(w)'
    <3>1. w \in Watchers
      BY <1>1 DEF TypeOK, Watched
    <3>2. \A k \in Clients : link[k] = "calling" => link'[k] = "calling"
      BY <1>3, <1>4 DEF Peers
    <3>3. QED
      BY <1>3, <1>4, <2>1, <3>1, <3>2, StillFires
  <2>2. ListInv /\ UNCHANGED <<wlist, poll, dead>>
    BY <1>3 DEF ExchInv
  <2>3. QED
    BY <2>1, <2>2, StaysFresh
<1>7. ASSUME NEW y \in Peers \ {x}
      PROVE  View(y)' = View(y)
  <2>1. y \in early' <=> y \in early
    BY <1>3
  <2>2. SameFor(y)
    BY <1>3, <1>4, <2>1 DEF SameFor, Watched
  <2>3. QED
    BY <2>2, SameView
<1>8. PICK v : v = View(x)
  OBVIOUS
<1>9. PICK w : w = View(x)'
  OBVIOUS
<1>10. Typed(v) /\ Good(v) /\ v.link = "up"
  BY <1>1, <1>3, <1>8, TypedView DEF ExchInv, ListInv, PeersGood, View, Peers
<1>11. /\ w.inbox = v.inbox /\ w.owed = << >> /\ w.link \in {"fin", "reset"} /\ w.peer = v.peer
       /\ w.fd = v.fd /\ w.outbox = v.outbox /\ w.msglen = v.msglen /\ w.sends = v.sends
       /\ w.handed = v.handed /\ w.read = v.read /\ w.write = v.write
  BY <1>3, <1>4, <1>8, <1>9 DEF View, At, Watched
<1>12. /\ \A m \in {"missed", "cut", "waiting"} : m \in v.marks <=> m \in w.marks
       /\ "early" \in v.marks => "early" \in w.marks
       /\ v.peer = "upstream" /\ Len(v.outbox) < 4 => "early" \in w.marks
  BY <1>1, <1>3, <1>8, <1>9 DEF View
<1>13. Good(w)
  <2>1. IncomingOK(w)
    <3>1. ASSUME NEW k, NEW rem, AlignedAt(v, k, rem)
          PROVE  AlignedAt(w, k, rem)
      BY <1>11, <1>12, <3>1 DEF AlignedAt
    <3>2. QED
      BY <1>10, <1>11, <1>12, <3>1 DEF Good, IncomingOK
  <2>2. OutgoingOK(w) /\ HandedOK(w)
    BY <1>10, <1>11, <1>12 DEF Good, OutgoingOK, HandedOK
  <2>3. w.peer = "client" => ClientOK(w)
    BY <1>10, <1>11, <1>12 DEF Good, ClientOK
  <2>4. w.peer = "upstream" => UpstreamOK(w)
    <3>1. "cut" \notin v.marks /\ v.write # "off" => Len(v.outbox) < 4
      BY <1>10, ShortYet DEF Good
    <3>2. QED
      BY <1>10, <1>11, <1>12, <3>1 DEF Good, UpstreamOK
  <2>5. QED
    BY <2>1, <2>2, <2>3, <2>4 DEF Good
<1>14. PeersGood'
  BY <1>7, <1>9, <1>13, PeersStayGood DEF ExchInv
<1>15. QED
  BY <1>5, <1>6, <1>14 DEF ExchInv, ListInv

-------------------------------------------------------------------------------
(* The loop without the callbacks that read and write *)

LEMMA SelectStep ==
    ASSUME ExchInv, Select
    PROVE  ExchInv'
<1> DEFINE R == {<<w[1], Event(w)>> : w \in {v \in Watched : Fires(v)}}
<1>1. /\ poll' = [slot |-> 0, ready |-> R]
      /\ UNCHANGED <<wlist, past, fd, waiting, dead, link, inbox, owed, outbox, pieces, early,
                     msglen, handed, missed, sends>>
  BY DEF Select, peerVars, recvVars
<1>2. TypeOK' /\ sends' \in Sends /\ fd'[LISTEN] = "open" /\ OneSlot(wlist')
  BY <1>1 DEF ExchInv, ListInv, TypeOK, Watched
<1>3. PollOK'
  BY <1>1 DEF PollOK
<1>4. ASSUME NEW s \in Due'
      PROVE  Fires(wlist[s])'
  <2>1. s \in Slots /\ wlist[s] # NULL /\ <<wlist[s][1], Event(wlist[s])>> \in R
    BY <1>1 DEF Due, Event
  <2>2. PICK w \in Watched : Fires(w) /\ w[1] = wlist[s][1] /\ Event(w) = Event(wlist[s])
    BY <2>1
  <2>3. Fires(wlist[s])
    BY <2>2 DEF Fires
  <2>4. QED
    BY <1>1, <2>3 DEF Fires, Event, Readable, Writable
<1>5. ASSUME NEW y \in Peers
      PROVE  View(y)' = View(y)
  <2>1. SameFor(y)
    BY <1>1 DEF SameFor, Watched
  <2>2. QED
    BY <2>1, SameView
<1>6. PeersGood'
  BY <1>5, PeersStayGood DEF ExchInv
<1>7. QED
  BY <1>2, <1>3, <1>4, <1>6 DEF ExchInv, ListInv, Fresh

LEMMA WalkEndStep ==
    ASSUME ExchInv, WalkEnd
    PROVE  ExchInv'
<1>1. /\ poll' = NULL
      /\ UNCHANGED <<wlist, past, fd, waiting, dead, link, inbox, owed, outbox, pieces, early,
                     msglen, handed, missed, sends>>
  BY DEF WalkEnd, peerVars, recvVars
<1>2. TypeOK' /\ sends' \in Sends /\ fd'[LISTEN] = "open" /\ OneSlot(wlist')
  BY <1>1 DEF ExchInv, ListInv, TypeOK, Watched
<1>3. PollOK' /\ Fresh'
  BY <1>1 DEF PollOK, Fresh
<1>4. ASSUME NEW y \in Peers
      PROVE  View(y)' = View(y)
  <2>1. SameFor(y)
    BY <1>1 DEF SameFor, Watched
  <2>2. QED
    BY <2>1, SameView
<1>5. PeersGood'
  BY <1>4, PeersStayGood DEF ExchInv
<1>6. QED
  BY <1>2, <1>3, <1>5 DEF ExchInv, ListInv

\* reply_send begins with a client that waits.
LEMMA AnswerGood ==
    ASSUME NEW v, Typed(v), Good(v), v.peer = "client", "waiting" \in v.marks,
           NEW w,
           w.peer = v.peer, w.fd = v.fd, w.link = v.link, w.inbox = v.inbox, w.owed = v.owed,
           w.outbox = v.outbox, w.msglen = v.msglen, w.handed = v.handed, w.sends = v.sends,
           w.read = v.read, w.write \in {"off", "length"},
           \A m \in {"cut", "missed", "early"} : m \in v.marks <=> m \in w.marks,
           "waiting" \notin w.marks
    PROVE  Good(w)
<1>1. IncomingOK(w)
  BY DEF Good, IncomingOK, AlignedAt
<1>2. OutgoingOK(w) /\ HandedOK(w)
  BY DEF Good, OutgoingOK, HandedOK, ClientOK
<1>3. ClientOK(w)
  BY DEF Good, ClientOK
<1>4. QED
  BY <1>1, <1>2, <1>3 DEF Good

\* What reply_send does to the list and to the client.
LEMMA ReplySendEffect ==
    ASSUME ExchInv, NEW k \in Clients, NEW wl \in Lists, OneSlot(wl),
           Sender(k) \in In(wl) => Sender(k) \in Watched,
           Reader(k) \in In(wl) <=> Reader(k) \in Watched,
           ReplySend(k, wl)
    PROVE  /\ wlist' \in Lists /\ OneSlot(wlist')
           /\ In(wl) \subseteq In(wlist') /\ In(wlist') \subseteq In(wl) \cup {Sender(k)}
           /\ wlist' # wl \/ dead' = "full"
           /\ dead' \in {dead, "full"}
           /\ waiting' = waiting \ {k} /\ k \in waiting
           /\ Sender(k) \notin Watched /\ Reader(k) \notin Watched
<1>1. k \in Peers /\ k \in waiting /\ waiting' = waiting \ {k}
  BY DEF Peers, ReplySend
<1>2. PICK v : v = View(k)
  OBVIOUS
<1>3. Good(v) /\ v.peer = "client" /\ "waiting" \in v.marks
  BY <1>1, <1>2 DEF ExchInv, PeersGood, View
<1>4. v.read = "off" /\ v.write = "off"
  BY <1>3 DEF Good, ClientOK
<1>5. Sender(k) \notin Watched /\ Reader(k) \notin Watched
  BY <1>2, <1>4 DEF View, At
<1>6. Sender(k) = <<k, "rsend">> /\ Sender(k) \in Watchers
  BY <1>1, Jobs DEF Sender
<1>7. CASE Vacant(wl) = {}
  BY <1>1, <1>5, <1>7 DEF ReplySend
<1>8. CASE Vacant(wl) # {}
  <2>1. wlist' = Started(wl, Sender(k)) /\ dead' = dead
    BY <1>6, <1>8 DEF ReplySend
  <2>2. /\ wlist' \in Lists /\ In(wlist') = In(wl) \cup {Sender(k)} /\ wlist' # wl
        /\ OneSlot(wlist')
    BY <1>5, <1>6, <1>8, <2>1, StartedList
  <2>3. QED
    BY <1>1, <1>5, <2>1, <2>2
<1>9. QED
  BY <1>7, <1>8

LEMMA AnswerByUdpStep ==
    ASSUME ExchInv, NEW k \in Clients, AnswerByUdp(k)
    PROVE  ExchInv'
<1>1. /\ poll' = NULL /\ ReplySend(k, wlist)
      /\ UNCHANGED <<past, fd, link, inbox, owed, outbox, pieces, early, msglen, handed, missed,
                     sends>>
  BY DEF AnswerByUdp, peerVars, recvVars
<1>2. TypeOK /\ sends \in Sends /\ OneSlot(wlist) /\ wlist \in Lists /\ In(wlist) = Watched
  BY DEF ExchInv, ListInv, TypeOK, Lists, In, Watched
<1>3. /\ wlist' \in Lists /\ OneSlot(wlist')
      /\ In(wlist) \subseteq In(wlist') /\ In(wlist') \subseteq In(wlist) \cup {Sender(k)}
      /\ dead' \in {dead, "full"} /\ waiting' = waiting \ {k} /\ k \in waiting
      /\ Sender(k) \notin Watched /\ Reader(k) \notin Watched
  BY <1>1, <1>2, ReplySendEffect
<1>4. Watched \subseteq Watched' /\ Watched' \subseteq Watched \cup {Sender(k)}
  BY <1>2, <1>3 DEF In, Watched
<1>5. k \in Peers /\ Reader(k) # Sender(k)
  BY Jobs DEF Peers
<1>6. TypeOK' /\ sends' \in Sends /\ fd'[LISTEN] = "open"
  BY <1>1, <1>2, <1>3, <1>4 DEF ExchInv, ListInv, TypeOK, Lists
<1>7. PollOK' /\ Fresh'
  BY <1>1 DEF PollOK, Fresh
<1>8. ASSUME NEW y \in Peers \ {k}
      PROVE  View(y)' = View(y)
  <2>1. Reader(y) # Sender(k) /\ Sender(y) # Sender(k)
    BY <1>5, Jobs
  <2>2. SameFor(y)
    BY <1>1, <1>3, <1>4, <2>1 DEF SameFor
  <2>3. QED
    BY <2>2, SameView
<1>9. PICK v : v = View(k)
  OBVIOUS
<1>10. PICK w : w = View(k)'
  OBVIOUS
<1>11. Typed(v) /\ Good(v) /\ v.peer = "client" /\ "waiting" \in v.marks
  BY <1>2, <1>3, <1>5, <1>9, TypedView DEF ExchInv, PeersGood, View
<1>12. /\ At(Reader(k))' = At(Reader(k))
       /\ At(Sender(k))' \in {"off", "length"}
  <2>1. past \subseteq Watched
    BY <1>2 DEF TypeOK
  <2>2. QED
    BY <1>1, <1>3, <1>4, <1>5, <2>1 DEF At, Reader, Sender
<1>13. /\ w.peer = v.peer /\ w.fd = v.fd /\ w.link = v.link /\ w.inbox = v.inbox
       /\ w.owed = v.owed /\ w.outbox = v.outbox /\ w.msglen = v.msglen
       /\ w.handed = v.handed /\ w.sends = v.sends
       /\ w.read = v.read /\ w.write \in {"off", "length"}
  BY <1>1, <1>9, <1>10, <1>12 DEF View
<1>14. /\ \A m \in {"cut", "missed", "early"} : m \in v.marks <=> m \in w.marks
       /\ "waiting" \notin w.marks
  BY <1>1, <1>3, <1>9, <1>10 DEF View
<1>15. Good(w)
  BY <1>11, <1>13, <1>14, AnswerGood
<1>16. PeersGood'
  BY <1>8, <1>10, <1>15, PeersStayGood DEF ExchInv
<1>17. QED
  BY <1>3, <1>6, <1>7, <1>16 DEF ExchInv, ListInv

LEMMA ConnectedStep ==
    ASSUME ExchInv, NEW u \in Upstreams, Connected(u)
    PROVE  ExchInv'
<1>1. /\ poll' = NULL /\ fd[u] = "none"
      /\ fd' = [fd EXCEPT ![u] = "open"] /\ link' = [link EXCEPT ![u] = "up"]
      /\ UNCHANGED <<past, waiting, inbox, owed, outbox, pieces, early, msglen, handed, missed,
                     sends>>
  BY DEF Connected, recvVars
<1>2. /\ TypeOK /\ sends \in Sends /\ OneSlot(wlist) /\ wlist \in Lists /\ In(wlist) = Watched
      /\ past \subseteq Watched
  BY DEF ExchInv, ListInv, TypeOK, Lists, In, Watched
<1>3. /\ u \in Peers /\ u \in Sockets \ {LISTEN} /\ u \notin Clients
      /\ Reader(u) # Sender(u) /\ Reader(u) \in Watchers /\ Sender(u) \in Watchers
      /\ Reader(u) = <<u, "rrecv">> /\ Sender(u) = <<u, "qsend">>
  BY ExchangeAssumption, Jobs DEF Peers, Sockets, Reader, Sender
<1>4. PICK v : v = View(u)
  OBVIOUS
<1>5. PICK w : w = View(u)'
  OBVIOUS
<1>6. Typed(v) /\ Good(v) /\ v.peer = "upstream" /\ v.fd = "none"
  BY <1>1, <1>2, <1>3, <1>4, TypedView DEF ExchInv, PeersGood, View
<1>7. v.link = "none" /\ v.read = "off" /\ v.write = "off"
  BY <1>6 DEF Good, UpstreamOK
<1>8. Reader(u) \notin Watched /\ Sender(u) \notin Watched
  BY <1>4, <1>7 DEF View, At
<1>9. /\ wlist' \in Lists /\ OneSlot(wlist') /\ In(wlist) \subseteq In(wlist')
      /\ In(wlist') \subseteq In(wlist) \cup {Reader(u), Sender(u)}
      /\ dead' \in {dead, "full"}
  <2>1. CASE Cardinality(Vacant(wlist)) < 2
    BY <1>2, <2>1 DEF Connected
  <2>2. CASE ~(Cardinality(Vacant(wlist)) < 2)
    <3>1. IsFiniteSet(Vacant(wlist))
      <4>1. 0 \in Int /\ WLIST_SIZE - 1 \in Int
        BY ExchangeAssumption
      <4>2. IsFiniteSet(Slots)
        BY <4>1, FS_Interval DEF Slots
      <4>3. Vacant(wlist) \subseteq Slots
        BY DEF Vacant
      <4>4. QED
        BY <4>2, <4>3, FS_Subset
    <3>2. Cardinality(Vacant(wlist)) >= 2
      BY <2>2, <3>1, FS_CardinalityType
    <3>3. PICK wl : wl = Started(wlist, Sender(u))
      OBVIOUS
    <3>4. Vacant(wlist) # {} /\ Vacant(wl) # {}
      BY <1>2, <1>3, <3>2, <3>3, SecondVacant
    <3>5. wl \in Lists /\ In(wl) = In(wlist) \cup {Sender(u)} /\ OneSlot(wl)
      BY <1>2, <1>3, <1>8, <3>3, <3>4, StartedList
    <3>6. wlist' = Started(wl, Reader(u)) /\ dead' = dead
      BY <1>3, <2>2, <3>3 DEF Connected
    <3>7. /\ wlist' \in Lists /\ In(wlist') = In(wl) \cup {Reader(u)}
          /\ OneSlot(wlist')
      BY <1>2, <1>3, <1>8, <3>4, <3>5, <3>6, StartedList
    <3>8. QED
      BY <3>5, <3>6, <3>7
  <2>3. QED
    BY <2>1, <2>2
<1>10. Watched \subseteq Watched' /\ Watched' \subseteq Watched \cup {Reader(u), Sender(u)}
  BY <1>2, <1>9 DEF In, Watched
<1>11. /\ fd'[u] = "open" /\ link'[u] = "up" /\ fd'[LISTEN] = fd[LISTEN]
       /\ \A y \in Peers \ {u} : fd'[y] = fd[y] /\ link'[y] = link[y]
       /\ fd' \in [Sockets -> {"none", "open", "closed"}]
       /\ link' \in [Sockets \ {LISTEN} -> {"none", "calling", "up", "fin", "reset", "broken"}]
  BY <1>1, <1>2, <1>3, ExchangeAssumption DEF TypeOK, Peers, Sockets
<1>12. TypeOK' /\ sends' \in Sends /\ fd'[LISTEN] = "open"
  <2>1. past' \subseteq Watched'
    BY <1>1, <1>2, <1>10
  <2>2. QED
    BY <1>1, <1>2, <1>9, <1>11, <2>1 DEF ExchInv, ListInv, TypeOK, Lists
<1>13. PollOK' /\ Fresh'
  BY <1>1 DEF PollOK, Fresh
<1>14. ASSUME NEW y \in Peers \ {u}
       PROVE  View(y)' = View(y)
  <2>1. {Reader(y), Sender(y)} \cap {Reader(u), Sender(u)} = {}
    BY <1>3, Jobs
  <2>2. SameFor(y)
    BY <1>1, <1>10, <1>11, <2>1 DEF SameFor
  <2>3. QED
    BY <2>2, SameView
<1>15. At(Reader(u))' \in {"off", "length"} /\ At(Sender(u))' \in {"off", "length"}
  BY <1>1, <1>2, <1>8 DEF At, Reader, Sender
<1>16. /\ w.peer = v.peer /\ w.fd = "open" /\ w.link = "up" /\ w.inbox = v.inbox
       /\ w.owed = v.owed /\ w.outbox = v.outbox /\ w.msglen = v.msglen
       /\ w.handed = v.handed /\ w.sends = v.sends /\ w.marks = v.marks
       /\ w.read \in {"off", "length"} /\ w.write \in {"off", "length"}
  BY <1>1, <1>4, <1>5, <1>11, <1>15 DEF View
<1>17. Good(w)
  <2>1. IncomingOK(w)
    BY <1>6, <1>7, <1>16 DEF Good, IncomingOK, AlignedAt
  <2>2. OutgoingOK(w) /\ HandedOK(w)
    BY <1>6, <1>7, <1>16 DEF Good, OutgoingOK, HandedOK
  <2>3. UpstreamOK(w)
    BY <1>6, <1>7, <1>16 DEF Good, UpstreamOK
  <2>4. QED
    BY <1>6, <1>16, <2>1, <2>2, <2>3 DEF Good
<1>18. PeersGood'
  BY <1>5, <1>14, <1>17, PeersStayGood DEF ExchInv
<1>19. QED
  BY <1>9, <1>12, <1>13, <1>18 DEF ExchInv, ListInv

-------------------------------------------------------------------------------
(* Callbacks *)

LEMMA AcceptCbStep ==
    ASSUME ExchInv, dead = "no", poll # NULL, NEW s \in Due, AcceptCb, WalkOn(s)
    PROVE  ExchInv'
<1>1. PICK k \in Clients :
         /\ link[k] = "calling"
         /\ link' = [link EXCEPT ![k] = "up"]
         /\ fd' = [fd EXCEPT ![k] = "open"]
         /\ IF Vacant(wlist) = {} THEN dead' = "full" /\ UNCHANGED wlist
            ELSE wlist' = Started(wlist, <<k, "qrecv">>) /\ UNCHANGED dead
         /\ UNCHANGED <<past, waiting, inbox, owed, outbox, pieces, early, msglen, handed, missed,
                        sends>>
  BY DEF AcceptCb, recvVars
<1>2. /\ TypeOK /\ sends \in Sends /\ OneSlot(wlist) /\ wlist \in Lists /\ In(wlist) = Watched
      /\ past \subseteq Watched
  BY DEF ExchInv, ListInv, TypeOK, Lists, In, Watched
<1>3. /\ k \in Peers /\ k \in Sockets \ {LISTEN}
      /\ Reader(k) # Sender(k) /\ Reader(k) \in Watchers /\ Reader(k) = <<k, "qrecv">>
  BY ExchangeAssumption, Jobs DEF Peers, Sockets, Reader
<1>4. PICK v : v = View(k)
  OBVIOUS
<1>5. PICK w : w = View(k)'
  OBVIOUS
<1>6. Typed(v) /\ Good(v) /\ v.peer = "client" /\ v.link = "calling"
  BY <1>1, <1>2, <1>3, <1>4, TypedView DEF ExchInv, PeersGood, View
<1>7. v.fd = "none" /\ v.read = "off" /\ v.write = "off" /\ "waiting" \notin v.marks
  BY <1>6 DEF Good, ClientOK
<1>8. Reader(k) \notin Watched
  BY <1>4, <1>7 DEF View, At
<1>9. /\ wlist' \in Lists /\ OneSlot(wlist') /\ In(wlist) \subseteq In(wlist')
      /\ In(wlist') \subseteq In(wlist) \cup {Reader(k)}
      /\ dead' \in {dead, "full"}
      /\ wlist' # wlist \/ dead' = "full"
  <2>1. CASE Vacant(wlist) = {}
    BY <1>1, <1>2, <2>1
  <2>2. CASE Vacant(wlist) # {}
    <3>1. wlist' = Started(wlist, Reader(k)) /\ dead' = dead
      BY <1>1, <1>3, <2>2
    <3>2. /\ wlist' \in Lists /\ In(wlist') = In(wlist) \cup {Reader(k)} /\ wlist' # wlist
          /\ OneSlot(wlist')
      BY <1>2, <1>3, <1>8, <2>2, <3>1, StartedList
    <3>3. QED
      BY <3>1, <3>2
  <2>3. QED
    BY <2>1, <2>2
<1>10. Watched \subseteq Watched' /\ Watched' \subseteq Watched \cup {Reader(k)}
  BY <1>2, <1>9 DEF In, Watched
<1>11. /\ fd'[k] = "open" /\ link'[k] = "up" /\ fd'[LISTEN] = fd[LISTEN]
       /\ \A y \in Peers \ {k} : fd'[y] = fd[y] /\ link'[y] = link[y]
       /\ fd' \in [Sockets -> {"none", "open", "closed"}]
       /\ link' \in [Sockets \ {LISTEN} -> {"none", "calling", "up", "fin", "reset", "broken"}]
  BY <1>1, <1>2, <1>3, ExchangeAssumption DEF TypeOK, Peers, Sockets
<1>12. TypeOK' /\ sends' \in Sends /\ fd'[LISTEN] = "open"
  <2>1. past' \subseteq Watched'
    BY <1>1, <1>2, <1>10
  <2>2. QED
    BY <1>1, <1>2, <1>9, <1>11, <2>1 DEF ExchInv, ListInv, TypeOK, Lists
<1>13. PollOK' /\ Fresh'
  BY <1>9, WalkOnFresh DEF ExchInv
<1>14. ASSUME NEW y \in Peers \ {k}
       PROVE  View(y)' = View(y)
  <2>1. Reader(k) \notin {Reader(y), Sender(y)}
    BY <1>3, Jobs
  <2>2. SameFor(y)
    BY <1>1, <1>10, <1>11, <2>1 DEF SameFor
  <2>3. QED
    BY <2>2, SameView
<1>15. At(Reader(k))' \in {"off", "length"} /\ At(Sender(k))' = At(Sender(k))
  BY <1>1, <1>2, <1>3, <1>8, <1>10 DEF At, Reader, Sender
<1>16. /\ w.peer = v.peer /\ w.fd = "open" /\ w.link = "up" /\ w.inbox = v.inbox
       /\ w.owed = v.owed /\ w.outbox = v.outbox /\ w.msglen = v.msglen
       /\ w.handed = v.handed /\ w.sends = v.sends /\ w.marks = v.marks
       /\ w.read \in {"off", "length"} /\ w.write = "off"
  BY <1>1, <1>4, <1>5, <1>7, <1>11, <1>15 DEF View
<1>17. Good(w)
  <2>1. IncomingOK(w)
    BY <1>6, <1>7, <1>16 DEF Good, IncomingOK, AlignedAt
  <2>2. OutgoingOK(w) /\ HandedOK(w)
    BY <1>6, <1>7, <1>16 DEF Good, OutgoingOK, HandedOK
  <2>3. ClientOK(w)
    BY <1>6, <1>7, <1>16 DEF Good, ClientOK, OutgoingOK
  <2>4. QED
    BY <1>6, <1>16, <2>1, <2>2, <2>3 DEF Good
<1>18. PeersGood'
  BY <1>5, <1>14, <1>17, PeersStayGood DEF ExchInv
<1>19. QED
  BY <1>9, <1>12, <1>13, <1>18 DEF ExchInv, ListInv

LEMMA DropFront ==
    ASSUME NEW o \in Seq(Nat), NEW n \in Nat, n <= Len(o)
    PROVE  /\ SubSeq(o, n + 1, Len(o)) \in Seq(Nat)
           /\ o = << >> => SubSeq(o, n + 1, Len(o)) = << >>
<1>1. PICK m \in Nat : m = Len(o)
  BY LenProperties
<1>2. \A i \in n + 1 .. m : o[i] \in Nat
  BY <1>1, ElementOfSeq
<1>3. PICK b : b = SubSeq(o, n + 1, m)
  OBVIOUS
<1>4. b \in Seq(Nat) /\ Len(b) = IF n + 1 <= m THEN m - (n + 1) + 1 ELSE 0
  BY <1>2, <1>3, SubSeqProperties
<1>5. o = << >> => m = 0
  BY <1>1, EmptySeq
<1>6. o = << >> => Len(b) = 0
  BY <1>4, <1>5
<1>7. o = << >> => b = << >>
  BY <1>4, <1>6, EmptySeq
<1>8. QED
  BY <1>1, <1>3, <1>4, <1>7

\* The reader of a peer is stopped and its socket is closed.
LEMMA ReadClosed ==
    ASSUME NEW v, Typed(v), Good(v), v.read # "off", v.fd = "open",
           v.inbox # << >> \/ v.link \in {"fin", "reset", "broken"},
           v.peer = "client" /\ "cut" \notin v.marks => v.link # "up",
           NEW w, HandedOK(w), v.inbox = << >> => w.inbox = << >>,
           w.peer = v.peer, w.fd = "closed", w.link = v.link, w.owed = v.owed,
           w.outbox = v.outbox, w.sends = v.sends, w.read = "off", w.write = v.write,
           w.marks = v.marks
    PROVE  Good(w)
<1>1. IncomingOK(w)
  <2>1. v.link \notin {"none", "calling"}
    BY DEF Good, ClientOK, UpstreamOK, Typed
  <2>2. QED
    BY <2>1 DEF Good, IncomingOK
<1>2. OutgoingOK(w)
  BY DEF Good, OutgoingOK
<1>3. w.peer = "client" => ClientOK(w)
  BY DEF Good, ClientOK
<1>4. w.peer = "upstream" => UpstreamOK(w)
  <2>1. "cut" \notin v.marks /\ v.write # "off" => Len(v.outbox) < 4
    BY ShortYet DEF Good
  <2>2. QED
    BY <2>1 DEF Good, UpstreamOK
<1>5. QED
  BY <1>1, <1>2, <1>3, <1>4 DEF Good

\* The reader of a client is stopped with a query.
LEMMA ReadDone ==
    ASSUME NEW v, Typed(v), Good(v), v.peer = "client", v.read # "off",
           NEW w, HandedOK(w),
           w.peer = v.peer, w.fd = v.fd, w.link = v.link, w.owed = v.owed,
           w.outbox = v.outbox, w.sends = v.sends, w.read = "off", w.write = v.write,
           \A m \in {"cut", "missed", "early"} : m \in v.marks <=> m \in w.marks
    PROVE  Good(w)
<1>1. IncomingOK(w)
  BY DEF Good, IncomingOK, ClientOK
<1>2. OutgoingOK(w) /\ ClientOK(w)
  BY DEF Good, OutgoingOK, ClientOK
<1>3. QED
  BY <1>1, <1>2 DEF Good

\* The reader of a peer goes on after less or more than the text.
LEMMA ReadMissed ==
    ASSUME NEW v, Typed(v), Good(v), v.read = "text",
           NEW w, v.inbox = << >> => w.inbox = << >>,
           w.peer = v.peer, w.fd = v.fd, w.link = v.link, w.owed = v.owed,
           w.outbox = v.outbox, w.sends = v.sends, w.read = v.read, w.write = v.write,
           \A m \in {"cut", "waiting", "early"} : m \in v.marks <=> m \in w.marks,
           "missed" \in w.marks
    PROVE  Good(w)
<1>1. v.link \notin {"none", "calling"}
  BY DEF Good, ClientOK, UpstreamOK, Typed
<1>2. IncomingOK(w) /\ HandedOK(w)
  BY <1>1 DEF IncomingOK, HandedOK
<1>3. OutgoingOK(w)
  BY DEF Good, OutgoingOK
<1>4. w.peer = "client" => ClientOK(w)
  BY DEF Good, ClientOK
<1>5. w.peer = "upstream" => UpstreamOK(w)
  BY DEF Good, UpstreamOK
<1>6. QED
  BY <1>2, <1>3, <1>4, <1>5 DEF Good

\* The reader of a peer has read a length.
LEMMA ReadLength ==
    ASSUME NEW v, Typed(v), Good(v), v.read = "length", Len(v.inbox) >= 2,
           NEW w,
           w.msglen = Kept(v.inbox[1] * 256 + v.inbox[2]),
           w.read = IF w.msglen = 0 THEN "length" ELSE "text",
           w.inbox = SubSeq(v.inbox, 3, Len(v.inbox)),
           w.peer = v.peer, w.fd = v.fd, w.link = v.link, w.owed = v.owed,
           w.outbox = v.outbox, w.sends = v.sends, w.write = v.write,
           w.handed = v.handed, w.marks = v.marks
    PROVE  Good(w)
<1>1. v.inbox # << >>
  BY EmptySeq DEF Typed
<1>2. IncomingOK(w)
  <2>1. PICK k, rem : AlignedAt(v, k, rem)
    BY DEF Good, IncomingOK
  <2>2. \E j : AlignedAt(w, j, rem)
    BY <2>1, LengthRead
  <2>3. QED
    BY <2>2 DEF Good, IncomingOK
<1>3. OutgoingOK(w) /\ HandedOK(w)
  BY DEF Good, OutgoingOK, HandedOK
<1>4. w.peer = "client" => ClientOK(w)
  BY DEF Good, ClientOK
<1>5. w.peer = "upstream" => UpstreamOK(w)
  BY <1>1 DEF Good, UpstreamOK
<1>6. QED
  BY <1>2, <1>3, <1>4, <1>5 DEF Good

\* What the callback that reads the socket of x finds: the watcher at work, the
\* socket open, and bytes or the end of the stream.
LEMMA RecvContext ==
    ASSUME ExchInv, dead = "no", poll # NULL, NEW s \in Due, wlist[s][2] \in {"qrecv", "rrecv"}
    PROVE  \E x \in Peers :
              /\ wlist[s] = Reader(x) /\ wlist[s][1] = x /\ x \in Sockets \ {LISTEN}
              /\ Reader(x) \in Watched /\ fd[x] = "open"
              /\ inbox[x] # << >> \/ link[x] \in {"fin", "reset", "broken"}
<1>1. wlist[s] \in Watchers /\ wlist[s] \in Watched /\ Fires(wlist[s])
  BY DEF ExchInv, ListInv, TypeOK, Due, Fresh, Watched
<1>2. wlist[s][1] \in Peers /\ wlist[s] = Reader(wlist[s][1])
  BY <1>1, JobsOf
<1>3. PICK x \in Peers : x = wlist[s][1] /\ wlist[s] = Reader(x)
  BY <1>2
<1>4. x \in Sockets \ {LISTEN} /\ Event(Reader(x)) = "read"
  BY Jobs DEF Peers, Sockets
<1>5. fd[x] = "open" /\ Readable(x)
  BY <1>1, <1>3, <1>4 DEF Fires
<1>6. QED
  BY <1>1, <1>3, <1>4, <1>5 DEF Readable

\* The walk after a callback that read from x.
LEMMA WalkAfterRecv ==
    ASSUME ExchInv, dead = "no", poll # NULL, NEW s \in Due, WalkOn(s),
           NEW x \in Peers, wlist[s] = Reader(x), link' = link,
           \A y \in Peers \ {x} : inbox'[y] = inbox[y],
           wlist' = wlist => fd' = fd \/ dead' = "full"
    PROVE  PollOK' /\ Fresh'
<1>1. ASSUME wlist' = wlist, dead' = "no", NEW w \in Watched \ {wlist[s]}, Fires(w)
      PROVE  Fires(w)'
  <2>1. w \in Watchers
    BY DEF ExchInv, ListInv, TypeOK, Watched
  <2>2. w[1] = x => Event(w) = "write"
    BY <1>1, <2>1, Jobs
  <2>3. QED
    BY <1>1, <2>1, <2>2, StillFires
<1>2. ListInv
  BY DEF ExchInv
<1>3. QED
  BY <1>1, <1>2, WalkOnFresh

LEMMA RecvCbStep ==
    ASSUME ExchInv, dead = "no", poll # NULL, NEW s \in Due, wlist[s][2] \in {"qrecv", "rrecv"},
           RecvCb(wlist[s]), WalkOn(s)
    PROVE  ExchInv'
<1>1. PICK x \in Peers :
         /\ wlist[s] = Reader(x) /\ wlist[s][1] = x /\ x \in Sockets \ {LISTEN}
         /\ Reader(x) \in Watched /\ fd[x] = "open"
         /\ inbox[x] # << >> \/ link[x] \in {"fin", "reset", "broken"}
  BY RecvContext
<1>2. PICK r : r = Reader(x) /\ r[1] = x
  BY <1>1
<1>3. PICK bytes : bytes = IF link[x] \in {"reset", "broken"} THEN << >> ELSE inbox[x]
  OBVIOUS
<1>4. PICK n : n = Min({Len(bytes), IF r \in past THEN NS_PACKETSZ ELSE 2})
  OBVIOUS
<1>5. /\ inbox' = [inbox EXCEPT ![x] = SubSeq(bytes, n + 1, Len(bytes))]
      /\ \/ /\ IF r \in past THEN Gone(n) ELSE n < 2
            /\ Give(r)
            /\ UNCHANGED <<msglen, handed, missed>>
         \/ /\ n = 2 /\ r \notin past
            /\ msglen' = [msglen EXCEPT ![x] = Kept(bytes[1] * 256 + bytes[2])]
            /\ past' = IF msglen'[x] = 0 THEN past ELSE past \cup {r}
            /\ UNCHANGED <<wlist, fd, waiting, dead, handed, missed>>
         \/ /\ r \in past /\ ~Gone(n) /\ ~Whole(n, x)
            /\ missed' = missed \cup {x}
            /\ UNCHANGED <<wlist, past, fd, waiting, dead, msglen, handed>>
         \/ /\ r \in past /\ ~Gone(n) /\ Whole(n, x)
            /\ WholeMessage(r)
            /\ handed' = [handed EXCEPT ![x] = SubSeq(bytes, 1, n)]
            /\ UNCHANGED <<msglen, missed>>
      /\ UNCHANGED <<link, owed, outbox, pieces, early, sends>>
  BY <1>1, <1>2, <1>3, <1>4 DEF RecvCb
<1>6. /\ TypeOK /\ sends \in Sends /\ OneSlot(wlist) /\ wlist \in Lists /\ In(wlist) = Watched
      /\ past \subseteq Watched /\ fd[LISTEN] = "open" /\ x # LISTEN
  BY <1>1 DEF ExchInv, ListInv, TypeOK, Lists, In, Watched
<1>7. inbox[x] \in Seq(Nat) /\ bytes \in Seq(Nat) /\ Len(bytes) \in Nat
  <2>1. inbox[x] \in Seq(Nat)
    BY <1>1, <1>6 DEF TypeOK
  <2>2. << >> \in Seq(Nat)
    OBVIOUS
  <2>3. QED
    BY <1>3, <2>1, <2>2, LenProperties
<1>8. /\ n \in Nat /\ n <= Len(bytes)
      /\ n = IF r \in past THEN (IF Len(bytes) <= NS_PACKETSZ THEN Len(bytes) ELSE NS_PACKETSZ)
             ELSE IF Len(bytes) <= 2 THEN Len(bytes) ELSE 2
  <2>1. NS_PACKETSZ \in Nat
    BY ExchangeAssumption
  <2>2. r \in past => n = IF Len(bytes) <= NS_PACKETSZ THEN Len(bytes) ELSE NS_PACKETSZ
    BY <1>4, <1>7, <2>1, MinOfTwo
  <2>3. r \notin past => n = IF Len(bytes) <= 2 THEN Len(bytes) ELSE 2
    BY <1>4, <1>7, MinOfTwo
  <2>4. QED
    BY <1>7, <2>1, <2>2, <2>3
<1>9. PICK i \in Seq(Nat) : i = SubSeq(bytes, n + 1, Len(bytes)) /\ (inbox[x] = << >> => i = << >>)
  BY <1>3, <1>7, <1>8, DropFront
<1>10. /\ inbox'[x] = i /\ \A y \in Peers \ {x} : inbox'[y] = inbox[y]
       /\ inbox' \in [Sockets \ {LISTEN} -> Seq(Nat)]
  <2>1. inbox' = [inbox EXCEPT ![x] = i]
    BY <1>5, <1>9
  <2>2. inbox \in [Sockets \ {LISTEN} -> Seq(Nat)]
    BY <1>6 DEF TypeOK
  <2>3. \A y \in Peers : y \in Sockets \ {LISTEN}
    BY Jobs DEF Peers, Sockets
  <2>4. QED
    BY <1>1, <2>1, <2>2, <2>3
<1>11. PICK v : v = View(x)
  OBVIOUS
<1>12. PICK w : w = View(x)'
  OBVIOUS
<1>13. Typed(v) /\ Good(v)
  BY <1>6, <1>11, TypedView DEF ExchInv, PeersGood
<1>14. /\ v.fd = "open" /\ v.link = link[x] /\ v.inbox = inbox[x] /\ v.read # "off"
       /\ v.read = IF r \in past THEN "text" ELSE "length"
       /\ v.msglen = msglen[x] /\ v.sends = sends[x]
       /\ v.peer = (IF x \in Clients THEN "client" ELSE "upstream")
       /\ \A m \in v.marks : m \in {"waiting", "cut", "missed", "early"}
  BY <1>1, <1>2, <1>11 DEF View, At
<1>15. /\ w.inbox = i /\ w.link = v.link /\ w.owed = v.owed /\ w.outbox = v.outbox
       /\ w.peer = v.peer /\ w.sends = v.sends
       /\ \A m \in {"cut", "early"} : m \in v.marks <=> m \in w.marks
  BY <1>5, <1>10, <1>11, <1>12 DEF View
<1>16. wlist' = wlist /\ fd' = fd => PollOK' /\ Fresh'
  BY <1>1, <1>5, <1>10, WalkAfterRecv
<1>17. PICK wl : wl = Stopped(wlist, r)
  OBVIOUS
<1>18. wl \in Lists /\ In(wl) = Watched \ {r} /\ wl # wlist /\ OneSlot(wl)
  BY <1>1, <1>2, <1>6, <1>17, StoppedList
<1>19. ASSUME NEW y \in Peers \ {x}
       PROVE  r \notin {Reader(y), Sender(y)}
  BY <1>2, Jobs
<1>20. r # Sender(x)
  BY <1>2, Jobs

\* recv failed or found the end of the stream.
<1>21. ASSUME IF r \in past THEN Gone(n) ELSE n < 2, Give(r), UNCHANGED <<msglen, handed, missed>>
       PROVE  ExchInv'
  <2>1. /\ wlist' = wl /\ past' = past \ {r} /\ fd' = [fd EXCEPT ![x] = "closed"]
        /\ UNCHANGED <<waiting, dead>>
    BY <1>2, <1>17, <1>21 DEF Give, Stop, Close
  <2>2. Watched' = Watched \ {r}
    BY <1>18, <2>1 DEF In, Watched
  <2>3. /\ fd'[x] = "closed" /\ fd'[LISTEN] = "open" /\ \A y \in Peers \ {x} : fd'[y] = fd[y]
        /\ fd' \in [Sockets -> {"none", "open", "closed"}]
    BY <1>1, <1>6, <2>1 DEF TypeOK, Peers, Sockets
  <2>4. TypeOK'
    BY <1>5, <1>6, <1>10, <1>18, <1>21, <2>1, <2>2, <2>3 DEF TypeOK, Lists
  <2>5. PollOK' /\ Fresh'
    BY <1>1, <1>5, <1>10, <1>18, <2>1, WalkAfterRecv
  <2>6. ASSUME NEW y \in Peers \ {x}
        PROVE  View(y)' = View(y)
    <3>1. SameFor(y)
      BY <1>5, <1>10, <1>19, <1>21, <2>1, <2>2, <2>3 DEF SameFor
    <3>2. QED
      BY <3>1, SameView
  <2>7. At(Reader(x))' = "off" /\ At(Sender(x))' = At(Sender(x))
    BY <1>2, <1>20, <2>1, <2>2 DEF At, Reader, Sender
  <2>8. /\ w.fd = "closed" /\ w.handed = v.handed /\ w.read = "off" /\ w.write = v.write
        /\ w.marks = v.marks
    BY <1>5, <1>11, <1>12, <1>21, <2>1, <2>3, <2>7 DEF View
  <2>9. v.peer = "client" /\ "cut" \notin v.marks => v.link # "up"
    <3>1. SUFFICES ASSUME v.peer = "client", "cut" \notin v.marks, v.link = "up"
                   PROVE  FALSE
      OBVIOUS
    <3>2. bytes = v.inbox /\ bytes # << >> /\ Len(bytes) # 0
      BY <1>1, <1>3, <1>7, <1>14, <3>1, EmptySeq
    <3>3. CASE r \in past
      <4>1. NS_PACKETSZ \in Nat \ {0} /\ n <= 0
        BY <1>21, <3>3, ExchangeAssumption DEF Gone
      <4>2. QED
        BY <1>7, <1>8, <3>2, <3>3, <4>1
    <3>4. CASE r \notin past
      <4>1. v.read = "length" /\ n < 2 /\ Len(v.inbox) = 1
        <5>1. v.read = "length" /\ n < 2
          BY <1>14, <1>21, <3>4
        <5>2. PICK m \in Nat : m = Len(bytes) /\ m # 0
          BY <1>7, <3>2
        <5>3. n = IF m <= 2 THEN m ELSE 2
          BY <1>8, <3>4, <5>2
        <5>4. m = 1
          BY <5>1, <5>2, <5>3
        <5>5. QED
          BY <3>2, <5>1, <5>2, <5>4
      <4>2. PICK k, rem : AlignedAt(v, k, rem)
        BY <1>13, <4>1 DEF Good, IncomingOK
      <4>3. QED
        BY <1>13, <3>1, <4>1, <4>2, TwoBytes
    <3>5. QED
      BY <3>3, <3>4
  <2>10. HandedOK(w)
    BY <1>13, <1>15, <2>8 DEF Good, HandedOK
  <2>11. Good(w)
    <3>1. /\ v.inbox # << >> \/ v.link \in {"fin", "reset", "broken"}
          /\ v.inbox = << >> => w.inbox = << >>
      BY <1>1, <1>9, <1>14, <1>15
    <3>2. QED
      BY <1>13, <1>14, <1>15, <2>8, <2>9, <2>10, <3>1, ReadClosed
  <2>12. PeersGood'
    BY <1>12, <2>6, <2>11, PeersStayGood DEF ExchInv
  <2>13. QED
    BY <1>5, <1>6, <1>18, <2>1, <2>3, <2>4, <2>5, <2>12 DEF ExchInv, ListInv

\* A length has been read.
<1>22. ASSUME n = 2, r \notin past,
              msglen' = [msglen EXCEPT ![x] = Kept(bytes[1] * 256 + bytes[2])],
              past' = IF msglen'[x] = 0 THEN past ELSE past \cup {r},
              UNCHANGED <<wlist, fd, waiting, dead, handed, missed>>
       PROVE  ExchInv'
  <2>1. v.read = "length" /\ bytes = v.inbox /\ Len(v.inbox) >= 2
    <3>1. Len(bytes) >= 2
      BY <1>7, <1>8, <1>22
    <3>2. bytes # << >>
      BY <1>7, <3>1, EmptySeq
    <3>3. QED
      BY <1>3, <1>14, <1>22, <3>1, <3>2
  <2>2. bytes[1] \in Nat /\ bytes[2] \in Nat
    <3>1. 1 \in 1 .. Len(bytes) /\ 2 \in 1 .. Len(bytes)
      BY <1>7, <2>1
    <3>2. QED
      BY <1>7, <3>1, ElementOfSeq
  <2>3. Kept(bytes[1] * 256 + bytes[2]) \in 0 .. NS_PACKETSZ
    <3>1. bytes[1] * 256 + bytes[2] \in Nat
      BY <2>2
    <3>2. QED
      BY <3>1, KeptLemma
  <2>4. /\ msglen'[x] = Kept(bytes[1] * 256 + bytes[2])
        /\ \A y \in Peers \ {x} : msglen'[y] = msglen[y]
        /\ msglen' \in [Sockets \ {LISTEN} -> 0 .. NS_PACKETSZ]
    BY <1>1, <1>6, <1>22, <2>3 DEF TypeOK, Peers, Sockets
  <2>5. Watched' = Watched /\ past' \subseteq Watched
    BY <1>1, <1>2, <1>6, <1>22 DEF Watched
  <2>6. TypeOK'
    BY <1>5, <1>6, <1>10, <1>22, <2>4, <2>5 DEF TypeOK
  <2>7. ASSUME NEW y \in Peers \ {x}
        PROVE  View(y)' = View(y)
    <3>1. /\ Reader(y) \in past' <=> Reader(y) \in past
          /\ Sender(y) \in past' <=> Sender(y) \in past
      BY <1>19, <1>22
    <3>2. SameFor(y)
      BY <1>5, <1>10, <1>22, <2>4, <2>5, <3>1 DEF SameFor
    <3>3. QED
      BY <3>2, SameView
  <2>8. /\ At(Reader(x))' = IF msglen'[x] = 0 THEN "length" ELSE "text"
        /\ At(Sender(x))' = At(Sender(x))
    BY <1>1, <1>2, <1>20, <1>22, <2>5 DEF At, Reader, Sender
  <2>9. /\ w.fd = v.fd /\ w.handed = v.handed /\ w.write = v.write /\ w.marks = v.marks
        /\ w.msglen = Kept(v.inbox[1] * 256 + v.inbox[2])
        /\ w.read = IF w.msglen = 0 THEN "length" ELSE "text"
    BY <1>5, <1>11, <1>12, <1>22, <2>1, <2>4, <2>8 DEF View
  <2>10. w.inbox = SubSeq(v.inbox, 3, Len(v.inbox))
    BY <1>9, <1>15, <1>22, <2>1
  <2>11. Good(w)
    BY <1>13, <1>15, <2>1, <2>9, <2>10, ReadLength
  <2>12. PeersGood'
    BY <1>12, <2>7, <2>11, PeersStayGood DEF ExchInv
  <2>13. QED
    BY <1>5, <1>6, <1>16, <1>22, <2>6, <2>12 DEF ExchInv, ListInv

\* Less or more than the text has been read.
<1>23. ASSUME r \in past, ~Gone(n), ~Whole(n, x), missed' = missed \cup {x},
              UNCHANGED <<wlist, past, fd, waiting, dead, msglen, handed>>
       PROVE  ExchInv'
  <2>1. Watched' = Watched
    BY <1>23 DEF Watched
  <2>2. missed' \subseteq Sockets
    BY <1>1, <1>6, <1>23 DEF TypeOK
  <2>3. TypeOK'
    BY <1>5, <1>6, <1>10, <1>23, <2>1, <2>2 DEF TypeOK
  <2>4. ASSUME NEW y \in Peers \ {x}
        PROVE  View(y)' = View(y)
    <3>1. y \in missed' <=> y \in missed
      BY <1>23
    <3>2. SameFor(y)
      BY <1>5, <1>10, <1>23, <2>1, <3>1 DEF SameFor
    <3>3. QED
      BY <3>2, SameView
  <2>5. At(Reader(x))' = At(Reader(x)) /\ At(Sender(x))' = At(Sender(x))
    BY <1>23, <2>1 DEF At, Reader, Sender
  <2>6. /\ w.fd = v.fd /\ w.read = v.read /\ w.write = v.write
        /\ \A m \in {"cut", "waiting", "early"} : m \in v.marks <=> m \in w.marks
        /\ "missed" \in w.marks
    BY <1>5, <1>11, <1>12, <1>23, <2>5 DEF View
  <2>7. v.read = "text" /\ (v.inbox = << >> => w.inbox = << >>)
    BY <1>9, <1>14, <1>15, <1>23
  <2>8. Good(w)
    BY <1>13, <1>15, <2>6, <2>7, ReadMissed
  <2>9. PeersGood'
    BY <1>12, <2>4, <2>8, PeersStayGood DEF ExchInv
  <2>10. QED
    BY <1>5, <1>6, <1>16, <1>23, <2>3, <2>9 DEF ExchInv, ListInv

\* A text has been read whole.
<1>24. ASSUME r \in past, ~Gone(n), Whole(n, x), WholeMessage(r),
              handed' = [handed EXCEPT ![x] = SubSeq(bytes, 1, n)],
              UNCHANGED <<msglen, missed>>
       PROVE  ExchInv'
  <2>1. /\ n = v.msglen /\ n # 0 /\ n <= Len(v.inbox) /\ bytes = v.inbox /\ v.inbox # << >>
        /\ v.read = "text"
    <3>1. n = v.msglen /\ n # 0 /\ v.read = "text"
      BY <1>8, <1>14, <1>24 DEF Whole, Gone
    <3>2. bytes # << >>
      BY <1>7, <1>8, <3>1, EmptySeq
    <3>3. QED
      BY <1>3, <1>8, <1>14, <3>1, <3>2
  <2>2. PICK h \in Seq(Nat) : h = SubSeq(bytes, 1, n)
    <3>1. n \in 1 .. Len(bytes)
      BY <1>7, <1>8, <2>1
    <3>2. QED
      BY <1>7, <3>1, CutInTwo
  <2>3. /\ handed'[x] = h /\ \A y \in Peers \ {x} : handed'[y] = handed[y]
        /\ handed' \in [Sockets \ {LISTEN} -> Seq(Nat)]
    BY <1>1, <1>6, <1>24, <2>2 DEF TypeOK, Peers, Sockets
  <2>4. w.handed = h /\ ("missed" \in w.marks <=> "missed" \in v.marks)
    BY <1>11, <1>12, <1>24, <2>3 DEF View
  <2>5. HandedOK(w)
    <3>1. SUFFICES ASSUME "missed" \notin v.marks
                   PROVE  \E l \in ToSet(w.sends) : w.handed = SubSeq(Text(l), 1, Kept(l))
      BY <2>4 DEF HandedOK
    <3>2. PICK k, rem : AlignedAt(v, k, rem)
      BY <1>13, <2>1, <3>1 DEF Good, IncomingOK
    <3>3. v.msglen <= Len(v.inbox)
      BY <2>1
    <3>4. \E l \in ToSet(v.sends) : SubSeq(v.inbox, 1, v.msglen) = SubSeq(Text(l), 1, Kept(l))
      BY <1>13, <2>1, <3>2, <3>3, TextRead
    <3>5. QED
      BY <1>15, <2>1, <2>2, <2>4, <3>4
  <2>a. ASSUME wlist' \in Lists, past' \subseteq Watched', waiting' \subseteq Clients,
               fd' \in [Sockets -> {"none", "open", "closed"}], dead' \in {"no", "sigpipe", "full"}
        PROVE  TypeOK'
    <3>1. UNCHANGED <<link, owed, outbox, pieces, early, msglen, missed>>
      BY <1>5, <1>24
    <3>2. {inbox', owed', outbox', handed'} \subseteq [Sockets \ {LISTEN} -> Seq(Nat)]
      BY <1>6, <1>10, <2>3, <3>1 DEF TypeOK
    <3>3. QED
      BY <1>6, <2>a, <3>1, <3>2 DEF TypeOK, Lists
  <2>6. ASSUME r[2] = "qrecv", Stop(r), waiting' \in {waiting, waiting \cup {x}},
               UNCHANGED <<fd, dead>>
        PROVE  ExchInv'
    <3>1. wlist' = wl /\ past' = past \ {r} /\ Watched' = Watched \ {r} /\ wlist' # wlist
      BY <1>17, <1>18, <2>6 DEF Stop, In, Watched
    <3>2. x \in Clients
      BY <1>1, <1>2, <2>6 DEF Reader
    <3>3. TypeOK'
      <4>1. wlist' \in Lists /\ past' \subseteq Watched' /\ waiting' \subseteq Clients
        BY <1>6, <1>18, <2>6, <3>1, <3>2 DEF TypeOK
      <4>2. fd' \in [Sockets -> {"none", "open", "closed"}] /\ dead' \in {"no", "sigpipe", "full"}
        BY <1>6, <2>6 DEF TypeOK
      <4>3. QED
        BY <2>a, <4>1, <4>2
    <3>4. PollOK' /\ Fresh'
      BY <1>1, <1>5, <1>10, <3>1, WalkAfterRecv
    <3>5. ASSUME NEW y \in Peers \ {x}
          PROVE  View(y)' = View(y)
      <4>1. y \in waiting' <=> y \in waiting
        BY <2>6
      <4>2. SameFor(y)
        BY <1>5, <1>10, <1>19, <1>24, <2>3, <2>6, <3>1, <4>1 DEF SameFor
      <4>3. QED
        BY <4>2, SameView
    <3>6. At(Reader(x))' = "off" /\ At(Sender(x))' = At(Sender(x))
      BY <1>2, <1>20, <3>1 DEF At, Reader, Sender
    <3>7. /\ w.fd = v.fd /\ w.read = "off" /\ w.write = v.write /\ v.peer = "client"
          /\ \A m \in {"cut", "missed", "early"} : m \in v.marks <=> m \in w.marks
      BY <1>5, <1>11, <1>12, <1>14, <1>24, <2>6, <3>2, <3>6 DEF View
    <3>8. Good(w)
      BY <1>13, <1>14, <1>15, <2>5, <3>7, ReadDone
    <3>9. PeersGood'
      BY <1>12, <3>5, <3>8, PeersStayGood DEF ExchInv
    <3>10. QED
      BY <1>5, <1>6, <1>18, <2>6, <3>1, <3>3, <3>4, <3>9 DEF ExchInv, ListInv

  \* The answer on an upstream, for client k or for nobody.
  <2>7. ASSUME r[2] = "rrecv", past' = past \ {r}, Close(x), NEW C \in SUBSET Clients,
               wlist' \in Lists, OneSlot(wlist'), wlist' # wlist \/ dead' = "full",
               dead' \in {dead, "full"}, waiting' = waiting \ C,
               \A k \in C : k \in waiting /\ Sender(k) \notin Watched /\ Reader(k) \notin Watched,
               In(wl) \subseteq In(wlist'), In(wlist') \subseteq In(wl) \cup {Sender(k) : k \in C}
        PROVE  ExchInv'
    <3>1. fd' = [fd EXCEPT ![x] = "closed"]
      BY <2>7 DEF Close
    <3>2. /\ fd'[x] = "closed" /\ fd'[LISTEN] = "open" /\ \A y \in Peers \ {x} : fd'[y] = fd[y]
          /\ fd' \in [Sockets -> {"none", "open", "closed"}]
      BY <1>1, <1>6, <3>1 DEF TypeOK, Peers, Sockets
    <3>3. /\ Watched \ {r} \subseteq Watched'
          /\ Watched' \subseteq (Watched \ {r}) \cup {Sender(k) : k \in C}
      BY <1>18, <2>7 DEF In, Watched
    <3>4. x \in Upstreams /\ x \notin Clients
      BY <1>1, <1>2, <2>7, ExchangeAssumption DEF Reader, Peers
    <3>5. TypeOK'
      <4>1. past' \subseteq Watched' /\ waiting' \subseteq Clients
        BY <1>6, <2>7, <3>3 DEF TypeOK
      <4>2. dead' \in {"no", "sigpipe", "full"}
        BY <2>7
      <4>3. QED
        BY <2>7, <2>a, <3>2, <4>1, <4>2
    <3>6. PollOK' /\ Fresh'
      BY <1>1, <1>5, <1>10, <2>7, WalkAfterRecv
    <3>7. ASSUME NEW y \in Peers \ {x}
          PROVE  View(y)' = View(y) \/ \E u : u = View(y)' /\ Good(u)
      <4>1. Reader(y) # r /\ Sender(y) # r /\ \A k \in C : Reader(y) # Sender(k)
        BY <1>19, Jobs DEF Peers
      <4>2. CASE y \notin C
        <5>1. \A k \in C : Sender(y) # Sender(k)
          BY <4>2, Jobs DEF Peers
        <5>2. /\ Reader(y) \in Watched' <=> Reader(y) \in Watched
              /\ Sender(y) \in Watched' <=> Sender(y) \in Watched
          BY <3>3, <4>1, <5>1
        <5>3. SameFor(y)
          BY <1>5, <1>10, <1>24, <2>3, <2>7, <3>2, <4>1, <4>2, <5>2 DEF SameFor
        <5>4. QED
          BY <5>3, SameView
      <4>3. CASE y \in C
        <5>1. PICK a : a = View(y)
          OBVIOUS
        <5>2. PICK b : b = View(y)'
          OBVIOUS
        <5>3. /\ At(Reader(y)) = "off" /\ At(Reader(y))' = "off"
              /\ At(Sender(y))' \in {"off", "length"}
          BY <1>6, <2>7, <3>3, <4>1, <4>3 DEF At, Reader, Sender
        <5>4. Typed(a) /\ Good(a) /\ a.peer = "client" /\ "waiting" \in a.marks
          BY <1>6, <2>7, <4>3, <5>1, TypedView DEF ExchInv, PeersGood, View
        <5>5. /\ b.peer = a.peer /\ b.fd = a.fd /\ b.link = a.link /\ b.inbox = a.inbox
              /\ b.owed = a.owed /\ b.outbox = a.outbox /\ b.msglen = a.msglen
              /\ b.handed = a.handed /\ b.sends = a.sends
              /\ b.read = a.read /\ b.write \in {"off", "length"}
          BY <1>5, <1>10, <1>24, <2>3, <3>2, <5>1, <5>2, <5>3 DEF View
        <5>6. /\ \A m \in {"cut", "missed", "early"} : m \in a.marks <=> m \in b.marks
              /\ "waiting" \notin b.marks
          BY <1>5, <1>24, <2>7, <4>3, <5>1, <5>2 DEF View
        <5>7. Good(b)
          BY <5>4, <5>5, <5>6, AnswerGood
        <5>8. QED
          BY <5>2, <5>7
      <4>4. QED
        BY <4>2, <4>3
    <3>8. At(Reader(x))' = "off" /\ At(Sender(x))' = At(Sender(x))
      <4>1. \A k \in C : Sender(k) # Reader(x) /\ Sender(k) # Sender(x)
        BY <3>4, Jobs DEF Peers
      <4>2. QED
        BY <1>2, <1>20, <2>7, <3>3, <4>1 DEF At, Reader, Sender
    <3>9. x \in waiting' <=> x \in waiting
      BY <2>7, <3>4
    <3>10. /\ w.fd = "closed" /\ w.read = "off" /\ w.write = v.write /\ v.peer = "upstream"
           /\ w.marks = v.marks
      BY <1>5, <1>11, <1>12, <1>14, <1>24, <3>2, <3>4, <3>8, <3>9 DEF View
    <3>11. Good(w)
      <4>1. /\ v.inbox # << >>
            /\ v.inbox = << >> => w.inbox = << >>
        BY <2>1
      <4>2. QED
        BY <1>13, <1>14, <1>15, <2>5, <3>10, <4>1, ReadClosed
    <3>12. PeersGood'
      BY <1>12, <3>7, <3>11, PeersStayGood DEF ExchInv
    <3>13. QED
      BY <1>5, <1>6, <2>7, <3>2, <3>5, <3>6, <3>12 DEF ExchInv, ListInv

  <2>8. ASSUME r[2] = "rrecv", past' = past \ {r}, Close(x), wlist' = wl, UNCHANGED <<waiting, dead>>
        PROVE  ExchInv'
    <3>1. waiting' = waiting \ {} /\ {} \in SUBSET Clients
      BY <2>8
    <3>2. /\ wlist' \in Lists /\ OneSlot(wlist') /\ (wlist' # wlist \/ dead' = "full")
          /\ dead' \in {dead, "full"} /\ In(wl) \subseteq In(wlist')
          /\ In(wlist') \subseteq In(wl) \cup {Sender(k) : k \in {}}
      BY <1>18, <2>8
    <3>3. QED
      BY <2>7, <2>8, <3>1, <3>2
  <2>9. ASSUME r[2] = "rrecv", past' = past \ {r}, Close(x), NEW k \in Clients, ReplySend(k, wl)
        PROVE  ExchInv'
    <3>1. /\ Sender(k) \in In(wl) => Sender(k) \in Watched
          /\ Reader(k) \in In(wl) <=> Reader(k) \in Watched
      <4>1. x \notin Clients
        BY <1>1, <1>2, <2>9 DEF Reader
      <4>2. Reader(k) # r
        BY <1>2, <4>1, Jobs DEF Peers
      <4>3. QED
        BY <1>18, <4>2
    <3>2. /\ wlist' \in Lists /\ OneSlot(wlist')
          /\ In(wl) \subseteq In(wlist') /\ In(wlist') \subseteq In(wl) \cup {Sender(k)}
          /\ wlist' # wl \/ dead' = "full"
          /\ dead' \in {dead, "full"}
          /\ waiting' = waiting \ {k} /\ k \in waiting
          /\ Sender(k) \notin Watched /\ Reader(k) \notin Watched
      BY <1>18, <2>9, <3>1, ReplySendEffect
    <3>3. wlist' # wlist
      <4>1. r \in In(wlist) /\ r # Sender(k) /\ r \notin In(wl)
        BY <1>1, <1>2, <1>6, <1>18, Jobs DEF Peers
      <4>2. r \notin In(wlist')
        BY <3>2, <4>1
      <4>3. QED
        BY <4>1, <4>2
    <3>4. {Sender(j) : j \in {k}} = {Sender(k)} /\ {k} \in SUBSET Clients
      OBVIOUS
    <3>5. /\ In(wlist') \subseteq In(wl) \cup {Sender(j) : j \in {k}}
          /\ \A j \in {k} : j \in waiting /\ Sender(j) \notin Watched /\ Reader(j) \notin Watched
      BY <3>2, <3>4
    <3>6. QED
      BY <2>7, <2>9, <3>2, <3>3, <3>4, <3>5
  <2>10. QED
    BY <1>2, <1>17, <1>24, <2>6, <2>8, <2>9 DEF WholeMessage
<1>30. QED
  BY <1>5, <1>21, <1>22, <1>23, <1>24

\* A piece of what a peer is sent is cut off, or was before.
LEMMA SendCut ==
    ASSUME NEW v, Typed(v), Good(v), v.write # "off", v.fd = "open", v.link \in {"up", "fin"},
           NEW w, "cut" \in w.marks,
           w.link = v.link \/ (v.link = "fin" /\ w.link = "broken"),
           w.fd = "open" \/ (w.fd = "closed" /\ w.write = "off"),
           w.peer = v.peer, w.inbox = v.inbox, w.owed = v.owed, w.msglen = v.msglen,
           w.sends = v.sends, w.handed = v.handed, w.read = v.read,
           \A m \in {"waiting", "missed", "early"} : m \in v.marks <=> m \in w.marks
    PROVE  Good(w)
<1>1. IncomingOK(w)
  BY DEF Good, IncomingOK, AlignedAt
<1>2. OutgoingOK(w) /\ HandedOK(w)
  BY DEF Good, OutgoingOK, HandedOK
<1>3. w.peer = "client" => ClientOK(w)
  BY DEF Good, ClientOK
<1>4. w.peer = "upstream" => UpstreamOK(w)
  BY DEF Good, UpstreamOK
<1>5. QED
  BY <1>1, <1>2, <1>3, <1>4 DEF Good

\* The length has been sent, or the text.
LEMMA SendWhole ==
    ASSUME NEW v, Typed(v), Good(v), v.write # "off", v.fd = "open", v.link \in {"up", "fin"},
           "cut" \notin v.marks,
           NEW w,
           w.link = v.link \/ (v.link = "fin" /\ w.link = "broken"),
           \/ v.write = "length" /\ w.write = "text" /\ w.outbox = <<0, 2>> /\ w.fd = "open"
           \/ /\ v.write = "text" /\ w.write = "off" /\ w.outbox = Message
              /\ w.fd = IF v.peer = "client" THEN "closed" ELSE "open",
           w.peer = v.peer, w.inbox = v.inbox, w.owed = v.owed, w.msglen = v.msglen,
           w.sends = v.sends, w.handed = v.handed, w.read = v.read, w.marks = v.marks
    PROVE  Good(w)
<1>1. IncomingOK(w)
  BY DEF Good, IncomingOK, AlignedAt
<1>2. OutgoingOK(w) /\ HandedOK(w)
  BY DEF Good, OutgoingOK, HandedOK
<1>3. w.peer = "client" => ClientOK(w)
  BY DEF Good, ClientOK
<1>4. w.peer = "upstream" => UpstreamOK(w)
  <2>1. Len(v.outbox) < 4
    BY ShortYet DEF Good
  <2>2. QED
    BY <2>1 DEF Good, UpstreamOK
<1>5. QED
  BY <1>1, <1>2, <1>3, <1>4 DEF Good

\* send failed on a connection that its peer has closed.
LEMMA SendGone ==
    ASSUME NEW v, Typed(v), Good(v), v.write # "off", v.fd = "open",
           v.link \in {"reset", "broken"},
           NEW w, w.write = "off", w.fd \in {"open", "closed"},
           w.link = v.link, w.peer = v.peer, w.inbox = v.inbox, w.owed = v.owed,
           w.outbox = v.outbox, w.msglen = v.msglen,
           w.sends = v.sends, w.handed = v.handed, w.read = v.read, w.marks = v.marks
    PROVE  Good(w)
<1>1. IncomingOK(w)
  BY DEF Good, IncomingOK, AlignedAt
<1>2. OutgoingOK(w) /\ HandedOK(w)
  BY DEF Good, OutgoingOK, HandedOK
<1>3. w.peer = "client" => ClientOK(w)
  BY DEF Good, ClientOK
<1>4. w.peer = "upstream" => UpstreamOK(w)
  BY DEF Good, UpstreamOK
<1>5. QED
  BY <1>1, <1>2, <1>3, <1>4 DEF Good

LEMMA FullSubSeq ==
    ASSUME NEW o \in Seq(Nat), NEW n \in Nat, n = Len(o), n # 0
    PROVE  SubSeq(o, 1, n) = o
<1>1. n \in 1 .. Len(o)
  BY LenProperties
<1>2. PICK a \in Seq(Nat) : a = SubSeq(o, 1, n) /\ Len(a) = n
  BY <1>1, CutInTwo
<1>3. \A i \in 1 .. n : a[i] = o[i]
  BY <1>2
<1>4. a = o
  BY <1>2, <1>3, SeqEqual
<1>5. QED
  BY <1>2, <1>4

LEMMA SendCbStep ==
    ASSUME ExchInv, dead = "no", poll # NULL, NEW s \in Due, wlist[s][2] \in {"qsend", "rsend"},
           SendCb(wlist[s]), WalkOn(s)
    PROVE  ExchInv'
<1>1. wlist[s] \in Watchers /\ wlist[s] \in Watched /\ Fires(wlist[s])
  BY DEF ExchInv, ListInv, TypeOK, Due, Fresh, Watched
<1>0. PICK r : r = wlist[s]
  OBVIOUS
<1>2. PICK x \in Peers :
         /\ r = wlist[s] /\ r = Sender(x) /\ r[1] = x /\ x \in Sockets \ {LISTEN} /\ x # LISTEN
         /\ r \in Watched /\ fd[x] = "open" /\ (r[2] = "rsend" <=> x \in Clients)
  <2>1. wlist[s][1] \in Peers /\ wlist[s] = Sender(wlist[s][1]) /\ fd[wlist[s][1]] = "open"
    BY <1>1, JobsOf DEF Fires
  <2>2. PICK x \in Peers : x = wlist[s][1]
    BY <2>1
  <2>3. Sender(x)[2] = "rsend" <=> x \in Clients
    BY DEF Sender
  <2>4. x \in Sockets \ {LISTEN}
    BY Jobs DEF Peers, Sockets
  <2>5. QED
    BY <1>0, <1>1, <2>1, <2>2, <2>3, <2>4
<1>3. /\ TypeOK /\ sends \in Sends /\ OneSlot(wlist) /\ wlist \in Lists /\ In(wlist) = Watched
      /\ past \subseteq Watched /\ fd[LISTEN] = "open"
  BY DEF ExchInv, ListInv, TypeOK, Lists, In, Watched
<1>4. PICK wl : wl = Stopped(wlist, r)
  OBVIOUS
<1>5. wl \in Lists /\ In(wl) = Watched \ {r} /\ wl # wlist /\ OneSlot(wl)
  BY <1>2, <1>3, <1>4, StoppedList
<1>6. PICK v : v = View(x)
  OBVIOUS
<1>7. PICK w : w = View(x)'
  OBVIOUS
<1>8. /\ Typed(v) /\ Good(v) /\ v.fd = "open" /\ v.link = link[x] /\ v.write # "off"
      /\ v.write = IF r \in past THEN "text" ELSE "length"
      /\ v.outbox = outbox[x] /\ ("cut" \in v.marks <=> x \in pieces)
      /\ v.peer = IF x \in Clients THEN "client" ELSE "upstream"
  <2>1. Typed(v) /\ Good(v)
    BY <1>3, <1>6, TypedView DEF ExchInv, PeersGood
  <2>2. QED
    BY <1>2, <1>6, <2>1 DEF View, At
<1>9. UNCHANGED <<inbox, owed, early, msglen, handed, missed, sends>>
  BY DEF SendCb, recvVars
<1>10. Reader(x) # r
  BY <1>2, Jobs

\* It is enough that what the callback leaves of x is good.
<1>11. ASSUME \/ wlist' = wlist /\ fd' = fd /\ past' \in {past, past \cup {r}}
              \/ /\ wlist' = wl /\ past' = past \ {r}
                 /\ fd' = fd \/ fd' = [fd EXCEPT ![x] = "closed"],
              waiting' = waiting, dead' \in {dead, "sigpipe"},
              NEW l \in {"none", "calling", "up", "fin", "reset", "broken"},
              link' = [link EXCEPT ![x] = l],
              l = link[x] \/ (link[x] = "fin" /\ l = "broken"),
              NEW o \in Seq(Nat), outbox' = [outbox EXCEPT ![x] = o],
              pieces' \in {pieces, pieces \cup {x}},
              Good(w)
       PROVE  ExchInv'
  <2>1. /\ wlist' \in Lists /\ OneSlot(wlist') /\ past' \subseteq Watched'
        /\ Watched \ {r} \subseteq Watched' /\ Watched' \subseteq Watched
        /\ \A j : j # r => (j \in past' <=> j \in past)
    <3>1. Watched' = In(wlist')
      BY DEF In, Watched
    <3>2. QED
      BY <1>2, <1>3, <1>5, <1>11, <3>1
  <2>2. /\ link'[x] = l /\ outbox'[x] = o
        /\ \A y \in Peers \ {x} : link'[y] = link[y] /\ outbox'[y] = outbox[y] /\ fd'[y] = fd[y]
        /\ fd'[LISTEN] = "open"
        /\ fd' \in [Sockets -> {"none", "open", "closed"}]
        /\ link' \in [Sockets \ {LISTEN} -> {"none", "calling", "up", "fin", "reset", "broken"}]
        /\ outbox' \in [Sockets \ {LISTEN} -> Seq(Nat)]
    <3>1. \A y \in Peers : y \in Sockets \ {LISTEN}
      BY Jobs DEF Peers, Sockets
    <3>2. /\ link \in [Sockets \ {LISTEN} -> {"none", "calling", "up", "fin", "reset", "broken"}]
          /\ outbox \in [Sockets \ {LISTEN} -> Seq(Nat)]
          /\ fd \in [Sockets -> {"none", "open", "closed"}]
      BY <1>3 DEF TypeOK
    <3>3. /\ link'[x] = l /\ outbox'[x] = o
          /\ \A y \in Peers \ {x} : link'[y] = link[y] /\ outbox'[y] = outbox[y]
          /\ link' \in [Sockets \ {LISTEN} -> {"none", "calling", "up", "fin", "reset", "broken"}]
          /\ outbox' \in [Sockets \ {LISTEN} -> Seq(Nat)]
      BY <1>2, <1>11, <3>1, <3>2
    <3>4. /\ \A y \in Peers \ {x} : fd'[y] = fd[y]
          /\ fd'[LISTEN] = "open"
          /\ fd' \in [Sockets -> {"none", "open", "closed"}]
      <4>1. fd' = fd \/ fd' = [fd EXCEPT ![x] = "closed"]
        BY <1>11
      <4>2. LISTEN \in Sockets /\ \A y \in Peers : y \in Sockets
        BY <3>1 DEF Sockets
      <4>3. CASE fd' = fd
        BY <1>3, <3>2, <4>3
      <4>4. CASE fd' = [fd EXCEPT ![x] = "closed"]
        <5>1. fd' \in [Sockets -> {"none", "open", "closed"}]
          BY <3>2, <4>4
        <5>2. \A y \in Sockets : y # x => fd'[y] = fd[y]
          BY <3>2, <4>4
        <5>3. QED
          BY <1>2, <1>3, <4>2, <5>1, <5>2
      <4>5. QED
        BY <4>1, <4>3, <4>4
    <3>5. QED
      BY <3>3, <3>4
  <2>3. TypeOK'
    <3>1. dead' \in {"no", "sigpipe", "full"} /\ pieces' \subseteq Sockets
      BY <1>2, <1>3, <1>11 DEF TypeOK
    <3>2. {inbox', owed', outbox', handed'} \subseteq [Sockets \ {LISTEN} -> Seq(Nat)]
      BY <1>3, <1>9, <2>2 DEF TypeOK
    <3>3. QED
      BY <1>3, <1>9, <1>11, <2>1, <2>2, <3>1, <3>2 DEF TypeOK, Lists
  <2>4. PollOK' /\ Fresh'
    <3>1. ASSUME wlist' = wlist, dead' = "no", NEW j \in Watched \ {wlist[s]}, Fires(j)
          PROVE  Fires(j)'
      <4>1. j \in Watchers
        BY <1>3 DEF TypeOK, Watched
      <4>2. fd' = fd
        BY <1>5, <1>11, <3>1
      <4>3. \A k \in Clients : link[k] = "calling" => link'[k] = "calling"
        BY <1>11, <2>2 DEF Peers
      <4>4. j[1] \in Peers => /\ link[j[1]] # "none" => link'[j[1]] # "none"
                              /\ link[j[1]] \in {"fin", "reset", "broken"} =>
                                    link'[j[1]] \in {"fin", "reset", "broken"}
        BY <1>11, <2>2
      <4>5. QED
        BY <1>9, <3>1, <4>1, <4>2, <4>3, <4>4, StillFires
    <3>2. ListInv
      BY DEF ExchInv
    <3>3. QED
      BY <3>1, <3>2, WalkOnFresh
  <2>5. ASSUME NEW y \in Peers \ {x}
        PROVE  View(y)' = View(y)
    <3>1. r \notin {Reader(y), Sender(y)} /\ (y \in pieces' <=> y \in pieces)
      BY <1>2, <1>11, Jobs
    <3>2. /\ Reader(y) \in Watched' <=> Reader(y) \in Watched
          /\ Sender(y) \in Watched' <=> Sender(y) \in Watched
          /\ Reader(y) \in past' <=> Reader(y) \in past
          /\ Sender(y) \in past' <=> Sender(y) \in past
      BY <2>1, <3>1
    <3>3. SameFor(y)
      BY <1>9, <1>11, <2>2, <3>1, <3>2 DEF SameFor
    <3>4. QED
      BY <3>3, SameView
  <2>6. PeersGood'
    BY <1>7, <1>11, <2>5, PeersStayGood DEF ExchInv
  <2>7. QED
    BY <1>3, <1>9, <2>1, <2>2, <2>3, <2>4, <2>6 DEF ExchInv, ListInv

\* What the callback leaves of x, whatever happens.
<1>12. ASSUME Watched \ {r} \subseteq Watched', Watched' \subseteq Watched,
              \A j : j # r => (j \in past' <=> j \in past), waiting' = waiting
       PROVE  /\ w.peer = v.peer /\ w.inbox = v.inbox /\ w.owed = v.owed /\ w.msglen = v.msglen
              /\ w.sends = v.sends /\ w.handed = v.handed /\ w.read = v.read
              /\ \A m \in {"waiting", "missed", "early"} : m \in v.marks <=> m \in w.marks
              /\ ("cut" \in w.marks <=> x \in pieces')
              /\ (pieces' = pieces => w.marks = v.marks)
              /\ w.write = (IF r \notin Watched' THEN "off"
                            ELSE IF r \in past' THEN "text" ELSE "length")
              /\ w.fd = fd'[x] /\ w.link = link'[x] /\ w.outbox = outbox'[x]
  <2>1. At(Reader(x))' = At(Reader(x))
    BY <1>10, <1>12 DEF At, Reader
  <2>2. At(Sender(x))' = IF r \notin Watched' THEN "off" ELSE IF r \in past' THEN "text" ELSE "length"
    BY <1>2 DEF At, Sender
  <2>3. QED
    BY <1>6, <1>7, <1>9, <1>12, <2>1, <2>2 DEF View
\* The list, and the contexts, as the callback leaves them.
<1>13. ASSUME Stop(r)
       PROVE  /\ wlist' = wl /\ past' = past \ {r} /\ r \notin Watched'
              /\ Watched \ {r} \subseteq Watched' /\ Watched' \subseteq Watched
              /\ \A j : j # r => (j \in past' <=> j \in past)
  <2>1. wlist' = wl /\ past' = past \ {r}
    BY <1>4, <1>13 DEF Stop
  <2>2. Watched' = In(wl)
    BY <2>1 DEF In, Watched
  <2>3. QED
    BY <1>5, <2>1, <2>2
<1>14. ASSUME wlist' = wlist, past' \in {past, past \cup {r}}
       PROVE  /\ Watched' = Watched /\ r \in Watched'
              /\ \A j : j # r => (j \in past' <=> j \in past)
  BY <1>2, <1>14 DEF Watched
<1>15. ASSUME NEW e, e = "closed", fd' = [fd EXCEPT ![x] = e]
       PROVE  fd'[x] = "closed"
  BY <1>2, <1>3, <1>15 DEF TypeOK
<1>16. SendFailed(r) <=> IF v.peer = "client" \/ v.write = "text" THEN Give(r)
                         ELSE Stop(r) /\ UNCHANGED <<fd, waiting, dead>>
  BY <1>2, <1>8 DEF SendFailed
<1>17. Sent(r) <=> IF v.peer = "client" THEN Give(r) ELSE Stop(r) /\ UNCHANGED <<fd, waiting, dead>>
  BY <1>2, <1>8 DEF Sent
<1>18. ASSUME Give(r) \/ (Stop(r) /\ UNCHANGED <<fd, waiting, dead>>)
       PROVE  /\ Stop(r) /\ waiting' = waiting /\ dead' = dead
              /\ fd' = fd \/ fd' = [fd EXCEPT ![x] = "closed"]
              /\ fd'[x] \in {"open", "closed"}
              /\ Give(r) => fd'[x] = "closed"
              /\ ~Give(r) => fd'[x] = "open"
  <2>1. Give(r) => Stop(r) /\ fd' = [fd EXCEPT ![x] = "closed"] /\ waiting' = waiting /\ dead' = dead
    BY <1>2 DEF Give, Close
  <2>2. Give(r) => fd'[x] = "closed"
    BY <1>15, <2>1
  <2>3. QED
    BY <1>2, <1>18, <2>1, <2>2
<1>19. link[x] \in {"none", "calling", "up", "fin", "reset", "broken"} /\ outbox[x] \in Seq(Nat)
  BY <1>2, <1>3 DEF TypeOK
<1>20. /\ Part(r) = (IF r \in past THEN Text(2) ELSE <<0, 2>>)
       /\ Part(r) \in Seq(Nat) /\ Len(Part(r)) = 2 /\ SubSeq(Part(r), 1, 2) = Part(r)
       /\ \A n \in {1, 2} : SubSeq(Part(r), 1, n) \in Seq(Nat)
  <2>1. Part(r) = (IF r \in past THEN Text(2) ELSE <<0, 2>>)
    BY DEF Part
  <2>2. /\ Text(2) \in Seq(Nat) /\ Len(Text(2)) = 2
        /\ <<0, 2>> \in Seq(Nat) /\ Len(<<0, 2>>) = 2
    BY MessageLemma
  <2>3. PICK p \in Seq(Nat) : p = Part(r) /\ Len(p) = 2
    BY <2>1, <2>2
  <2>4. 2 # 0 /\ 2 \in Nat /\ 1 .. 2 = {1, 2}
    OBVIOUS
  <2>5. SubSeq(p, 1, 2) = p
    BY <2>3, <2>4, FullSubSeq
  <2>6. \A n \in 1 .. Len(p) : SubSeq(p, 1, n) \in Seq(Nat)
    BY CutInTwo
  <2>7. QED
    BY <2>1, <2>3, <2>4, <2>5, <2>6

\* send takes n bytes.
<1>21. ASSUME link[x] \in {"up", "fin"},
              link' \in {link, [link EXCEPT ![x] = IF @ = "fin" THEN "broken" ELSE @]},
              NEW n \in {1, 2}, n = 1 => x \notin pieces,
              outbox' = [outbox EXCEPT ![x] = @ \o SubSeq(Part(r), 1, n)],
              pieces' = (IF n = 1 THEN pieces \cup {x} ELSE pieces),
              \/ n = 1 /\ r \notin past /\ SendFailed(r)
              \/ n = 1 /\ r \in past /\ UNCHANGED <<wlist, past, fd, waiting, dead>>
              \/ /\ n = 2 /\ r \notin past /\ past' = past \cup {r}
                 /\ UNCHANGED <<wlist, fd, waiting, dead>>
              \/ n = 2 /\ r \in past /\ Sent(r)
       PROVE  ExchInv'
  <2>1. PICK l : /\ l \in {"up", "fin", "broken"} /\ link' = [link EXCEPT ![x] = l]
                 /\ l = link[x] \/ (link[x] = "fin" /\ l = "broken")
    <3>1. CASE link' = link
      <4>1. link = [link EXCEPT ![x] = link[x]]
        BY <1>2, <1>3 DEF TypeOK
      <4>2. QED
        BY <1>21, <3>1, <4>1
    <3>2. CASE link' = [link EXCEPT ![x] = IF link[x] = "fin" THEN "broken" ELSE link[x]]
      BY <1>21, <3>2
    <3>3. QED
      BY <1>21, <3>1, <3>2
  <2>2. PICK o \in Seq(Nat) : /\ o = outbox[x] \o SubSeq(Part(r), 1, n)
                              /\ outbox' = [outbox EXCEPT ![x] = o]
    <3>1. SubSeq(Part(r), 1, n) \in Seq(Nat)
      BY <1>20
    <3>2. PICK p \in Seq(Nat) : p = SubSeq(Part(r), 1, n)
      BY <3>1
    <3>3. outbox[x] \o p \in Seq(Nat)
      BY <1>19, ConcatProperties
    <3>4. QED
      BY <1>21, <3>2, <3>3
  <2>3. link'[x] = l /\ outbox'[x] = o
    BY <1>2, <1>3, <2>1, <2>2 DEF TypeOK
  <2>4. pieces' \in {pieces, pieces \cup {x}} /\ (n = 1 => x \in pieces')
        /\ (n = 2 => pieces' = pieces)
    BY <1>21
  <2>5. /\ waiting' = waiting /\ dead' = dead
        /\ \/ /\ wlist' = wlist /\ fd' = fd /\ past' \in {past, past \cup {r}}
              /\ n = 1 => r \in past /\ past' = past
              /\ n = 2 => r \notin past /\ past' = past \cup {r}
           \/ /\ wlist' = wl /\ past' = past \ {r} /\ Stop(r)
              /\ fd' = fd \/ fd' = [fd EXCEPT ![x] = "closed"]
              /\ fd'[x] \in {"open", "closed"}
              /\ n = 1 => r \notin past
              /\ n = 2 => r \in past /\ fd'[x] = IF v.peer = "client" THEN "closed" ELSE "open"
    <3>1. ASSUME n = 1 /\ r \notin past /\ SendFailed(r)
          PROVE  /\ waiting' = waiting /\ dead' = dead /\ wlist' = wl /\ past' = past \ {r}
                 /\ Stop(r)
                 /\ fd' = fd \/ fd' = [fd EXCEPT ![x] = "closed"]
                 /\ fd'[x] \in {"open", "closed"}
      BY <1>13, <1>16, <1>18, <3>1
    <3>2. ASSUME n = 2 /\ r \in past /\ Sent(r)
          PROVE  /\ waiting' = waiting /\ dead' = dead /\ wlist' = wl /\ past' = past \ {r}
                 /\ Stop(r)
                 /\ fd' = fd \/ fd' = [fd EXCEPT ![x] = "closed"]
                 /\ fd'[x] \in {"open", "closed"}
                 /\ fd'[x] = IF v.peer = "client" THEN "closed" ELSE "open"
      <4>1. Stop(r) /\ waiting' = waiting /\ dead' = dead
            /\ (fd' = fd \/ fd' = [fd EXCEPT ![x] = "closed"])
            /\ fd'[x] \in {"open", "closed"}
        BY <1>17, <1>18, <3>2
      <4>2. wlist' = wl /\ past' = past \ {r}
        BY <1>13, <4>1
      <4>3. v.peer = "client" => fd'[x] = "closed"
        BY <1>17, <1>18, <3>2
      <4>4. v.peer # "client" => fd'[x] = "open"
        BY <1>2, <1>17, <3>2
      <4>5. QED
        BY <4>1, <4>2, <4>3, <4>4
    <3>3. ASSUME n = 1 /\ r \in past /\ UNCHANGED <<wlist, past, fd, waiting, dead>>
          PROVE  /\ wlist' = wlist /\ fd' = fd /\ past' = past /\ waiting' = waiting /\ dead' = dead
      BY <3>3
    <3>4. CASE n = 1 /\ r \notin past /\ SendFailed(r)
      <4>1. n # 2
        BY <3>4
      <4>2. QED
        BY <3>1, <3>4, <4>1, Zenon
    <3>5. CASE n = 2 /\ r \in past /\ Sent(r)
      <4>1. n # 1
        BY <3>5
      <4>2. QED
        BY <3>2, <3>5, <4>1, Zenon
    <3>6. CASE n = 1 /\ r \in past /\ UNCHANGED <<wlist, past, fd, waiting, dead>>
      <4>1. n # 2 /\ past' \in {past, past \cup {r}}
        BY <3>3, <3>6
      <4>2. QED
        BY <3>3, <3>6, <4>1, Zenon
    <3>7. CASE /\ n = 2 /\ r \notin past /\ past' = past \cup {r}
               /\ UNCHANGED <<wlist, fd, waiting, dead>>
      <4>1. n # 1 /\ past' \in {past, past \cup {r}}
        BY <3>7
      <4>2. wlist' = wlist /\ fd' = fd /\ waiting' = waiting /\ dead' = dead
        BY <3>7
      <4>3. QED
        BY <3>7, <4>1, <4>2, Zenon
    <3>8. QED
      BY <1>21, <3>4, <3>5, <3>6, <3>7
  <2>6. /\ Watched \ {r} \subseteq Watched' /\ Watched' \subseteq Watched
        /\ \A j : j # r => (j \in past' <=> j \in past)
        /\ wlist' = wlist => r \in Watched'
        /\ wlist' = wl => r \notin Watched'
    BY <1>5, <1>13, <1>14, <2>5
  <2>7. /\ w.peer = v.peer /\ w.inbox = v.inbox /\ w.owed = v.owed /\ w.msglen = v.msglen
        /\ w.sends = v.sends /\ w.handed = v.handed /\ w.read = v.read
        /\ \A m \in {"waiting", "missed", "early"} : m \in v.marks <=> m \in w.marks
        /\ ("cut" \in w.marks <=> x \in pieces')
        /\ (pieces' = pieces => w.marks = v.marks)
        /\ w.write = (IF r \notin Watched' THEN "off" ELSE IF r \in past' THEN "text" ELSE "length")
        /\ w.fd = fd'[x] /\ w.link = l /\ w.outbox = o
    BY <1>12, <2>3, <2>5, <2>6
  <2>8. w.fd = "open" \/ (w.fd = "closed" /\ w.write = "off")
    BY <1>2, <1>5, <2>5, <2>6, <2>7
  <2>9. /\ v.link \in {"up", "fin"}
        /\ w.link = v.link \/ (v.link = "fin" /\ w.link = "broken")
    BY <1>8, <1>21, <2>1, <2>7
  <2>10. CASE x \in pieces'
    <3>1. Good(w)
      BY <1>8, <2>7, <2>8, <2>9, <2>10, SendCut
    <3>2. QED
      BY <1>11, <2>1, <2>2, <2>4, <2>5, <3>1
  <2>11. CASE x \notin pieces'
    <3>1. n = 2 /\ pieces' = pieces /\ "cut" \notin v.marks /\ w.marks = v.marks
      BY <1>8, <1>21, <2>4, <2>7, <2>11
    <3>2. o = outbox[x] \o Part(r)
      BY <1>20, <2>2, <3>1
    <3>3. \/ v.write = "length" /\ w.write = "text" /\ w.outbox = <<0, 2>> /\ w.fd = "open"
          \/ /\ v.write = "text" /\ w.write = "off" /\ w.outbox = Message
             /\ w.fd = IF v.peer = "client" THEN "closed" ELSE "open"
      <4>1. CASE wlist' = wlist
        <5>1. r \notin past /\ r \in past' /\ r \in Watched' /\ fd' = fd
          BY <1>5, <2>5, <2>6, <3>1, <4>1
        <5>2. v.write = "length" /\ w.write = "text" /\ w.fd = "open"
          BY <1>2, <1>8, <2>7, <5>1
        <5>3. outbox[x] = << >>
          BY <1>8, <3>1, <5>2 DEF Good, OutgoingOK
        <5>4. o = <<0, 2>>
          BY <1>20, <3>2, <5>1, <5>3, ConcatEmptySeq
        <5>5. QED
          BY <2>7, <5>2, <5>4
      <4>2. CASE wlist' # wlist
        <5>1. /\ wlist' = wl /\ r \in past /\ r \notin Watched'
              /\ fd'[x] = IF v.peer = "client" THEN "closed" ELSE "open"
          BY <2>5, <2>6, <3>1, <4>2
        <5>2. v.write = "text" /\ w.write = "off"
          BY <1>8, <2>7, <5>1
        <5>3. outbox[x] = <<0, 2>>
          BY <1>8, <3>1, <5>2 DEF Good, OutgoingOK
        <5>4. o = <<0, 2>> \o Text(2)
          BY <1>20, <3>2, <5>1, <5>3
        <5>5. o = Message
          BY <5>4, MessageLemma DEF Message
        <5>6. QED
          BY <2>7, <5>1, <5>2, <5>5
      <4>3. QED
        BY <4>1, <4>2
    <3>4. Good(w)
      BY <1>8, <2>7, <2>9, <3>1, <3>3, SendWhole
    <3>5. QED
      BY <1>11, <2>1, <2>2, <2>4, <2>5, <3>4
  <2>12. QED
    BY <2>10, <2>11

\* send fails.
<1>22. ASSUME link[x] \in {"reset", "broken"}, SendFailed(r), UNCHANGED <<link, outbox, pieces>>
       PROVE  ExchInv'
  <2>1. /\ Stop(r) /\ waiting' = waiting /\ dead' = dead
        /\ fd' = fd \/ fd' = [fd EXCEPT ![x] = "closed"]
        /\ fd'[x] \in {"open", "closed"}
    BY <1>16, <1>18, <1>22
  <2>2. /\ wlist' = wl /\ past' = past \ {r} /\ r \notin Watched'
        /\ Watched \ {r} \subseteq Watched' /\ Watched' \subseteq Watched
        /\ \A j : j # r => (j \in past' <=> j \in past)
    BY <1>13, <2>1
  <2>3. /\ w.peer = v.peer /\ w.inbox = v.inbox /\ w.owed = v.owed /\ w.msglen = v.msglen
        /\ w.sends = v.sends /\ w.handed = v.handed /\ w.read = v.read
        /\ w.marks = v.marks /\ w.write = "off"
        /\ w.fd = fd'[x] /\ w.link = link'[x] /\ w.outbox = outbox'[x]
    BY <1>12, <1>22, <2>1, <2>2
  <2>4. Good(w)
    BY <1>8, <1>22, <2>1, <2>3, SendGone
  <2>5. PICK l, o : l = link[x] /\ o = outbox[x]
    OBVIOUS
  <2>6. /\ l \in {"none", "calling", "up", "fin", "reset", "broken"} /\ o \in Seq(Nat)
        /\ link' = [link EXCEPT ![x] = l] /\ outbox' = [outbox EXCEPT ![x] = o]
    BY <1>2, <1>3, <1>19, <1>22, <2>5 DEF TypeOK
  <2>7. pieces' \in {pieces, pieces \cup {x}} /\ dead' \in {dead, "sigpipe"}
    BY <1>22, <2>1
  <2>8. QED
    BY <1>11, <2>1, <2>2, <2>4, <2>5, <2>6, <2>7

\* The process is killed.
<1>23. ASSUME dead' = "sigpipe", UNCHANGED <<wlist, past, fd, waiting, link, outbox, pieces>>
       PROVE  ExchInv'
  <2>1. Watched' = Watched
    BY <1>23 DEF Watched
  <2>2. SameFor(x)
    BY <1>9, <1>23, <2>1 DEF SameFor
  <2>3. Good(w)
    BY <1>6, <1>7, <1>8, <2>2, SameView
  <2>4. PICK l, o : l = link[x] /\ o = outbox[x]
    OBVIOUS
  <2>5. /\ l \in {"none", "calling", "up", "fin", "reset", "broken"} /\ o \in Seq(Nat)
        /\ link' = [link EXCEPT ![x] = l] /\ outbox' = [outbox EXCEPT ![x] = o]
    BY <1>2, <1>3, <1>19, <1>23, <2>4 DEF TypeOK
  <2>6. /\ pieces' \in {pieces, pieces \cup {x}} /\ dead' \in {dead, "sigpipe"}
        /\ waiting' = waiting /\ wlist' = wlist /\ fd' = fd /\ past' \in {past, past \cup {r}}
    BY <1>23
  <2>7. QED
    BY <1>11, <2>3, <2>4, <2>5, <2>6

<1>24. \A n \in Taken(x) : n \in {1, 2} /\ (n = 1 => x \notin pieces)
  BY DEF Taken
<1>25. QED
  BY <1>2, <1>21, <1>22, <1>23, <1>24 DEF SendCb

-------------------------------------------------------------------------------
(* The theorems *)

LEMMA CallbackStep ==
    ASSUME ExchInv, dead = "no", Callback
    PROVE  ExchInv'
<1>1. Due \subseteq Slots /\ Due # {} /\ poll # NULL
  BY DEF Callback, Due
<1>2. PICK s \in Due : s = First(Due)
  BY <1>1, FirstOfSlots
<1>3. /\ \/ wlist[s][2] = "accept" /\ AcceptCb
         \/ wlist[s][2] \in {"qrecv", "rrecv"} /\ RecvCb(wlist[s])
         \/ wlist[s][2] \in {"qsend", "rsend"} /\ SendCb(wlist[s])
      /\ WalkOn(s)
  BY <1>2 DEF Callback
<1>4. CASE wlist[s][2] = "accept" /\ AcceptCb
  BY <1>1, <1>3, <1>4, AcceptCbStep
<1>5. CASE wlist[s][2] \in {"qrecv", "rrecv"} /\ RecvCb(wlist[s])
  BY <1>1, <1>3, <1>5, RecvCbStep
<1>6. CASE wlist[s][2] \in {"qsend", "rsend"} /\ SendCb(wlist[s])
  BY <1>1, <1>3, <1>6, SendCbStep
<1>7. QED
  BY <1>3, <1>4, <1>5, <1>6

\* What a peer has to send is all of its messages.
LEMMA AllOwed ==
    ASSUME NEW s \in Seq(Nat)
    PROVE  FlattenSeq([i \in DOMAIN s |-> MessageOf(s[i])]) = Rest(s, 1)
<1>1. PICK n \in Nat : n = Len(s) /\ DOMAIN s = 1 .. n
  BY LenProperties
<1>2. Len(s) - 1 + 1 = n
  BY <1>1
<1>3. \A i \in 1 .. n : i + 1 - 1 = i
  OBVIOUS
<1>4. [i \in 1 .. Len(s) - 1 + 1 |-> MessageOf(s[i + 1 - 1])] = [i \in DOMAIN s |-> MessageOf(s[i])]
  BY <1>1, <1>2, <1>3
<1>5. QED
  BY <1>4 DEF Rest

LEMMA InitInv == Init => ExchInv
<1> SUFFICES ASSUME Init
             PROVE  ExchInv
  OBVIOUS
<1> USE DEF Init
<1>1. 0 \in Slots /\ LISTEN \in Sockets /\ <<LISTEN, "accept">> \in Watchers
  BY ExchangeAssumption DEF Slots, Sockets, Watchers
<1>2. <<LISTEN, "accept">> # NULL
  BY <1>1, ExchangeAssumption
<1>3. /\ wlist \in [Slots -> Watchers \cup {NULL}] /\ OneSlot(wlist)
      /\ Watched = {<<LISTEN, "accept">>}
  BY <1>1, <1>2 DEF OneSlot, Watched
<1>4. Peers = Sockets \ {LISTEN}
  BY ExchangeAssumption DEF Peers, Sockets
<1>5. ASSUME NEW x \in Peers
      PROVE  /\ sends[x] \in Seq(Nat) /\ owed[x] = Rest(sends[x], 1) /\ owed[x] \in Seq(Nat)
             /\ 1 \in 1 .. Len(sends[x]) + 1
  <2>1. sends[x] \in Seq(Nat)
    BY <1>5, ExchangeAssumption DEF Peers
  <2>2. PICK s \in Seq(Nat) : s = sends[x]
    BY <2>1
  <2>3. owed[x] = FlattenSeq([i \in DOMAIN s |-> MessageOf(s[i])])
    BY <1>4, <2>2
  <2>4. 1 \in 1 .. Len(s) + 1
    BY LenProperties
  <2>5. QED
    BY <2>2, <2>3, <2>4, AllOwed, RestLemma
<1>6. TypeOK
  <2>1. owed \in [Sockets \ {LISTEN} -> Seq(Nat)]
    BY <1>4, <1>5
  <2>2. << >> \in Seq(Nat) /\ 0 \in 0 .. NS_PACKETSZ
    BY ExchangeAssumption
  <2>3. {inbox, outbox, handed} \subseteq [Sockets \ {LISTEN} -> Seq(Nat)]
    BY <2>2
  <2>4. QED
    BY <1>3, <2>1, <2>2, <2>3 DEF TypeOK
<1>7. ListInv
  <2>1. fd[LISTEN] = "open"
    BY <1>1
  <2>2. QED
    BY <1>3, <1>6, <2>1 DEF ListInv, PollOK, Fresh
<1>8. ASSUME NEW x \in Peers
      PROVE  Good(View(x))
  <2>1. PICK v : v = View(x)
    OBVIOUS
  <2>2. At(Reader(x)) = "off" /\ At(Sender(x)) = "off"
    BY <1>3, Jobs DEF At
  <2>3. /\ v.fd = "none" /\ v.link = "none" /\ v.inbox = << >> /\ v.outbox = << >>
        /\ v.handed = << >> /\ v.read = "off" /\ v.write = "off" /\ v.marks = {}
        /\ v.owed = Rest(v.sends, 1) /\ v.owed \in Seq(Nat) /\ v.sends \in Seq(Nat)
        /\ 1 \in 1 .. Len(v.sends) + 1
    <3>1. fd[x] = "none" /\ link[x] = "none" /\ inbox[x] = << >> /\ outbox[x] = << >>
          /\ handed[x] = << >>
      BY <1>4, Jobs DEF Sockets
    <3>2. QED
      BY <1>5, <2>1, <2>2, <3>1 DEF View
  <2>4. AlignedAt(v, 1, v.owed)
    <3>1. Join(v.inbox, v.owed) = Rest(v.sends, 1)
      BY <2>3, JoinBytes
    <3>2. Pauses(v.sends, v.owed)
      BY <2>3 DEF Pauses
    <3>3. QED
      BY <2>3, <3>1, <3>2 DEF AlignedAt
  <2>5. OutgoingOK(v) /\ IncomingOK(v) /\ HandedOK(v)
    BY <2>3, <2>4 DEF OutgoingOK, IncomingOK, HandedOK
  <2>6. ClientOK(v) /\ UpstreamOK(v)
    BY <2>3 DEF ClientOK, UpstreamOK
  <2>7. QED
    BY <2>1, <2>5, <2>6 DEF Good
<1>9. QED
  BY <1>7, <1>8 DEF ExchInv, PeersGood

LEMMA NextInv == ExchInv /\ [Next]_vars => ExchInv'
<1>1. ASSUME ExchInv, Next
      PROVE  ExchInv'
  <2>1. dead = "no"
    BY <1>1 DEF Next
  <2>2. CASE Select
    BY <1>1, <2>2, SelectStep
  <2>3. CASE Callback
    BY <1>1, <2>1, <2>3, CallbackStep
  <2>4. CASE WalkEnd
    BY <1>1, <2>4, WalkEndStep
  <2>5. ASSUME NEW u \in Upstreams, Connected(u)
        PROVE  ExchInv'
    BY <1>1, <2>5, ConnectedStep
  <2>6. ASSUME NEW k \in Clients, ClientCalls(k)
        PROVE  ExchInv'
    BY <1>1, <2>6, ClientCallsStep
  <2>7. ASSUME NEW k \in Clients, AnswerByUdp(k)
        PROVE  ExchInv'
    BY <1>1, <2>7, AnswerByUdpStep
  <2>8. ASSUME NEW x \in Peers, Arrive(x)
        PROVE  ExchInv'
    BY <1>1, <2>8, ArriveStep
  <2>9. ASSUME NEW x \in Peers, PeerCloses(x)
        PROVE  ExchInv'
    BY <1>1, <2>9, PeerClosesStep
  <2>10. QED
    BY <1>1, <2>2, <2>3, <2>4, <2>5, <2>6, <2>7, <2>8, <2>9 DEF Next, Loop, Peers
<1>2. ASSUME ExchInv, UNCHANGED vars
      PROVE  ExchInv'
  <2>1. UNCHANGED <<wlist, past, poll, fd, waiting, dead, link, inbox, owed, outbox, pieces, early,
                    msglen, handed, missed, sends>>
    BY <1>2 DEF vars, loopVars, peerVars, recvVars
  <2>2. Watched' = Watched
    BY <2>1 DEF Watched
  <2>3. TypeOK' /\ sends' \in Sends /\ fd'[LISTEN] = "open" /\ OneSlot(wlist')
    BY <1>2, <2>1, <2>2 DEF ExchInv, ListInv, TypeOK
  <2>4. PollOK' /\ Fresh'
    <3>1. \A w \in Watched : Fires(w) => Fires(w)'
      BY <2>1 DEF Fires, Event, Readable, Writable
    <3>2. QED
      BY <1>2, <2>1, <3>1, StaysFresh DEF ExchInv
  <2>5. ASSUME NEW x \in Peers
        PROVE  View(x)' = View(x)
    <3>1. SameFor(x)
      BY <2>1, <2>2 DEF SameFor
    <3>2. QED
      BY <3>1, SameView
  <2>6. PeersGood'
    BY <1>2, <2>5, PeersStayGood DEF ExchInv
  <2>7. QED
    BY <2>3, <2>4, <2>6 DEF ExchInv, ListInv
<1>3. QED
  BY <1>1, <1>2

LEMMA AlwaysInv == Spec => []ExchInv
BY InitInv, NextInv, PTL DEF Spec

\* A callback of the walk finds its socket open and as ready as select said: after
\* a callback that changed the list, ev_poll does not go on with what select
\* found before (the return in the loop of ev_poll), and one that did not change it
\* took nothing from the sockets of the others.
THEOREM ExchangeWalkIsFresh == Spec => []WalkIsFresh
<1>1. ExchInv => WalkIsFresh
  BY DEF ExchInv, ListInv, Fresh, WalkIsFresh
<1>2. QED
  BY <1>1, AlwaysInv, PTL

\* query_tcp_recv_cb and reply_tcp_recv_cb hand over the text of one message as
\* its peer sent it, whatever the messages are and however TCP cuts them, unless a
\* recv returned less or more than the text.
THEOREM ExchangeTextAsSent == Spec => []TextAsSent
<1>1. ASSUME ExchInv, NEW x \in Clients \cup Upstreams, handed[x] # << >>, x \notin missed
      PROVE  \E l \in ToSet(sends[x]) : handed[x] = SubSeq(Text(l), 1, Kept(l))
  <2>1. PICK v : v = View(x)
    OBVIOUS
  <2>2. HandedOK(v) /\ v.handed = handed[x] /\ v.sends = sends[x] /\ "missed" \notin v.marks
    BY <1>1, <2>1 DEF ExchInv, PeersGood, Good, View, Peers
  <2>3. QED
    BY <1>1, <2>2 DEF HandedOK
<1>2. ExchInv => TextAsSent
  BY <1>1 DEF TextAsSent
<1>3. QED
  BY <1>2, AlwaysInv, PTL

\* select fails for ever (EBADF) only because of the two watchers that query_send
\* and reply_recv put on one upstream: of a client's socket, which one watcher at
\* a time is on, none is left behind when it is closed.
THEOREM ExchangeDeafOnlyIfEarly == Spec => []DeafOnlyIfEarly
<1>1. ASSUME ExchInv, NEW w \in Watched, fd[w[1]] = "closed"
      PROVE  w[1] \in (early \cup pieces) \cap Upstreams
  <2>1. w \in Watchers
    BY <1>1 DEF ExchInv, ListInv, TypeOK, Watched
  <2>2. PICK x : x = w[1]
    OBVIOUS
  <2>3. x # LISTEN
    BY <1>1, <2>2 DEF ExchInv, ListInv
  <2>4. x \in Peers /\ (w = Reader(x) \/ w = Sender(x))
    <3>1. x \in Peers
      BY <2>1, <2>2, <2>3, JobsOf DEF Peers, Sockets
    <3>2. QED
      BY <2>1, <2>2, <3>1, Jobs
  <2>5. PICK v : v = View(x)
    OBVIOUS
  <2>6. Good(v) /\ v.fd = "closed" /\ (v.read # "off" \/ v.write # "off")
    BY <1>1, <2>2, <2>4, <2>5 DEF ExchInv, PeersGood, View, At
  <2>7. x \notin Clients
    <3>1. v.peer # "client"
      BY <2>6 DEF Good, ClientOK
    <3>2. QED
      BY <2>5, <3>1 DEF View
  <2>8. "early" \in v.marks \/ "cut" \in v.marks
    BY <2>5, <2>6, <2>7 DEF Good, UpstreamOK, View
  <2>9. x \in early \/ x \in pieces
    BY <2>5, <2>8 DEF View
  <2>10. QED
    BY <2>2, <2>4, <2>7, <2>9 DEF Peers
<1>2. ExchInv => DeafOnlyIfEarly
  BY <1>1 DEF DeafOnlyIfEarly
<1>3. QED
  BY <1>2, AlwaysInv, PTL

\* query_tcp_send_cb and reply_tcp_send_cb send the length, then the text, and
\* close a client's connection that is still up only after all of it, unless send
\* took only a part of either.
THEOREM ExchangeSentInOrder == Spec => []SentInOrder
<1>1. ASSUME ExchInv, NEW x \in Clients \cup Upstreams
      PROVE  /\ x \notin pieces => outbox[x] = SubSeq(Message, 1, Len(outbox[x]))
             /\ x \in Clients /\ fd[x] = "closed" /\ link[x] = "up" /\ x \notin pieces =>
                   outbox[x] = Message
  <2>1. PICK v : v = View(x)
    OBVIOUS
  <2>2. /\ Good(v) /\ v.outbox = outbox[x] /\ ("cut" \in v.marks <=> x \in pieces)
        /\ (x \in Clients => v.peer = "client") /\ v.fd = fd[x] /\ v.link = link[x]
    BY <1>1, <2>1 DEF ExchInv, PeersGood, View, Peers
  <2>3. x \notin pieces => outbox[x] \in {<< >>, <<0, 2>>, Message}
    BY <2>2 DEF Good, OutgoingOK
  <2>4. Message \in Seq(Nat) /\ Len(Message) = 4
    <3>1. 2 \in Nat /\ 2 + 2 = 4
      OBVIOUS
    <3>2. MessageOf(2) \in Seq(Nat) /\ Len(MessageOf(2)) = 2 + 2
      BY <3>1, MessageLemma
    <3>3. QED
      BY <3>1, <3>2, Zenon DEF Message
  <2>5. SubSeq(Message, 1, 0) = << >>
    BY <2>4, SubSeqEmpty
  <2>6. SubSeq(Message, 1, 2) = <<0, 2>>
    <3>1. 2 \in Nat /\ 2 <= 2 /\ 2 <= 4 /\ 2 # 0
      OBVIOUS
    <3>2. PICK p \in Seq(Nat) : p = <<0, 2>> /\ 2 = Len(p)
      BY <3>1, MessageLemma
    <3>3. PICK t \in Seq(Nat) : Message = p \o t
      BY <3>1, <3>2, MessageLemma DEF Message
    <3>4. << >> \in Seq(Nat) /\ Join(Message, << >>) = Join(p, t)
      BY <2>4, <3>3, JoinBytes DEF Join
    <3>5. PICK m \in Seq(Nat), e \in Seq(Nat) :
             m = Message /\ Len(m) = 4 /\ e = << >> /\ Join(m, e) = Join(p, t)
      BY <2>4, <3>4
    <3>6. \A n \in Nat : n <= Len(m) /\ n <= Len(p) => SubSeq(m, 1, n) = SubSeq(p, 1, n)
      BY <3>5, TakeFront
    <3>7. 2 <= Len(m) /\ 2 <= Len(p)
      BY <3>1, <3>2, <3>5, Zenon
    <3>8. SubSeq(m, 1, 2) = SubSeq(p, 1, 2)
      BY <3>1, <3>6, <3>7, Zenon
    <3>9. SubSeq(p, 1, 2) = p
      BY <3>1, <3>2, FullSubSeq, Zenon
    <3>10. QED
      BY <3>2, <3>5, <3>8, <3>9, Zenon
  <2>7. SubSeq(Message, 1, 4) = Message
    BY <2>4, FullSubSeq
  <2>8. Len(<< >>) = 0 /\ Len(<<0, 2>>) = 2
    OBVIOUS
  <2>9. x \notin pieces => outbox[x] = SubSeq(Message, 1, Len(outbox[x]))
    <3>1. \A o : o \in {<< >>, <<0, 2>>, Message} => o = SubSeq(Message, 1, Len(o))
      BY <2>4, <2>5, <2>6, <2>7, <2>8, Zenon
    <3>2. QED
      BY <2>3, <3>1
  <2>10. QED
    BY <2>2, <2>9 DEF Good, ClientOK
<1>2. ExchInv => SentInOrder
  BY <1>1 DEF SentInOrder
<1>3. QED
  BY <1>2, AlwaysInv, PTL
===============================================================================
