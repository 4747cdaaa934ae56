---------------------------- MODULE NameUnpackProofs ----------------------------
(***************************************************************************)
(* Theorems about ns_name_unpack: for messages of any length and bytes, and *)
(* room of any size for the name.                                           *)
(***************************************************************************)
EXTENDS NameUnpack, Induction

-------------------------------------------------------------------------------
(* Bytes *)

Octets == 0 .. 255

LEMMA BitLabelLemma ==
    ASSUME NEW bits \in Octets
    PROVE  BitLabel(bits) \in 2 .. 33
<1>1. PICK b \in 1 .. 256 : b = IF bits = 0 THEN 256 ELSE bits
  BY DEF Octets
<1>2. BitLabel(bits) = (b + 7) \div 8 + 1
  BY <1>1 DEF BitLabel
<1>3. (b + 7) \div 8 \in 1 .. 32
  OBVIOUS
<1>4. QED
  BY <1>2, <1>3

\* What is read inside the message is a byte.
LEMMA ByteLemma ==
    ASSUME msg \in Seq(Bytes), NEW o \in 0 .. eom - 1
    PROVE  Byte(o) \in Octets
<1>1. eom \in Nat /\ o + 1 \in 1 .. Len(msg)
  BY LenProperties DEF eom
<1>2. msg[o + 1] \in Bytes
  BY <1>1, ElementOfSeq
<1>3. QED
  BY <1>2, UnpackAssumption DEF Byte, Octets

\* A label that fits has one length only.
LEMMA LabelLenLemma ==
    ASSUME msg \in Seq(Bytes), NEW o \in 0 .. eom - 1, Byte(o) \in Labels \cup {BITSTRING}
    PROVE  /\ \A l \in LabelLen(o) : l \in 0 .. 63 /\ (Byte(o) # 0 => l # 0)
           /\ LabelLen(o) # {}
           /\ o + 1 < eom \/ Byte(o) \in Labels =>
                 \A l \in LabelLen(o) :
                    l = IF Byte(o) \in Labels THEN Byte(o) ELSE BitLabel(Byte(o + 1))
<1>1. eom \in Nat
  BY LenProperties DEF eom
<1>0. \A l \in 2 .. 33 : l \in 0 .. 63 /\ l # 0
  OBVIOUS
<1>2. CASE Byte(o) \in Labels
  BY <1>2 DEF LabelLen, Labels
<1>3. CASE Byte(o) \notin Labels /\ o + 1 < eom
  <2>1. Byte(o + 1) \in Octets
    BY <1>1, <1>3, ByteLemma
  <2>2. LabelLen(o) = {BitLabel(Byte(o + 1))}
    BY <1>3 DEF LabelLen
  <2>3. BitLabel(Byte(o + 1)) \in 2 .. 33
    BY <2>1, BitLabelLemma
  <2>4. LabelLen(o) # {} /\ \A l \in LabelLen(o) : l = BitLabel(Byte(o + 1))
    BY <2>2
  <2>5. \A l \in LabelLen(o) : l \in 0 .. 63 /\ l # 0
    BY <1>0, <2>3, <2>4, Zenon
  <2>6. QED
    BY <1>3, <2>4, <2>5
<1>4. CASE Byte(o) \notin Labels /\ ~(o + 1 < eom)
  <2>1. LabelLen(o) = {BitLabel(bits) : bits \in Octets}
    BY <1>4 DEF LabelLen, Octets
  <2>2. \A l \in LabelLen(o) : l \in 2 .. 33
    BY <2>1, BitLabelLemma
  <2>3. 0 \in Octets
    BY DEF Octets
  <2>4. LabelLen(o) # {}
    BY <2>1, <2>3
  <2>5. \A l \in LabelLen(o) : l \in 0 .. 63 /\ l # 0
    BY <1>0, <2>2, Zenon
  <2>6. QED
    BY <1>4, <2>4, <2>5
<1>5. QED
  BY <1>2, <1>3, <1>4

LEMMA TargetLemma ==
    ASSUME msg \in Seq(Bytes), NEW o \in 0 .. eom - 1, Byte(o) \in Pointers, o + 1 < eom
    PROVE  Target(o) \in Nat
<1>1. o + 1 \in 0 .. eom - 1
  BY LenProperties DEF eom
<1>2. PICK a \in 192 .. 255, b \in 0 .. 255 : a = Byte(o) /\ b = Byte(o + 1)
  BY <1>1, ByteLemma DEF Pointers, Octets
<1>3. Target(o) = (a - 192) * 256 + b
  BY <1>2 DEF Target
<1>4. QED
  BY <1>3

\* A label is as long as it says.
LEMMA PieceLemma ==
    ASSUME msg \in Seq(Bytes), NEW o \in Nat, NEW l \in Nat, o + 1 + l < eom
    PROVE  /\ SubSeq(msg, o + 1, o + 1 + l) \in Seq(Bytes)
           /\ Len(SubSeq(msg, o + 1, o + 1 + l)) = l + 1
<1>1. PICK m \in Nat : m = Len(msg)
  BY LenProperties
<1>2. \A i \in (o + 1) .. (o + 1 + l) : msg[i] \in Bytes
  <2>1. \A i \in 1 .. m : msg[i] \in Bytes
    BY <1>1, ElementOfSeq
  <2>2. o + 1 + l < m
    BY <1>1 DEF eom
  <2>3. QED
    BY <2>1, <2>2
<1>3. /\ SubSeq(msg, o + 1, o + 1 + l) \in Seq(Bytes)
      /\ Len(SubSeq(msg, o + 1, o + 1 + l)) =
            IF o + 1 <= o + 1 + l THEN (o + 1 + l) - (o + 1) + 1 ELSE 0
  BY <1>2, SubSeqProperties
<1>4. QED
  BY <1>3

-------------------------------------------------------------------------------
(* Inside the message *)

\* The name begins at src and goes on behind it until the first pointer; what has
\* been looked at is bounded by a pointer's check and by the way from there.
Onwards == /\ eom \in Nat \ {0} /\ srcp \in Nat /\ result \in Int
           /\ len < 0 => src <= srcp
           /\ checked <= eom - 1 + srcp

InsideInv == StaysInside /\ Onwards

\* The loop has not begun yet.
Begins == /\ msg \in Seq(Bytes) /\ eom \in Nat \ {0} /\ src \in 0 .. eom
          /\ srcp = src /\ dst = << >> /\ len = -1 /\ checked = 0
          /\ result = IF src >= eom THEN -1 ELSE -2

LEMMA InitBegins == Init => Begins
<1> SUFFICES ASSUME Init
             PROVE  Begins
  OBVIOUS
<1> USE DEF Init
<1>1. PICK k \in 1 .. MaxLen : msg \in [1 .. k -> Bytes]
  BY DEF Messages
<1>2. k \in Nat /\ k # 0
  BY UnpackAssumption
<1>3. msg \in Seq(Bytes) /\ eom = k
  BY <1>1, <1>2, IsASeq DEF eom
<1>4. QED
  BY <1>2, <1>3 DEF Begins

LEMMA BeginsInside == Begins => InsideInv
<1> SUFFICES ASSUME Begins
             PROVE  InsideInv
  OBVIOUS
<1> USE DEF Begins
<1>1. << >> \in Seq(Bytes) /\ Len(<< >>) = 0
  OBVIOUS
<1>2. TypeOK
  BY <1>1 DEF TypeOK
<1>3. QED
  BY <1>1, <1>2, UnpackAssumption DEF InsideInv, StaysInside, Onwards, Running

\* The steps that return, and those that go on.
LEMMA RunningInside ==
    ASSUME InsideInv, Running
    PROVE  /\ msg \in Seq(Bytes) /\ srcp \in 0 .. eom - 1 /\ eom \in Nat \ {0} /\ src \in 0 .. eom
           /\ n = Byte(srcp) /\ n \in Octets
           /\ dst \in Seq(Bytes) /\ Len(dst) \in Nat /\ checked \in Nat /\ len \in -1 .. eom
<1>1. msg \in Seq(Bytes) /\ srcp \in 0 .. eom - 1
  BY DEF InsideInv, StaysInside, TypeOK
<1>2. Byte(srcp) \in Octets
  BY <1>1, ByteLemma
<1>3. QED
  BY <1>1, <1>2, LenProperties DEF InsideInv, StaysInside, TypeOK, Onwards, n

LEMMA NextInside == InsideInv /\ [Next]_vars => InsideInv'
<1>1. ASSUME InsideInv, Next
      PROVE  InsideInv'
  <2>1. Running /\ msg' = msg /\ src' = src /\ eom' = eom
    BY <1>1 DEF Next, eom
  <2>2. /\ msg \in Seq(Bytes) /\ srcp \in 0 .. eom - 1 /\ eom \in Nat \ {0} /\ src \in 0 .. eom
        /\ n = Byte(srcp) /\ n \in Octets
        /\ dst \in Seq(Bytes) /\ Len(dst) \in Nat /\ checked \in Nat /\ len \in -1 .. eom
    BY <1>1, <2>1, RunningInside
  <2>3. /\ Len(dst) + 1 <= DstSize /\ (len < 0 => src <= srcp) /\ checked <= eom - 1 + srcp
        /\ DstSize \in Nat
    BY <1>1, UnpackAssumption DEF InsideInv, StaysInside, Onwards
  <2>4. CASE Fail
    BY <2>1, <2>2, <2>3, <2>4 DEF Fail, InsideInv, StaysInside, TypeOK, Onwards, Running
  <2>5. ASSUME Label, ~Fail
        PROVE  InsideInv'
    <3>1. PICK l \in LabelLen(srcp) :
             /\ Fits(l)
             /\ dst' = dst \o SubSeq(msg, srcp + 1, srcp + 1 + l)
             /\ srcp' = srcp + 1 + l
             /\ checked' = checked + l + 1
             /\ UNCHANGED <<len, result>>
      BY <2>5 DEF Label
    <3>2. l \in Nat
      <4>1. Byte(srcp) \in Labels \cup {BITSTRING}
        BY <2>2, <2>5 DEF Label
      <4>2. \A k \in LabelLen(srcp) : k \in 0 .. 63
        BY <2>2, <4>1, LabelLenLemma
      <4>3. l \in 0 .. 63
        BY <4>2, Zenon
      <4>4. QED
        BY <4>3
    <3>3. Len(dst) + l + 1 < DstSize /\ srcp + 1 + l < eom
      BY <3>1 DEF Fits
    <3>4. PICK p \in Seq(Bytes) : p = SubSeq(msg, srcp + 1, srcp + 1 + l) /\ Len(p) = l + 1
      <4>1. srcp \in Nat
        BY <2>2
      <4>2. /\ SubSeq(msg, srcp + 1, srcp + 1 + l) \in Seq(Bytes)
            /\ Len(SubSeq(msg, srcp + 1, srcp + 1 + l)) = l + 1
        BY <2>2, <3>2, <3>3, <4>1, PieceLemma
      <4>3. QED
        BY <4>2
    <3>5. dst' \in Seq(Bytes) /\ Len(dst') = Len(dst) + (l + 1)
      BY <2>2, <3>1, <3>4, ConcatProperties
    <3>6. result' = -2
      BY <2>1, <3>1 DEF Running
    <3>7. TypeOK'
      BY <2>1, <2>2, <3>1, <3>2, <3>5, <3>6 DEF TypeOK
    <3>8. Len(dst') + 1 <= DstSize /\ srcp' \in 0 .. eom - 1
      BY <2>2, <2>3, <3>1, <3>2, <3>3, <3>5
    <3>9. Onwards'
      BY <2>1, <2>2, <2>3, <3>1, <3>2, <3>6 DEF Onwards
    <3>10. QED
      BY <2>1, <3>7, <3>8, <3>9 DEF InsideInv, StaysInside
  <2>6. ASSUME Pointer, ~Fail
        PROVE  InsideInv'
    <3>1. /\ Followed /\ len' = Consumed /\ srcp' = Target(srcp) /\ checked' = checked + 2
          /\ UNCHANGED <<dst, result>> /\ n \in Pointers
      BY <2>6 DEF Pointer, Counted
    <3>2. srcp + 1 < eom /\ Target(srcp) < eom /\ checked + 2 < eom
      BY <2>2, <3>1 DEF Followed, Looped
    <3>3. Target(srcp) \in Nat
      BY <2>2, <3>1, <3>2, TargetLemma
    <3>4. len' \in 0 .. eom
      BY <2>2, <2>3, <3>1, <3>2 DEF Consumed
    <3>5. result' = -2
      BY <2>1, <3>1 DEF Running
    <3>6. TypeOK'
      BY <2>1, <2>2, <3>1, <3>4, <3>5 DEF TypeOK
    <3>7. srcp' \in 0 .. eom - 1
      BY <2>2, <3>1, <3>2, <3>3
    <3>8. Onwards'
      BY <2>1, <2>2, <3>1, <3>2, <3>4, <3>5, <3>7 DEF Onwards
    <3>9. QED
      BY <2>1, <2>3, <3>1, <3>6, <3>7, <3>8 DEF InsideInv, StaysInside
  <2>7. CASE Root
    <3>1. result' = (IF len < 0 THEN srcp + 1 - src ELSE len) /\ UNCHANGED <<srcp, dst, len, checked>>
      BY <2>7 DEF Root
    <3>2. result' \in 0 .. eom
      BY <2>2, <2>3, <3>1
    <3>3. TypeOK'
      BY <2>1, <2>2, <3>1, <3>2 DEF TypeOK
    <3>4. Onwards' /\ ~Running'
      BY <2>1, <2>2, <2>3, <3>1, <3>2 DEF Onwards, Running
    <3>5. QED
      BY <2>1, <2>3, <3>1, <3>3, <3>4 DEF InsideInv, StaysInside
  <2>8. QED
    BY <1>1, <2>4, <2>5, <2>6, <2>7 DEF Next, IllegalType
<1>2. ASSUME InsideInv, UNCHANGED vars
      PROVE  InsideInv'
  BY <1>2 DEF vars, InsideInv, StaysInside, TypeOK, Onwards, Running, eom
<1>3. QED
  BY <1>1, <1>2

\* ns_name_unpack reads no byte outside the message, but for the one that labellen
\* may read behind it, and writes none outside dst, whatever the message.
THEOREM UnpackStaysInside == Spec => []StaysInside
<1>1. InsideInv => StaysInside
  BY DEF InsideInv
<1>2. QED
  BY <1>1, InitBegins, BeginsInside, NextInside, PTL DEF Spec

-------------------------------------------------------------------------------
(* What the message spells *)

\* Where the name at offset o goes on; eom if it does not.
After(o) ==
    IF Byte(o) \in Labels THEN o + 1 + Byte(o)
    ELSE IF Byte(o) \in Labels \cup {BITSTRING} /\ o + 1 < eom THEN o + 1 + BitLabel(Byte(o + 1))
    ELSE IF Byte(o) \in Pointers /\ o + 1 < eom THEN Target(o)
    ELSE eom

\* The name at offset o, if row has the names one round shorter.
Longer(row, o) ==
    IF Byte(o) = 0 THEN << >>
    ELSE IF After(o) >= eom \/ row[After(o)] = NoName THEN NoName
    ELSE IF Byte(o) \in Labels \cup {BITSTRING}
         THEN SubSeq(msg, o + 1, After(o)) \o row[After(o)]
    ELSE row[After(o)]

Row(f, k) == [o \in 0 .. eom - 1 |-> IF k = 0 THEN NoName ELSE Longer(f[k - 1], o)]

Speller == CHOOSE f : f = [k \in 0 .. eom |-> Row(f, k)]

LEMMA SpelledBySpeller == Spelled = Speller[eom]
BY DEF Spelled, Speller, Row, Longer, After

Spells(f, m) == \A k \in 0 .. m : f[k] = Row(f, k)

LEMMA SpellerExists ==
    ASSUME NEW m \in Nat
    PROVE  \E f : f = [k \in 0 .. m |-> Row(f, k)]
<1> DEFINE T == {i \in Nat : \E f : f = [k \in 0 .. i |-> Row(f, k)]}
<1>1. 0 \in T
  <2> DEFINE f == [k \in 0 .. 0 |-> [o \in 0 .. eom - 1 |-> NoName]]
  <2>1. f = [k \in 0 .. 0 |-> Row(f, k)]
    <3>1. \A k \in 0 .. 0 : Row(f, k) = [o \in 0 .. eom - 1 |-> NoName]
      BY DEF Row
    <3>2. QED
      BY <3>1
  <2>2. QED
    BY <2>1
<1>2. ASSUME NEW i \in Nat, i \in T
      PROVE  i + 1 \in T
  <2>1. PICK f : f = [k \in 0 .. i |-> Row(f, k)]
    BY <1>2
  <2> DEFINE g == [k \in 0 .. i + 1 |-> IF k = i + 1 THEN Row(f, k) ELSE f[k]]
  <2>2. \A k \in 0 .. i + 1 : g[k] = Row(g, k)
    <3>1. TAKE k \in 0 .. i + 1
    <3>2. k # 0 => g[k - 1] = f[k - 1]
      OBVIOUS
    <3>3. Row(g, k) = Row(f, k)
      BY <3>2 DEF Row
    <3>4. k # i + 1 => k \in 0 .. i /\ f[k] = Row(f, k)
      BY <2>1
    <3>5. QED
      BY <3>3, <3>4
  <2>3. g = [k \in 0 .. i + 1 |-> g[k]]
    OBVIOUS
  <2> HIDE DEF g
  <2>4. [k \in 0 .. i + 1 |-> g[k]] = [k \in 0 .. i + 1 |-> Row(g, k)]
    BY <2>2
  <2>5. g = [k \in 0 .. i + 1 |-> Row(g, k)]
    BY <2>3, <2>4
  <2>6. QED
    BY <2>5
<1> HIDE DEF T
<1>3. m \in T
  BY <1>1, <1>2, SetInduction
<1>4. QED
  BY <1>3 DEF T

\* Row by row: a name takes one round more than what follows its first label.
LEMMA SpellerRows ==
    ASSUME eom \in Nat
    PROVE  \A k \in 0 .. eom : Speller[k] = Row(Speller, k)
<1>1. \E f : f = [k \in 0 .. eom |-> Row(f, k)]
  BY SpellerExists
<1>2. Speller = [k \in 0 .. eom |-> Row(Speller, k)]
  BY <1>1 DEF Speller
<1>3. QED
  BY <1>2

IsLabel(o) == Byte(o) \in (Labels \ {0}) \cup {BITSTRING}

\* A label, a pointer, the end, or nothing to go on with.
LEMMA AfterLemma ==
    ASSUME msg \in Seq(Bytes), NEW o \in 0 .. eom - 1
    PROVE  /\ After(o) \in Nat
           /\ Byte(o) \in Labels \cup {BITSTRING} =>
                 \A l \in LabelLen(o) :
                    \/ After(o) = o + 1 + l
                    \/ After(o) >= eom /\ o + 1 + l >= eom
           /\ Byte(o) \in Pointers => After(o) = IF o + 1 < eom THEN Target(o) ELSE eom
           /\ Byte(o) \notin Labels \cup {BITSTRING} \cup Pointers => After(o) = eom
<1>1. eom \in Nat /\ Byte(o) \in Octets /\ o \in Nat
  BY ByteLemma, LenProperties DEF eom
<1>2. PICK c \in 0 .. 255 : c = Byte(o)
  BY <1>1 DEF Octets
<1>3. /\ c \in Labels => c \notin Pointers /\ c # BITSTRING /\ c \in 0 .. 63
      /\ c \in Pointers => c \notin Labels /\ c # BITSTRING
      /\ c = BITSTRING => c \notin Labels /\ c \notin Pointers
  <2>1. c \in Labels => c \notin Pointers /\ c # BITSTRING /\ c \in 0 .. 63
    BY DEF Labels, BITSTRING, Pointers
  <2>2. c \in Pointers => c \notin Labels /\ c # BITSTRING
    BY DEF Labels, BITSTRING, Pointers
  <2>3. c = BITSTRING => c \notin Labels /\ c \notin Pointers
    BY DEF Labels, BITSTRING, Pointers
  <2>4. QED
    BY <2>1, <2>2, <2>3
<1>4. CASE Byte(o) \in Labels
  <2>1. PICK b \in 0 .. 63 : b = Byte(o)
    BY <1>3, <1>4, <1>2
  <2>2. After(o) = o + 1 + b
    BY <1>4, <2>1 DEF After
  <2>3. LabelLen(o) = {b}
    BY <1>4, <2>1 DEF LabelLen
  <2>4. Byte(o) \notin Pointers
    BY <1>3, <1>4, <1>2
  <2>5. \A l \in LabelLen(o) : After(o) = o + 1 + l
    BY <2>2, <2>3
  <2>6. After(o) \in Nat
    BY <1>1, <2>2
  <2>7. QED
    BY <1>4, <2>4, <2>5, <2>6
<1>5. CASE Byte(o) = BITSTRING /\ o + 1 < eom
  <2>1. Byte(o) \notin Labels /\ Byte(o) \notin Pointers
    BY <1>3, <1>5, <1>2
  <2>2. Byte(o + 1) \in Octets
    BY <1>1, <1>5, ByteLemma
  <2>3. PICK b \in 2 .. 33 : b = BitLabel(Byte(o + 1))
    BY <2>2, BitLabelLemma
  <2>4. After(o) = o + 1 + b
    BY <1>5, <2>1, <2>3 DEF After
  <2>5. LabelLen(o) = {b}
    BY <1>5, <2>1, <2>3 DEF LabelLen
  <2>6. \A l \in LabelLen(o) : After(o) = o + 1 + l
    BY <2>4, <2>5
  <2>7. After(o) \in Nat
    BY <1>1, <2>4
  <2>8. QED
    BY <1>5, <2>1, <2>6, <2>7
<1>6. CASE Byte(o) = BITSTRING /\ ~(o + 1 < eom)
  <2>1. Byte(o) \notin Labels /\ Byte(o) \notin Pointers
    BY <1>3, <1>6, <1>2
  <2>2. After(o) = eom
    BY <1>6, <2>1 DEF After
  <2>3. \A l \in LabelLen(o) : l \in 0 .. 63
    BY <1>6, LabelLenLemma
  <2>4. \A l \in 0 .. 63 : o + 1 + l >= eom
    BY <1>1, <1>6
  <2>5. \A l \in LabelLen(o) : o + 1 + l >= eom
    BY <2>3, <2>4, Zenon
  <2>6. QED
    BY <1>1, <1>6, <2>1, <2>2, <2>5
<1>7. CASE Byte(o) \in Pointers
  <2>1. Byte(o) \notin Labels /\ Byte(o) # BITSTRING
    BY <1>3, <1>7, <1>2
  <2>2. After(o) = IF o + 1 < eom THEN Target(o) ELSE eom
    BY <1>7, <2>1 DEF After
  <2>3. o + 1 < eom => Target(o) \in Nat
    BY <1>7, TargetLemma
  <2>4. QED
    BY <1>1, <1>7, <2>1, <2>2, <2>3
<1>8. CASE Byte(o) \notin Labels \cup {BITSTRING} \cup Pointers
  BY <1>1, <1>8 DEF After
<1>9. QED
  BY <1>4, <1>5, <1>6, <1>7, <1>8

LEMMA NoNameIsNone == NoName \notin Seq(Bytes)
<1>1. SUFFICES ASSUME NoName \in Seq(Bytes)
               PROVE  FALSE
  OBVIOUS
<1>2. NoName[1] = -1 /\ 1 \in 1 .. Len(NoName)
  BY DEF NoName
<1>3. NoName[1] \in Bytes
  BY <1>1, <1>2, ElementOfSeq
<1>4. QED
  BY <1>2, <1>3, UnpackAssumption

\* One round of a name, seen from its end: k rounds spell what follows, and one
\* more spells the name.
SpellStep(s, k, o) ==
    s[k + 1][o] = Longer(s[k], o)

LEMMA SpellerSteps ==
    ASSUME msg \in Seq(Bytes)
    PROVE  /\ \A o \in 0 .. eom - 1 : Speller[0][o] = NoName
           /\ \A k \in 0 .. eom - 1, o \in 0 .. eom - 1 : SpellStep(Speller, k, o)
<1>1. eom \in Nat
  BY LenProperties DEF eom
<1>2. \A k \in 0 .. eom : Speller[k] = Row(Speller, k)
  BY <1>1, SpellerRows
<1>3. \A o \in 0 .. eom - 1 : Speller[0][o] = NoName
  <2>1. Speller[0] = Row(Speller, 0)
    BY <1>1, <1>2
  <2>2. QED
    BY <2>1 DEF Row
<1>4. ASSUME NEW k \in 0 .. eom - 1, NEW o \in 0 .. eom - 1
      PROVE  SpellStep(Speller, k, o)
  <2>1. k + 1 \in 0 .. eom /\ k + 1 # 0 /\ (k + 1) - 1 = k
    BY <1>1
  <2>2. Speller[k + 1] = Row(Speller, k + 1)
    BY <1>2, <2>1
  <2>3. QED
    BY <2>1, <2>2 DEF Row, SpellStep
<1>5. QED
  BY <1>3, <1>4

LEMMA LongerType ==
    ASSUME msg \in Seq(Bytes), NEW o \in 0 .. eom - 1, NEW row,
           \A p \in 0 .. eom - 1 : row[p] \in Seq(Bytes) \cup {NoName}
    PROVE  Longer(row, o) \in Seq(Bytes) \cup {NoName}
<1>0. eom \in Nat /\ o \in Nat
  BY LenProperties DEF eom
<1>1. CASE Byte(o) = 0
  BY <1>1 DEF Longer
<1>2. CASE Byte(o) # 0 /\ (After(o) >= eom \/ row[After(o)] = NoName)
  BY <1>2 DEF Longer
<1>3. CASE Byte(o) # 0 /\ ~(After(o) >= eom \/ row[After(o)] = NoName)
  <2>1. After(o) \in Nat
    BY AfterLemma
  <2>2. After(o) \in 0 .. eom - 1
    BY <1>0, <1>3, <2>1
  <2>3. PICK t \in Seq(Bytes) : t = row[After(o)]
    BY <1>3, <2>2
  <2>4. CASE Byte(o) \in Labels \cup {BITSTRING}
    <3>1. PICK l : l \in LabelLen(o)
      BY <2>4, LabelLenLemma
    <3>2. l \in 0 .. 63
      BY <2>4, <3>1, LabelLenLemma
    <3>3. After(o) = o + 1 + l
      BY <1>0, <1>3, <2>4, <3>1, AfterLemma
    <3>4. SubSeq(msg, o + 1, o + 1 + l) \in Seq(Bytes)
      <4>1. l \in Nat /\ o + 1 + l < eom
        BY <2>2, <3>2, <3>3, <1>0
      <4>2. QED
        BY <1>0, <4>1, PieceLemma
    <3>5. Longer(row, o) = SubSeq(msg, o + 1, o + 1 + l) \o t
      BY <1>3, <2>3, <2>4, <3>3 DEF Longer
    <3>6. QED
      BY <3>4, <3>5, ConcatProperties
  <2>5. CASE Byte(o) \notin Labels \cup {BITSTRING}
    BY <1>3, <2>3, <2>5 DEF Longer
  <2>6. QED
    BY <2>4, <2>5
<1>4. QED
  BY <1>1, <1>2, <1>3

LEMMA SpellerType ==
    ASSUME msg \in Seq(Bytes)
    PROVE  \A k \in 0 .. eom, o \in 0 .. eom - 1 : Speller[k][o] \in Seq(Bytes) \cup {NoName}
<1> DEFINE T == {k \in Nat : k <= eom =>
                    \A o \in 0 .. eom - 1 : Speller[k][o] \in Seq(Bytes) \cup {NoName}}
<1>0. eom \in Nat
  BY LenProperties DEF eom
<1>1. 0 \in T
  BY SpellerSteps
<1>2. ASSUME NEW k \in Nat, k \in T
      PROVE  k + 1 \in T
  <2>1. SUFFICES ASSUME k + 1 <= eom, NEW o \in 0 .. eom - 1
                 PROVE  Speller[k + 1][o] \in Seq(Bytes) \cup {NoName}
    OBVIOUS
  <2>2. k \in 0 .. eom - 1 /\ k <= eom
    BY <1>0, <2>1
  <2>3. \A p \in 0 .. eom - 1 : Speller[k][p] \in Seq(Bytes) \cup {NoName}
    BY <1>2, <2>2
  <2>4. Speller[k + 1][o] = Longer(Speller[k], o)
    BY <2>2, SpellerSteps DEF SpellStep
  <2> DEFINE row == Speller[k]
  <2> HIDE DEF row
  <2>5. \A p \in 0 .. eom - 1 : row[p] \in Seq(Bytes) \cup {NoName}
    BY <2>3 DEF row
  <2>6. Longer(row, o) \in Seq(Bytes) \cup {NoName}
    BY <2>5, LongerType
  <2>7. QED
    BY <2>4, <2>6 DEF row
<1> HIDE DEF T
<1>3. Nat \subseteq T
  BY <1>1, <1>2, SetInduction
<1>4. QED
  BY <1>0, <1>3 DEF T

-------------------------------------------------------------------------------
(* The name it returns *)

\* Behind the bytes a, the name b.
Behind(a, b) == IF b = NoName THEN NoName ELSE a \o b

\* r rounds have written dst, and what they have left to spell at srcp follows.
SpellsOn(r) ==
    /\ r \in Nat /\ 2 * r <= checked
    /\ \A k \in 0 .. eom - r : Speller[k + r][src] = Behind(dst, Speller[k][srcp])

SpellInv == NameAsSpelled /\ (Running => \E r : SpellsOn(r))

LEMMA SpellerStays == msg' = msg => Speller' = Speller /\ Spelled' = Spelled
BY DEF Speller, Row, Longer, After, Byte, eom, Target, BitLabel, Spelled

LEMMA BehindLemma ==
    ASSUME NEW a \in Seq(Bytes), NEW p \in Seq(Bytes), NEW b \in Seq(Bytes) \cup {NoName}
    PROVE  /\ Behind(a, Behind(p, b)) = Behind(a \o p, b)
           /\ Behind(<< >>, b) = b
           /\ Behind(a, << >>) = a
           /\ b # NoName => Behind(a, b) \in Seq(Bytes) /\ Len(Behind(a, b)) = Len(a) + Len(b)
<1>1. CASE b = NoName
  <2>1. << >> \in Seq(Bytes)
    OBVIOUS
  <2>2. << >> # NoName
    BY <2>1, NoNameIsNone
  <2>3. a \o << >> = a
    BY ConcatEmptySeq
  <2>4. QED
    BY <1>1, <2>2, <2>3 DEF Behind
<1>2. CASE b # NoName
  <2>1. b \in Seq(Bytes) /\ << >> \in Seq(Bytes)
    BY <1>2
  <2>2. p \o b \in Seq(Bytes) /\ a \o b \in Seq(Bytes) /\ Len(a \o b) = Len(a) + Len(b)
    BY <2>1, ConcatProperties
  <2>3. p \o b # NoName /\ << >> # NoName
    BY <2>1, <2>2, NoNameIsNone
  <2>4. a \o (p \o b) = (a \o p) \o b
    BY <2>1, ConcatAssociative
  <2>5. a \o << >> = a /\ << >> \o b = b
    BY <2>1, ConcatEmptySeq
  <2>6. QED
    BY <1>2, <2>2, <2>3, <2>4, <2>5 DEF Behind
<1>3. QED
  BY <1>1, <1>2

\* One round of the speller at srcp, for each kind of byte.
LEMMA RoundSpells ==
    ASSUME msg \in Seq(Bytes), NEW o \in 0 .. eom - 1, NEW k \in 0 .. eom - 1
    PROVE  /\ Byte(o) = 0 => Speller[k + 1][o] = << >>
           /\ Byte(o) # 0 /\ After(o) >= eom => Speller[k + 1][o] = NoName
           /\ Byte(o) \in Pointers /\ After(o) < eom => Speller[k + 1][o] = Speller[k][After(o)]
           /\ IsLabel(o) /\ After(o) < eom =>
                 Speller[k + 1][o] = Behind(SubSeq(msg, o + 1, After(o)), Speller[k][After(o)])
<1>1. Speller[k + 1][o] = Longer(Speller[k], o)
  BY SpellerSteps DEF SpellStep
<1>2. eom \in Nat /\ Byte(o) \in Octets
  BY ByteLemma, LenProperties DEF eom
<1>3. After(o) < eom => ~(After(o) >= eom)
  BY <1>2, AfterLemma
<1>4. PICK c \in 0 .. 255 : c = Byte(o)
  BY <1>2 DEF Octets
<1>5. c \in Pointers => c \notin Labels \cup {BITSTRING} /\ c # 0
  BY DEF Pointers, Labels, BITSTRING
<1>6. c \in (Labels \ {0}) \cup {BITSTRING} => c \in Labels \cup {BITSTRING} /\ c # 0
  BY DEF BITSTRING
<1>7. CASE Byte(o) = 0
  BY <1>1, <1>4, <1>5, <1>6, <1>7 DEF Longer, IsLabel
<1>8. CASE Byte(o) # 0 /\ After(o) >= eom
  BY <1>1, <1>3, <1>8 DEF Longer
<1>9. CASE Byte(o) # 0 /\ ~(After(o) >= eom)
  BY <1>1, <1>4, <1>5, <1>6, <1>9 DEF Longer, IsLabel, Behind
<1>10. QED
  BY <1>7, <1>8, <1>9

LEMMA BeginsSpells == Begins => SpellInv
<1> SUFFICES ASSUME Begins
             PROVE  SpellInv
  OBVIOUS
<1>1. InsideInv
  BY BeginsInside
<1>2. NameAsSpelled
  <2>1. src \in 0 .. eom /\ eom \in Nat /\ result = IF src >= eom THEN -1 ELSE -2
    BY <1>1 DEF Begins, InsideInv, Onwards
  <2>2. ~(result >= 0) /\ ~(result = -1 /\ src < eom)
    BY <2>1
  <2>3. QED
    BY <2>2 DEF NameAsSpelled
<1>3. ASSUME Running
      PROVE  SpellsOn(0)
  <2>1. msg \in Seq(Bytes) /\ srcp \in 0 .. eom - 1 /\ eom \in Nat \ {0}
    BY <1>1, <1>3, RunningInside
  <2>2. ASSUME NEW k \in 0 .. eom - 0
        PROVE  Speller[k + 0][src] = Behind(dst, Speller[k][srcp])
    <3>1. k \in 0 .. eom /\ k + 0 = k
      BY <2>1
    <3>2. Speller[k][srcp] \in Seq(Bytes) \cup {NoName} /\ << >> \in Seq(Bytes)
      BY <2>1, <3>1, SpellerType
    <3>3. Behind(<< >>, Speller[k][srcp]) = Speller[k][srcp]
      BY <3>2, BehindLemma
    <3>4. QED
      BY <3>1, <3>3 DEF Begins
  <2>3. QED
    BY <2>2 DEF SpellsOn, Begins
<1>4. QED
  BY <1>2, <1>3 DEF SpellInv

\* Rounds are counted: the message is looked at before they run out.
LEMMA RoundsLeft ==
    ASSUME InsideInv, Running, NEW r, SpellsOn(r)
    PROVE  r \in 0 .. eom - 1 /\ eom - r \in 1 .. eom /\ (eom - r) - 1 \in 0 .. eom - 1
<1>1. r \in Nat /\ 2 * r <= checked
  BY DEF SpellsOn
<1>2. checked \in Nat /\ srcp \in 0 .. eom - 1 /\ eom \in Nat \ {0}
  BY RunningInside
<1>3. checked <= eom - 1 + srcp
  BY DEF InsideInv, Onwards
<1>4. QED
  BY <1>1, <1>2, <1>3

\* What spells the name at srcp when one round has gone on to q.
LEMMA GoesOn ==
    ASSUME InsideInv, Running, NEW r, SpellsOn(r),
           NEW p \in Seq(Bytes), NEW q \in 0 .. eom - 1,
           \A k \in 0 .. eom - 1 : Speller[k + 1][srcp] = Behind(p, Speller[k][q])
    PROVE  \A k \in 0 .. eom - (r + 1) :
              Speller[k + (r + 1)][src] = Behind(dst \o p, Speller[k][q])
<1>1. /\ msg \in Seq(Bytes) /\ dst \in Seq(Bytes) /\ eom \in Nat \ {0} /\ r \in 0 .. eom - 1
      /\ \A k \in 0 .. eom - r : Speller[k + r][src] = Behind(dst, Speller[k][srcp])
  BY RunningInside, RoundsLeft DEF SpellsOn
<1>2. TAKE k \in 0 .. eom - (r + 1)
<1>3. k \in 0 .. eom /\ k \in 0 .. eom - 1 /\ k + 1 \in 0 .. eom - r /\ (k + 1) + r = k + (r + 1)
  BY <1>1
<1>4. Speller[k][q] \in Seq(Bytes) \cup {NoName}
  BY <1>1, <1>3, SpellerType
<1>5. Speller[k + (r + 1)][src] = Behind(dst, Speller[k + 1][srcp])
  BY <1>1, <1>3
<1>6. Speller[k + 1][srcp] = Behind(p, Speller[k][q])
  BY <1>3
<1>7. Behind(dst, Behind(p, Speller[k][q])) = Behind(dst \o p, Speller[k][q])
  BY <1>1, <1>4, BehindLemma
<1>8. QED
  BY <1>5, <1>6, <1>7, Zenon

\* What src spells, once it is known what srcp spells with the rounds left.
LEMMA LastRound ==
    ASSUME InsideInv, Running, NEW r, SpellsOn(r)
    PROVE  \E k \in 0 .. eom - 1 : Spelled[src] = Behind(dst, Speller[k + 1][srcp])
<1>1. eom - r \in 1 .. eom /\ (eom - r) - 1 \in 0 .. eom - 1 /\ eom \in Nat /\ r \in Nat
  BY RoundsLeft, RunningInside
<1>2. ((eom - r) - 1) + 1 = eom - r /\ (eom - r) + r = eom /\ eom - r \in 0 .. eom - r
  BY <1>1
<1>3. Speller[(eom - r) + r][src] = Behind(dst, Speller[eom - r][srcp])
  BY <1>2 DEF SpellsOn
<1>4. Spelled[src] = Speller[eom][src]
  BY SpelledBySpeller
<1>5. QED
  BY <1>1, <1>2, <1>3, <1>4

LEMMA NextSpells == InsideInv /\ SpellInv /\ [Next]_vars => SpellInv'
<1>1. ASSUME InsideInv, SpellInv, Next
      PROVE  SpellInv'
  <2>1. Running /\ msg' = msg /\ src' = src /\ eom' = eom /\ Speller' = Speller /\ Spelled' = Spelled
    BY <1>1, SpellerStays DEF Next, eom
  <2>2. /\ msg \in Seq(Bytes) /\ srcp \in 0 .. eom - 1 /\ eom \in Nat \ {0} /\ src \in 0 .. eom
        /\ n = Byte(srcp) /\ n \in Octets
        /\ dst \in Seq(Bytes) /\ Len(dst) \in Nat /\ checked \in Nat /\ len \in -1 .. eom
    BY <1>1, <2>1, RunningInside
  <2>3. PICK r : SpellsOn(r)
    BY <1>1, <2>1 DEF SpellInv
  <2>4. PICK k \in 0 .. eom - 1 : Spelled[src] = Behind(dst, Speller[k + 1][srcp])
    BY <1>1, <2>1, <2>3, LastRound
  <2> DEFINE rest == Speller[k + 1][srcp]
  <2>5. After(srcp) \in Nat /\ (n \in Labels \cup {BITSTRING} =>
           \A l \in LabelLen(srcp) : \/ After(srcp) = srcp + 1 + l
                                     \/ After(srcp) >= eom /\ srcp + 1 + l >= eom)
    BY <2>2, AfterLemma
  <2>6. rest \in Seq(Bytes) \cup {NoName}
    <3>1. k + 1 \in 0 .. eom
      BY <2>2
    <3>2. QED
      BY <2>2, <3>1, SpellerType
  \* Nothing is refused but for its reasons.
  <2>7. ASSUME Fail, \/ rest = NoName
                     \/ checked + 2 >= eom
                     \/ \E l \in Nat : rest # NoName /\ Len(rest) >= l + 1 /\ Len(dst) + l + 1 >= DstSize
        PROVE  SpellInv'
    <3>1. ~Running' /\ result' = -1 /\ checked' = checked
      BY <2>7 DEF Fail, Running
    <3>2. ASSUME Spelled[src] # NoName
          PROVE  Len(Spelled[src]) >= DstSize \/ checked + 2 >= eom
      <4>1. rest # NoName
        BY <2>4, <3>2 DEF Behind
      <4>2. Len(Spelled[src]) = Len(dst) + Len(rest) /\ Len(rest) \in Nat
        <5>1. << >> \in Seq(Bytes)
          OBVIOUS
        <5>2. Len(Behind(dst, rest)) = Len(dst) + Len(rest)
          <6> HIDE DEF rest
          <6>1. rest # NoName => Len(Behind(dst, rest)) = Len(dst) + Len(rest)
            BY <2>2, <2>6, <5>1, BehindLemma
          <6>2. QED
            BY <4>1, <6>1
        <5>3. Len(rest) \in Nat
          BY <2>6, <4>1, LenProperties
        <5>4. QED
          BY <2>4, <5>2, <5>3
      <4>3. CASE \E l \in Nat : Len(rest) >= l + 1 /\ Len(dst) + l + 1 >= DstSize
        BY <2>2, <4>2, <4>3, UnpackAssumption
      <4>4. QED
        BY <2>7, <4>1, <4>3, Zenon
    <3>3. NameAsSpelled'
      BY <2>1, <3>1, <3>2 DEF NameAsSpelled
    <3>4. QED
      BY <3>1, <3>3 DEF SpellInv
  \* One round is over.
  <2>8. ASSUME NEW p \in Seq(Bytes), srcp' \in 0 .. eom - 1, dst' = dst \o p, result' = result,
               checked' \in Nat, checked' >= checked + 2,
               \A i \in 0 .. eom - 1 : Speller[i + 1][srcp] = Behind(p, Speller[i][srcp'])
        PROVE  SpellInv'
    <3>1. PICK q \in 0 .. eom - 1 : q = srcp'
      BY <2>8
    <3>2. \A i \in 0 .. eom - 1 : Speller[i + 1][srcp] = Behind(p, Speller[i][q])
      BY <2>8, <3>1
    <3>3. \A i \in 0 .. eom - (r + 1) : Speller[i + (r + 1)][src] = Behind(dst \o p, Speller[i][q])
      BY <1>1, <2>1, <2>3, <3>2, GoesOn
    <3>4. r + 1 \in Nat /\ 2 * (r + 1) <= checked'
      BY <2>2, <2>3, <2>8 DEF SpellsOn
    <3>5. SpellsOn(r + 1)'
      BY <2>1, <2>8, <3>1, <3>3, <3>4 DEF SpellsOn, Behind
    <3>6. NameAsSpelled'
      BY <2>1, <2>8 DEF NameAsSpelled, Running
    <3>7. QED
      BY <3>5, <3>6 DEF SpellInv
  <2>9. CASE Label
    <3>1. n \in (Labels \ {0}) \cup {BITSTRING} /\ n # 0 /\ n \in Labels \cup {BITSTRING}
      BY <2>9 DEF Label, BITSTRING
    <3>2. PICK l \in LabelLen(srcp) :
             \/ ~Fits(l) /\ Fail
             \/ /\ Fits(l)
                /\ dst' = dst \o SubSeq(msg, srcp + 1, srcp + 1 + l)
                /\ srcp' = srcp + 1 + l
                /\ checked' = checked + l + 1
                /\ UNCHANGED <<len, result>>
      BY <2>9 DEF Label
    <3>3. l \in Nat /\ l # 0
      <4>1. \A i \in LabelLen(srcp) : i \in 0 .. 63 /\ (Byte(srcp) # 0 => i # 0)
        BY <2>2, <3>1, LabelLenLemma
      <4>2. l \in 0 .. 63 /\ l # 0
        BY <2>2, <3>1, <4>1, Zenon
      <4>3. QED
        BY <4>2
    <3>4. \/ After(srcp) = srcp + 1 + l
          \/ After(srcp) >= eom /\ srcp + 1 + l >= eom
      BY <2>5, <3>1, Zenon
    <3>5. CASE srcp + 1 + l >= eom
      <4>1. Fail
        BY <2>2, <3>2, <3>3, <3>5 DEF Fits
      <4>2. rest = NoName
        BY <2>2, <3>1, <3>4, <3>5, RoundSpells
      <4>3. QED
        BY <2>7, <4>1, <4>2
    <3>6. CASE ~(srcp + 1 + l >= eom)
      <4>1. After(srcp) = srcp + 1 + l /\ After(srcp) < eom /\ srcp + 1 + l < eom
            /\ After(srcp) \in 0 .. eom - 1
        BY <2>2, <2>5, <3>3, <3>4, <3>6
      <4> DEFINE p == SubSeq(msg, srcp + 1, srcp + 1 + l)
      <4>2. p \in Seq(Bytes) /\ Len(p) = l + 1
        <5>1. srcp \in Nat
          BY <2>2
        <5>2. QED
          BY <2>2, <3>3, <4>1, <5>1, PieceLemma
      <4>3. \A i \in 0 .. eom - 1 : Speller[i + 1][srcp] = Behind(p, Speller[i][After(srcp)])
        BY <2>2, <3>1, <4>1, RoundSpells DEF IsLabel
      <4>4. CASE Fits(l)
        <5>1. /\ dst' = dst \o p /\ srcp' = After(srcp) /\ checked' = checked + l + 1
              /\ result' = result
          BY <3>2, <4>1, <4>4
        <5>2. checked' \in Nat /\ checked' >= checked + 2
          BY <2>2, <3>3, <5>1
        <5>3. srcp' \in 0 .. eom - 1
          BY <4>1, <5>1
        <5>4. \A i \in 0 .. eom - 1 : Speller[i + 1][srcp] = Behind(p, Speller[i][srcp'])
          BY <4>3, <5>1
        <5> HIDE DEF p
        <5>5. QED
          BY <2>8, <4>2, <5>1, <5>2, <5>3, <5>4
      <4>5. CASE ~Fits(l)
        <5>1. Fail /\ Len(dst) + l + 1 >= DstSize
          BY <2>2, <3>2, <3>3, <4>1, <4>5, UnpackAssumption DEF Fits
        <5>2. rest = Behind(p, Speller[k][After(srcp)])
          BY <4>3
        <5>3. CASE Speller[k][After(srcp)] = NoName
          BY <2>7, <5>1, <5>2, <5>3 DEF Behind
        <5>4. CASE Speller[k][After(srcp)] # NoName
          <6>1. PICK t \in Seq(Bytes) \cup {NoName} : t = Speller[k][After(srcp)]
            <7>1. k \in 0 .. eom
              BY <2>2
            <7>2. QED
              BY <2>2, <4>1, <7>1, SpellerType
          <6> HIDE DEF p, rest
          <6>2. Behind(p, t) \in Seq(Bytes) /\ Len(Behind(p, t)) = Len(p) + Len(t) /\ Len(t) \in Nat
            <7>1. t \in Seq(Bytes)
              BY <5>4, <6>1
            <7>2. t # NoName => Behind(p, t) \in Seq(Bytes) /\ Len(Behind(p, t)) = Len(p) + Len(t)
              BY <4>2, BehindLemma
            <7>3. QED
              BY <5>4, <6>1, <7>1, <7>2, LenProperties
          <6>3. rest # NoName
            BY <5>2, <6>1, <6>2, NoNameIsNone, Zenon
          <6>4. Len(rest) = Len(p) + Len(t)
            BY <5>2, <6>1, <6>2, Zenon
          <6>5. Len(rest) >= l + 1
            BY <3>3, <4>2, <6>2, <6>4
          <6>6. QED
            BY <2>7, <3>3, <5>1, <6>3, <6>5
        <5>5. QED
          BY <5>3, <5>4
      <4>6. QED
        BY <4>4, <4>5
    <3>7. QED
      BY <3>5, <3>6
  <2>10. CASE Pointer
    <3>1. n \in Pointers /\ n # 0
      BY <2>10 DEF Pointer, Pointers
    <3>2. After(srcp) = IF srcp + 1 < eom THEN Target(srcp) ELSE eom
      BY <2>2, <3>1, AfterLemma
    <3>3. CASE ~Followed /\ Fail
      <4>1. CASE Looped
        BY <2>7, <3>3, <4>1 DEF Looped
      <4>2. CASE ~Looped
        <5>1. After(srcp) >= eom
          BY <2>2, <2>5, <3>2, <3>3, <4>2 DEF Followed
        <5>2. rest = NoName
          BY <2>2, <3>1, <5>1, RoundSpells
        <5>3. QED
          BY <2>7, <3>3, <5>2
      <4>3. QED
        BY <4>1, <4>2
    <3>4. CASE ~(~Followed /\ Fail)
      <4>1. /\ Followed /\ srcp' = Target(srcp) /\ checked' = checked + 2
            /\ dst' = dst /\ result' = result
        BY <2>10, <3>4 DEF Pointer, Counted
      <4>2. srcp + 1 < eom /\ Target(srcp) < eom
        BY <4>1 DEF Followed
      <4>3. After(srcp) = srcp' /\ After(srcp) \in 0 .. eom - 1 /\ After(srcp) < eom
        BY <2>2, <2>5, <3>2, <4>1, <4>2
      <4>4. << >> \in Seq(Bytes) /\ dst' = dst \o << >>
        BY <2>2, <4>1, ConcatEmptySeq
      <4>5. ASSUME NEW i \in 0 .. eom - 1
            PROVE  Speller[i + 1][srcp] = Behind(<< >>, Speller[i][srcp'])
        <5>1. Speller[i + 1][srcp] = Speller[i][After(srcp)]
          BY <2>2, <3>1, <4>3, RoundSpells
        <5>2. i \in 0 .. eom
          BY <2>2
        <5>3. Speller[i][After(srcp)] \in Seq(Bytes) \cup {NoName}
          BY <2>2, <4>3, <5>2, SpellerType
        <5>4. Behind(<< >>, Speller[i][After(srcp)]) = Speller[i][After(srcp)]
          BY <4>4, <5>3, BehindLemma
        <5>5. QED
          BY <4>3, <5>1, <5>4
      <4>6. checked' \in Nat /\ checked' >= checked + 2 /\ srcp' \in 0 .. eom - 1
        BY <2>2, <4>1, <4>3
      <4>7. QED
        BY <2>8, <4>1, <4>4, <4>5, <4>6
    <3>5. QED
      BY <3>3, <3>4
  <2>11. CASE IllegalType
    <3>1. n \notin Labels \cup {BITSTRING} \cup Pointers /\ Fail
      BY <2>11 DEF IllegalType
    <3>2. After(srcp) = eom
      BY <2>2, <3>1, AfterLemma, Zenon
    <3>3. n # 0
      BY <3>1 DEF Labels
    <3>4. After(srcp) >= eom
      BY <2>2, <3>2
    <3>5. rest = NoName
      BY <2>2, <3>3, <3>4, RoundSpells
    <3>6. QED
      BY <2>7, <3>1, <3>5
  <2>12. CASE Root
    <3>1. result' = (IF len < 0 THEN srcp + 1 - src ELSE len) /\ dst' = dst
      BY <2>12 DEF Root
    <3>2. result' \in 0 .. eom
      BY <1>1, <2>2, <3>1 DEF InsideInv, Onwards
    <3>3. rest = << >>
      BY <2>2, <2>12, RoundSpells DEF Root
    <3>4. Behind(dst, << >>) = dst
      <4>1. << >> \in Seq(Bytes)
        OBVIOUS
      <4>2. QED
        BY <2>2, <4>1, BehindLemma
    <3>5. Spelled'[src'] = dst'
      BY <2>1, <2>4, <3>1, <3>3, <3>4
    <3>6. QED
      BY <2>1, <3>2, <3>5 DEF SpellInv, NameAsSpelled, Running
  <2>13. QED
    BY <1>1, <2>9, <2>10, <2>11, <2>12 DEF Next
<1>2. ASSUME InsideInv, SpellInv, UNCHANGED vars
      PROVE  SpellInv'
  <2>1. Speller' = Speller /\ Spelled' = Spelled /\ eom' = eom
    BY <1>2, SpellerStays DEF vars, eom
  <2>2. NameAsSpelled'
    BY <1>2, <2>1 DEF vars, SpellInv, NameAsSpelled
  <2>3. ASSUME NEW r, SpellsOn(r)
        PROVE  SpellsOn(r)'
    BY <1>2, <2>1, <2>3 DEF vars, SpellsOn, Behind
  <2>4. QED
    BY <1>2, <2>2, <2>3 DEF vars, SpellInv, Running
<1>3. QED
  BY <1>1, <1>2

\* The name ns_name_unpack returns is the one the message spells; and it refuses
\* none but one that is not spelled, has no room, or takes as many bytes as the
\* message to spell.
LEMMA UnpackSpells == Spec => []NameAsSpelled
<1>1. Init => InsideInv /\ SpellInv
  BY InitBegins, BeginsInside, BeginsSpells
<1>2. InsideInv /\ SpellInv /\ [Next]_vars => (InsideInv /\ SpellInv)'
  BY NextInside, NextSpells
<1>3. SpellInv => NameAsSpelled
  BY DEF SpellInv
<1>4. QED
  BY <1>1, <1>2, <1>3, PTL DEF Spec

-------------------------------------------------------------------------------
(* Where the name ends *)

SkipRound(f, cp) ==
    IF cp > eom THEN -1
    ELSE IF cp = eom THEN eom
    ELSE IF Byte(cp) = 0 THEN cp + 1
    ELSE IF Byte(cp) \in Labels \cup {BITSTRING} THEN f[cp + 1 + CHOOSE l \in LabelLen(cp) : TRUE]
    ELSE IF Byte(cp) \in Pointers THEN IF cp + 2 > eom THEN -1 ELSE cp + 2
    ELSE -1

LEMMA SkipUnfolds == Skip = CHOOSE f : f = [cp \in 0 .. eom + 64 |-> SkipRound(f, cp)]
BY DEF Skip, SkipRound

LEMMA SkipStays == msg' = msg => Skip' = Skip
BY DEF Skip, LabelLen, Byte, eom, BitLabel

\* A round looks at nothing but what comes behind it.
LEMMA SkipLooksOn ==
    ASSUME msg \in Seq(Bytes), NEW cp \in 0 .. eom + 64, NEW f, NEW g,
           \A q \in 0 .. eom + 64 : q > cp => f[q] = g[q]
    PROVE  SkipRound(f, cp) = SkipRound(g, cp)
<1>1. eom \in Nat
  BY LenProperties DEF eom
<1>2. CASE cp < eom /\ Byte(cp) \in Labels \cup {BITSTRING}
  <2>1. cp \in 0 .. eom - 1
    BY <1>1, <1>2
  <2> DEFINE l == CHOOSE i \in LabelLen(cp) : TRUE
  <2>2. l \in LabelLen(cp)
    BY <1>2, <2>1, LabelLenLemma
  <2>3. l \in 0 .. 63
    BY <1>2, <2>1, <2>2, LabelLenLemma
  <2> HIDE DEF l
  <2>4. cp + 1 + l \in 0 .. eom + 64 /\ cp + 1 + l > cp
    <3>1. PICK e \in Nat : e = eom
      BY <1>1
    <3>2. PICK i \in 0 .. 63 : i = l
      BY <2>3
    <3>3. cp \in Nat /\ cp <= e - 1
      BY <2>1, <3>1
    <3>4. cp + 1 + i \in 0 .. e + 64 /\ cp + 1 + i > cp
      BY <3>2, <3>3
    <3>5. QED
      BY <3>1, <3>2, <3>4
  <2>5. f[cp + 1 + l] = g[cp + 1 + l]
    BY <2>4
  <2>6. QED
    BY <2>5 DEF SkipRound, l
<1>3. CASE ~(cp < eom /\ Byte(cp) \in Labels \cup {BITSTRING})
  <2>1. cp < eom => Byte(cp) \notin Labels \cup {BITSTRING}
    BY <1>3
  <2>2. cp > eom \/ cp = eom \/ cp < eom
    BY <1>1
  <2>3. QED
    BY <2>1, <2>2 DEF SkipRound
<1>4. QED
  BY <1>2, <1>3

LEMMA SkipRounds ==
    ASSUME msg \in Seq(Bytes)
    PROVE  \A cp \in 0 .. eom + 64 : Skip[cp] = SkipRound(Skip, cp)
<1> DEFINE D == 0 .. eom + 64
           T == {k \in Nat : \E f : f = [cp \in D |-> f[cp]] /\
                    \A cp \in D : cp + k >= eom + 64 => f[cp] = SkipRound(f, cp)}
<1>0. eom \in Nat
  BY LenProperties DEF eom
<1>1. 0 \in T
  <2> DEFINE f == [cp \in D |-> -1]
  <2>1. \A cp \in D : cp + 0 >= eom + 64 => f[cp] = SkipRound(f, cp)
    <3>1. TAKE cp \in D
    <3>2. HAVE cp + 0 >= eom + 64
    <3>3. cp > eom
      BY <1>0, <3>2
    <3>4. QED
      BY <3>3 DEF SkipRound
  <2>2. f = [cp \in D |-> f[cp]]
    OBVIOUS
  <2> HIDE DEF f, D
  <2>3. QED
    BY <2>1, <2>2
<1>2. ASSUME NEW k \in Nat, k \in T
      PROVE  k + 1 \in T
  <2>1. PICK f : f = [cp \in D |-> f[cp]] /\
                 \A cp \in D : cp + k >= eom + 64 => f[cp] = SkipRound(f, cp)
    BY <1>2
  <2> DEFINE g == [cp \in D |-> IF cp + k >= eom + 64 THEN f[cp] ELSE SkipRound(f, cp)]
  <2>2. \A cp \in D : cp + (k + 1) >= eom + 64 => g[cp] = SkipRound(g, cp)
    <3>1. TAKE cp \in D
    <3>2. HAVE cp + (k + 1) >= eom + 64
    <3>3. \A q \in D : q > cp => f[q] = g[q]
      <4>1. TAKE q \in D
      <4>2. HAVE q > cp
      <4>3. q + k >= eom + 64
        BY <1>0, <3>2, <4>2
      <4>4. QED
        BY <4>3
    <3>4. g[cp] = SkipRound(f, cp)
      BY <2>1
    <3> HIDE DEF g
    <3>5. SkipRound(f, cp) = SkipRound(g, cp)
      BY <3>3, SkipLooksOn
    <3>6. QED
      BY <3>4, <3>5
  <2>3. g = [cp \in D |-> g[cp]]
    OBVIOUS
  <2> HIDE DEF g, D
  <2>4. QED
    BY <2>2, <2>3
<1> HIDE DEF T
<1>3. eom + 64 \in T
  <2>1. eom + 64 \in Nat
    BY <1>0
  <2>2. QED
    BY <1>1, <1>2, <2>1, SetInduction
<1>4. PICK f : /\ f = [cp \in D |-> f[cp]]
               /\ \A cp \in D : cp + (eom + 64) >= eom + 64 => f[cp] = SkipRound(f, cp)
  BY <1>3 DEF T
<1>5. \A cp \in D : f[cp] = SkipRound(f, cp)
  BY <1>0, <1>4
<1> HIDE DEF D
<1>6. [cp \in D |-> f[cp]] = [cp \in D |-> SkipRound(f, cp)]
  BY <1>5
<1>7. f = [cp \in D |-> SkipRound(f, cp)]
  BY <1>4, <1>6
<1>8. Skip = [cp \in D |-> SkipRound(Skip, cp)]
  BY <1>7, SkipUnfolds DEF D
<1>9. QED
  BY <1>8 DEF D

\* What is skipped lies inside the message.
SkipsTo(o) == Skip[o] = -1 \/ (Skip[o] \in Int /\ o <= Skip[o] /\ Skip[o] <= eom)

LEMMA SkipType ==
    ASSUME msg \in Seq(Bytes)
    PROVE  \A o \in 0 .. eom + 64 : SkipsTo(o)
<1> DEFINE D == 0 .. eom + 64
           T == {k \in Nat : \A cp \in D : cp + k >= eom + 64 => SkipsTo(cp)}
<1>0. eom \in Nat
  BY LenProperties DEF eom
<1>1. ASSUME NEW cp \in D, cp >= eom
      PROVE  SkipsTo(cp)
  <2>1. Skip[cp] = SkipRound(Skip, cp)
    BY SkipRounds
  <2>2. cp > eom \/ cp = eom
    BY <1>0, <1>1
  <2>3. QED
    BY <1>0, <2>1, <2>2 DEF SkipRound, SkipsTo
<1>2. 0 \in T
  <2>1. ASSUME NEW cp \in D, cp + 0 >= eom + 64
        PROVE  cp >= eom
    BY <1>0, <2>1
  <2>2. QED
    BY <1>1, <2>1
<1>3. ASSUME NEW k \in Nat, k \in T
      PROVE  k + 1 \in T
  <2>1. SUFFICES ASSUME NEW cp \in D, cp + (k + 1) >= eom + 64
                 PROVE  SkipsTo(cp)
    OBVIOUS
  <2>2. CASE cp >= eom
    BY <1>1, <2>2
  <2>3. CASE cp < eom
    <3>1. cp \in 0 .. eom - 1 /\ cp \in Int /\ ~(cp > eom) /\ cp # eom
      BY <1>0, <2>3
    <3>2. Skip[cp] = SkipRound(Skip, cp)
      BY SkipRounds
    <3>3. CASE Byte(cp) \in Labels \cup {BITSTRING} /\ Byte(cp) # 0
      <4> DEFINE l == CHOOSE i \in LabelLen(cp) : TRUE
      <4>1. l \in 0 .. 63
        <5>1. LabelLen(cp) # {} /\ \A i \in LabelLen(cp) : i \in 0 .. 63
          BY <3>1, <3>3, LabelLenLemma
        <5>2. QED
          BY <5>1, Zenon
      <4>2. Skip[cp] = Skip[cp + 1 + l]
        BY <3>1, <3>2, <3>3 DEF SkipRound
      <4> HIDE DEF l
      <4>3. cp + 1 + l \in D /\ (cp + 1 + l) + k >= eom + 64 /\ cp <= cp + 1 + l /\ cp + 1 + l \in Int
        BY <1>0, <2>1, <2>3, <3>1, <4>1
      <4>4. SkipsTo(cp + 1 + l)
        BY <1>3, <4>3
      <4>5. QED
        BY <1>0, <3>1, <4>2, <4>3, <4>4 DEF SkipsTo
    <3>4. CASE ~(Byte(cp) \in Labels \cup {BITSTRING} /\ Byte(cp) # 0)
      <4>1. \/ Skip[cp] = cp + 1
            \/ Skip[cp] = -1
            \/ cp + 2 <= eom /\ Skip[cp] = cp + 2
        BY <1>0, <3>1, <3>2, <3>4 DEF SkipRound
      <4>2. QED
        BY <1>0, <2>3, <3>1, <4>1 DEF SkipsTo
    <3>5. QED
      BY <3>3, <3>4
  <2>4. QED
    BY <1>0, <2>2, <2>3
<1> HIDE DEF T, D
<1>4. eom + 64 \in T
  <2>1. eom + 64 \in Nat
    BY <1>0
  <2>2. QED
    BY <1>2, <1>3, <2>1, SetInduction
<1>5. QED
  <2>1. SUFFICES ASSUME NEW o \in D
                 PROVE  SkipsTo(o)
    BY DEF D
  <2>2. o + (eom + 64) >= eom + 64
    BY <1>0 DEF D
  <2>3. QED
    BY <1>4, <2>2 DEF T

SkipInv ==
    /\ Running => Skip[src] = IF len < 0 THEN Skip[srcp] ELSE src + len
    /\ SkipAgrees

LEMMA BeginsSkips == Begins => SkipInv
<1> SUFFICES ASSUME Begins
             PROVE  SkipInv
  OBVIOUS
<1>1. ~(result >= 0)
  BY DEF Begins
<1>2. QED
  BY <1>1 DEF Begins, SkipInv, SkipAgrees

LEMMA NextSkips == InsideInv /\ SkipInv /\ [Next]_vars => SkipInv'
<1>1. ASSUME InsideInv, SkipInv, Next
      PROVE  SkipInv'
  <2>1. Running /\ msg' = msg /\ src' = src /\ eom' = eom /\ Skip' = Skip /\ result = -2
    BY <1>1, SkipStays DEF Next, eom, Running
  <2>2. /\ msg \in Seq(Bytes) /\ srcp \in 0 .. eom - 1 /\ eom \in Nat \ {0} /\ src \in 0 .. eom
        /\ n = Byte(srcp) /\ n \in Octets
        /\ dst \in Seq(Bytes) /\ Len(dst) \in Nat /\ checked \in Nat /\ len \in -1 .. eom
    BY <1>1, <2>1, RunningInside
  <2>3. Skip[src] = (IF len < 0 THEN Skip[srcp] ELSE src + len) /\ (len < 0 => src <= srcp)
    BY <1>1, <2>1 DEF SkipInv, InsideInv, Onwards
  <2>4. Skip[srcp] = SkipRound(Skip, srcp) /\ ~(srcp > eom) /\ srcp # eom
    <3>1. srcp \in 0 .. eom + 64
      BY <2>2
    <3>2. QED
      BY <2>2, <3>1, SkipRounds
  <2>5. CASE Fail
    BY <2>1, <2>5 DEF Fail, SkipInv, SkipAgrees, Running
  <2>6. ASSUME Label, ~Fail
        PROVE  SkipInv'
    <3>1. n \in (Labels \ {0}) \cup {BITSTRING} /\ n # 0 /\ n \in Labels \cup {BITSTRING}
      BY <2>6 DEF Label, BITSTRING
    <3>2. PICK l \in LabelLen(srcp) : Fits(l) /\ srcp' = srcp + 1 + l /\ UNCHANGED <<len, result>>
      BY <2>6 DEF Label
    <3>3. \A i \in LabelLen(srcp) : i \in 0 .. 63 /\ (Byte(srcp) # 0 => i # 0)
      BY <2>2, <3>1, LabelLenLemma
    <3>4. l \in 0 .. 63 /\ l # 0
      BY <2>2, <3>1, <3>3, Zenon
    <3>5. srcp + 1 < eom
      BY <2>2, <3>2, <3>4 DEF Fits
    <3>6. \A i \in LabelLen(srcp) : i = l
      <4>1. \A i \in LabelLen(srcp) :
               i = IF Byte(srcp) \in Labels THEN Byte(srcp) ELSE BitLabel(Byte(srcp + 1))
        BY <2>2, <3>1, <3>5, LabelLenLemma
      <4>2. QED
        BY <3>2, <4>1, Zenon
    <3>7. (CHOOSE i \in LabelLen(srcp) : TRUE) = l
      BY <3>2, <3>6
    <3>8. Skip[srcp] = Skip[srcp + 1 + l]
      BY <2>2, <2>4, <3>1, <3>7 DEF SkipRound
    <3>9. QED
      BY <2>1, <2>3, <3>2, <3>8 DEF SkipInv, SkipAgrees, Running
  <2>7. ASSUME Pointer, ~Fail
        PROVE  SkipInv'
    <3>1. n \in Pointers /\ Followed /\ len' = Consumed /\ UNCHANGED <<dst, result>>
      BY <2>7 DEF Pointer
    <3>2. n # 0 /\ n \notin Labels \cup {BITSTRING}
      BY <3>1 DEF Pointers, Labels, BITSTRING
    <3>3. ~(srcp + 2 > eom)
      BY <2>2, <3>1 DEF Followed
    <3>4. Skip[srcp] = srcp + 2
      BY <2>2, <2>4, <3>1, <3>2, <3>3 DEF SkipRound
    <3>5. ~(len' < 0) /\ Skip[src] = src + len'
      BY <2>2, <2>3, <3>1, <3>4 DEF Consumed
    <3>6. QED
      BY <2>1, <3>1, <3>5 DEF SkipInv, SkipAgrees
  <2>8. CASE Root
    <3>1. result' = IF len < 0 THEN srcp + 1 - src ELSE len
      BY <2>8 DEF Root
    <3>2. Skip[srcp] = srcp + 1
      BY <2>2, <2>4, <2>8 DEF SkipRound, Root
    <3>3. result' \in Nat /\ Skip[src] = src + result'
      BY <2>2, <2>3, <3>1, <3>2
    <3>4. QED
      BY <2>1, <3>3 DEF SkipInv, SkipAgrees, Running
  <2>9. QED
    BY <1>1, <2>5, <2>6, <2>7, <2>8 DEF Next, IllegalType
<1>2. ASSUME InsideInv, SkipInv, UNCHANGED vars
      PROVE  SkipInv'
  BY <1>2, SkipStays DEF vars, SkipInv, SkipAgrees, Running
<1>3. QED
  BY <1>1, <1>2

\* ns_name_unpack and ns_name_skip agree on where a name ends.
LEMMA UnpackEndsWhereSkipEnds == Spec => []SkipAgrees
<1>1. Init => InsideInv /\ SkipInv
  BY InitBegins, BeginsInside, BeginsSkips
<1>2. InsideInv /\ SkipInv /\ [Next]_vars => (InsideInv /\ SkipInv)'
  BY NextInside, NextSkips
<1>3. SkipInv => SkipAgrees
  BY DEF SkipInv
<1>4. QED
  BY <1>1, <1>2, <1>3, PTL DEF Spec

\* ns_name_unpack returns the name the message spells, and where ns_name_skip
\* says that it ends; and it refuses none but one that is not spelled, has no
\* room, or takes as many bytes as the message to spell.
THEOREM UnpackFindsTheName == Spec => []UnpacksTheName
<1>1. NameAsSpelled /\ SkipAgrees => UnpacksTheName
  BY DEF UnpacksTheName
<1>2. QED
  BY <1>1, UnpackSpells, UnpackEndsWhereSkipEnds, PTL
===============================================================================
