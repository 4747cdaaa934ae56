---------------------------- MODULE DnsMessageProofs ----------------------------
(***************************************************************************)
(* Theorems about messages and names as text: for every message that a peer *)
(* can assemble, cut or lengthened.                                         *)
(***************************************************************************)
EXTENDS DnsMessage, Induction

-------------------------------------------------------------------------------
(* Names are unpacked *)

UP == INSTANCE NameUnpackProofs WITH Bytes <- Octet, MaxLen <- NS_PACKETSZ,
                                     DstSize <- NS_MAXCDNAME

\* What is proved of the loop of ns_name_unpack.
UnpackInv == UP!InsideInv /\ UP!SpellInv /\ UP!SkipInv

LEMMA UnpackAssumed ==
    Octet \subseteq 0 .. 255 /\ NS_PACKETSZ \in Nat \ {0} /\ NS_MAXCDNAME \in Nat \ {0}
<1>1. NS_PACKETSZ \in Nat /\ NS_PACKETSZ >= 512
  BY RoomAssumption
<1>2. QED
  BY <1>1 DEF Octet, NS_MAXCDNAME

LEMMA BeginsUnpack == UP!Begins => UnpackInv
BY UnpackAssumed, UP!BeginsInside, UP!BeginsSpells, UP!BeginsSkips DEF UnpackInv

LEMMA NextUnpack == UnpackInv /\ [UP!Next]_(UP!vars) => UnpackInv'
BY UnpackAssumed, UP!NextInside, UP!NextSpells, UP!NextSkips DEF UnpackInv

LEMMA SameUnpack ==
    /\ U!Next <=> UP!Next
    /\ U!StaysInside <=> UP!StaysInside
    /\ U!Spelled = UP!Spelled
    /\ U!Skip = UP!Skip
    /\ U!Running <=> UP!Running
<1>1. U!Running <=> UP!Running
  BY DEF U!Running, UP!Running
<1>2. U!Next <=> UP!Next
  BY DEF U!Next, UP!Next, U!Running, UP!Running, U!Label, UP!Label, U!Pointer, UP!Pointer,
         U!IllegalType, UP!IllegalType, U!Root, UP!Root, U!Fail, UP!Fail, U!n, UP!n,
         U!LabelLen, UP!LabelLen, U!Fits, UP!Fits, U!Followed, UP!Followed, U!Looped, UP!Looped,
         U!Counted, UP!Counted, U!Consumed, UP!Consumed, U!Target, UP!Target, U!Byte, UP!Byte,
         U!eom, UP!eom, U!Labels, UP!Labels, U!BITSTRING, UP!BITSTRING, U!Pointers, UP!Pointers,
         U!BitLabel, UP!BitLabel
<1>3. U!StaysInside <=> UP!StaysInside
  BY DEF U!StaysInside, UP!StaysInside, U!TypeOK, UP!TypeOK, U!Running, UP!Running, U!eom,
         UP!eom, Octet
<1>4. U!Spelled = UP!Spelled
  BY DEF U!Spelled, UP!Spelled, U!Byte, UP!Byte, U!eom, UP!eom, U!Labels, UP!Labels,
         U!BITSTRING, UP!BITSTRING, U!Pointers, UP!Pointers, U!BitLabel, UP!BitLabel, U!Target,
         UP!Target, U!NoName, UP!NoName
<1>5. U!Skip = UP!Skip
  BY DEF U!Skip, UP!Skip, U!Byte, UP!Byte, U!eom, UP!eom, U!Labels, UP!Labels,
         U!BITSTRING, UP!BITSTRING, U!Pointers, UP!Pointers, U!BitLabel, UP!BitLabel,
         U!LabelLen, UP!LabelLen
<1>6. QED
  BY <1>1, <1>2, <1>3, <1>4, <1>5

-------------------------------------------------------------------------------
(* From one label to the next *)

Steps(name) == [i \in 1 .. Len(name) |-> NextLabel(name, i)]

LEMMA NextLabelLemma ==
    ASSUME NEW name \in Seq(Octet)
    PROVE  /\ Len(name) \in Nat /\ Onward(Steps(name), Len(name))
           /\ \A i \in 1 .. Len(name) :
                 /\ Steps(name)[i] = NextLabel(name, i)
                 /\ NextLabel(name, i) \in i + 1 .. Len(name) + 1
<1>1. PICK n \in Nat : n = Len(name)
  BY LenProperties
<1>2. ASSUME NEW i \in 1 .. n
      PROVE  NextLabel(name, i) \in i + 1 .. n + 1
  BY <1>1, <1>2 DEF NextLabel
<1>3. \A i \in 1 .. n : NextLabel(name, i) \in 1 .. n + 1 /\ NextLabel(name, i) > i
  <2>1. TAKE i \in 1 .. n
  <2>2. PICK j \in i + 1 .. n + 1 : j = NextLabel(name, i)
    BY <1>2
  <2>3. QED
    BY <2>2
<1>4. QED
  BY <1>1, <1>2, <1>3 DEF Steps, Onward

LabelText(name, i) ==
    IF name[i] = BITSTRING THEN DecodeBitstring(name, i)
    ELSE FlattenSeq([k \in 1 .. name[i] |-> Quoted(name[i + k])])

Piece(name, i) == (IF i = 1 THEN << >> ELSE <<DOT>>) \o LabelText(name, i)

TextFrom(name) ==
    CHOOSE f : f = [i \in 1 .. Len(name) + 1 |->
                      IF i > Len(name) THEN << >> ELSE Join(Piece(name, i), f[NextLabel(name, i)])]

TextOf(name) == IF name = << >> THEN <<DOT>> ELSE TextFrom(name)[1]

LEMMA NtopUnfolds ==
    ASSUME NEW name, NEW size
    PROVE  Ntop(name, size) = IF Len(TextOf(name)) < size THEN TextOf(name) ELSE NoName
BY DEF Ntop, TextOf, TextFrom, Join, Piece, LabelText

LEMMA TextFromUnfolds ==
    ASSUME NEW name \in Seq(Octet)
    PROVE  /\ TextFrom(name)[Len(name) + 1] = << >>
           /\ \A i \in 1 .. Len(name) :
                 TextFrom(name)[i] = Join(Piece(name, i), TextFrom(name)[NextLabel(name, i)])
<1>1. PICK n \in Nat : n = Len(name)
  BY NextLabelLemma
<1> DEFINE piece == [i \in 1 .. n |-> Piece(name, i)]
           F(f) == [i \in 1 .. n + 1 |->
                      IF i > n THEN << >> ELSE Join(Piece(name, i), f[NextLabel(name, i)])]
<1>2. PICK f : f = [i \in 1 .. n + 1 |->
                      IF i > n THEN << >> ELSE Join(piece[i], f[Steps(name)[i]])]
  <2> HIDE DEF piece
  <2>1. \E f : JoinsFrom(f, n, piece, Steps(name))
    BY <1>1, NextLabelLemma, SuffixJoin
  <2>2. QED
    BY <2>1 DEF JoinsFrom
<1>3. \A i \in 1 .. n + 1 :
         (IF i > n THEN << >> ELSE Join(piece[i], f[Steps(name)[i]])) =
            IF i > n THEN << >> ELSE Join(Piece(name, i), f[NextLabel(name, i)])
  <2>1. TAKE i \in 1 .. n + 1
  <2>2. ~(i > n) => i \in 1 .. n
    OBVIOUS
  <2>3. QED
    BY <1>1, <2>2, NextLabelLemma
<1>4. f = F(f)
  BY <1>2, <1>3
<1>5. TextFrom(name) = CHOOSE g : g = F(g)
  BY <1>1 DEF TextFrom
<1>6. TextFrom(name) = F(TextFrom(name))
  BY <1>4, <1>5
<1>7. \A i \in 1 .. n + 1 : TextFrom(name)[i] =
         IF i > n THEN << >> ELSE Join(Piece(name, i), TextFrom(name)[NextLabel(name, i)])
  BY <1>6
<1>8. n + 1 > n /\ n + 1 \in 1 .. n + 1 /\ \A i \in 1 .. n : ~(i > n) /\ i \in 1 .. n + 1
  OBVIOUS
<1>9. QED
  BY <1>1, <1>7, <1>8

-------------------------------------------------------------------------------
(* Characters *)

\* A byte is written as itself, behind a backslash, or as three digits behind one.
AsItself(c, t) == t = <<c>> /\ c \in Printable /\ c \notin Special
AsSpecial(c, t) == t = <<BACKSLASH, c>> /\ c \in Special
AsNumber(c, t) ==
    \E x, y, z \in 0 .. 9 :
       t = <<BACKSLASH, DIGIT + x, DIGIT + y, DIGIT + z>> /\ c = x * 100 + y * 10 + z

LEMMA QuotedKinds ==
    ASSUME NEW c \in Octet
    PROVE  AsItself(c, Quoted(c)) \/ AsSpecial(c, Quoted(c)) \/ AsNumber(c, Quoted(c))
<1>1. CASE c \in Special
  BY <1>1 DEF Quoted, AsSpecial
<1>2. CASE c \notin Special /\ c \in Printable
  BY <1>2 DEF Quoted, AsItself
<1>3. CASE c \notin Special /\ c \notin Printable
  <2>1. PICK b \in 0 .. 255 : b = c
    BY DEF Octet
  <2>2. PICK x \in 0 .. 9, y \in 0 .. 9, z \in 0 .. 9 :
               /\ x = b \div 100 /\ y = (b % 100) \div 10 /\ z = b % 10
               /\ b = x * 100 + y * 10 + z
    OBVIOUS
  <2>3. Quoted(c) = <<BACKSLASH, DIGIT + x, DIGIT + y, DIGIT + z>>
    BY <1>3, <2>1, <2>2 DEF Quoted
  <2>4. /\ Quoted(c) = <<BACKSLASH, DIGIT + x, DIGIT + y, DIGIT + z>>
        /\ c = x * 100 + y * 10 + z
    BY <2>1, <2>2, <2>3
  <2>5. AsNumber(c, Quoted(c))
    <3>1. SUFFICES \E i, j, k \in 0 .. 9 :
             /\ Quoted(c) = <<BACKSLASH, DIGIT + i, DIGIT + j, DIGIT + k>>
             /\ c = i * 100 + j * 10 + k
      BY DEF AsNumber
    <3>2. WITNESS x \in 0 .. 9, y \in 0 .. 9, z \in 0 .. 9
    <3>3. QED
      BY <2>4
  <2>6. QED
    BY <2>5
<1>4. QED
  BY <1>1, <1>2, <1>3

LEMMA QuotedType ==
    ASSUME NEW c \in Octet
    PROVE  Quoted(c) \in Seq(Octet) /\ Len(Quoted(c)) \in 1 .. 4
<1>1. CASE AsItself(c, Quoted(c))
  BY <1>1 DEF AsItself
<1>2. CASE AsSpecial(c, Quoted(c))
  BY <1>2 DEF AsSpecial, BACKSLASH, Octet
<1>3. CASE AsNumber(c, Quoted(c))
  <2>1. PICK x \in 0 .. 9, y \in 0 .. 9, z \in 0 .. 9 :
               Quoted(c) = <<BACKSLASH, DIGIT + x, DIGIT + y, DIGIT + z>>
    BY <1>3 DEF AsNumber
  <2>2. BACKSLASH \in Octet /\ DIGIT + x \in Octet /\ DIGIT + y \in Octet /\ DIGIT + z \in Octet
    BY DEF BACKSLASH, DIGIT, Octet
  <2>3. QED
    BY <2>1, <2>2
<1>4. QED
  BY <1>1, <1>2, <1>3, QuotedKinds

LEMMA HexDigitLemma ==
    ASSUME NEW d \in 0 .. 15
    PROVE  HexDigit(d) \in HexDigits /\ DigitValue(HexDigit(d)) = d
BY DEF HexDigit, HexDigits, Digits, DigitValue, DIGIT

LEMMA HexDigitsAreOctets == HexDigits \subseteq Octet /\ SLASH \notin HexDigits /\ BRACKET_END \notin HexDigits
BY DEF HexDigits, Digits, Octet, SLASH, BRACKET_END

LEMMA HexLemma ==
    ASSUME NEW c \in Octet
    PROVE  /\ Hex(c) \in Seq(HexDigits) /\ Len(Hex(c)) = 2
           /\ Hex(c)[1] \in HexDigits /\ Hex(c)[2] \in HexDigits
           /\ DigitValue(Hex(c)[1]) * 16 + DigitValue(Hex(c)[2]) = c
<1>1. PICK b \in 0 .. 255 : b = c
  BY DEF Octet
<1>2. PICK x \in 0 .. 15, y \in 0 .. 15 : x = b \div 16 /\ y = b % 16 /\ x * 16 + y = b
  OBVIOUS
<1>3. Hex(c) = <<HexDigit(x), HexDigit(y)>>
  BY <1>1, <1>2 DEF Hex
<1>4. /\ HexDigit(x) \in HexDigits /\ DigitValue(HexDigit(x)) = x
      /\ HexDigit(y) \in HexDigits /\ DigitValue(HexDigit(y)) = y
  BY HexDigitLemma
<1>5. QED
  BY <1>1, <1>2, <1>3, <1>4

\* The first b bits of a byte.
Kept(c, b) == c - (c % 2^(8 - b))

LEMMA Powers == 2^0 = 1 /\ 2^1 = 2 /\ 2^2 = 4 /\ 2^3 = 8 /\ 2^4 = 16 /\ 2^5 = 32 /\ 2^6 = 64 /\ 2^7 = 128
OBVIOUS

LEMMA KeptLemma ==
    ASSUME NEW c \in 0 .. 255, NEW b \in 1 .. 7
    PROVE  /\ Kept(c, b) \in 0 .. 255
           /\ b <= 4 => /\ Kept(c, b) % 16 = 0
                        /\ (Kept(c, b) \div 16) % 2^(4 - b) = 0
           /\ b > 4 => (Kept(c, b) % 16) % 2^(8 - b) = 0
<1>1. CASE b = 1
  <2>1. 8 - b = 7 /\ 4 - b = 3
    BY <1>1
  <2>2. QED
    BY <1>1, <2>1, Powers DEF Kept
<1>2. CASE b = 2
  <2>1. 8 - b = 6 /\ 4 - b = 2
    BY <1>2
  <2>2. QED
    BY <1>2, <2>1, Powers DEF Kept
<1>3. CASE b = 3
  <2>1. 8 - b = 5 /\ 4 - b = 1
    BY <1>3
  <2>2. QED
    BY <1>3, <2>1, Powers DEF Kept
<1>4. CASE b = 4
  <2>1. 8 - b = 4 /\ 4 - b = 0
    BY <1>4
  <2>2. QED
    BY <1>4, <2>1, Powers DEF Kept
<1>5. CASE b = 5
  <2>1. 8 - b = 3
    BY <1>5
  <2>2. QED
    BY <1>5, <2>1, Powers DEF Kept
<1>6. CASE b = 6
  <2>1. 8 - b = 2
    BY <1>6
  <2>2. QED
    BY <1>6, <2>1, Powers DEF Kept
<1>7. CASE b = 7
  <2>1. 8 - b = 1
    BY <1>7
  <2>2. QED
    BY <1>7, <2>1, Powers DEF Kept
<1>8. QED
  BY <1>1, <1>2, <1>3, <1>4, <1>5, <1>6, <1>7

LEMMA LastBitsCases ==
    ASSUME NEW c, NEW b \in 0 .. 7
    PROVE  /\ b = 0 => LastBits(c, b) = << >>
           /\ b \in 1 .. 4 => LastBits(c, b) = <<HexDigit(Kept(c, b) \div 16)>>
           /\ b \in 5 .. 7 =>
                 LastBits(c, b) =
                    (IF CharIsSigned /\ c > 127 THEN <<HexDigit(2^(8 - b) - 1)>> ELSE << >>)
                      \o Hex(Kept(c, b))
<1>1. CASE b = 0
  <2>1. b \notin 1 .. 4 /\ b \notin 5 .. 7
    BY <1>1
  <2>2. QED
    BY <1>1, <2>1, Zenon DEF LastBits
<1>2. CASE b \in 1 .. 4
  <2>1. b # 0 /\ b \notin 5 .. 7
    BY <1>2
  <2>2. QED
    BY <1>2, <2>1, Zenon DEF LastBits, Kept
<1>3. CASE b \in 5 .. 7
  <2>1. b # 0 /\ b \notin 1 .. 4
    BY <1>3
  <2>2. QED
    BY <1>3, <2>1, Zenon DEF LastBits, Kept
<1>4. QED
  BY <1>1, <1>2, <1>3

LEMMA MaskLemma ==
    ASSUME NEW b \in 5 .. 7
    PROVE  2^(8 - b) - 1 \in 0 .. 15
<1>1. CASE b = 5
  <2>1. 2^(8 - b) = 2^3
    BY <1>1
  <2>2. QED
    BY <2>1, Powers
<1>2. CASE b = 6
  <2>1. 2^(8 - b) = 2^2
    BY <1>2
  <2>2. QED
    BY <2>1, Powers
<1>3. CASE b = 7
  <2>1. 2^(8 - b) = 2^1
    BY <1>3
  <2>2. QED
    BY <2>1, Powers
<1>4. QED
  BY <1>1, <1>2, <1>3

\* The digits of the last byte of a bitstring that has b bits in it: they spell
\* what is kept of it, unless there is a digit too many.
LEMMA LastBitsLemma ==
    ASSUME NEW c \in Octet, NEW b \in 0 .. 7
    PROVE  /\ LastBits(c, b) \in Seq(HexDigits)
           /\ b = 0 => LastBits(c, b) = << >>
           /\ b \in 1 .. 4 => /\ Len(LastBits(c, b)) = 1
                              /\ DigitValue(LastBits(c, b)[1]) * 16 = Kept(c, b)
                              /\ DigitValue(LastBits(c, b)[1]) % 2^(4 - b) = 0
           /\ b \in 5 .. 7 /\ ~(CharIsSigned /\ c > 127) =>
                 /\ Len(LastBits(c, b)) = 2
                 /\ DigitValue(LastBits(c, b)[1]) * 16 + DigitValue(LastBits(c, b)[2]) = Kept(c, b)
                 /\ DigitValue(LastBits(c, b)[2]) % 2^(8 - b) = 0
           /\ b \in 5 .. 7 /\ CharIsSigned /\ c > 127 => Len(LastBits(c, b)) = 3
<1>1. c \in 0 .. 255
  BY DEF Octet
<1>2. CASE b = 0
  <2>1. LastBits(c, b) = << >> /\ << >> \in Seq(HexDigits)
    BY <1>2, LastBitsCases
  <2>2. b \notin 1 .. 4 /\ b \notin 5 .. 7
    BY <1>2
  <2>3. QED
    BY <2>1, <2>2, Zenon
<1>3. CASE b \in 1 .. 4
  <2>1. Kept(c, b) \in 0 .. 255 /\ Kept(c, b) % 16 = 0 /\ (Kept(c, b) \div 16) % 2^(4 - b) = 0
    <3>1. b \in 1 .. 7 /\ b <= 4
      BY <1>3
    <3>2. QED
      BY <1>1, <3>1, KeptLemma
  <2>2. PICK x \in 0 .. 15 : x = Kept(c, b) \div 16 /\ x * 16 = Kept(c, b)
    BY <2>1
  <2>3. LastBits(c, b) = <<HexDigit(x)>>
    BY <1>3, <2>2, LastBitsCases
  <2>4. PICK h \in HexDigits : h = HexDigit(x) /\ DigitValue(h) = x
    BY HexDigitLemma
  <2>5. LastBits(c, b) \in Seq(HexDigits) /\ Len(LastBits(c, b)) = 1 /\ LastBits(c, b)[1] = h
    BY <2>3, <2>4
  <2>6. DigitValue(h) % 2^(4 - b) = 0
    BY <2>1, <2>2, <2>4
  <2>7. QED
    BY <1>3, <2>2, <2>4, <2>5, <2>6
<1>4. CASE b \in 5 .. 7
  <2>1. Kept(c, b) \in 0 .. 255 /\ (Kept(c, b) % 16) % 2^(8 - b) = 0
    <3>1. b \in 1 .. 7 /\ b > 4
      BY <1>4
    <3>2. QED
      BY <1>1, <3>1, KeptLemma
  <2>2. PICK x \in 0 .. 15, y \in 0 .. 15 :
               x = Kept(c, b) \div 16 /\ y = Kept(c, b) % 16 /\ x * 16 + y = Kept(c, b)
    BY <2>1
  <2>3. PICK g \in HexDigits, h \in HexDigits :
               /\ g = HexDigit(x) /\ DigitValue(g) = x
               /\ h = HexDigit(y) /\ DigitValue(h) = y
    BY HexDigitLemma
  <2>4. Hex(Kept(c, b)) = <<g, h>>
    BY <2>2, <2>3 DEF Hex
  <2>5. DigitValue(h) % 2^(8 - b) = 0
    BY <2>1, <2>2, <2>3
  <2>6. CASE ~(CharIsSigned /\ c > 127)
    <3>1. LastBits(c, b) = << >> \o Hex(Kept(c, b))
      BY <1>4, <2>6, LastBitsCases, Zenon
    <3>2. LastBits(c, b) = <<g, h>>
      BY <2>4, <3>1, ConcatEmptySeq
    <3>3. /\ LastBits(c, b) \in Seq(HexDigits) /\ Len(LastBits(c, b)) = 2
          /\ LastBits(c, b)[1] = g /\ LastBits(c, b)[2] = h
      BY <3>2
    <3>4. b # 0 /\ b \notin 1 .. 4
      BY <1>4
    <3>5. QED
      BY <1>4, <2>2, <2>3, <2>5, <2>6, <3>3, <3>4
  <2>7. CASE CharIsSigned /\ c > 127
    <3>1. PICK m \in HexDigits : m = HexDigit(2^(8 - b) - 1)
      BY <1>4, MaskLemma, HexDigitLemma
    <3>2. LastBits(c, b) = <<m>> \o <<g, h>>
      BY <1>4, <2>4, <2>7, <3>1, LastBitsCases, Zenon
    <3>3. <<m>> \in Seq(HexDigits) /\ <<g, h>> \in Seq(HexDigits)
      OBVIOUS
    <3>4. LastBits(c, b) \in Seq(HexDigits) /\ Len(LastBits(c, b)) = 3
      BY <3>2, <3>3, ConcatProperties
    <3>5. b # 0 /\ b \notin 1 .. 4
      BY <1>4
    <3>6. QED
      BY <2>7, <3>4, <3>5
  <2>8. QED
    BY <2>6, <2>7
<1>5. QED
  BY <1>2, <1>3, <1>4

-------------------------------------------------------------------------------
(* Numbers *)

LEMMA DigitValueType ==
    ASSUME NEW c \in Octet
    PROVE  DigitValue(c) \in 0 .. 15
<1>1. PICK b \in 0 .. 255 : b = c
  BY DEF Octet
<1>2. (b + 9) % 16 \in 0 .. 15
  OBVIOUS
<1>3. QED
  BY <1>1, <1>2 DEF DigitValue, Digits, DIGIT

Summed(f, base, digits) ==
    /\ f[0] = 0
    /\ \A k \in 1 .. Len(digits) : f[k] = f[k - 1] * base + DigitValue(digits[k])

LEMMA ValueUnfolds ==
    ASSUME NEW base \in Nat, NEW digits \in Seq(Octet)
    PROVE  \E f \in [0 .. Len(digits) -> Nat] :
              Summed(f, base, digits) /\ Value(base, digits) = f[Len(digits)]
<1>1. PICK n \in Nat : n = Len(digits)
  BY LenProperties
<1> DEFINE step == [k \in 1 .. n |-> [v \in Nat |-> v * base + DigitValue(digits[k])]]
           F(f) == [k \in 0 .. n |-> IF k = 0 THEN 0 ELSE f[k - 1] * base + DigitValue(digits[k])]
           first == CHOOSE f : f = F(f)
<1>2. \A k \in 1 .. n : DigitValue(digits[k]) \in Nat
  <2>1. TAKE k \in 1 .. n
  <2>2. digits[k] \in Octet
    BY <1>1, ElementOfSeq
  <2>3. DigitValue(digits[k]) \in 0 .. 15
    BY <2>2, DigitValueType
  <2>4. QED
    BY <2>3
<1>3. ASSUME NEW v \in Nat, NEW k \in 1 .. n
      PROVE  v * base + DigitValue(digits[k]) \in Nat
  <2>1. PICK d \in Nat : d = DigitValue(digits[k])
    BY <1>2
  <2>2. v * base \in Nat
    OBVIOUS
  <2>3. QED
    BY <2>1, <2>2
<1>4. step \in [1 .. n -> [Nat -> Nat]]
  BY <1>3
<1>5. PICK f \in [0 .. n -> Nat] : f[0] = 0 /\ \A k \in 1 .. n : f[k] = step[k][f[k - 1]]
  <2>1. Stepping(Nat, n, 0, step)
    BY <1>4 DEF Stepping
  <2> HIDE DEF step
  <2>2. PICK f : Iterates(f, Nat, n, 0, step)
    BY <2>1, PrefixFunction
  <2>3. QED
    BY <2>2 DEF Iterates
<1>6. \A k \in 1 .. n : f[k] = f[k - 1] * base + DigitValue(digits[k])
  <2>1. \A k \in 1 .. n : f[k - 1] \in Nat
    OBVIOUS
  <2>2. QED
    BY <1>5, <2>1
<1>7. f = F(f)
  <2>1. \A k \in 0 .. n : f[k] = IF k = 0 THEN 0 ELSE f[k - 1] * base + DigitValue(digits[k])
    <3>1. TAKE k \in 0 .. n
    <3>2. k # 0 => k \in 1 .. n
      OBVIOUS
    <3>3. QED
      BY <1>5, <1>6, <3>2
  <2>2. QED
    BY <2>1
<1> HIDE DEF F
<1>8. first = F(first)
  BY <1>7
<1>9. Value(base, digits) = first[n]
  BY <1>1 DEF Value, F
<1> HIDE DEF first
<1>10. \A k \in 0 .. n : first[k] = IF k = 0 THEN 0 ELSE first[k - 1] * base + DigitValue(digits[k])
  BY <1>8 DEF F
<1>11. \A k \in 0 .. n : first[k] = f[k]
  <2> DEFINE T == {k \in Nat : k <= n => first[k] = f[k]}
  <2>1. 0 \in T
    BY <1>5, <1>10
  <2>2. ASSUME NEW k \in Nat, k \in T
        PROVE  k + 1 \in T
    <3>1. SUFFICES ASSUME k + 1 <= n
                   PROVE  first[k + 1] = f[k + 1]
      OBVIOUS
    <3>2. k + 1 \in 1 .. n /\ k + 1 \in 0 .. n /\ k + 1 # 0 /\ (k + 1) - 1 = k /\ first[k] = f[k]
      BY <2>2, <3>1
    <3>3. QED
      BY <1>6, <1>10, <3>2
  <2> HIDE DEF T
  <2>3. Nat \subseteq T
    BY <2>1, <2>2, SetInduction
  <2>4. QED
    BY <2>3 DEF T
<1>12. n \in 0 .. n
  OBVIOUS
<1>13. QED
  BY <1>1, <1>5, <1>6, <1>9, <1>11, <1>12 DEF Summed

-------------------------------------------------------------------------------
(* Names that were unpacked *)

\* The label at i lies inside the name.
LabelFits(name, i) ==
    \/ name[i] \in 1 .. NS_MAXLABEL /\ i + name[i] <= Len(name)
    \/ name[i] = BITSTRING /\ i < Len(name) /\ i + LabelLen(name, i) <= Len(name)

\* The labels begin at the positions in S, which ends behind the last of them.
Marked(name, S) ==
    /\ S \subseteq 1 .. Len(name) + 1 /\ 1 \in S /\ Len(name) + 1 \in S
    /\ \A i \in S : i <= Len(name) => LabelFits(name, i) /\ i + LabelLen(name, i) + 1 \in S

WellFormed(name) == name \in Seq(Octet) /\ \E S : Marked(name, S)

IsLabel(p) == p \in Seq(Octet) /\ p # << >> /\ LabelFits(p, 1) /\ 1 + LabelLen(p, 1) = Len(p)

LEMMA BitsOfLemma ==
    ASSUME NEW k \in Octet
    PROVE  BitsOf(k) \in 1 .. 256 /\ BitsOf(k) % 256 = k
<1>1. PICK b \in 0 .. 255 : b = k
  BY DEF Octet
<1>2. QED
  BY <1>1 DEF BitsOf

\* What follows a label that lies inside the name.
LEMMA LabelFitsLemma ==
    ASSUME NEW name \in Seq(Octet), NEW i \in 1 .. Len(name), LabelFits(name, i)
    PROVE  /\ LabelLen(name, i) \in 1 .. 63
           /\ NextLabel(name, i) = i + LabelLen(name, i) + 1
           /\ name[i] # BITSTRING => name[i] \in 1 .. 63 /\ LabelLen(name, i) = name[i]
           /\ name[i] = BITSTRING =>
                 /\ i + 1 \in 1 .. Len(name) /\ name[i + 1] \in Octet
                 /\ LabelLen(name, i) = (BitsOf(name[i + 1]) + 7) \div 8 + 1
<1>1. PICK n \in Nat : n = Len(name)
  BY LenProperties
<1>0. ASSUME NEW l \in 1 .. 63, l = LabelLen(name, i), i + l <= n
      PROVE  NextLabel(name, i) = i + l + 1
  <2>1. i \in 1 .. n /\ i + 1 + l = i + l + 1
    BY <1>1
  <2>2. CASE i + 1 + l \in i + 1 .. n
    BY <1>0, <1>1, <2>1, <2>2 DEF NextLabel
  <2>3. CASE i + 1 + l \notin i + 1 .. n
    <3>1. \A j \in 1 .. n, k \in 1 .. 63 :
             j + k <= n /\ j + 1 + k \notin j + 1 .. n => j + k + 1 = n + 1
      OBVIOUS
    <3>2. i + l + 1 = n + 1
      BY <1>0, <2>1, <2>3, <3>1
    <3>3. QED
      BY <1>0, <1>1, <2>3, <3>2 DEF NextLabel
  <2>4. QED
    BY <2>2, <2>3
<1>2. CASE name[i] # BITSTRING
  <2>1. name[i] \in 1 .. 63 /\ LabelLen(name, i) = name[i] /\ i + name[i] <= n
    BY <1>1, <1>2 DEF LabelFits, LabelLen, NS_MAXLABEL
  <2>2. NextLabel(name, i) = i + LabelLen(name, i) + 1
    BY <1>0, <1>1, <2>1
  <2>3. QED
    BY <1>2, <2>1, <2>2
<1>3. CASE name[i] = BITSTRING
  <2>1. /\ LabelLen(name, i) = (BitsOf(name[i + 1]) + 7) \div 8 + 1
        /\ i < n /\ i + LabelLen(name, i) <= n
    <3>1. name[i] \notin 1 .. NS_MAXLABEL
      BY <1>3 DEF BITSTRING, NS_MAXLABEL
    <3>2. QED
      BY <1>1, <1>3, <3>1 DEF LabelFits, LabelLen
  <2>2. i + 1 \in 1 .. n /\ name[i + 1] \in Octet
    BY <1>1, <2>1, ElementOfSeq
  <2>3. PICK b \in 1 .. 256 : b = BitsOf(name[i + 1])
    BY <2>2, BitsOfLemma
  <2>4. PICK l \in 1 .. 63 : l = LabelLen(name, i)
    <3>1. PICK d \in 1 .. 32 : d = (b + 7) \div 8
      OBVIOUS
    <3>2. LabelLen(name, i) = (b + 7) \div 8 + 1
      BY <2>1, <2>3
    <3>3. d + 1 \in 1 .. 63 /\ LabelLen(name, i) = d + 1
      BY <3>1, <3>2
    <3>4. QED
      BY <3>3
  <2>5. NextLabel(name, i) = i + LabelLen(name, i) + 1
    BY <1>0, <1>1, <2>1, <2>4
  <2>6. QED
    BY <1>1, <1>3, <2>1, <2>2, <2>4, <2>5
<1>4. QED
  BY <1>2, <1>3

LEMMA EmptyWellFormed == WellFormed(<< >>)
<1>1. << >> \in Seq(Octet) /\ Len(<< >>) = 0
  OBVIOUS
<1>2. Marked(<< >>, {1})
  BY <1>1 DEF Marked
<1>3. QED
  BY <1>1, <1>2 DEF WellFormed

\* A label that lies inside a part of a name lies inside the name.
LEMMA LabelMoves ==
    ASSUME NEW a \in Seq(Octet), NEW b \in Seq(Octet), NEW d \in Nat, NEW i \in 1 .. Len(a),
           d + Len(a) <= Len(b), \A k \in 1 .. Len(a) : b[d + k] = a[k], LabelFits(a, i)
    PROVE  LabelFits(b, d + i) /\ LabelLen(b, d + i) = LabelLen(a, i)
<1>1. PICK n \in Nat : n = Len(a)
  BY LenProperties
<1>2. PICK m \in Nat : m = Len(b)
  BY LenProperties
<1>3. b[d + i] = a[i]
  BY <1>1
<1>4. PICK l \in 1 .. 63 : l = LabelLen(a, i)
  BY LabelFitsLemma
<1>5. CASE a[i] # BITSTRING
  <2>1. a[i] = l /\ LabelLen(b, d + i) = l /\ i + l <= n
    BY <1>1, <1>3, <1>4, <1>5, LabelFitsLemma DEF LabelLen, LabelFits
  <2>2. d + i + l <= m
    BY <1>1, <1>2, <2>1
  <2>3. QED
    BY <1>2, <1>3, <1>4, <2>1, <2>2 DEF LabelFits, NS_MAXLABEL
<1>6. CASE a[i] = BITSTRING
  <2>1. i + 1 \in 1 .. n /\ i + l <= n
    <3>1. a[i] \notin 1 .. NS_MAXLABEL
      BY <1>6 DEF BITSTRING, NS_MAXLABEL
    <3>2. QED
      BY <1>1, <1>4, <1>6, <3>1 DEF LabelFits
  <2>2. b[(d + i) + 1] = a[i + 1]
    <3>1. d + (i + 1) = (d + i) + 1
      BY <1>1
    <3>2. QED
      BY <1>1, <2>1, <3>1
  <2>3. LabelLen(b, d + i) = l
    BY <1>3, <1>4, <1>6, <2>2 DEF LabelLen
  <2>4. d + i < m /\ d + i + l <= m
    BY <1>1, <1>2, <2>1
  <2>5. QED
    BY <1>2, <1>3, <1>4, <1>6, <2>3, <2>4 DEF LabelFits
<1>7. QED
  BY <1>5, <1>6

LEMMA LabelAppended ==
    ASSUME NEW a, WellFormed(a), NEW p, IsLabel(p)
    PROVE  WellFormed(a \o p)
<1>1. /\ a \in Seq(Octet) /\ p \in Seq(Octet) /\ a \o p \in Seq(Octet)
      /\ Len(a \o p) = Len(a) + Len(p)
      /\ \A i \in 1 .. Len(a) : (a \o p)[i] = a[i]
      /\ \A i \in 1 .. Len(p) : (a \o p)[Len(a) + i] = p[i]
  BY ConcatProperties DEF WellFormed, IsLabel
<1>2. PICK k \in Nat : k = Len(a)
  BY <1>1, LenProperties
<1>3. PICK m \in Nat : m = Len(p) /\ m >= 1
  BY <1>1, EmptySeq DEF IsLabel
<1>4. PICK S : Marked(a, S)
  BY DEF WellFormed
<1> DEFINE b == a \o p
           R == S \cup {k + m + 1}
<1>5. ASSUME NEW i \in R, i <= k + m
      PROVE  LabelFits(b, i) /\ i + LabelLen(b, i) + 1 \in R
  <2>1. i \in S /\ i \in 1 .. k + 1
    BY <1>2, <1>3, <1>4, <1>5 DEF Marked
  <2>2. CASE i <= k
    <3>1. i \in 1 .. Len(a) /\ LabelFits(a, i) /\ i + LabelLen(a, i) + 1 \in S
      BY <1>2, <1>4, <2>1, <2>2 DEF Marked
    <3>2. \A j \in 1 .. Len(a) : b[0 + j] = a[j]
      BY <1>1, <1>2
    <3>3. 0 + Len(a) <= Len(b) /\ 0 + i = i
      BY <1>1, <1>2, <1>3, <2>1
    <3>4. LabelFits(b, 0 + i) /\ LabelLen(b, 0 + i) = LabelLen(a, i)
      <4>1. a \in Seq(Octet) /\ b \in Seq(Octet) /\ 0 \in Nat
        BY <1>1
      <4> HIDE DEF b
      <4>2. QED
        BY <3>1, <3>2, <3>3, <4>1, LabelMoves
    <3> HIDE DEF b
    <3>5. QED
      BY <3>1, <3>3, <3>4
  <2>3. CASE i = k + 1
    <3>1. 1 \in 1 .. Len(p) /\ LabelFits(p, 1) /\ 1 + LabelLen(p, 1) = m
      BY <1>3 DEF IsLabel
    <3>2. k + Len(p) <= Len(b)
      BY <1>1, <1>2, <1>3
    <3>3. LabelFits(b, k + 1) /\ LabelLen(b, k + 1) = LabelLen(p, 1)
      <4>1. /\ p \in Seq(Octet) /\ b \in Seq(Octet) /\ k \in Nat
            /\ \A j \in 1 .. Len(p) : b[k + j] = p[j]
        BY <1>1, <1>2
      <4> HIDE DEF b
      <4>2. QED
        BY <3>1, <3>2, <4>1, LabelMoves
    <3> HIDE DEF b
    <3>4. PICK l \in 1 .. 63 : l = LabelLen(p, 1)
      BY <1>1, <3>1, LabelFitsLemma
    <3>5. i + LabelLen(b, i) + 1 = k + m + 1
      BY <2>3, <3>1, <3>3, <3>4
    <3>6. QED
      BY <2>3, <3>3, <3>5
  <2>4. QED
    BY <1>2, <2>1, <2>2, <2>3
<1>6. Marked(b, R)
  <2>1. Len(b) = k + m /\ S \subseteq 1 .. k + 1 /\ 1 \in S
    BY <1>1, <1>2, <1>3, <1>4 DEF Marked
  <2>2. R \subseteq 1 .. k + m + 1 /\ 1 \in R /\ k + m + 1 \in R
    <3>1. \A j \in 1 .. k + 1 : j \in 1 .. k + m + 1
      BY <1>3
    <3>2. k + m + 1 \in 1 .. k + m + 1
      BY <1>3
    <3>3. QED
      BY <2>1, <3>1, <3>2
  <2> HIDE DEF b, R
  <2>3. QED
    BY <1>5, <2>1, <2>2 DEF Marked
<1>7. QED
  BY <1>1, <1>6 DEF WellFormed

-------------------------------------------------------------------------------
(* Labels as text *)

LEMMA ShortConcats ==
    ASSUME NEW x, NEW y, NEW z
    PROVE  /\ << >> \o << >> \o <<x>> = <<x>>
           /\ << >> \o <<x>> \o <<y>> = <<x, y>>
           /\ <<x>> \o <<y>> \o <<z>> = <<x, y, z>>
<1>1. << >> \o << >> = << >>
  OBVIOUS
<1>2. << >> \o <<x>> = <<x>>
  OBVIOUS
<1>3. <<x>> \o <<y>> = <<x, y>>
  BY TwoJoined, x \in {x, y}, y \in {x, y}
<1>4. <<x, y>> \o <<z>> = <<x, y, z>>
  BY ThreeJoined, x \in {x, y, z}, y \in {x, y, z}, z \in {x, y, z}
<1>5. QED
  BY <1>1, <1>2, <1>3, <1>4, Zenon

LEMMA DecimalLemma ==
    ASSUME NEW k \in 1 .. 256
    PROVE  /\ k <= 9 => Decimal(k) = <<DIGIT + k>>
           /\ k \in 10 .. 99 => Decimal(k) = <<DIGIT + (k \div 10), DIGIT + (k % 10)>>
           /\ k > 99 => Decimal(k) = <<DIGIT + (k \div 100), DIGIT + ((k \div 10) % 10),
                                       DIGIT + (k % 10)>>
<1>1. CASE k <= 9
  <2>1. k % 10 = k /\ ~(k > 9) /\ ~(k > 99) /\ k \notin 10 .. 99
    BY <1>1
  <2>2. Decimal(k) = << >> \o << >> \o <<DIGIT + (k % 10)>>
    BY <2>1, Zenon DEF Decimal
  <2>3. Decimal(k) = <<DIGIT + k>>
    BY <2>1, <2>2, ShortConcats
  <2>4. QED
    BY <2>1, <2>3
<1>2. CASE k \in 10 .. 99
  <2>1. ~(k <= 9) /\ k > 9 /\ ~(k > 99) /\ (k \div 10) % 10 = k \div 10
    BY <1>2
  <2>2. Decimal(k) = << >> \o <<DIGIT + ((k \div 10) % 10)>> \o <<DIGIT + (k % 10)>>
    BY <2>1, Zenon DEF Decimal
  <2>3. Decimal(k) = <<DIGIT + (k \div 10), DIGIT + (k % 10)>>
    <3>1. Decimal(k) = <<DIGIT + ((k \div 10) % 10), DIGIT + (k % 10)>>
      BY <2>2, ShortConcats, Zenon
    <3>2. QED
      BY <2>1, <3>1
  <2>4. QED
    BY <2>1, <2>3
<1>3. CASE k > 99
  <2>1. ~(k <= 9) /\ k > 9 /\ k \notin 10 .. 99
    BY <1>3
  <2>2. Decimal(k) = <<DIGIT + (k \div 100)>> \o <<DIGIT + ((k \div 10) % 10)>>
                       \o <<DIGIT + (k % 10)>>
    BY <1>3, <2>1, Zenon DEF Decimal
  <2>3. Decimal(k) = <<DIGIT + (k \div 100), DIGIT + ((k \div 10) % 10), DIGIT + (k % 10)>>
    BY <2>2, ShortConcats, Zenon
  <2>4. QED
    BY <1>3, <2>1, <2>3
<1>4. QED
  BY <1>1, <1>2, <1>3

LEMMA DigitsAreOctets == Digits \subseteq Octet /\ Digits \subseteq HexDigits
BY DEF Digits, Octet, HexDigits

LEMMA DecimalType ==
    ASSUME NEW k \in 1 .. 256
    PROVE  Decimal(k) \in Seq(Digits) /\ Len(Decimal(k)) \in 1 .. 3 /\ Decimal(k)[1] # DIGIT
<1>0. \A d \in 0 .. 9 : DIGIT + d \in Digits
  BY DEF DIGIT, Digits
<1>1. CASE k <= 9
  <2>1. Decimal(k) = <<DIGIT + k>> /\ DIGIT + k \in Digits
    <3>1. k \in 0 .. 9
      BY <1>1
    <3>2. DIGIT + k \in Digits
      BY <1>0, <3>1
    <3>3. QED
      BY <1>1, <3>2, DecimalLemma
  <2>2. DIGIT + k # DIGIT
    BY DEF DIGIT
  <2>3. QED
    BY <2>1, <2>2
<1>2. CASE k \in 10 .. 99
  <2>1. PICK x \in 1 .. 9, y \in 0 .. 9 : x = k \div 10 /\ y = k % 10
    BY <1>2
  <2>2. Decimal(k) = <<DIGIT + x, DIGIT + y>> /\ DIGIT + x \in Digits /\ DIGIT + y \in Digits
    BY <1>0, <1>2, <2>1, DecimalLemma
  <2>3. DIGIT + x # DIGIT
    BY DEF DIGIT
  <2>4. QED
    BY <2>2, <2>3
<1>3. CASE k > 99
  <2>1. PICK x \in 1 .. 9, y \in 0 .. 9, z \in 0 .. 9 :
               x = k \div 100 /\ y = (k \div 10) % 10 /\ z = k % 10
    BY <1>3
  <2>2. /\ Decimal(k) = <<DIGIT + x, DIGIT + y, DIGIT + z>>
        /\ DIGIT + x \in Digits /\ DIGIT + y \in Digits /\ DIGIT + z \in Digits
    <3>1. Decimal(k) = <<DIGIT + (k \div 100), DIGIT + ((k \div 10) % 10), DIGIT + (k % 10)>>
      BY <1>3, DecimalLemma
    <3>2. x \in 0 .. 9
      OBVIOUS
    <3>3. QED
      BY <1>0, <2>1, <3>1, <3>2
  <2>3. DIGIT + x # DIGIT
    BY DEF DIGIT
  <2>4. QED
    BY <2>2, <2>3
<1>4. QED
  BY <1>1, <1>2, <1>3

\* The bits of the bitstring label at i, the whole bytes they fill, and those over.
BitsAt(name, i) == BitsOf(name[i + 1])
BytesAt(name, i) == BitsAt(name, i) \div 8
OverAt(name, i) == BitsAt(name, i) % 8
LastAt(name, i) == IF OverAt(name, i) = 0 THEN 0 ELSE name[i + 2 + BytesAt(name, i)]

LEMMA BitstringLemma ==
    ASSUME NEW name \in Seq(Octet), NEW i \in 1 .. Len(name), LabelFits(name, i),
           name[i] = BITSTRING
    PROVE  /\ name[i + 1] \in Octet
           /\ BitsAt(name, i) \in 1 .. 256
           /\ BytesAt(name, i) \in Nat /\ BytesAt(name, i) \in 0 .. 32
           /\ OverAt(name, i) \in 0 .. 7
           /\ BitsAt(name, i) = 8 * BytesAt(name, i) + OverAt(name, i)
           /\ LabelLen(name, i) = BytesAt(name, i) + (IF OverAt(name, i) = 0 THEN 1 ELSE 2)
           /\ \A k \in 1 .. BytesAt(name, i) : i + 1 + k \in 1 .. Len(name) /\ name[i + 1 + k] \in Octet
           /\ OverAt(name, i) # 0 => i + 2 + BytesAt(name, i) = i + LabelLen(name, i)
           /\ LastAt(name, i) \in Octet
<1>1. PICK n \in Nat : n = Len(name)
  BY LenProperties
<1>2. /\ name[i + 1] \in Octet /\ LabelLen(name, i) = (BitsOf(name[i + 1]) + 7) \div 8 + 1
      /\ i + LabelLen(name, i) <= n
  <2>1. name[i] \notin 1 .. NS_MAXLABEL
    BY DEF BITSTRING, NS_MAXLABEL
  <2>2. QED
    BY <1>1, <2>1, LabelFitsLemma DEF LabelFits
<1>3. PICK b \in 1 .. 256 : b = BitsAt(name, i)
  BY <1>2, BitsOfLemma DEF BitsAt
<1>4. PICK q \in 0 .. 32, r \in 0 .. 7 : q = b \div 8 /\ r = b % 8 /\ b = 8 * q + r
  OBVIOUS
<1>5. BytesAt(name, i) = q /\ OverAt(name, i) = r
  BY <1>3, <1>4 DEF BytesAt, OverAt
<1>6. LabelLen(name, i) = q + (IF r = 0 THEN 1 ELSE 2)
  <2>1. (b + 7) \div 8 = q + (IF r = 0 THEN 0 ELSE 1)
    <3>1. CASE r = 0
      BY <1>4, <3>1
    <3>2. CASE r # 0
      BY <1>4, <3>2
    <3>3. QED
      BY <3>1, <3>2
  <2>2. LabelLen(name, i) = (b + 7) \div 8 + 1
    BY <1>2, <1>3 DEF BitsAt
  <2>3. CASE r = 0
    BY <2>1, <2>2, <2>3
  <2>4. CASE r # 0
    BY <2>1, <2>2, <2>4
  <2>5. QED
    BY <2>3, <2>4
<1>7. \A k \in 1 .. q : i + 1 + k \in 1 .. n
  <2>1. PICK l \in Nat : l = LabelLen(name, i) /\ l >= q + 1 /\ i + l <= n
    BY <1>2, <1>6
  <2>2. QED
    BY <1>1, <2>1
<1>8. r # 0 => i + 2 + q \in 1 .. n /\ i + 2 + q = i + LabelLen(name, i)
  BY <1>1, <1>2, <1>6
<1>9. LastAt(name, i) \in Octet
  <2>1. CASE r = 0
    BY <1>5, <2>1 DEF LastAt, Octet
  <2>2. CASE r # 0
    BY <1>1, <1>5, <1>8, <2>2, ElementOfSeq DEF LastAt
  <2>3. QED
    BY <2>1, <2>2
<1>10. \A k \in 1 .. q : name[i + 1 + k] \in Octet
  BY <1>1, <1>7, ElementOfSeq
<1>11. BytesAt(name, i) \in Nat
  <2>1. q \in Nat
    OBVIOUS
  <2>2. QED
    BY <1>5, <2>1
<1>12. QED
  BY <1>1, <1>2, <1>3, <1>4, <1>5, <1>6, <1>7, <1>8, <1>9, <1>10, <1>11

\* The digits of a bitstring: those of its whole bytes, then those of the bits over.
HexBytes(name, i) == FlattenSeq([k \in 1 .. BytesAt(name, i) |-> Hex(name[i + 1 + k])])
HexOver(name, i) == LastBits(LastAt(name, i), OverAt(name, i))
HexOf(name, i) == HexBytes(name, i) \o HexOver(name, i)

LEMMA DecodeUnfolds ==
    ASSUME NEW name, NEW i
    PROVE  DecodeBitstring(name, i) =
              <<BACKSLASH, BRACKET, LETTER_X>> \o HexBytes(name, i) \o HexOver(name, i)
                \o <<SLASH>> \o Decimal(BitsAt(name, i)) \o <<BRACKET_END>>
BY DEF DecodeBitstring, HexBytes, HexOver, BitsAt, BytesAt, OverAt, LastAt

LEMMA HexOfType ==
    ASSUME NEW name \in Seq(Octet), NEW i \in 1 .. Len(name), LabelFits(name, i),
           name[i] = BITSTRING
    PROVE  /\ HexBytes(name, i) \in Seq(HexDigits) /\ HexOver(name, i) \in Seq(HexDigits)
           /\ Len(HexBytes(name, i)) = 2 * BytesAt(name, i)
           /\ Len(HexOver(name, i)) \in 0 .. 3
           /\ OverAt(name, i) = 0 => Len(HexOver(name, i)) = 0
<1>0. BytesAt(name, i) \in Nat
  BY BitstringLemma
<1> DEFINE q == BytesAt(name, i)
           e(k) == Hex(name[i + 1 + k])
           s == [k \in 1 .. q |-> e(k)]
<1>1. /\ q \in 0 .. 32 /\ OverAt(name, i) \in 0 .. 7 /\ LastAt(name, i) \in Octet
      /\ \A k \in 1 .. q : name[i + 1 + k] \in Octet
  BY BitstringLemma
<1>2. \A k \in 1 .. q : e(k) \in Seq(HexDigits) /\ Len(e(k)) = 2
  BY <1>1, HexLemma
<1>7. HexBytes(name, i) = FlattenSeq(s)
  BY DEF HexBytes
<1> HIDE DEF e
<1>3. s \in Seq(Seq(HexDigits)) /\ Len(s) = q
  <2>1. s \in [1 .. q -> Seq(HexDigits)]
    BY <1>2
  <2> HIDE DEF s
  <2>2. q \in Nat
    BY <1>0
  <2>3. QED
    BY <2>1, <2>2
<1>4. \A k \in 1 .. Len(s) : 2 <= Len(s[k]) /\ Len(s[k]) <= 2
  <2>1. TAKE k \in 1 .. Len(s)
  <2>2. k \in 1 .. q
    BY <1>3
  <2>3. s[k] = e(k) /\ Len(e(k)) = 2
    BY <1>2, <2>2
  <2> HIDE DEF s
  <2>4. QED
    BY <2>3
<1> HIDE DEF s
<1>5. FlattenSeq(s) \in Seq(HexDigits)
  BY <1>3, FlattenSeqType
<1>6. Len(s) * 2 <= Len(FlattenSeq(s)) /\ Len(FlattenSeq(s)) <= Len(s) * 2
  BY <1>3, <1>4, FlattenSeqLen
<1>8. PICK l \in Nat : l = Len(FlattenSeq(s))
  BY <1>5, LenProperties
<1>9. Len(HexBytes(name, i)) = 2 * q
  BY <1>1, <1>3, <1>6, <1>7, <1>8
<1>10. PICK b \in 0 .. 7 : b = OverAt(name, i)
  BY <1>1
<1>11. HexOver(name, i) \in Seq(HexDigits) /\ Len(HexOver(name, i)) \in 0 .. 3
       /\ (b = 0 => Len(HexOver(name, i)) = 0)
  <2>1. PICK t \in Seq(HexDigits) : t = LastBits(LastAt(name, i), b)
    BY <1>1, LastBitsLemma
  <2>2. CASE b = 0
    <3>1. t = << >>
      BY <1>1, <2>1, <2>2, LastBitsLemma
    <3>2. QED
      BY <1>10, <2>1, <3>1 DEF HexOver
  <2>3. CASE b \in 1 .. 4
    <3>1. Len(t) = 1
      BY <1>1, <2>1, <2>3, LastBitsLemma
    <3>2. QED
      BY <1>10, <2>1, <2>3, <3>1 DEF HexOver
  <2>4. CASE b \in 5 .. 7
    <3>1. Len(t) \in {2, 3}
      BY <1>1, <2>1, <2>4, LastBitsLemma
    <3>2. QED
      BY <1>10, <2>1, <2>4, <3>1 DEF HexOver
  <2>5. QED
    BY <2>2, <2>3, <2>4
<1>12. QED
  BY <1>5, <1>7, <1>9, <1>10, <1>11

LEMMA DecodeType ==
    ASSUME NEW name \in Seq(Octet), NEW i \in 1 .. Len(name), LabelFits(name, i),
           name[i] = BITSTRING
    PROVE  /\ DecodeBitstring(name, i) \in Seq(Octet)
           /\ Len(DecodeBitstring(name, i)) <= 4 * LabelLen(name, i) + 3
<1>1. PICK q \in 0 .. 32, r \in 0 .. 7 :
             /\ q = BytesAt(name, i) /\ r = OverAt(name, i) /\ BitsAt(name, i) = 8 * q + r
             /\ BitsAt(name, i) \in 1 .. 256
             /\ LabelLen(name, i) = q + (IF r = 0 THEN 1 ELSE 2)
  BY BitstringLemma
<1>2. PICK h, o, d :
             /\ h = HexBytes(name, i) /\ o = HexOver(name, i) /\ d = Decimal(BitsAt(name, i))
             /\ h \in Seq(Octet) /\ o \in Seq(Octet) /\ d \in Seq(Octet)
  <2>1. HexBytes(name, i) \in Seq(HexDigits) /\ HexOver(name, i) \in Seq(HexDigits)
    BY HexOfType
  <2>2. Decimal(BitsAt(name, i)) \in Seq(Digits)
    BY <1>1, DecimalType
  <2>3. Seq(HexDigits) \subseteq Seq(Octet) /\ Seq(Digits) \subseteq Seq(Octet)
    BY HexDigitsAreOctets, DigitsAreOctets, SeqMonotonic
  <2>4. QED
    BY <2>1, <2>2, <2>3
<1>3. Len(h) = 2 * q /\ Len(o) \in 0 .. 3 /\ (r = 0 => Len(o) = 0) /\ Len(d) \in 1 .. 3
  BY <1>1, <1>2, HexOfType, DecimalType
<1>4. /\ <<BACKSLASH, BRACKET, LETTER_X>> \in Seq(Octet) /\ Len(<<BACKSLASH, BRACKET, LETTER_X>>) = 3
      /\ <<SLASH>> \in Seq(Octet) /\ Len(<<SLASH>>) = 1
      /\ <<BRACKET_END>> \in Seq(Octet) /\ Len(<<BRACKET_END>>) = 1
  BY DEF BACKSLASH, BRACKET, LETTER_X, SLASH, BRACKET_END, Octet
<1> DEFINE a == <<BACKSLASH, BRACKET, LETTER_X>> \o h
           b == a \o o
           c == b \o <<SLASH>>
           e == c \o d
           g == e \o <<BRACKET_END>>
<1>5. a \in Seq(Octet) /\ Len(a) = 3 + Len(h)
  BY <1>2, <1>4, ConcatProperties
<1>6. b \in Seq(Octet) /\ Len(b) = Len(a) + Len(o)
  BY <1>2, <1>5, ConcatProperties
<1>7. c \in Seq(Octet) /\ Len(c) = Len(b) + 1
  BY <1>4, <1>6, ConcatProperties
<1>8. e \in Seq(Octet) /\ Len(e) = Len(c) + Len(d)
  BY <1>2, <1>7, ConcatProperties
<1>9. g \in Seq(Octet) /\ Len(g) = Len(e) + 1
  BY <1>4, <1>8, ConcatProperties
<1>10. DecodeBitstring(name, i) = g
  BY <1>2, DecodeUnfolds
<1> HIDE DEF a, b, c, e, g
<1>11. q + r >= 1
  <2>1. PICK k \in 1 .. 256 : k = BitsAt(name, i)
    BY <1>1
  <2>2. k = 8 * q + r
    BY <1>1, <2>1
  <2>3. QED
    BY <2>2
<1>12. Len(g) <= 4 * LabelLen(name, i) + 3
  <2>1. PICK x \in 0 .. 3, y \in 1 .. 3 : x = Len(o) /\ y = Len(d) /\ (r = 0 => x = 0)
    BY <1>3
  <2>2. Len(g) = 5 + 2 * q + x + y
    <3>1. Len(a) = 3 + 2 * q
      BY <1>3, <1>5
    <3>2. Len(b) = 3 + 2 * q + x
      BY <1>6, <2>1, <3>1
    <3>3. Len(c) = 4 + 2 * q + x
      BY <1>7, <3>2
    <3>4. Len(e) = 4 + 2 * q + x + y
      BY <1>8, <2>1, <3>3
    <3>5. QED
      BY <1>9, <3>4
  <2>3. CASE r = 0
    <3>1. x = 0 /\ LabelLen(name, i) = q + 1 /\ q >= 1
      BY <1>1, <1>11, <2>1, <2>3
    <3>2. QED
      BY <2>2, <3>1
  <2>4. CASE r # 0
    <3>1. LabelLen(name, i) = q + 2
      BY <1>1, <2>4
    <3>2. QED
      BY <2>2, <3>1
  <2>5. QED
    BY <2>3, <2>4
<1>13. QED
  BY <1>9, <1>10, <1>12

\* The text of a label, without the dot before it, is less than four times as long
\* as the label with its length.
LEMMA LabelTextType ==
    ASSUME NEW name \in Seq(Octet), NEW i \in 1 .. Len(name), LabelFits(name, i)
    PROVE  /\ LabelText(name, i) \in Seq(Octet)
           /\ Len(LabelText(name, i)) <= 4 * LabelLen(name, i) + 3
<1>1. CASE name[i] = BITSTRING
  BY <1>1, DecodeType DEF LabelText
<1>2. CASE name[i] # BITSTRING
  <2>1. PICK n \in Nat : n = Len(name)
    BY LenProperties
  <2>2. PICK l \in 1 .. 63 : l = name[i] /\ LabelLen(name, i) = l /\ i + l <= n
    <3>1. name[i] \in 1 .. 63 /\ LabelLen(name, i) = name[i]
      BY <1>2, LabelFitsLemma
    <3>2. i + name[i] <= n
      BY <1>2, <2>1 DEF LabelFits
    <3>3. QED
      BY <3>1, <3>2
  <2> DEFINE e(k) == Quoted(name[i + k])
             s == [k \in 1 .. l |-> e(k)]
  <2>3. \A k \in 1 .. l : name[i + k] \in Octet
    <3>1. TAKE k \in 1 .. l
    <3>2. i + k \in 1 .. n
      BY <2>1, <2>2
    <3>3. QED
      BY <2>1, <3>2, ElementOfSeq
  <2>4. \A k \in 1 .. l : e(k) \in Seq(Octet) /\ Len(e(k)) \in 1 .. 4
    BY <2>3, QuotedType
  <2>6. LabelText(name, i) = FlattenSeq(s)
    BY <1>2, <2>2 DEF LabelText
  <2> HIDE DEF e
  <2>5. s \in Seq(Seq(Octet)) /\ Len(s) = l /\ \A k \in 1 .. Len(s) : 1 <= Len(s[k]) /\ Len(s[k]) <= 4
    <3>1. s \in [1 .. l -> Seq(Octet)] /\ l \in Nat
      BY <2>4
    <3>2. s \in Seq(Seq(Octet)) /\ Len(s) = l
      BY <3>1
    <3>3. \A k \in 1 .. l : 1 <= Len(s[k]) /\ Len(s[k]) <= 4
      <4>1. TAKE k \in 1 .. l
      <4>2. s[k] = e(k) /\ Len(e(k)) \in 1 .. 4
        BY <2>4
      <4>3. PICK j \in 1 .. 4 : j = Len(e(k))
        BY <4>2
      <4>4. j = Len(s[k])
        BY <4>2, <4>3
      <4> HIDE DEF s
      <4>5. j \in Nat /\ 1 <= j /\ j <= 4
        OBVIOUS
      <4>6. QED
        BY <4>4, <4>5
    <3>4. QED
      BY <3>2, <3>3
  <2> HIDE DEF s
  <2>7. FlattenSeq(s) \in Seq(Octet) /\ Len(FlattenSeq(s)) <= Len(s) * 4
    BY <2>5, FlattenSeqType, FlattenSeqLen
  <2>8. PICK m \in Nat : m = Len(FlattenSeq(s))
    BY <2>7, LenProperties
  <2>9. QED
    BY <2>2, <2>5, <2>6, <2>7, <2>8
<1>3. QED
  BY <1>1, <1>2

LEMMA PieceType ==
    ASSUME NEW name \in Seq(Octet), NEW i \in 1 .. Len(name), LabelFits(name, i)
    PROVE  /\ Piece(name, i) \in Seq(Octet)
           /\ Len(Piece(name, i)) <= 4 * LabelLen(name, i) + 4
<1> DEFINE d == IF i = 1 THEN << >> ELSE <<DOT>>
<1>1. d \in Seq(Octet) /\ Len(d) \in 0 .. 1
  <2>1. DOT \in Octet
    BY DEF DOT, Octet
  <2>2. CASE i = 1
    BY <2>2
  <2>3. CASE i # 1
    BY <2>1, <2>3
  <2>4. QED
    BY <2>2, <2>3
<1>2. LabelText(name, i) \in Seq(Octet) /\ Len(LabelText(name, i)) <= 4 * LabelLen(name, i) + 3
  BY LabelTextType
<1>3. Piece(name, i) = d \o LabelText(name, i)
  BY DEF Piece
<1> HIDE DEF d
<1>4. /\ d \o LabelText(name, i) \in Seq(Octet)
      /\ Len(d \o LabelText(name, i)) = Len(d) + Len(LabelText(name, i))
  BY <1>1, <1>2, ConcatProperties
<1>5. PICK l \in 1 .. 63 : l = LabelLen(name, i)
  BY LabelFitsLemma
<1>6. PICK m \in Nat, j \in 0 .. 1 : m = Len(LabelText(name, i)) /\ j = Len(d)
  BY <1>1, <1>2, LenProperties
<1>7. m <= 4 * l + 3 /\ Len(Piece(name, i)) = j + m
  BY <1>2, <1>3, <1>4, <1>5, <1>6
<1>8. j + m <= 4 * l + 4
  BY <1>7
<1>9. QED
  BY <1>3, <1>4, <1>5, <1>7, <1>8

\* The text of a name that was unpacked is never too long.
LEMMA TextOfType ==
    ASSUME NEW name, WellFormed(name)
    PROVE  TextOf(name) \in Seq(Octet) /\ Len(TextOf(name)) <= 4 * Len(name) + 1
<1>1. name \in Seq(Octet)
  BY DEF WellFormed
<1>2. PICK S : Marked(name, S)
  BY DEF WellFormed
<1>3. PICK n \in Nat : n = Len(name)
  BY <1>1, LenProperties
<1> DEFINE f == TextFrom(name)
           T == {i \in 1 .. n + 1 : i \in S =>
                   f[i] \in Seq(Octet) /\ Len(f[i]) <= 4 * ((n + 1) - i)}
<1>4. n + 1 \in T
  <2>1. f[n + 1] = << >>
    BY <1>1, <1>3, TextFromUnfolds
  <2> HIDE DEF f
  <2>2. f[n + 1] \in Seq(Octet) /\ Len(f[n + 1]) = 0
    BY <2>1
  <2>3. QED
    BY <2>2
<1>5. ASSUME NEW i \in 1 .. n, Steps(name)[i] \in T
      PROVE  i \in T
  <2>1. SUFFICES ASSUME i \in S
                 PROVE  f[i] \in Seq(Octet) /\ Len(f[i]) <= 4 * ((n + 1) - i)
    OBVIOUS
  <2>2. i <= Len(name) /\ i \in 1 .. Len(name)
    BY <1>3
  <2>3. LabelFits(name, i) /\ i + LabelLen(name, i) + 1 \in S
    BY <1>2, <2>1, <2>2 DEF Marked
  <2>4. PICK l \in 1 .. 63 : l = LabelLen(name, i) /\ NextLabel(name, i) = i + l + 1
    BY <1>1, <2>2, <2>3, LabelFitsLemma
  <2>5. Steps(name)[i] = i + l + 1
    BY <1>1, <2>2, <2>4, NextLabelLemma
  <2>6. i + l + 1 \in T /\ i + l + 1 \in S /\ i + l + 1 \in 1 .. n + 1
    BY <1>5, <2>3, <2>4, <2>5
  <2>7. PICK m \in 1 .. n + 1 : m = i + l + 1 /\ m \in T /\ m \in S
    BY <2>6
  <2>8. f[m] \in Seq(Octet) /\ Len(f[m]) <= 4 * ((n + 1) - m)
    BY <2>7
  <2>9. Piece(name, i) \in Seq(Octet) /\ Len(Piece(name, i)) <= 4 * l + 4
    BY <1>1, <2>2, <2>3, <2>4, PieceType
  <2>10. f[i] = Piece(name, i) \o f[m]
    BY <1>1, <2>2, <2>4, <2>7, TextFromUnfolds DEF Join
  <2> HIDE DEF f
  <2>11. f[i] \in Seq(Octet) /\ Len(f[i]) = Len(Piece(name, i)) + Len(f[m])
    BY <2>8, <2>9, <2>10, ConcatProperties
  <2>12. PICK a \in Nat, b \in Nat : a = Len(Piece(name, i)) /\ b = Len(f[m])
    BY <2>8, <2>9, LenProperties
  <2>13. Len(f[i]) <= 4 * ((n + 1) - i)
    BY <2>7, <2>8, <2>9, <2>11, <2>12
  <2>14. QED
    BY <2>11, <2>13
<1> HIDE DEF T, f
<1>6. 1 .. n + 1 \subseteq T
  BY <1>1, <1>3, <1>4, <1>5, NextLabelLemma, SuffixInduction
<1>7. 1 \in T /\ 1 \in S
  BY <1>2, <1>6 DEF Marked
<1>8. f[1] \in Seq(Octet) /\ Len(f[1]) <= 4 * n
  <2>1. (n + 1) - 1 = n
    OBVIOUS
  <2>2. QED
    BY <1>7, <2>1 DEF T
<1>9. PICK m \in Nat : m = Len(f[1])
  BY <1>8, LenProperties
<1>10. <<DOT>> \in Seq(Octet) /\ Len(<<DOT>>) = 1
  BY DEF DOT, Octet
<1>11. CASE name = << >>
  BY <1>3, <1>10, <1>11 DEF TextOf
<1>12. CASE name # << >>
  BY <1>3, <1>8, <1>9, <1>12 DEF TextOf, f
<1>13. QED
  BY <1>11, <1>12

LEMMA NtopLemma ==
    ASSUME NEW name, WellFormed(name), Len(name) < NS_MAXCDNAME
    PROVE  /\ Ntop(name, NS_MAXDNAME) = TextOf(name)
           /\ TextOf(name) \in Seq(Octet) /\ TextOf(name) # NoName
<1>1. TextOf(name) \in Seq(Octet) /\ Len(TextOf(name)) <= 4 * Len(name) + 1
  BY TextOfType
<1>2. PICK n \in Nat, m \in Nat : n = Len(name) /\ m = Len(TextOf(name))
  BY <1>1, LenProperties DEF WellFormed
<1>3. m < NS_MAXDNAME
  BY <1>1, <1>2 DEF NS_MAXCDNAME, NS_MAXDNAME
<1>4. Ntop(name, NS_MAXDNAME) = TextOf(name)
  BY <1>2, <1>3, NtopUnfolds, Zenon
<1>5. TextOf(name) # NoName
  <2>1. -1 \notin Octet
    BY DEF Octet
  <2>2. NoName \notin Seq(Octet)
    <3>1. SUFFICES ASSUME NoName \in Seq(Octet)
                   PROVE  FALSE
      OBVIOUS
    <3>2. Len(NoName) = 1 /\ NoName[1] = -1
      BY DEF NoName
    <3>3. NoName[1] \in Octet
      BY <3>1, <3>2, ElementOfSeq, 1 \in 1 .. 1
    <3>4. QED
      BY <2>1, <3>2, <3>3
  <2>3. QED
    BY <1>1, <2>2
<1>6. QED
  BY <1>1, <1>4, <1>5

LEMMA ValueType ==
    ASSUME NEW base \in Nat, NEW digits \in Seq(Octet)
    PROVE  Value(base, digits) \in Nat
<1>1. PICK n \in Nat : n = Len(digits)
  BY LenProperties
<1>2. PICK f \in [0 .. n -> Nat] : Value(base, digits) = f[n]
  BY <1>1, ValueUnfolds
<1>3. n \in 0 .. n
  OBVIOUS
<1>4. QED
  BY <1>2, <1>3

\* The value of one, two or three digits.
LEMMA ValueShort ==
    ASSUME NEW base \in Nat, NEW digits \in Seq(Octet)
    PROVE  /\ Len(digits) = 1 => Value(base, digits) = DigitValue(digits[1])
           /\ Len(digits) = 2 =>
                 Value(base, digits) = DigitValue(digits[1]) * base + DigitValue(digits[2])
           /\ Len(digits) = 3 =>
                 Value(base, digits) =
                    (DigitValue(digits[1]) * base + DigitValue(digits[2])) * base
                       + DigitValue(digits[3])
<1>1. PICK n \in Nat : n = Len(digits)
  BY LenProperties
<1>2. PICK f \in [0 .. n -> Nat] : Summed(f, base, digits) /\ Value(base, digits) = f[n]
  BY <1>1, ValueUnfolds
<1>3. f[0] = 0 /\ \A k \in 1 .. n : f[k] = f[k - 1] * base + DigitValue(digits[k])
  BY <1>1, <1>2 DEF Summed
<1>4. ASSUME n >= 1
      PROVE  f[1] = DigitValue(digits[1])
  <2>1. 1 \in 1 .. n /\ 1 - 1 = 0
    BY <1>4
  <2>2. PICK d \in 0 .. 15 : d = DigitValue(digits[1])
    BY <1>1, <2>1, ElementOfSeq, DigitValueType
  <2>3. f[1] = 0 * base + d
    BY <1>3, <2>1, <2>2
  <2>4. 0 * base = 0
    OBVIOUS
  <2>5. QED
    BY <2>2, <2>3, <2>4
<1>5. ASSUME n >= 2
      PROVE  f[2] = DigitValue(digits[1]) * base + DigitValue(digits[2])
  <2>1. 2 \in 1 .. n /\ 2 - 1 = 1 /\ n >= 1
    BY <1>5
  <2>2. QED
    BY <1>3, <1>4, <2>1
<1>6. ASSUME n >= 3
      PROVE  f[3] = (DigitValue(digits[1]) * base + DigitValue(digits[2])) * base
                       + DigitValue(digits[3])
  <2>1. 3 \in 1 .. n /\ 3 - 1 = 2 /\ n >= 2
    BY <1>6
  <2>2. QED
    BY <1>3, <1>5, <2>1
<1>7. QED
  BY <1>1, <1>2, <1>4, <1>5, <1>6

\* Two hexadecimal digits, and one with nothing behind it, are a byte.
LEMMA PackingType ==
    ASSUME NEW digits \in Seq(Octet)
    PROVE  /\ Packing(digits) \in Seq(Octet)
           /\ Len(Packing(digits)) = (Len(digits) + 1) \div 2
           /\ \A k \in 1 .. (Len(digits) + 1) \div 2 :
                 Packing(digits)[k] =
                    IF 2 * k <= Len(digits)
                    THEN DigitValue(digits[2 * k - 1]) * 16 + DigitValue(digits[2 * k])
                    ELSE DigitValue(digits[2 * k - 1]) * 16
<1>1. PICK n \in Nat : n = Len(digits)
  BY LenProperties
<1>2. PICK m \in Nat : m = (n + 1) \div 2 /\ 2 * m <= n + 1
  OBVIOUS
<1> DEFINE e(k) == IF 2 * k <= n THEN Value(16, SubSeq(digits, 2 * k - 1, 2 * k))
                   ELSE 16 * Value(16, <<digits[2 * k - 1]>>)
           p == [k \in 1 .. m |-> e(k)]
<1>3. Packing(digits) = p
  BY <1>1, <1>2 DEF Packing
<1>4. ASSUME NEW k \in 1 .. m
      PROVE  /\ e(k) \in Octet
             /\ e(k) = IF 2 * k <= n
                       THEN DigitValue(digits[2 * k - 1]) * 16 + DigitValue(digits[2 * k])
                       ELSE DigitValue(digits[2 * k - 1]) * 16
  <2>1. PICK j \in 1 .. n : j = 2 * k - 1
    BY <1>2
  <2>2. PICK x \in Octet : x = digits[j]
    BY <1>1, ElementOfSeq
  <2>3. PICK a \in 0 .. 15 : a = DigitValue(x)
    BY DigitValueType
  <2>4. CASE 2 * k <= n
    <3>1. j + 1 \in 1 .. n /\ j + 1 = 2 * k
      BY <2>1, <2>4
    <3>2. PICK y \in Octet : y = digits[j + 1]
      BY <1>1, <3>1, ElementOfSeq
    <3>3. PICK b \in 0 .. 15 : b = DigitValue(y)
      BY DigitValueType
    <3> DEFINE t == SubSeq(digits, j, j + 1)
    <3>4. t \in Seq(Octet) /\ Len(t) = 2 /\ t[1] = x /\ t[2] = y
      <4>1. \A i \in j .. j + 1 : digits[i] \in Octet
        BY <2>2, <3>2
      <4>2. /\ t \in Seq(Octet) /\ Len(t) = (IF j <= j + 1 THEN (j + 1) - j + 1 ELSE 0)
            /\ \A i \in 1 .. (j + 1) - j + 1 : t[i] = digits[j + i - 1]
        BY <4>1, SubSeqProperties
      <4>3. Len(t) = 2 /\ t[1] = digits[j] /\ t[2] = digits[j + 1]
        BY <4>2
      <4>4. QED
        BY <2>2, <3>2, <4>2, <4>3
    <3> HIDE DEF t
    <3>5. Value(16, t) = a * 16 + b
      BY <2>3, <3>3, <3>4, ValueShort
    <3>6. e(k) = Value(16, t)
      BY <2>1, <2>4, <3>1 DEF t
    <3>7. a * 16 + b \in Octet
      BY DEF Octet
    <3>8. QED
      BY <2>1, <2>2, <2>3, <2>4, <3>1, <3>2, <3>3, <3>5, <3>6, <3>7
  <2>5. CASE ~(2 * k <= n)
    <3> DEFINE t == <<x>>
    <3>1. t \in Seq(Octet) /\ Len(t) = 1 /\ t[1] = x
      OBVIOUS
    <3>3. e(k) = 16 * Value(16, t)
      BY <2>1, <2>2, <2>5
    <3> HIDE DEF t, e
    <3>2. Value(16, t) = a
      BY <2>3, <3>1, ValueShort
    <3>4. 16 * a \in Octet /\ 16 * a = a * 16
      BY DEF Octet
    <3>5. QED
      BY <2>1, <2>2, <2>3, <2>5, <3>2, <3>3, <3>4
  <2>6. QED
    BY <2>4, <2>5
<1> HIDE DEF e
<1>5. p \in Seq(Octet) /\ Len(p) = m /\ \A k \in 1 .. m : p[k] = e(k)
  <2>1. p \in [1 .. m -> Octet] /\ \A k \in 1 .. m : p[k] = e(k)
    BY <1>4
  <2> HIDE DEF p
  <2>2. QED
    BY <2>1
<1> HIDE DEF p
<1>6. QED
  BY <1>1, <1>2, <1>3, <1>4, <1>5

-------------------------------------------------------------------------------
(* ns_name_pton, character by character *)

Modes == {"plain", "escaped", "number", "bits", "bits end", "fail", "done"}
PtonStates ==
    [mode : Modes, name : Seq(Octet), label : Seq(Octet), num : Nat, more : 1 .. 3,
     bits : Seq(Octet)]

LEMMA StateParts ==
    ASSUME NEW st \in PtonStates
    PROVE  /\ st.mode \in Modes /\ st.name \in Seq(Octet) /\ st.label \in Seq(Octet)
           /\ st.num \in Nat /\ st.more \in 1 .. 3 /\ st.bits \in Seq(Octet)
           /\ Failed(st) \in PtonStates
BY DEF PtonStates, Failed, Modes

LEMMA ClosedType ==
    ASSUME NEW st \in PtonStates, NEW size
    PROVE  Closed(st, size) \in PtonStates
<1>1. CASE Len(st.label) > NS_MAXLABEL \/ Len(st.name) >= size
  BY <1>1, StateParts DEF Closed
<1>2. CASE ~(Len(st.label) > NS_MAXLABEL \/ Len(st.name) >= size)
  <2>1. PICK l \in Nat : l = Len(st.label)
    BY StateParts, LenProperties
  <2>2. l \in Octet
    <3>1. ~(l > NS_MAXLABEL)
      BY <1>2, <2>1, Zenon
    <3>2. QED
      BY <3>1 DEF NS_MAXLABEL, Octet
  <2>3. <<l>> \in Seq(Octet)
    BY <2>2
  <2> DEFINE m == st.name \o <<l>> \o st.label
  <2>4. m \in Seq(Octet)
    BY <2>3, StateParts, ConcatProperties
  <2>5. Closed(st, size) = [st EXCEPT !.name = m, !.label = << >>]
    BY <1>2, <2>1, Zenon DEF Closed
  <2> HIDE DEF m
  <2>6. << >> \in Seq(Octet)
    OBVIOUS
  <2>7. QED
    BY <2>4, <2>5, <2>6 DEF PtonStates
<1>3. QED
  BY <1>1, <1>2

LEMMA StoredType ==
    ASSUME NEW st \in PtonStates, NEW c \in Octet, NEW size
    PROVE  Stored(st, c, size) \in PtonStates
<1>1. CASE Full(st, size)
  BY <1>1, StateParts DEF Stored
<1>2. CASE ~Full(st, size)
  <2> DEFINE m == Append(st.label, c)
  <2>1. m \in Seq(Octet)
    BY StateParts, AppendProperties
  <2>2. Stored(st, c, size) = [st EXCEPT !.mode = "plain", !.label = m]
    BY <1>2, Zenon DEF Stored
  <2> HIDE DEF m
  <2>3. QED
    BY <2>1, <2>2 DEF PtonStates, Modes
<1>3. QED
  BY <1>1, <1>2

LEMMA EndedType ==
    ASSUME NEW st \in PtonStates, NEW size
    PROVE  Ended(st, size) \in PtonStates
<1> DEFINE whole == IF st.label = << >> THEN st.name ELSE Closed(st, size).name
<1>1. whole \in Seq(Octet)
  BY ClosedType, StateParts
<1>2. Ended(st, size) \in {Failed(st), [st EXCEPT !.mode = "done", !.name = whole]}
  BY DEF Ended
<1> HIDE DEF whole
<1>3. [st EXCEPT !.mode = "done", !.name = whole] \in PtonStates
  BY <1>1 DEF PtonStates, Modes
<1>4. QED
  BY <1>2, <1>3, StateParts

LEMMA NumberType ==
    ASSUME NEW st \in PtonStates, NEW c \in Octet, NEW size
    PROVE  Number(st, c, size) \in PtonStates
<1> DEFINE num == st.num * 10 + (c - DIGIT)
<1>1. CASE c \notin Digits
  BY <1>1, StateParts DEF Number
<1>2. CASE c \in Digits
  <2>1. PICK d \in 0 .. 9 : d = c - DIGIT
    BY <1>2 DEF Digits, DIGIT
  <2>2. num \in Nat
    BY <2>1, StateParts
  <2>3. CASE st.more > 1
    <3>1. Number(st, c, size) = [st EXCEPT !.mode = "number", !.num = num, !.more = @ - 1]
      BY <1>2, <2>3, Zenon DEF Number
    <3>2. st.more - 1 \in 1 .. 3
      BY <2>3, StateParts
    <3> HIDE DEF num
    <3>3. QED
      BY <2>2, <3>1, <3>2 DEF PtonStates, Modes
  <2>4. CASE ~(st.more > 1) /\ num > 255
    <3>1. Number(st, c, size) = Failed(st)
      BY <1>2, <2>4, Zenon DEF Number
    <3>2. QED
      BY <3>1, StateParts
  <2>5. CASE ~(st.more > 1) /\ ~(num > 255)
    <3>1. Number(st, c, size) = Stored([st EXCEPT !.num = 0, !.more = 3], num, size)
      BY <1>2, <2>5, Zenon DEF Number
    <3>2. num \in Octet
      BY <2>2, <2>5 DEF Octet
    <3> HIDE DEF num
    <3>3. [st EXCEPT !.num = 0, !.more = 3] \in PtonStates
      <4>1. 0 \in Nat /\ 3 \in 1 .. 3
        OBVIOUS
      <4>2. QED
        BY <4>1 DEF PtonStates
    <3>4. QED
      BY <3>1, <3>2, <3>3, StoredType
  <2>6. QED
    BY <2>3, <2>4, <2>5
<1>3. QED
  BY <1>1, <1>2

LEMMA DotType ==
    ASSUME NEW st \in PtonStates, NEW next, NEW size
    PROVE  Dot(st, next, size) \in PtonStates
BY StateParts, ClosedType, EndedType DEF Dot

\* What encode_bitstring reads: the digits, the number of bits, and how many of the
\* digits' bits are behind it.
SlashIn(bits) == CHOOSE i \in DOMAIN bits : bits[i] = SLASH
DigitsIn(bits) == SubSeq(bits, 2, SlashIn(bits) - 1)
LengthIn(bits) == SubSeq(bits, SlashIn(bits) + 1, Len(bits))
BlenIn(bits) == Value(10, LengthIn(bits))
TrailingIn(bits) == 4 * Len(DigitsIn(bits)) - BlenIn(bits)
EncodedName(st) ==
    st.name \o <<BITSTRING>> \o st.label \o <<BlenIn(st.bits) % 256>> \o Packing(DigitsIn(st.bits))
EncodeGuard(st, size) ==
    /\ SLASH \in ToSet(st.bits) /\ st.bits[1] = LETTER_X
    /\ DigitsIn(st.bits) # << >> /\ ToSet(DigitsIn(st.bits)) \subseteq HexDigits
    /\ Len(DigitsIn(st.bits)) <= 64
    /\ LengthIn(st.bits) # << >> /\ ToSet(LengthIn(st.bits)) \subseteq Digits
    /\ LengthIn(st.bits)[1] # DIGIT
    /\ TrailingIn(st.bits) \in 0 .. 3
    /\ Value(16, <<Last(DigitsIn(st.bits))>>) % 2^TrailingIn(st.bits) = 0
    /\ Len(EncodedName(st)) < size
Encoded(st) ==
    [st EXCEPT !.mode = "bits end", !.name = EncodedName(st), !.label = << >>, !.bits = << >>]

LEMMA EncodeUnfolds ==
    ASSUME NEW st, NEW size
    PROVE  EncodeBitstring(st, size) =
              IF EncodeGuard(st, size) THEN Encoded(st) ELSE Failed(st)
BY DEF EncodeBitstring, EncodeGuard, Encoded, EncodedName, TrailingIn, BlenIn, LengthIn, DigitsIn,
             SlashIn

LEMMA SlashLemma ==
    ASSUME NEW bits \in Seq(Octet), SLASH \in ToSet(bits)
    PROVE  /\ SlashIn(bits) \in 1 .. Len(bits) /\ bits[SlashIn(bits)] = SLASH
           /\ DigitsIn(bits) \in Seq(Octet) /\ LengthIn(bits) \in Seq(Octet)
<1>1. PICK n \in Nat : n = Len(bits) /\ DOMAIN bits = 1 .. n
  BY LenProperties
<1>2. \E i \in DOMAIN bits : bits[i] = SLASH
  BY DEF ToSet
<1>3. SlashIn(bits) \in DOMAIN bits /\ bits[SlashIn(bits)] = SLASH
  BY <1>2 DEF SlashIn
<1>4. PICK i \in 1 .. n : i = SlashIn(bits)
  BY <1>1, <1>3
<1>5. \A k \in 1 .. n : bits[k] \in Octet
  BY <1>1, ElementOfSeq
<1>6. SubSeq(bits, 2, i - 1) \in Seq(Octet)
  <2>1. \A k \in 2 .. i - 1 : bits[k] \in Octet
    BY <1>5
  <2>2. 2 \in Int /\ i - 1 \in Int
    OBVIOUS
  <2>3. QED
    BY <2>1, <2>2, SubSeqProperties
<1>7. SubSeq(bits, i + 1, n) \in Seq(Octet)
  <2>1. \A k \in i + 1 .. n : bits[k] \in Octet
    BY <1>5
  <2>2. i + 1 \in Int /\ n \in Int
    OBVIOUS
  <2>3. QED
    BY <2>1, <2>2, SubSeqProperties
<1>8. QED
  BY <1>1, <1>3, <1>4, <1>6, <1>7 DEF DigitsIn, LengthIn

LEMMA EncodeType ==
    ASSUME NEW st \in PtonStates, NEW size
    PROVE  EncodeBitstring(st, size) \in PtonStates
<1>1. CASE ~EncodeGuard(st, size)
  BY <1>1, EncodeUnfolds, StateParts, Zenon
<1>2. CASE EncodeGuard(st, size)
  <2>1. /\ st.name \in Seq(Octet) /\ st.label \in Seq(Octet)
        /\ DigitsIn(st.bits) \in Seq(Octet) /\ LengthIn(st.bits) \in Seq(Octet)
    BY <1>2, StateParts, SlashLemma DEF EncodeGuard
  <2>2. PICK v \in Nat : v = BlenIn(st.bits)
    BY <2>1, ValueType DEF BlenIn
  <2>3. v % 256 \in Octet
    BY DEF Octet
  <2>4. <<v % 256>> \in Seq(Octet) /\ <<BITSTRING>> \in Seq(Octet)
    BY <2>3 DEF BITSTRING, Octet
  <2>5. Packing(DigitsIn(st.bits)) \in Seq(Octet)
    BY <2>1, PackingType
  <2>6. EncodedName(st) \in Seq(Octet)
    <3>1. st.name \o <<BITSTRING>> \in Seq(Octet)
      BY <2>1, <2>4, ConcatProperties
    <3>2. st.name \o <<BITSTRING>> \o st.label \in Seq(Octet)
      BY <2>1, <3>1, ConcatProperties
    <3>3. st.name \o <<BITSTRING>> \o st.label \o <<v % 256>> \in Seq(Octet)
      BY <2>4, <3>2, ConcatProperties
    <3>4. st.name \o <<BITSTRING>> \o st.label \o <<v % 256>> \o Packing(DigitsIn(st.bits))
             \in Seq(Octet)
      BY <2>5, <3>3, ConcatProperties
    <3>5. QED
      BY <2>2, <3>4, Zenon DEF EncodedName
  <2>7. << >> \in Seq(Octet)
    OBVIOUS
  <2>8. Encoded(st) \in PtonStates
    BY <2>6, <2>7 DEF Encoded, PtonStates, Modes
  <2>9. QED
    BY <1>2, <2>8, EncodeUnfolds, Zenon
<1>3. QED
  BY <1>1, <1>2

\* What a character does, by the mode it is read in.
CharMeans(st, c, next, size) ==
    /\ st.mode \in {"fail", "done"} => Char(st, c, next, size) = st
    /\ st.mode = "escaped" /\ c = BRACKET =>
          Char(st, c, next, size) = [st EXCEPT !.mode = "bits"]
    /\ st.mode = "escaped" /\ c \in Digits => Char(st, c, next, size) = Number(st, c, size)
    /\ st.mode = "escaped" /\ c # BRACKET /\ c \notin Digits =>
          Char(st, c, next, size) = Stored(st, c, size)
    /\ st.mode = "bits" /\ c = BRACKET_END =>
          Char(st, c, next, size) = EncodeBitstring(st, size)
    /\ st.mode = "bits" /\ c # BRACKET_END =>
          Char(st, c, next, size) = [st EXCEPT !.bits = Append(@, c)]
    /\ st.mode = "bits end" /\ c = DOT =>
          Char(st, c, next, size) = [st EXCEPT !.mode = "plain"]
    /\ st.mode = "bits end" /\ c # DOT => Char(st, c, next, size) = Failed(st)
    /\ st.mode = "number" => Char(st, c, next, size) = Number(st, c, size)
    /\ st.mode = "plain" /\ c = BACKSLASH =>
          Char(st, c, next, size) = [st EXCEPT !.mode = "escaped"]
    /\ st.mode = "plain" /\ c = DOT => Char(st, c, next, size) = Dot(st, next, size)
    /\ st.mode = "plain" /\ c # BACKSLASH /\ c # DOT =>
          Char(st, c, next, size) = Stored(st, c, size)

LEMMA CharCases ==
    ASSUME NEW st, NEW c, NEW next, NEW size
    PROVE  CharMeans(st, c, next, size)
<1> USE DEF CharMeans
<1>0. BRACKET \notin Digits /\ BACKSLASH # DOT
  BY DEF BRACKET, Digits, BACKSLASH, DOT
<1>1. CASE st.mode \in {"fail", "done"}
  <2>1. st.mode \notin {"escaped", "bits", "bits end", "number", "plain"}
    BY <1>1
  <2>2. QED
    BY <1>1, <2>1, Zenon DEF Char
<1>2. CASE st.mode = "escaped"
  <2>1. st.mode \notin {"fail", "done", "bits", "bits end", "number", "plain"}
    BY <1>2
  <2>2. QED
    BY <1>0, <1>2, <2>1, Zenon DEF Char
<1>3. CASE st.mode = "bits"
  <2>1. st.mode \notin {"fail", "done", "escaped", "bits end", "number", "plain"}
    BY <1>3
  <2>2. QED
    BY <1>3, <2>1, Zenon DEF Char
<1>4. CASE st.mode = "bits end"
  <2>1. st.mode \notin {"fail", "done", "escaped", "bits", "number", "plain"}
    BY <1>4
  <2>2. QED
    BY <1>4, <2>1, Zenon DEF Char
<1>5. CASE st.mode = "number"
  <2>1. st.mode \notin {"fail", "done", "escaped", "bits", "bits end", "plain"}
    BY <1>5
  <2>2. QED
    BY <1>5, <2>1, Zenon DEF Char
<1>6. CASE st.mode = "plain"
  <2>1. st.mode \notin {"fail", "done", "escaped", "bits", "bits end", "number"}
    BY <1>6
  <2>2. QED
    BY <1>0, <1>6, <2>1, Zenon DEF Char
<1>7. QED
  BY <1>1, <1>2, <1>3, <1>4, <1>5, <1>6

LEMMA CharType ==
    ASSUME NEW st \in PtonStates, NEW c \in Octet, NEW next, NEW size
    PROVE  Char(st, c, next, size) \in PtonStates
<1>1. [st EXCEPT !.mode = "bits"] \in PtonStates /\ [st EXCEPT !.mode = "plain"] \in PtonStates
      /\ [st EXCEPT !.mode = "escaped"] \in PtonStates
  BY DEF PtonStates, Modes
<1>2. [st EXCEPT !.bits = Append(@, c)] \in PtonStates
  <2> DEFINE b == Append(st.bits, c)
  <2>1. b \in Seq(Octet)
    BY StateParts, AppendProperties
  <2> HIDE DEF b
  <2>2. [st EXCEPT !.bits = b] \in PtonStates
    BY <2>1 DEF PtonStates
  <2>3. QED
    BY <2>2 DEF b
<1>3. Number(st, c, size) \in PtonStates /\ Stored(st, c, size) \in PtonStates
      /\ Dot(st, next, size) \in PtonStates /\ EncodeBitstring(st, size) \in PtonStates
      /\ Failed(st) \in PtonStates
  BY NumberType, StoredType, DotType, EncodeType, StateParts
<1>4. st.mode \in Modes /\ CharMeans(st, c, next, size)
  BY StateParts, CharCases
<1>5. CASE st.mode \in {"fail", "done"}
  BY <1>4, <1>5 DEF CharMeans
<1>6. CASE st.mode = "escaped"
  BY <1>4, <1>1, <1>3, <1>6 DEF CharMeans
<1>7. CASE st.mode = "bits"
  BY <1>4, <1>2, <1>3, <1>7 DEF CharMeans
<1>8. CASE st.mode = "bits end"
  BY <1>4, <1>1, <1>3, <1>8 DEF CharMeans
<1>9. CASE st.mode = "number"
  BY <1>4, <1>3, <1>9 DEF CharMeans
<1>10. CASE st.mode = "plain"
  BY <1>4, <1>1, <1>3, <1>10 DEF CharMeans
<1>11. QED
  BY <1>4, <1>5, <1>6, <1>7, <1>8, <1>9, <1>10 DEF Modes

PtonStart ==
    [mode |-> "plain", name |-> << >>, label |-> << >>, num |-> 0, more |-> 3, bits |-> << >>]
CharAfter(chars, i) == IF i < Len(chars) THEN chars[i + 1] ELSE 0
PtonEnd(last, size) ==
    CASE last.mode \in {"fail", "done"} -> last
      [] last.mode \in {"number", "bits"} -> Failed(last)
      [] OTHER -> Ended(last, size)
PtonResult(last, size) ==
    IF PtonEnd(last, size).mode = "done" THEN PtonEnd(last, size).name ELSE NoName

\* f[k] is the state after k characters.
PtonRun(f, chars, size) ==
    /\ f \in [0 .. Len(chars) -> PtonStates]
    /\ f[0] = PtonStart
    /\ \A k \in 1 .. Len(chars) : f[k] = Char(f[k - 1], chars[k], CharAfter(chars, k), size)

PtonAfter(chars, size) ==
    CHOOSE f : f = [i \in 0 .. Len(chars) |->
                      IF i = 0 THEN PtonStart
                      ELSE Char(f[i - 1], chars[i], CharAfter(chars, i), size)]

LEMMA PtonUnfolds ==
    ASSUME NEW chars, NEW size
    PROVE  Pton(chars, size) = PtonResult(PtonAfter(chars, size)[Len(chars)], size)
BY DEF Pton, PtonAfter, PtonStart, CharAfter, PtonResult, PtonEnd

LEMMA PtonStartType == PtonStart \in PtonStates
<1>1. << >> \in Seq(Octet) /\ 0 \in Nat /\ 3 \in 1 .. 3
  OBVIOUS
<1>2. QED
  BY <1>1 DEF PtonStart, PtonStates, Modes

LEMMA PtonRuns ==
    ASSUME NEW chars \in Seq(Octet), NEW size
    PROVE  PtonRun(PtonAfter(chars, size), chars, size)
<1>1. PICK n \in Nat : n = Len(chars)
  BY LenProperties
<1>2. \A k \in 1 .. n : chars[k] \in Octet
  BY <1>1, ElementOfSeq
<1> DEFINE e(k, st) == Char(st, chars[k], CharAfter(chars, k), size)
           step == [k \in 1 .. n |-> [st \in PtonStates |-> e(k, st)]]
           F(f) == [k \in 0 .. n |-> IF k = 0 THEN PtonStart ELSE e(k, f[k - 1])]
<1>3. \A k \in 1 .. n, st \in PtonStates : e(k, st) \in PtonStates
  BY <1>2, CharType
<1>4. PtonAfter(chars, size) = CHOOSE f : f = F(f)
  BY <1>1 DEF PtonAfter
<1>6. ASSUME NEW f \in [0 .. n -> PtonStates], f[0] = PtonStart,
             \A k \in 1 .. n : f[k] = e(k, f[k - 1])
      PROVE  PtonRun(f, chars, size)
  BY <1>1, <1>6 DEF PtonRun
<1> HIDE DEF e
<1>7. step \in [1 .. n -> [PtonStates -> PtonStates]]
  BY <1>3
<1>8. \A k \in 1 .. n, st \in PtonStates : step[k][st] = e(k, st)
  OBVIOUS
<1> HIDE DEF step
<1>9. PICK f : Iterates(f, PtonStates, n, PtonStart, step)
  <2>1. Stepping(PtonStates, n, PtonStart, step)
    BY <1>7, PtonStartType DEF Stepping
  <2>2. QED
    BY <2>1, PrefixFunction
<1>10. f = F(f)
  <2>1. /\ f \in [0 .. n -> PtonStates] /\ f[0] = PtonStart
        /\ \A k \in 1 .. n : f[k] = step[k][f[k - 1]]
    BY <1>9 DEF Iterates
  <2>2. \A k \in 1 .. n : f[k - 1] \in PtonStates
    <3>1. TAKE k \in 1 .. n
    <3>2. k - 1 \in 0 .. n
      OBVIOUS
    <3>3. QED
      BY <2>1, <3>2
  <2>3. \A k \in 1 .. n : f[k] = e(k, f[k - 1])
    BY <1>8, <2>1, <2>2
  <2>4. \A k \in 0 .. n : f[k] = IF k = 0 THEN PtonStart ELSE e(k, f[k - 1])
    <3>1. TAKE k \in 0 .. n
    <3>2. k # 0 => k \in 1 .. n
      OBVIOUS
    <3>3. QED
      BY <2>1, <2>3, <3>2
  <2>5. QED
    BY <2>1, <2>4
<1> DEFINE g == PtonAfter(chars, size)
<1>11. g = F(g)
  <2> HIDE DEF F
  <2>1. QED
    BY <1>4, <1>10
<1> HIDE DEF g
<1>12. \A k \in 0 .. n : g[k] = IF k = 0 THEN PtonStart ELSE e(k, g[k - 1])
  BY <1>11
<1>13. g[0] = PtonStart /\ \A k \in 1 .. n : g[k] = e(k, g[k - 1])
  <2>1. 0 \in 0 .. n /\ \A k \in 1 .. n : k \in 0 .. n /\ k # 0
    OBVIOUS
  <2>2. QED
    BY <1>12, <2>1
<1>14. \A k \in 0 .. n : g[k] \in PtonStates
  <2> DEFINE T == {k \in Nat : k <= n => g[k] \in PtonStates}
  <2>1. 0 \in T
    BY <1>13, PtonStartType
  <2>2. ASSUME NEW k \in Nat, k \in T
        PROVE  k + 1 \in T
    <3>1. SUFFICES ASSUME k + 1 <= n
                   PROVE  g[k + 1] \in PtonStates
      OBVIOUS
    <3>2. k + 1 \in 1 .. n /\ (k + 1) - 1 = k /\ g[k] \in PtonStates
      BY <2>2, <3>1
    <3>3. QED
      BY <1>3, <1>13, <3>2
  <2> HIDE DEF T
  <2>3. Nat \subseteq T
    BY <2>1, <2>2, SetInduction
  <2>4. QED
    BY <2>3 DEF T
<1>15. g \in [0 .. n -> PtonStates]
  <2>1. g = [k \in 0 .. n |-> g[k]]
    BY <1>11
  <2>2. QED
    BY <1>14, <2>1
<1>16. QED
  BY <1>6, <1>13, <1>15 DEF g

LEMMA PtonType ==
    ASSUME NEW chars \in Seq(Octet), NEW size
    PROVE  Pton(chars, size) \in Seq(Octet) \cup {NoName}
<1>1. PICK n \in Nat : n = Len(chars)
  BY LenProperties
<1>2. PtonRun(PtonAfter(chars, size), chars, size)
  BY PtonRuns
<1>3. PICK last \in PtonStates : last = PtonAfter(chars, size)[n]
  <2>1. n \in 0 .. n
    OBVIOUS
  <2>2. QED
    BY <1>1, <1>2, <2>1 DEF PtonRun
<1>4. PtonEnd(last, size) \in {last, Failed(last), Ended(last, size)}
  BY DEF PtonEnd
<1>5. PtonEnd(last, size) \in PtonStates
  BY <1>4, StateParts, EndedType
<1>6. PtonEnd(last, size).name \in Seq(Octet)
  BY <1>5, StateParts
<1>7. PtonResult(last, size) \in Seq(Octet) \cup {NoName}
  BY <1>6 DEF PtonResult
<1>8. QED
  BY <1>1, <1>3, <1>7, PtonUnfolds

-------------------------------------------------------------------------------
(* The message *)

LEMMA Bytes16Lemma ==
    ASSUME NEW i \in Octets2
    PROVE  /\ Bytes16(i) \in Seq(Octet) /\ Len(Bytes16(i)) = 2
           /\ Bytes16(i)[1] * 256 + Bytes16(i)[2] = i
BY DEF Bytes16, Octets2, Octet

LEMMA QuestionBytesLemma ==
    ASSUME NEW name \in Seq(Octet), NEW t \in Octets2, NEW q, q.name = name, q.type = t
    PROVE  /\ QuestionBytes(q) \in Seq(Octet) /\ Len(QuestionBytes(q)) = Len(name) + 4
           /\ \A k \in 1 .. Len(name) : QuestionBytes(q)[k] = name[k]
           /\ QuestionBytes(q)[Len(name) + 1] * 256 + QuestionBytes(q)[Len(name) + 2] = t
<1> DEFINE b == Bytes16(t)
           z == <<0, 1>>
           c == name \o b
           s == c \o z
<1>0. PICK n \in Nat : n = Len(name)
  BY LenProperties
<1>1. b \in Seq(Octet) /\ 2 = Len(b) /\ b[1] * 256 + b[2] = t
  BY Bytes16Lemma
<1>2. z \in Seq(Octet) /\ 2 = Len(z)
  BY DEF Octet
<1>3. QuestionBytes(q) = s
  BY DEF QuestionBytes
<1> HIDE DEF b, z
<1>4. Appends(Octet, c, name, n, b, 2)
  BY <1>0, <1>1, AppendsLemma
<1>5. c \in Seq(Octet) /\ n + 2 = Len(c)
  BY <1>4 DEF Appends
<1> HIDE DEF c
<1>6. Appends(Octet, s, c, n + 2, z, 2)
  BY <1>2, <1>5, AppendsLemma
<1> HIDE DEF s
<1>7. s \in Seq(Octet) /\ Len(s) = n + 4
  BY <1>6 DEF Appends
<1>8. \A k \in 1 .. n : s[k] = name[k]
  <2>1. TAKE k \in 1 .. n
  <2>2. k \in 1 .. n + 2
    OBVIOUS
  <2>3. QED
    BY <1>4, <1>6, <2>2 DEF Appends
<1>9. s[n + 1] = b[1] /\ s[n + 2] = b[2]
  <2>1. n + 1 \in 1 .. n + 2 /\ n + 2 \in 1 .. n + 2 /\ 1 \in 1 .. 2 /\ 2 \in 1 .. 2
    OBVIOUS
  <2>2. QED
    BY <1>4, <1>6, <2>1 DEF Appends
<1>10. QED
  BY <1>0, <1>1, <1>3, <1>7, <1>8, <1>9

\* A record is a question with ten bytes and the data behind it.
LEMMA RecordBytesLemma ==
    ASSUME NEW r \in Records
    PROVE  /\ RecordBytes(r) \in Seq(Octet)
           /\ Len(RecordBytes(r)) = Len(r.name) + 10 + Len(r.rdata)
           /\ \A k \in 1 .. Len(r.name) : RecordBytes(r)[k] = r.name[k]
           /\ RecordBytes(r)[Len(r.name) + 1] * 256 + RecordBytes(r)[Len(r.name) + 2] = r.type
           /\ RecordBytes(r)[Len(r.name) + 9] * 256 + RecordBytes(r)[Len(r.name) + 10] = r.rdlength
<1> DEFINE q == QuestionBytes(r)
           z == <<0, 0, 0, 9>>
           b == Bytes16(r.rdlength)
           c == q \o z
           d == c \o b
           s == d \o r.rdata
<1>0. /\ r.name \in Seq(Octet) /\ r.type \in Octets2 /\ r.rdlength \in Octets2
      /\ r.rdata \in Seq(Octet)
  BY DEF Records
<1>1. PICK n \in Nat, m \in Nat : n = Len(r.name) /\ m = Len(r.rdata)
  BY <1>0, LenProperties
<1>2. /\ q \in Seq(Octet) /\ n + 4 = Len(q) /\ \A k \in 1 .. n : q[k] = r.name[k]
      /\ q[n + 1] * 256 + q[n + 2] = r.type
  BY <1>0, <1>1, QuestionBytesLemma
<1>3. b \in Seq(Octet) /\ 2 = Len(b) /\ b[1] * 256 + b[2] = r.rdlength
  BY <1>0, Bytes16Lemma
<1>4. z \in Seq(Octet) /\ 4 = Len(z)
  BY DEF Octet
<1>5. RecordBytes(r) = s
  BY DEF RecordBytes
<1> HIDE DEF q, b, z
<1>6. Appends(Octet, c, q, n + 4, z, 4)
  BY <1>2, <1>4, AppendsLemma
<1>7. c \in Seq(Octet) /\ n + 8 = Len(c)
  BY <1>6 DEF Appends
<1> HIDE DEF c
<1>8. Appends(Octet, d, c, n + 8, b, 2)
  BY <1>3, <1>7, AppendsLemma
<1>9. d \in Seq(Octet) /\ n + 10 = Len(d)
  BY <1>8 DEF Appends
<1> HIDE DEF d
<1>10. Appends(Octet, s, d, n + 10, r.rdata, m)
  BY <1>0, <1>1, <1>9, AppendsLemma
<1> HIDE DEF s
<1>11. s \in Seq(Octet) /\ Len(s) = n + 10 + m
  BY <1>10 DEF Appends
<1>12. ASSUME NEW k \in 1 .. n + 4
       PROVE  s[k] = q[k]
  <2>1. k \in 1 .. n + 8 /\ k \in 1 .. n + 10
    OBVIOUS
  <2>2. QED
    BY <1>6, <1>8, <1>10, <2>1 DEF Appends
<1>13. s[n + 9] = b[1] /\ s[n + 10] = b[2]
  <2>1. n + 9 \in 1 .. n + 10 /\ n + 10 \in 1 .. n + 10 /\ 1 \in 1 .. 2 /\ 2 \in 1 .. 2
        /\ (n + 8) + 1 = n + 9 /\ (n + 8) + 2 = n + 10
    OBVIOUS
  <2>2. s[n + 9] = d[n + 9] /\ s[n + 10] = d[n + 10]
    BY <1>10, <2>1 DEF Appends
  <2>3. d[(n + 8) + 1] = b[1] /\ d[(n + 8) + 2] = b[2]
    BY <1>8, <2>1 DEF Appends
  <2>4. QED
    BY <2>1, <2>2, <2>3
<1>14. \A k \in 1 .. n : s[k] = r.name[k]
  <2>1. TAKE k \in 1 .. n
  <2>2. k \in 1 .. n + 4
    OBVIOUS
  <2>3. QED
    BY <1>2, <1>12, <2>2
<1>15. s[n + 1] = q[n + 1] /\ s[n + 2] = q[n + 2]
  <2>1. n + 1 \in 1 .. n + 4 /\ n + 2 \in 1 .. n + 4
    OBVIOUS
  <2>2. QED
    BY <1>12, <2>1
<1>16. QED
  BY <1>1, <1>2, <1>3, <1>5, <1>11, <1>13, <1>14, <1>15

LEMMA FunctionIsASeq ==
    ASSUME NEW S, NEW n \in Nat, NEW s \in [1 .. n -> S]
    PROVE  s \in Seq(S) /\ Len(s) = n
OBVIOUS

LEMMA HeaderLemma ==
    ASSUME NEW counts \in [1 .. 4 -> Octets2]
    PROVE  /\ Header(counts) \in Seq(Octet) /\ Len(Header(counts)) = 12
           /\ \A i \in 1 .. 4 : Header(counts)[2 * i + 3] * 256 + Header(counts)[2 * i + 4] = counts[i]
<1> DEFINE b(i) == Bytes16(counts[i])
           s4 == [i \in 1 .. 4 |-> b(i)]
           h == <<7, 7, 1, 0>>
<1>1. \A i \in 1 .. 4 : /\ b(i) \in Seq(Octet) /\ 2 = Len(b(i))
                        /\ b(i)[1] * 256 + b(i)[2] = counts[i]
  BY Bytes16Lemma
<1>2. Header(counts) = h \o FlattenSeq(s4)
  BY DEF Header
<1>h. h \in Seq(Octet) /\ 4 = Len(h)
  BY DEF Octet
<1> HIDE DEF b, h
<1>3. s4 \in Seq(Seq(Octet)) /\ s4 # << >> /\ Len(s4) = 4 /\ \A i \in 1 .. 4 : s4[i] = b(i)
  <2>1. s4 \in [1 .. 4 -> Seq(Octet)] /\ \A i \in 1 .. 4 : s4[i] = b(i)
    BY <1>1
  <2> HIDE DEF s4
  <2>2. PICK n \in Nat : n = 4
    OBVIOUS
  <2>n. s4 \in [1 .. n -> Seq(Octet)]
    BY <2>1, <2>2
  <2>3. s4 \in Seq(Seq(Octet)) /\ Len(s4) = n
    BY <2>n, FunctionIsASeq
  <2>4. s4 # << >>
    <3>1. Len(<< >>) = 0 /\ n # 0
      BY <2>2
    <3>2. QED
      BY <2>3, <3>1
  <2>5. QED
    BY <2>1, <2>2, <2>3, <2>4
<1> HIDE DEF s4
<1>4. PICK f \in [1 .. 4 -> Seq(Octet)] : Flattens(f, s4, 4) /\ FlattenSeq(s4) = f[4]
  BY <1>3, FlattenSeqIs
<1>i. 1 \in 1 .. 4 /\ 2 \in 1 .. 4 /\ 3 \in 1 .. 4 /\ 4 \in 1 .. 4 /\ 1 \in 1 .. 2 /\ 2 \in 1 .. 2
  OBVIOUS
<1>5. f[1] = b(1) /\ f[2] = f[1] \o b(2) /\ f[3] = f[2] \o b(3) /\ f[4] = f[3] \o b(4)
  <2>1. f[1] = s4[1]
    BY <1>4, <1>i DEF Flattens
  <2>2. f[2] = Join(f[1], s4[2])
    BY <1>4, <1>i, 2 - 1 = 1, 2 # 1 DEF Flattens
  <2>3. f[3] = Join(f[2], s4[3])
    BY <1>4, <1>i, 3 - 1 = 2, 3 # 1 DEF Flattens
  <2>4. f[4] = Join(f[3], s4[4])
    BY <1>4, <1>i, 4 - 1 = 3, 4 # 1 DEF Flattens
  <2>5. QED
    BY <1>3, <1>i, <2>1, <2>2, <2>3, <2>4 DEF Join
<1>6. Appends(Octet, f[2], f[1], 2, b(2), 2)
  <2>1. /\ f[1] \in Seq(Octet) /\ 2 = Len(f[1])
        /\ b(2) \in Seq(Octet) /\ 2 = Len(b(2))
    BY <1>1, <1>5, <1>i
  <2>2. Appends(Octet, f[1] \o b(2), f[1], 2, b(2), 2)
    BY <2>1, AppendsLemma
  <2>3. QED
    BY <1>5, <2>2
<1>7. Appends(Octet, f[3], f[2], 4, b(3), 2)
  <2>1. /\ f[2] \in Seq(Octet) /\ 4 = Len(f[2])
        /\ b(3) \in Seq(Octet) /\ 2 = Len(b(3))
    BY <1>1, <1>i, <1>6 DEF Appends
  <2>2. Appends(Octet, f[2] \o b(3), f[2], 4, b(3), 2)
    BY <2>1, AppendsLemma
  <2>3. QED
    BY <1>5, <2>2
<1>8. Appends(Octet, f[4], f[3], 6, b(4), 2)
  <2>1. /\ f[3] \in Seq(Octet) /\ 6 = Len(f[3])
        /\ b(4) \in Seq(Octet) /\ 2 = Len(b(4))
    BY <1>1, <1>i, <1>7 DEF Appends
  <2>2. Appends(Octet, f[3] \o b(4), f[3], 6, b(4), 2)
    BY <2>1, AppendsLemma
  <2>3. QED
    BY <1>5, <2>2
<1>9. Appends(Octet, Header(counts), h, 4, f[4], 8)
  <2>1. f[4] \in Seq(Octet) /\ 8 = Len(f[4])
    BY <1>8 DEF Appends
  <2>2. QED
    BY <1>2, <1>4, <1>h, <2>1, AppendsLemma
<1>10. Header(counts) \in Seq(Octet) /\ Len(Header(counts)) = 12
  BY <1>9 DEF Appends
<1>11. ASSUME NEW i \in 1 .. 4, NEW j \in 1 .. 2
       PROVE  Header(counts)[2 * i + 2 + j] = b(i)[j]
  <2>1. 2 * i - 2 + j \in 1 .. 8 /\ 4 + (2 * i - 2 + j) = 2 * i + 2 + j
    OBVIOUS
  <2>2. Header(counts)[2 * i + 2 + j] = f[4][2 * i - 2 + j]
    BY <1>9, <2>1 DEF Appends
  <2>3. CASE i = 1
    <3>1. j \in 1 .. 2 /\ j \in 1 .. 4 /\ j \in 1 .. 6 /\ 2 * i - 2 + j = j
      BY <2>3
    <3>2. f[4][j] = f[3][j]
      BY <1>8, <3>1 DEF Appends
    <3>3. f[3][j] = f[2][j]
      BY <1>7, <3>1 DEF Appends
    <3>4. f[2][j] = f[1][j]
      BY <1>6, <3>1 DEF Appends
    <3>5. QED
      BY <1>5, <2>2, <2>3, <3>1, <3>2, <3>3, <3>4
  <2>4. CASE i = 2
    <3>1. 2 + j \in 1 .. 4 /\ 2 + j \in 1 .. 6 /\ 2 * i - 2 + j = 2 + j
      BY <2>4
    <3>2. f[4][2 + j] = f[3][2 + j]
      BY <1>8, <3>1 DEF Appends
    <3>3. f[3][2 + j] = f[2][2 + j]
      BY <1>7, <3>1 DEF Appends
    <3>4. f[2][2 + j] = b(2)[j]
      BY <1>6 DEF Appends
    <3>5. QED
      BY <2>2, <2>4, <3>1, <3>2, <3>3, <3>4
  <2>5. CASE i = 3
    <3>1. 4 + j \in 1 .. 6 /\ 2 * i - 2 + j = 4 + j
      BY <2>5
    <3>2. f[4][4 + j] = f[3][4 + j]
      BY <1>8, <3>1 DEF Appends
    <3>3. f[3][4 + j] = b(3)[j]
      BY <1>7 DEF Appends
    <3>4. QED
      BY <2>2, <2>5, <3>1, <3>2, <3>3
  <2>6. CASE i = 4
    <3>1. 2 * i - 2 + j = 6 + j
      BY <2>6
    <3>2. f[4][6 + j] = b(4)[j]
      BY <1>8 DEF Appends
    <3>3. QED
      BY <2>2, <2>6, <3>1, <3>2
  <2>7. QED
    BY <2>3, <2>4, <2>5, <2>6
<1>12. ASSUME NEW i \in 1 .. 4
       PROVE  Header(counts)[2 * i + 3] * 256 + Header(counts)[2 * i + 4] = counts[i]
  <2>1. 2 * i + 2 + 1 = 2 * i + 3 /\ 2 * i + 2 + 2 = 2 * i + 4
    OBVIOUS
  <2>2. Header(counts)[2 * i + 3] = b(i)[1] /\ Header(counts)[2 * i + 4] = b(i)[2]
    BY <1>11, <1>i, <2>1
  <2>3. QED
    BY <1>1, <2>2
<1>13. QED
  BY <1>10, <1>12

\* What a question and a record are sent as.
QuestionSeq(m) == [i \in DOMAIN m.questions |-> QuestionBytes(m.questions[i])]
RecordSeq(m) == [i \in DOMAIN m.records |-> RecordBytes(m.records[i])]

LEMMA MadeParts ==
    ASSUME NEW m \in Made
    PROVE  /\ m.counts \in [1 .. 4 -> Octets2] /\ m.tail \in Int /\ m.tail <= 2
           /\ m.questions \in Seq(Questions) /\ Len(m.questions) \in Nat
           /\ DOMAIN m.questions = 1 .. Len(m.questions)
           /\ m.records \in Seq(Records) /\ Len(m.records) \in Nat
           /\ DOMAIN m.records = 1 .. Len(m.records)
BY MadeAssumption, LenProperties

LEMMA SectionTypes ==
    ASSUME NEW m \in Made
    PROVE  /\ QuestionSeq(m) \in Seq(Seq(Octet)) /\ Len(QuestionSeq(m)) = Len(m.questions)
           /\ RecordSeq(m) \in Seq(Seq(Octet)) /\ Len(RecordSeq(m)) = Len(m.records)
<1>1. /\ m.questions \in Seq(Questions) /\ DOMAIN m.questions = 1 .. Len(m.questions)
      /\ m.records \in Seq(Records) /\ DOMAIN m.records = 1 .. Len(m.records)
  BY MadeParts
<1>2. PICK a \in Nat, b \in Nat : a = Len(m.questions) /\ b = Len(m.records)
  BY MadeParts
<1>3. ASSUME NEW i \in 1 .. a
      PROVE  QuestionBytes(m.questions[i]) \in Seq(Octet)
  <2>1. m.questions[i] \in Questions
    BY <1>1, <1>2, ElementOfSeq
  <2>2. QED
    BY <2>1, QuestionBytesLemma DEF Questions
<1>4. ASSUME NEW i \in 1 .. b
      PROVE  RecordBytes(m.records[i]) \in Seq(Octet)
  <2>1. m.records[i] \in Records
    BY <1>1, <1>2, ElementOfSeq
  <2>2. QED
    BY <2>1, RecordBytesLemma
<1>5. QuestionSeq(m) \in [1 .. a -> Seq(Octet)] /\ RecordSeq(m) \in [1 .. b -> Seq(Octet)]
  BY <1>1, <1>2, <1>3, <1>4 DEF QuestionSeq, RecordSeq
<1>6. QED
  BY <1>2, <1>5, FunctionIsASeq

\* The message before it is cut.
Flat(m) == FlattenSeq(QuestionSeq(m))
FlatRecords(m) == FlattenSeq(RecordSeq(m))

LEMMA WholeLemma ==
    ASSUME NEW m \in Made
    PROVE  \E front :
              /\ Appends(Octet, front, Header(m.counts), 12, Flat(m), Len(Flat(m)))
              /\ Appends(Octet, Whole(m), front, 12 + Len(Flat(m)), FlatRecords(m), Len(FlatRecords(m)))
              /\ Len(Flat(m)) \in Nat /\ Len(FlatRecords(m)) \in Nat
<1> DEFINE h == Header(m.counts)
           q == Flat(m)
           r == FlatRecords(m)
           front == h \o q
<1>1. h \in Seq(Octet) /\ 12 = Len(h)
  BY MadeParts, HeaderLemma
<1>2. q \in Seq(Octet) /\ Len(q) \in Nat /\ r \in Seq(Octet) /\ Len(r) \in Nat
  <2>1. q \in Seq(Octet) /\ r \in Seq(Octet)
    BY SectionTypes, FlattenSeqType DEF Flat, FlatRecords
  <2>2. QED
    BY <2>1, LenProperties
<1>3. Whole(m) = front \o r
  BY Zenon DEF Whole, Flat, FlatRecords, QuestionSeq, RecordSeq
<1> HIDE DEF h, q, r
<1>4. Appends(Octet, front, h, 12, q, Len(q))
  BY <1>1, <1>2, AppendsLemma
<1>5. front \in Seq(Octet) /\ 12 + Len(q) = Len(front)
  BY <1>4 DEF Appends
<1> HIDE DEF front
<1>6. Appends(Octet, front \o r, front, 12 + Len(q), r, Len(r))
  BY <1>2, <1>5, AppendsLemma
<1>7. QED
  BY <1>2, <1>3, <1>4, <1>6 DEF h, q, r

LEMMA AssembledLemma ==
    ASSUME NEW m \in Made
    PROVE  /\ Whole(m) \in Seq(Octet) /\ Len(Whole(m)) \in Nat
           /\ Assembled(m) \in Seq(Octet) /\ Len(Assembled(m)) \in Nat
           /\ Len(Assembled(m)) = IF Len(Whole(m)) + m.tail >= 1 THEN Len(Whole(m)) + m.tail ELSE 0
           /\ \A k \in 1 .. Len(Assembled(m)) : k <= Len(Whole(m)) => Assembled(m)[k] = Whole(m)[k]
<1> DEFINE w == Whole(m)
           z == <<0, 0>>
           v == w \o z
           e == Len(w) + m.tail
<1>1. w \in Seq(Octet) /\ Len(w) \in Nat
  <2>1. Whole(m) \in Seq(Octet)
    BY WholeLemma DEF Appends
  <2>2. QED
    BY <2>1, LenProperties
<1>2. z \in Seq(Octet) /\ 2 = Len(z)
  BY DEF Octet
<1>3. Assembled(m) = SubSeq(v, 1, e)
  BY DEF Assembled
<1> HIDE DEF w, z
<1>4. Appends(Octet, v, w, Len(w), z, 2)
  BY <1>1, <1>2, AppendsLemma
<1> HIDE DEF v
<1>5. PICK n \in Nat : n = Len(w)
  BY <1>1
<1>6. v \in Seq(Octet) /\ Len(v) = n + 2 /\ \A k \in 1 .. n : v[k] = w[k]
  BY <1>4, <1>5 DEF Appends
<1>7. e \in Int /\ e <= n + 2
  BY <1>5, MadeParts
<1>8. CASE 1 <= e
  <2>1. \A i \in 1 .. e : v[i] \in Octet
    <3>1. TAKE i \in 1 .. e
    <3>2. i \in 1 .. Len(v)
      BY <1>6, <1>7
    <3>3. QED
      BY <1>6, <3>2, ElementOfSeq
  <2>2. /\ SubSeq(v, 1, e) \in Seq(Octet) /\ Len(SubSeq(v, 1, e)) = (e - 1) + 1
        /\ \A i \in 1 .. (e - 1) + 1 : SubSeq(v, 1, e)[i] = v[(1 + i) - 1]
    BY <1>6, <1>7, <1>8, SubSeqProperties
  <2>3. (e - 1) + 1 = e /\ e \in Nat
    BY <1>7, <1>8
  <2>4. \A i \in 1 .. e : SubSeq(v, 1, e)[i] = v[i]
    <3>1. TAKE i \in 1 .. e
    <3>2. (1 + i) - 1 = i
      OBVIOUS
    <3>3. QED
      BY <2>2, <2>3, <3>2
  <2>5. ASSUME NEW k \in 1 .. e, k <= n
        PROVE  SubSeq(v, 1, e)[k] = w[k]
    <3>1. k \in 1 .. n
      BY <2>5
    <3>2. QED
      BY <1>6, <2>4, <3>1
  <2>6. QED
    BY <1>1, <1>3, <1>5, <1>8, <2>2, <2>3, <2>5 DEF w
<1>9. CASE ~(1 <= e)
  <2>1. SubSeq(v, 1, e) = << >>
    BY <1>7, <1>9
  <2>2. << >> \in Seq(Octet) /\ Len(<< >>) = 0 /\ 0 \in Nat
    OBVIOUS
  <2>3. Assembled(m) \in Seq(Octet) /\ Len(Assembled(m)) = 0 /\ Len(Assembled(m)) \in Nat
    BY <1>3, <2>1, <2>2
  <2>4. ~(e >= 1)
    BY <1>7, <1>9
  <2>5. \A k \in 1 .. Len(Assembled(m)) : FALSE
    BY <2>3
  <2> HIDE DEF e
  <2>6. QED
    BY <1>1, <2>3, <2>4, <2>5 DEF w, e
<1>10. QED
  BY <1>8, <1>9

LEMMA Two16 ==
    ASSUME NEW x \in 0 .. 255, NEW y \in 0 .. 255
    PROVE  x * 256 + y \in Octets2 /\ x * 256 + y \in Nat
BY DEF Octets2

LEMMA Get16Type ==
    ASSUME msg \in Seq(Octet)
    PROVE  /\ eom \in Nat
           /\ \A o \in Nat : Byte(o) \in Octet /\ Get16(o) \in Octets2 /\ Get16(o) \in Nat
<1>1. eom \in Nat
  BY LenProperties DEF eom
<1>2. ASSUME NEW o \in Nat
      PROVE  Byte(o) \in Octet
  <2>1. CASE o < eom
    <3>1. o + 1 \in 1 .. Len(msg)
      BY <1>1, <2>1 DEF eom
    <3>2. QED
      BY <2>1, <3>1, ElementOfSeq DEF Byte
  <2>2. CASE ~(o < eom)
    BY <2>2 DEF Byte, Octet
  <2>3. QED
    BY <2>1, <2>2
<1>3. ASSUME NEW o \in Nat
      PROVE  Get16(o) \in Octets2 /\ Get16(o) \in Nat
  <2>1. PICK x \in 0 .. 255, y \in 0 .. 255 : x = Byte(o) /\ y = Byte(o + 1)
    <3>1. Byte(o) \in Octet /\ Byte(o + 1) \in Octet
      BY <1>2, o + 1 \in Nat
    <3>2. QED
      BY <3>1 DEF Octet
  <2>2. x * 256 + y \in Octets2
    BY Two16
  <2>3. x * 256 + y \in Nat
    BY Two16
  <2>4. QED
    BY <2>1, <2>2, <2>3, Zenon DEF Get16
<1>4. QED
  BY <1>1, <1>2, <1>3

\* A label that is taken from the message is as long as it says.
LEMMA LabelTaken ==
    ASSUME UP!InsideInv, UP!Running, UP!n \in (UP!Labels \ {0}) \cup {UP!BITSTRING},
           NEW l \in UP!LabelLen(srcp), UP!Fits(l)
    PROVE  /\ l \in Nat /\ l # 0
           /\ IsLabel(SubSeq(msg, srcp + 1, srcp + 1 + l))
           /\ \A k \in 1 .. l + 1 : SubSeq(msg, srcp + 1, srcp + 1 + l)[k] = msg[srcp + k]
<1> DEFINE p == SubSeq(msg, srcp + 1, srcp + 1 + l)
<1>1. /\ msg \in Seq(Octet) /\ srcp \in 0 .. UP!eom - 1 /\ UP!eom \in Nat \ {0}
      /\ UP!n = UP!Byte(srcp)
  BY UnpackAssumed, UP!RunningInside
<1>2. UP!Byte(srcp) \in UP!Labels \cup {UP!BITSTRING} /\ UP!Byte(srcp) # 0
  BY <1>1 DEF UP!BITSTRING
<1>3. /\ \A i \in UP!LabelLen(srcp) : i \in 0 .. 63 /\ (UP!Byte(srcp) # 0 => i # 0)
      /\ srcp + 1 < UP!eom \/ UP!Byte(srcp) \in UP!Labels =>
            \A i \in UP!LabelLen(srcp) :
               i = IF UP!Byte(srcp) \in UP!Labels THEN UP!Byte(srcp)
                   ELSE UP!BitLabel(UP!Byte(srcp + 1))
  BY <1>1, <1>2, UnpackAssumed, UP!LabelLenLemma
<1>4. l \in 0 .. 63 /\ l # 0
  BY <1>2, <1>3, Zenon
<1>5. srcp + 1 + l < UP!eom /\ srcp + 1 < UP!eom /\ srcp \in Nat /\ l \in Nat
  BY <1>1, <1>4 DEF UP!Fits
<1>6. l = IF UP!Byte(srcp) \in UP!Labels THEN UP!Byte(srcp) ELSE UP!BitLabel(UP!Byte(srcp + 1))
  BY <1>3, <1>5, Zenon
<1>7. p \in Seq(Octet) /\ Len(p) = l + 1
  BY <1>1, <1>5, UnpackAssumed, UP!PieceLemma
<1>8. \A k \in 1 .. l + 1 : p[k] = msg[srcp + k]
  <2>1. PICK e \in Nat : e = Len(msg)
    BY <1>1, LenProperties
  <2>2. srcp + 1 + l < e
    BY <1>5, <2>1 DEF UP!eom
  <2>3. \A i \in srcp + 1 .. srcp + 1 + l : msg[i] \in Octet
    <3>1. TAKE i \in srcp + 1 .. srcp + 1 + l
    <3>2. i \in 1 .. Len(msg)
      BY <1>5, <2>1, <2>2
    <3>3. QED
      BY <1>1, <3>2, ElementOfSeq
  <2>4. \A k \in 1 .. (srcp + 1 + l) - (srcp + 1) + 1 : p[k] = msg[(srcp + 1) + k - 1]
    BY <1>5, <2>3, SubSeqProperties
  <2>5. SUFFICES ASSUME NEW k \in 1 .. l + 1
                 PROVE  p[k] = msg[srcp + k]
    OBVIOUS
  <2>6. (srcp + 1 + l) - (srcp + 1) + 1 = l + 1 /\ (srcp + 1) + k - 1 = srcp + k
    BY <1>5
  <2>7. QED
    BY <2>4, <2>6
<1> HIDE DEF p
<1>9. p[1] = UP!Byte(srcp) /\ p[2] = UP!Byte(srcp + 1)
  <2>1. 1 \in 1 .. l + 1 /\ 2 \in 1 .. l + 1 /\ (srcp + 1) + 1 = srcp + 2
    BY <1>4, <1>5
  <2>2. QED
    BY <1>8, <2>1 DEF UP!Byte
<1>10. LabelFits(p, 1) /\ 1 + LabelLen(p, 1) = Len(p)
  <2>1. CASE UP!Byte(srcp) \in UP!Labels
    <3>1. p[1] \in 1 .. NS_MAXLABEL /\ p[1] = l /\ p[1] # BITSTRING
      BY <1>2, <1>6, <1>9, <2>1 DEF UP!Labels, NS_MAXLABEL, BITSTRING
    <3>2. QED
      BY <1>5, <1>7, <3>1 DEF LabelFits, LabelLen
  <2>2. CASE UP!Byte(srcp) \notin UP!Labels
    <3>1. p[1] = BITSTRING
      BY <1>2, <1>9, <2>2 DEF UP!BITSTRING, BITSTRING
    <3>2. LabelLen(p, 1) = l
      <4>1. 1 + 1 = 2
        OBVIOUS
      <4>2. QED
        BY <1>6, <1>9, <2>2, <3>1, <4>1 DEF LabelLen, BitsOf, UP!BitLabel
    <3>3. 1 < Len(p) /\ 1 + l <= Len(p)
      BY <1>4, <1>5, <1>7
    <3>4. QED
      BY <1>5, <1>7, <3>1, <3>2, <3>3 DEF LabelFits
  <2>3. QED
    BY <2>1, <2>2
<1>11. p # << >>
  <2>1. Len(<< >>) = 0 /\ Len(p) # 0
    BY <1>5, <1>7
  <2>2. QED
    BY <2>1
<1>12. QED
  BY <1>4, <1>5, <1>7, <1>8, <1>10, <1>11 DEF IsLabel, p

\* What the unpacking loop writes is a name.
LEMMA NextWellFormed == UP!InsideInv /\ WellFormed(dst) /\ UP!Next => WellFormed(dst')
<1> SUFFICES ASSUME UP!InsideInv, WellFormed(dst), UP!Next
             PROVE  WellFormed(dst')
  OBVIOUS
<1>1. CASE dst' = dst
  BY <1>1
<1>2. ASSUME UP!Label, ~UP!Fail
      PROVE  WellFormed(dst')
  <2>1. UP!Running /\ UP!n \in (UP!Labels \ {0}) \cup {UP!BITSTRING}
    BY <1>2 DEF UP!Next, UP!Label
  <2>2. PICK l \in UP!LabelLen(srcp) : /\ UP!Fits(l)
                                       /\ dst' = dst \o SubSeq(msg, srcp + 1, srcp + 1 + l)
    BY <1>2 DEF UP!Label
  <2>3. IsLabel(SubSeq(msg, srcp + 1, srcp + 1 + l))
    BY <2>1, <2>2, LabelTaken
  <2>4. QED
    BY <2>2, <2>3, LabelAppended
<1>3. QED
  BY <1>1, <1>2 DEF UP!Next, UP!Pointer, UP!Root, UP!IllegalType, UP!Fail

-------------------------------------------------------------------------------
(* Inside the message *)

\* Whoever goes on has a header before him, and a name that is unpacked is one.
ReadsInv ==
    /\ ReadsInside
    /\ pc \notin {"header", "refused"} => eom >= NS_HFIXEDSZ
    /\ pc \in {"question name", "answer name"} => UnpackInv /\ WellFormed(dst)

LEMMA InitReads == Init => ReadsInv
<1> SUFFICES ASSUME Init
             PROVE  ReadsInv
  OBVIOUS
<1> USE DEF Init
<1>1. msg \in Seq(Octet) /\ eom \in Nat
  BY AssembledLemma DEF eom
<1>2. starts \in [0 .. 3 -> 0 .. eom]
  BY <1>1
<1>3. << >> \in Seq(Octet) /\ Len(<< >>) = 0
  OBVIOUS
<1>4. TypeOK
  BY <1>1, <1>2, <1>3 DEF TypeOK, ns_t_invalid, Octets2
<1>5. U!StaysInside
  BY <1>1, <1>3 DEF U!StaysInside, U!TypeOK, U!Running, U!eom, eom, NS_MAXCDNAME
<1>6. QED
  BY <1>1, <1>4, <1>5 DEF ReadsInv, ReadsInside

LEMMA UnpackBegins ==
    ASSUME msg \in Seq(Octet), eom >= NS_HFIXEDSZ, NEW o \in 0 .. eom, Unpack(o), msg' = msg
    PROVE  UP!Begins' /\ UnpackInv' /\ WellFormed(dst)' /\ U!StaysInside'
<1>1. eom \in Nat \ {0}
  BY Get16Type DEF NS_HFIXEDSZ
<1>2. UP!Begins'
  BY <1>1 DEF UP!Begins, UP!eom, eom, Unpack
<1>3. UnpackInv'
  <2>1. UP!Begins' => UnpackInv'
    BY BeginsUnpack, PTL
  <2>2. QED
    BY <1>2, <2>1
<1>4. WellFormed(dst)'
  BY EmptyWellFormed DEF Unpack
<1>5. U!StaysInside'
  <2>1. UP!StaysInside'
    BY <1>3 DEF UnpackInv, UP!InsideInv
  <2>2. U!StaysInside' <=> UP!StaysInside'
    BY SameUnpack, PTL
  <2>3. QED
    BY <2>1, <2>2
<1>6. QED
  BY <1>2, <1>3, <1>4, <1>5

\* A name that could be written as text.
LEMMA ExpandedType ==
    ASSUME WellFormed(dst), U!StaysInside
    PROVE  /\ Expanded(dst) \in Seq(Octet) /\ Expanded(dst) # NoName
           /\ Expanded(dst) = IF TextOf(dst) = <<DOT>> THEN << >> ELSE TextOf(dst)
<1>1. Len(dst) < NS_MAXCDNAME
  <2>1. Len(dst) \in Nat /\ Len(dst) + 1 <= NS_MAXCDNAME /\ NS_MAXCDNAME \in Nat
    BY LenProperties DEF U!StaysInside, WellFormed, NS_MAXCDNAME
  <2>2. QED
    BY <2>1
<1>2. /\ Ntop(dst, NS_MAXDNAME) = TextOf(dst)
      /\ TextOf(dst) \in Seq(Octet) /\ TextOf(dst) # NoName
  BY <1>1, NtopLemma
<1>3. << >> \in Seq(Octet) /\ << >> # NoName
  BY DEF NoName
<1>4. QED
  BY <1>2, <1>3 DEF Expanded

LEMMA RrNameType ==
    ASSUME NEW name \in Seq(Octet)
    PROVE  RrName(name) \in Seq(Octet)
<1>1. <<DOT>> \in Seq(Octet)
  BY DEF DOT, Octet
<1>2. QED
  BY <1>1 DEF RrName

LEMMA QueryType ==
    ASSUME NEW chars \in Seq(Octet), NEW t \in Octets2
    PROVE  Query(chars, t) = NoMessage \/ Query(chars, t) \in Seq(Octet)
<1> DEFINE bytes == Pton(chars, NS_MAXCDNAME)
           room == NS_PACKETSZ - NS_HFIXEDSZ - 4
           packed == Packed(bytes, room)
           h == <<7, 7, 1, 0, 0, 1, 0, 0, 0, 0, 0, 0>>
<1>1. bytes \in Seq(Octet) \/ bytes = NoName
  BY PtonType
<1>2. CASE bytes = NoName \/ packed = NoName
  BY <1>2 DEF Query
<1>3. CASE bytes # NoName /\ packed # NoName
  <2>1. bytes \in Seq(Octet)
    BY <1>1, <1>3
  <2>2. packed = bytes \o <<0>>
    BY <1>3 DEF Packed
  <2>3. packed \in Seq(Octet)
    <3>1. <<0>> \in Seq(Octet)
      BY DEF Octet
    <3> HIDE DEF bytes, room
    <3>2. QED
      BY <2>1, <2>2, <3>1, ConcatProperties
  <2>4. h \in Seq(Octet) /\ Bytes16(t) \in Seq(Octet) /\ <<0, 1>> \in Seq(Octet)
    BY Bytes16Lemma DEF Octet
  <2>5. Query(chars, t) = Join(Join(Join(h, packed), Bytes16(t)), <<0, 1>>)
    BY <1>3 DEF Query, Join
  <2> HIDE DEF h, packed
  <2>6. Join(Join(Join(h, packed), Bytes16(t)), <<0, 1>>) \in Seq(Octet)
    BY <2>3, <2>4, JoinProperties
  <2>7. QED
    BY <2>5, <2>6
<1>4. QED
  BY <1>2, <1>3

\* A section that is skipped stays behind where it began, and what is read of it
\* lies inside the message.
LEMMA SkipNameLemma ==
    ASSUME msg \in Seq(Octet), NEW o \in Nat, SkipName(o) # -1
    PROVE  SkipName(o) \in Nat /\ o <= SkipName(o) /\ SkipName(o) <= eom
<1>1. eom \in Nat
  BY Get16Type
<1>2. o \in 0 .. eom /\ SkipName(o) = UP!Skip[o]
  BY <1>1, SameUnpack DEF SkipName
<1>3. UP!eom = eom
  BY DEF UP!eom, eom
<1>4. o \in 0 .. UP!eom + 64
  BY <1>1, <1>2, <1>3
<1>5. UP!SkipsTo(o)
  BY <1>4, UnpackAssumed, UP!SkipType
<1>6. QED
  BY <1>1, <1>2, <1>3, <1>5 DEF UP!SkipsTo

LEMMA NextReads == ReadsInv /\ [Next]_vars => ReadsInv'
<1>1. ASSUME ReadsInv, Next
      PROVE  ReadsInv'
  <2>1. made' = made /\ msg' = msg /\ eom' = eom
    BY <1>1 DEF Next, eom
  <2>2. TypeOK /\ U!StaysInside /\ read <= eom /\ read \in Nat /\ msg \in Seq(Octet) /\ eom \in Nat
    BY <1>1, Get16Type DEF ReadsInv, ReadsInside, TypeOK
  <2>3. /\ \A o \in Nat : Get16(o) \in Octets2 /\ Get16(o) \in Nat
        /\ \A s \in 0 .. 3 : Count(s) \in Octets2
    <3>1. \A o \in Nat : Get16(o) \in Octets2 /\ Get16(o) \in Nat
      BY <2>2, Get16Type
    <3>2. \A s \in 0 .. 3 : 4 + 2 * s \in Nat
      OBVIOUS
    <3>3. QED
      BY <3>1, <3>2 DEF Count
  <2>t. /\ sect \in 0 .. 3 /\ left \in Octets2 /\ ptr \in Nat
        /\ starts \in [0 .. 3 -> 0 .. eom] /\ starts[0] \in 0 .. eom /\ starts[1] \in 0 .. eom
        /\ result \in -2 .. eom
    <3>1. /\ sect \in 0 .. 3 /\ left \in Octets2 /\ ptr \in Nat
          /\ starts \in [0 .. 3 -> 0 .. eom]
      BY <2>2 DEF TypeOK
    <3>2. 0 \in 0 .. 3 /\ 1 \in 0 .. 3
      OBVIOUS
    <3>3. result \in -2 .. eom
      BY <2>2 DEF U!StaysInside, U!TypeOK, U!eom, eom
    <3>4. QED
      BY <3>1, <3>2, <3>3
  <2>4. UNCHANGED unpackVars => U!StaysInside'
    <3>1. SUFFICES ASSUME UNCHANGED unpackVars
                   PROVE  U!StaysInside'
      OBVIOUS
    <3>2. QED
      BY <2>1, <2>2, <3>1 DEF unpackVars, U!StaysInside, U!TypeOK, U!Running, U!eom
  <2>5. CASE Refuse
    <3>1. TypeOK'
      BY <2>1, <2>2, <2>5 DEF TypeOK, Refuse, parseVars
    <3>2. QED
      BY <2>1, <2>2, <2>4, <2>5, <3>1 DEF ReadsInv, ReadsInside, Refuse
  <2>6. ASSUME ParseHeader, ~Refuse
        PROVE  ReadsInv'
    <3>1. /\ eom >= NS_HFIXEDSZ /\ pc' = "skip" /\ sect' = 0 /\ left' = Count(0)
          /\ ptr' = NS_HFIXEDSZ /\ starts' = [starts EXCEPT ![0] = NS_HFIXEDSZ]
          /\ Read(NS_HFIXEDSZ) /\ UNCHANGED <<text, type, asked, unpackVars>>
      BY <2>6 DEF ParseHeader
    <3>2. read' \in Nat /\ read' <= eom /\ NS_HFIXEDSZ \in Nat /\ NS_HFIXEDSZ \in 0 .. eom
      BY <2>2, <3>1 DEF Read, NS_HFIXEDSZ
    <3>3. starts' \in [0 .. 3 -> 0 .. eom] /\ left' \in Octets2
      <4>1. 0 \in 0 .. 3
        OBVIOUS
      <4>2. left' \in Octets2
        BY <2>3, <3>1, <4>1
      <4>3. starts' \in [0 .. 3 -> 0 .. eom]
        BY <2>t, <3>1, <3>2
      <4>4. QED
        BY <4>2, <4>3
    <3>t. ptr' \in Nat /\ sect' \in 0 .. 3
      BY <3>1 DEF NS_HFIXEDSZ
    <3>4. TypeOK'
      BY <2>1, <2>2, <3>1, <3>2, <3>3, <3>t DEF TypeOK
    <3>5. QED
      BY <2>1, <2>4, <3>1, <3>2, <3>4 DEF ReadsInv, ReadsInside
  <2>7. ASSUME SkipRecord, ~Refuse
        PROVE  ReadsInv'
    <3> DEFINE name == SkipName(ptr)
               fields == name + 4
    <3>1. /\ pc = "skip" /\ left > 0 /\ name # -1 /\ (sect # 0 => FieldsFit(fields))
          /\ ptr' = (IF sect = 0 THEN fields ELSE AfterData(fields))
          /\ Read(IF sect = 0 THEN name ELSE fields + 6)
          /\ left' = left - 1
          /\ UNCHANGED <<pc, sect, starts, text, type, asked, unpackVars>>
      BY <2>7 DEF SkipRecord
    <3>2. name \in Nat /\ name <= eom
      <4>1. ptr \in Nat
        BY <2>2 DEF TypeOK
      <4>2. QED
        BY <2>2, <3>1, <4>1, SkipNameLemma
    <3> HIDE DEF name
    <3>3. fields \in Nat /\ fields + 4 \in Nat /\ AfterData(fields) \in Nat
      BY <2>3, <3>2 DEF AfterData
    <3>4. read' \in Nat /\ read' <= eom
      BY <2>2, <3>1, <3>2 DEF Read, FieldsFit
    <3>5. left' \in Octets2
      <4>1. left \in Octets2
        BY <2>2 DEF TypeOK
      <4>2. QED
        BY <3>1, <4>1 DEF Octets2
    <3>6. TypeOK'
      BY <2>1, <2>2, <3>1, <3>3, <3>4, <3>5 DEF TypeOK
    <3>7. eom >= NS_HFIXEDSZ /\ pc' = "skip"
      BY <1>1, <3>1 DEF ReadsInv
    <3>8. QED
      BY <2>1, <2>4, <3>1, <3>4, <3>6, <3>7 DEF ReadsInv, ReadsInside
  <2>8. ASSUME EndSection, ~Refuse
        PROVE  ReadsInv'
    <3>1. /\ pc = "skip" /\ eom >= NS_HFIXEDSZ
          /\ UNCHANGED <<ptr, text, type, asked, read, unpackVars>>
      BY <1>1, <2>8 DEF EndSection, ReadsInv, parseVars
    <3>2. CASE UNCHANGED parseVars /\ pc' = "question"
      <4>1. TypeOK'
        BY <2>1, <2>2, <3>1, <3>2 DEF TypeOK, parseVars
      <4>2. QED
        BY <2>1, <2>2, <2>4, <3>1, <3>2, <4>1 DEF ReadsInv, ReadsInside
    <3>3. CASE /\ SectionFits /\ sect < 3 /\ sect' = sect + 1 /\ left' = Count(sect + 1)
               /\ starts' = [starts EXCEPT ![sect + 1] = ptr] /\ UNCHANGED pc
      <4>1. sect + 1 \in 0 .. 3 /\ ptr \in 0 .. eom
        BY <2>t, <3>3, <2>2 DEF SectionFits
      <4>2. sect' \in 0 .. 3 /\ left' \in Octets2 /\ starts' \in [0 .. 3 -> 0 .. eom]
        BY <2>2, <2>3, <3>3, <4>1 DEF TypeOK
      <4>3. TypeOK'
        BY <2>1, <2>2, <3>1, <3>3, <4>2 DEF TypeOK
      <4>4. QED
        BY <2>1, <2>2, <2>4, <3>1, <3>3, <4>3 DEF ReadsInv, ReadsInside
    <3>4. QED
      BY <2>8, <3>2, <3>3 DEF EndSection
  <2>9. ASSUME ParseQuestion, ~Refuse
        PROVE  ReadsInv'
    <3>1. /\ pc = "question" /\ pc' = "question name" /\ Unpack(starts[0])
          /\ UNCHANGED <<parseVars, text, type, asked, read>>
      BY <2>9 DEF ParseQuestion
    <3>2. eom >= NS_HFIXEDSZ /\ starts[0] \in 0 .. eom
      BY <1>1, <2>t, <3>1 DEF ReadsInv
    <3>3. UnpackInv' /\ WellFormed(dst)' /\ U!StaysInside'
      BY <2>1, <2>2, <3>1, <3>2, UnpackBegins
    <3>4. TypeOK'
      BY <2>1, <2>2, <3>1 DEF TypeOK, parseVars
    <3>5. QED
      BY <2>1, <2>2, <3>1, <3>2, <3>3, <3>4 DEF ReadsInv, ReadsInside
  <2>10. CASE UnpackStep
    <3>1. /\ pc \in {"question name", "answer name"} /\ U!Next
          /\ UNCHANGED <<pc, parseVars, text, type, asked, read>>
      BY <2>10 DEF UnpackStep
    <3>2. UP!Next /\ UnpackInv /\ WellFormed(dst) /\ eom >= NS_HFIXEDSZ
      BY <1>1, <3>1, SameUnpack DEF ReadsInv
    <3>3. UnpackInv'
      BY <3>2, NextUnpack
    <3>4. WellFormed(dst)'
      BY <3>2, NextWellFormed DEF UnpackInv, WellFormed, Marked, LabelFits, LabelLen, BitsOf
    <3>5. U!StaysInside'
      <4>1. UP!StaysInside'
        BY <3>3 DEF UnpackInv, UP!InsideInv
      <4>2. U!StaysInside' <=> UP!StaysInside'
        BY SameUnpack, PTL
      <4>3. QED
        BY <4>1, <4>2
    <3>6. TypeOK'
      BY <2>1, <2>2, <3>1 DEF TypeOK, parseVars
    <3>7. QED
      BY <2>1, <2>2, <3>1, <3>2, <3>3, <3>4, <3>5, <3>6 DEF ReadsInv, ReadsInside
  <2>11. ASSUME QuestionName, ~Refuse
         PROVE  ReadsInv'
    <3> DEFINE fields == starts[0] + result
    <3>1. /\ pc = "question name" /\ ~U!Running /\ result # -1 /\ ~(fields + 4 > eom)
          /\ text' = RrName(Expanded(dst)) /\ type' = Get16(fields) /\ Read(fields + 2)
          /\ pc' = (IF made.kind = "query" THEN "stored" ELSE "answer")
          /\ UNCHANGED <<parseVars, asked, unpackVars>>
      BY <2>11, Zenon DEF QuestionName
    <3>2. fields \in Nat
      <4>1. result \in -2 .. eom /\ result # -2 /\ result # -1 /\ starts[0] \in 0 .. eom
        BY <2>t, <3>1 DEF U!Running
      <4>2. PICK a \in Nat, r \in Nat : a = starts[0] /\ r = result
        BY <2>2, <4>1
      <4>3. QED
        BY <4>2
    <3> HIDE DEF fields
    <3>3. text' \in Seq(Octet)
      <4>1. WellFormed(dst)
        BY <1>1, <3>1 DEF ReadsInv
      <4>2. QED
        BY <2>2, <3>1, <4>1, ExpandedType, RrNameType
    <3>4. read' \in Nat /\ read' <= eom /\ type' \in Octets2
      <4>1. read' = (IF fields + 2 > read THEN fields + 2 ELSE read) /\ type' = Get16(fields)
        BY <3>1 DEF Read
      <4>2. ~(fields + 4 > eom)
        BY <3>1
      <4>5. fields + 2 \in Nat /\ fields + 2 <= eom
        BY <2>2, <3>2, <4>2
      <4>3. type' \in Octets2
        BY <2>3, <3>2, <4>1
      <4>4. QED
        BY <2>2, <4>1, <4>3, <4>5
    <3>5. pc' \in {"stored", "answer"} /\ eom >= NS_HFIXEDSZ
      BY <1>1, <3>1 DEF ReadsInv
    <3>6. TypeOK'
      BY <2>1, <2>2, <3>1, <3>3, <3>4, <3>5 DEF TypeOK, parseVars
    <3>7. QED
      BY <2>1, <2>4, <3>1, <3>4, <3>5, <3>6 DEF ReadsInv, ReadsInside
  <2>12. CASE ParseAnswer
    <3>1. pc = "answer" /\ UNCHANGED <<parseVars, text, asked, read>> /\ eom >= NS_HFIXEDSZ
      BY <1>1, <2>12 DEF ParseAnswer, ReadsInv
    <3>2. CASE Count(1) = 0
      <4>1. type' = ns_t_invalid /\ pc' = "returned" /\ UNCHANGED unpackVars
        BY <2>12, <3>2 DEF ParseAnswer
      <4>2. TypeOK'
        BY <2>1, <2>2, <3>1, <4>1 DEF TypeOK, parseVars, ns_t_invalid, Octets2
      <4>3. QED
        BY <2>1, <2>2, <2>4, <3>1, <4>1, <4>2 DEF ReadsInv, ReadsInside
    <3>3. CASE Count(1) # 0
      <4>1. pc' = "answer name" /\ Unpack(starts[1]) /\ type' = type
        BY <2>12, <3>3 DEF ParseAnswer
      <4>2. starts[1] \in 0 .. eom
        BY <2>t
      <4>3. UnpackInv' /\ WellFormed(dst)' /\ U!StaysInside'
        BY <2>1, <2>2, <3>1, <4>1, <4>2, UnpackBegins
      <4>4. TypeOK'
        BY <2>1, <2>2, <3>1, <4>1 DEF TypeOK, parseVars
      <4>5. QED
        BY <2>1, <2>2, <3>1, <4>1, <4>3, <4>4 DEF ReadsInv, ReadsInside
    <3>4. QED
      BY <3>2, <3>3
  <2>13. ASSUME AnswerName, ~Refuse
         PROVE  ReadsInv'
    <3> DEFINE fields == starts[1] + result
    <3>1. /\ pc = "answer name" /\ ~U!Running /\ result # -1
          /\ FieldsFit(fields + 4) /\ type' = Get16(fields) /\ Read(fields + 10)
          /\ pc' = "returned" /\ UNCHANGED <<parseVars, text, asked, unpackVars>>
      BY <2>13, Zenon DEF AnswerName
    <3>2. fields \in Nat /\ fields + 10 <= eom
      <4>1. result \in -2 .. eom /\ result # -2 /\ result # -1 /\ starts[1] \in 0 .. eom
        BY <2>t, <3>1 DEF U!Running
      <4>2. PICK a \in Nat, r \in Nat : a = starts[1] /\ r = result
        BY <2>2, <4>1
      <4>3. fields \in Nat
        BY <4>2
      <4>4. fields + 4 + 6 <= eom
        BY <3>1 DEF FieldsFit
      <4>5. QED
        BY <2>2, <4>3, <4>4
    <3> HIDE DEF fields
    <3>3. read' \in Nat /\ read' <= eom /\ type' \in Octets2
      <4>1. read' = (IF fields + 10 > read THEN fields + 10 ELSE read) /\ type' = Get16(fields)
        BY <3>1 DEF Read
      <4>2. type' \in Octets2
        BY <2>3, <3>2, <4>1
      <4>3. QED
        BY <2>2, <3>2, <4>1, <4>2
    <3>4. eom >= NS_HFIXEDSZ
      BY <1>1, <3>1 DEF ReadsInv
    <3>5. TypeOK'
      BY <2>1, <2>2, <3>1, <3>3 DEF TypeOK, parseVars
    <3>6. QED
      BY <2>1, <2>4, <3>1, <3>3, <3>4, <3>5 DEF ReadsInv, ReadsInside
  <2>14. CASE MkQuery
    <3>1. /\ pc = "stored" /\ asked' = Query(text, type) /\ pc' = "sent"
          /\ UNCHANGED <<parseVars, text, type, read, unpackVars>> /\ eom >= NS_HFIXEDSZ
      BY <1>1, <2>14 DEF MkQuery, ReadsInv
    <3>2. asked' = NoMessage \/ asked' \in Seq(Octet)
      BY <2>2, <3>1, QueryType DEF TypeOK
    <3>3. TypeOK'
      BY <2>1, <2>2, <3>1, <3>2 DEF TypeOK, parseVars, NoMessage
    <3>4. QED
      BY <2>1, <2>2, <2>4, <3>1, <3>3 DEF ReadsInv, ReadsInside
  <2>15. QED
    BY <1>1, <2>5, <2>6, <2>7, <2>8, <2>9, <2>10, <2>11, <2>12, <2>13, <2>14 DEF Next
<1>2. ASSUME ReadsInv, UNCHANGED vars
      PROVE  ReadsInv'
  <2>1. ReadsInside'
    BY <1>2 DEF ReadsInv, vars, parseVars, unpackVars, ReadsInside, TypeOK, eom, U!StaysInside,
                U!TypeOK, U!Running, U!eom
  <2>2. UnpackInv => UnpackInv'
    <3>1. UNCHANGED UP!vars
      BY <1>2 DEF vars, unpackVars, UP!vars
    <3>2. QED
      BY <3>1, NextUnpack
  <2>3. WellFormed(dst) => WellFormed(dst)'
    BY <1>2 DEF vars, unpackVars
  <2>4. QED
    BY <1>2, <2>1, <2>2, <2>3 DEF ReadsInv, vars, eom
<1>3. QED
  BY <1>1, <1>2

\* Whatever a message says of itself and wherever it was cut, the parser reads it
\* inside its bounds and writes names inside theirs.
THEOREM MessageReadInside == Spec => []ReadsInside
<1>1. ReadsInv => ReadsInside
  BY DEF ReadsInv
<1>2. QED
  BY InitReads, NextReads, <1>1, PTL DEF Spec

-------------------------------------------------------------------------------
(* Where the records of a message are *)

Asked(m) == Len(m.questions)
Items(m) == Len(m.questions) + Len(m.records)

\* The names in their order.
NameIn(m, k) == IF k <= Asked(m) THEN m.questions[k].name ELSE m.records[k - Asked(m)].name
TypeIn(m, k) == IF k <= Asked(m) THEN m.questions[k].type ELSE m.records[k - Asked(m)].type

\* Where each record begins, and where the last one ends.
Laid(m, off) ==
    /\ off \in [0 .. Items(m) -> Nat] /\ off[0] = 12 /\ off[Items(m)] = Len(Whole(m))
    /\ \A k \in 1 .. Items(m) :
          LET name == NameIn(m, k)
              begin == off[k - 1]
              fields == begin + Len(name)
          IN /\ name \in Seq(Octet)
             /\ \A i \in 1 .. Len(name) : Whole(m)[begin + i] = name[i]
             /\ Whole(m)[fields + 1] * 256 + Whole(m)[fields + 2] = TypeIn(m, k)
             /\ k <= Asked(m) => off[k] = fields + 4
             /\ k > Asked(m) =>
                   LET r == m.records[k - Asked(m)]
                   IN /\ off[k] = fields + 10 + Len(r.rdata) /\ Len(r.rdata) \in Nat
                      /\ Whole(m)[fields + 9] * 256 + Whole(m)[fields + 10] = r.rdlength

Offsets(m) == CHOOSE off : Laid(m, off)

LEMMA OffsetsLemma ==
    ASSUME NEW m \in Made
    PROVE  Laid(m, Offsets(m))
<1> DEFINE q == QuestionSeq(m)
           r == RecordSeq(m)
           w == Whole(m)
<1>1. PICK a \in Nat, b \in Nat : a = Len(m.questions) /\ b = Len(m.records)
  BY MadeParts
<1>2. /\ q \in Seq(Seq(Octet)) /\ Len(q) = a
      /\ r \in Seq(Seq(Octet)) /\ Len(r) = b
  BY <1>1, SectionTypes
<1>3. /\ \A j \in 1 .. a : m.questions[j] \in Questions /\ q[j] = QuestionBytes(m.questions[j])
      /\ \A j \in 1 .. b : m.records[j] \in Records /\ r[j] = RecordBytes(m.records[j])
  <2>1. /\ DOMAIN m.questions = 1 .. a /\ m.questions \in Seq(Questions)
        /\ DOMAIN m.records = 1 .. b /\ m.records \in Seq(Records)
    BY <1>1, MadeParts
  <2>2. QED
    BY <1>1, <2>1, ElementOfSeq DEF QuestionSeq, RecordSeq
<1>4. PICK front : /\ Appends(Octet, front, Header(m.counts), 12, Flat(m), Len(Flat(m)))
                   /\ Appends(Octet, w, front, 12 + Len(Flat(m)), FlatRecords(m), Len(FlatRecords(m)))
                   /\ Len(Flat(m)) \in Nat /\ Len(FlatRecords(m)) \in Nat
  BY WholeLemma
<1>5. PICK qo : Places(qo, q, Flat(m))
  BY <1>2, FlattenSeqPlaces DEF Flat
<1>6. PICK ro : Places(ro, r, FlatRecords(m))
  BY <1>2, FlattenSeqPlaces DEF FlatRecords
<1>7. PICK f \in Nat, g \in Nat : f = Len(Flat(m)) /\ g = Len(FlatRecords(m))
  BY <1>4
<1> HIDE DEF q, r, w
<1>8. /\ Len(w) = 12 + f + g
      /\ \A i \in 1 .. f : w[12 + i] = Flat(m)[i]
      /\ \A i \in 1 .. g : w[12 + f + i] = FlatRecords(m)[i]
  <2>1. Len(w) = 12 + f + g
    BY <1>4, <1>7 DEF Appends
  <2>2. ASSUME NEW i \in 1 .. f
        PROVE  w[12 + i] = Flat(m)[i]
    <3>1. 12 + i \in 1 .. 12 + f
      OBVIOUS
    <3>2. QED
      BY <1>4, <1>7, <3>1 DEF Appends
  <2>3. QED
    BY <1>4, <1>7, <2>1, <2>2 DEF Appends
<1>9. /\ qo \in [0 .. a -> Nat] /\ qo[0] = 0 /\ qo[a] = f
      /\ \A j \in 1 .. a : /\ qo[j] = qo[j - 1] + Len(q[j])
                           /\ \A k \in 1 .. Len(q[j]) : Flat(m)[qo[j - 1] + k] = q[j][k]
  BY <1>2, <1>5, <1>7 DEF Places
<1>10. /\ ro \in [0 .. b -> Nat] /\ ro[0] = 0 /\ ro[b] = g
       /\ \A j \in 1 .. b : /\ ro[j] = ro[j - 1] + Len(r[j])
                            /\ \A k \in 1 .. Len(r[j]) : FlatRecords(m)[ro[j - 1] + k] = r[j][k]
  BY <1>2, <1>6, <1>7 DEF Places
<1> DEFINE off == [k \in 0 .. a + b |-> IF k <= a THEN 12 + qo[k] ELSE 12 + f + ro[k - a]]
<1>11. /\ \A k \in 0 .. a + b : off[k] \in Nat
       /\ \A k \in 0 .. a : off[k] = 12 + qo[k]
       /\ \A j \in 0 .. b : off[a + j] = 12 + f + ro[j]
  <2>1. \A k \in 0 .. a : off[k] = 12 + qo[k] /\ off[k] \in Nat
    BY <1>9
  <2>2. ASSUME NEW j \in 0 .. b
        PROVE  off[a + j] = 12 + f + ro[j] /\ off[a + j] \in Nat
    <3>1. a + j \in 0 .. a + b /\ (a + j) - a = j /\ a \in 0 .. a
      OBVIOUS
    <3>2. CASE j = 0
      BY <1>9, <1>10, <2>1, <3>1, <3>2
    <3>3. CASE j # 0
      BY <1>10, <3>1, <3>3
    <3>4. QED
      BY <3>2, <3>3
  <2>3. ASSUME NEW k \in 0 .. a + b
        PROVE  off[k] \in Nat
    <3>1. CASE k <= a
      <4>1. k \in 0 .. a
        BY <3>1
      <4>2. QED
        BY <2>1, <4>1, Zenon
    <3>2. CASE ~(k <= a)
      <4>1. k - a \in 0 .. b /\ a + (k - a) = k
        BY <3>2
      <4>2. QED
        BY <2>2, <4>1
    <3>3. QED
      BY <3>1, <3>2
  <2> HIDE DEF off
  <2>4. QED
    BY <2>1, <2>2, <2>3
<1>12. off \in [0 .. a + b -> Nat]
  <2>1. off = [k \in 0 .. a + b |-> off[k]]
    OBVIOUS
  <2> HIDE DEF off
  <2>2. QED
    BY <1>11, <2>1
<1> HIDE DEF off
<1>13. off[0] = 12 /\ off[a + b] = Len(w)
  <2>1. 0 \in 0 .. a /\ b \in 0 .. b
    OBVIOUS
  <2>2. QED
    BY <1>8, <1>9, <1>10, <1>11, <2>1
<1>14. ASSUME NEW k \in 1 .. a, NEW i \in 1 .. Len(q[k])
       PROVE  w[off[k - 1] + i] = q[k][i]
  <2>1. Flat(m)[qo[k - 1] + i] = q[k][i] /\ qo[k] = qo[k - 1] + Len(q[k])
    BY <1>9
  <2>2. off[k - 1] = 12 + qo[k - 1] /\ qo[k - 1] \in Nat /\ qo[k] \in Nat
    BY <1>9, <1>11, k - 1 \in 0 .. a
  <2>3. qo[k] <= f
    <3>1. ASSUME NEW j \in 1 .. a
          PROVE  qo[j - 1] <= qo[j]
      <4>1. q[j] \in Seq(Octet) /\ j - 1 \in 0 .. a /\ qo[j] = qo[j - 1] + Len(q[j])
        BY <1>2, <1>9, ElementOfSeq
      <4>2. Len(q[j]) \in Nat /\ qo[j - 1] \in Nat
        BY <1>9, <4>1, LenProperties
      <4>3. QED
        BY <4>1, <4>2
    <3>2. qo[k] <= qo[a]
      BY <1>9, <3>1, GrowsTo, k \in 0 .. a, a \in 0 .. a, k <= a
    <3>3. QED
      BY <1>9, <3>2
  <2>4. PICK x \in Nat, y \in Nat, l \in Nat : x = qo[k - 1] /\ y = qo[k] /\ l = Len(q[k])
    <3>1. q[k] \in Seq(Octet)
      BY <1>2, ElementOfSeq
    <3>2. QED
      BY <2>2, <3>1, LenProperties
  <2>5. x + i \in 1 .. f /\ 12 + (x + i) = (12 + x) + i
    <3>1. i \in 1 .. l /\ x + l <= f
      BY <2>1, <2>3, <2>4
    <3>2. QED
      BY <3>1
  <2>6. off[k - 1] + i = 12 + (x + i)
    BY <2>2, <2>4, <2>5
  <2>7. w[12 + (x + i)] = Flat(m)[x + i]
    BY <1>8, <2>5
  <2>8. QED
    BY <2>1, <2>4, <2>6, <2>7
<1>15. ASSUME NEW k \in 1 .. b, NEW i \in 1 .. Len(r[k])
       PROVE  w[off[a + k - 1] + i] = r[k][i]
  <2>1. FlatRecords(m)[ro[k - 1] + i] = r[k][i] /\ ro[k] = ro[k - 1] + Len(r[k])
    BY <1>10
  <2>2. off[a + k - 1] = 12 + f + ro[k - 1] /\ ro[k - 1] \in Nat /\ ro[k] \in Nat
    <3>1. k - 1 \in 0 .. b /\ k \in 0 .. b /\ a + (k - 1) = a + k - 1
      OBVIOUS
    <3>2. off[a + (k - 1)] = 12 + f + ro[k - 1]
      BY <1>11, <3>1
    <3>3. QED
      BY <1>10, <3>1, <3>2
  <2>3. ro[k] <= g
    <3>1. ASSUME NEW j \in 1 .. b
          PROVE  ro[j - 1] <= ro[j]
      <4>1. r[j] \in Seq(Octet) /\ j - 1 \in 0 .. b /\ ro[j] = ro[j - 1] + Len(r[j])
        BY <1>2, <1>10, ElementOfSeq
      <4>2. Len(r[j]) \in Nat /\ ro[j - 1] \in Nat
        BY <1>10, <4>1, LenProperties
      <4>3. QED
        BY <4>1, <4>2
    <3>2. ro[k] <= ro[b]
      BY <1>10, <3>1, GrowsTo, k \in 0 .. b, b \in 0 .. b, k <= b
    <3>3. QED
      BY <1>10, <3>2
  <2>4. PICK x \in Nat, y \in Nat, l \in Nat : x = ro[k - 1] /\ y = ro[k] /\ l = Len(r[k])
    <3>1. r[k] \in Seq(Octet)
      BY <1>2, ElementOfSeq
    <3>2. QED
      BY <2>2, <3>1, LenProperties
  <2>5. x + i \in 1 .. g /\ 12 + f + (x + i) = (12 + f + x) + i
    <3>1. i \in 1 .. l /\ x + l <= g
      BY <2>1, <2>3, <2>4
    <3>2. QED
      BY <3>1
  <2>6. off[a + k - 1] + i = 12 + f + (x + i)
    BY <2>2, <2>4, <2>5
  <2>7. w[12 + f + (x + i)] = FlatRecords(m)[x + i]
    BY <1>8, <2>5
  <2>8. QED
    BY <2>1, <2>4, <2>6, <2>7
<1> DEFINE begin(k) == off[k - 1]
           fields(k) == off[k - 1] + Len(NameIn(m, k))
<1>16. ASSUME NEW k \in 1 .. a
       PROVE  /\ NameIn(m, k) = m.questions[k].name /\ NameIn(m, k) \in Seq(Octet)
              /\ \A i \in 1 .. Len(NameIn(m, k)) : w[off[k - 1] + i] = NameIn(m, k)[i]
              /\ w[fields(k) + 1] * 256 + w[fields(k) + 2] = m.questions[k].type
              /\ off[k] = fields(k) + 4
  <2> DEFINE name == NameIn(m, k)
  <2>1. m.questions[k] \in Questions /\ q[k] = QuestionBytes(m.questions[k])
    BY <1>3
  <2>2. name = m.questions[k].name
    BY <1>1 DEF NameIn, Asked
  <2>3. name \in Seq(Octet) /\ m.questions[k].type \in Octets2
    BY <2>1, <2>2 DEF Questions
  <2> HIDE DEF name
  <2>4. PICK n \in Nat : n = Len(name)
    BY <2>3, LenProperties
  <2>5. /\ Len(q[k]) = n + 4 /\ \A i \in 1 .. n : q[k][i] = name[i]
        /\ q[k][n + 1] * 256 + q[k][n + 2] = m.questions[k].type
    BY <2>1, <2>2, <2>3, <2>4, QuestionBytesLemma
  <2>6. off[k - 1] \in Nat /\ off[k] = off[k - 1] + (n + 4)
    <3>1. k - 1 \in 0 .. a /\ k \in 0 .. a
      OBVIOUS
    <3>2. off[k] = 12 + qo[k] /\ off[k - 1] = 12 + qo[k - 1] /\ qo[k - 1] \in Nat
      BY <1>9, <1>11, <3>1
    <3>3. qo[k] = qo[k - 1] + (n + 4)
      BY <1>9, <2>5
    <3>4. QED
      BY <3>2, <3>3
  <2>7. \A i \in 1 .. n + 4 : w[off[k - 1] + i] = q[k][i]
    BY <1>14, <2>5
  <2>8. \A i \in 1 .. n : w[off[k - 1] + i] = name[i]
    <3>1. TAKE i \in 1 .. n
    <3>2. i \in 1 .. n + 4
      OBVIOUS
    <3>3. QED
      BY <2>5, <2>7, <3>2
  <2>9. w[(off[k - 1] + n) + 1] = q[k][n + 1] /\ w[(off[k - 1] + n) + 2] = q[k][n + 2]
    <3>1. n + 1 \in 1 .. n + 4 /\ n + 2 \in 1 .. n + 4
      OBVIOUS
    <3>2. (off[k - 1] + n) + 1 = off[k - 1] + (n + 1) /\ (off[k - 1] + n) + 2 = off[k - 1] + (n + 2)
      BY <2>6
    <3>3. QED
      BY <2>7, <3>1, <3>2
  <2>10. fields(k) = off[k - 1] + n
    BY <2>4 DEF name
  <2> HIDE DEF fields
  <2>11. w[fields(k) + 1] * 256 + w[fields(k) + 2] = m.questions[k].type
    <3>1. w[fields(k) + 1] = q[k][n + 1] /\ w[fields(k) + 2] = q[k][n + 2]
      BY <2>9, <2>10
    <3>2. QED
      BY <2>5, <3>1
  <2>12. off[k] = fields(k) + 4
    BY <2>6, <2>10
  <2>13. /\ name = m.questions[k].name /\ name \in Seq(Octet)
         /\ \A i \in 1 .. Len(name) : w[off[k - 1] + i] = name[i]
    BY <2>2, <2>3, <2>4, <2>8
  <2>14. QED
    BY <2>11, <2>12, <2>13, Zenon DEF name
<1>17. ASSUME NEW k \in 1 .. b
       PROVE  /\ NameIn(m, a + k) = m.records[k].name /\ NameIn(m, a + k) \in Seq(Octet)
              /\ \A i \in 1 .. Len(NameIn(m, a + k)) : w[off[a + k - 1] + i] = NameIn(m, a + k)[i]
              /\ w[fields(a + k) + 1] * 256 + w[fields(a + k) + 2] = m.records[k].type
              /\ off[a + k] = fields(a + k) + 10 + Len(m.records[k].rdata)
              /\ Len(m.records[k].rdata) \in Nat
              /\ w[fields(a + k) + 9] * 256 + w[fields(a + k) + 10] = m.records[k].rdlength
  <2> DEFINE name == NameIn(m, a + k)
  <2>1. m.records[k] \in Records /\ r[k] = RecordBytes(m.records[k])
    BY <1>3
  <2>2. name = m.records[k].name
    <3>1. ~(a + k <= a) /\ (a + k) - a = k
      OBVIOUS
    <3>2. QED
      BY <1>1, <3>1 DEF NameIn, Asked
  <2>3. name \in Seq(Octet) /\ m.records[k].rdata \in Seq(Octet)
    BY <2>1, <2>2 DEF Records
  <2> HIDE DEF name
  <2>4. PICK n \in Nat, d \in Nat : n = Len(name) /\ d = Len(m.records[k].rdata)
    BY <2>3, LenProperties
  <2>5. /\ Len(r[k]) = n + 10 + d /\ \A i \in 1 .. n : r[k][i] = name[i]
        /\ r[k][n + 1] * 256 + r[k][n + 2] = m.records[k].type
        /\ r[k][n + 9] * 256 + r[k][n + 10] = m.records[k].rdlength
    BY <2>1, <2>2, <2>4, RecordBytesLemma
  <2>6. off[a + k - 1] \in Nat /\ off[a + k] = off[a + k - 1] + (n + 10 + d)
    <3>1. k - 1 \in 0 .. b /\ k \in 0 .. b /\ a + (k - 1) = a + k - 1
      OBVIOUS
    <3>2. off[a + k] = 12 + f + ro[k] /\ off[a + k - 1] = 12 + f + ro[k - 1] /\ ro[k - 1] \in Nat
      BY <1>10, <1>11, <3>1
    <3>3. ro[k] = ro[k - 1] + (n + 10 + d)
      BY <1>10, <2>5
    <3>4. QED
      BY <3>2, <3>3
  <2>7. \A i \in 1 .. n + 10 + d : w[off[a + k - 1] + i] = r[k][i]
    BY <1>15, <2>5
  <2>8. \A i \in 1 .. n : w[off[a + k - 1] + i] = name[i]
    <3>1. TAKE i \in 1 .. n
    <3>2. i \in 1 .. n + 10 + d
      OBVIOUS
    <3>3. QED
      BY <2>5, <2>7, <3>2
  <2>9. ASSUME NEW i \in 1 .. 10
        PROVE  w[(off[a + k - 1] + n) + i] = r[k][n + i]
    <3>1. n + i \in 1 .. n + 10 + d /\ (off[a + k - 1] + n) + i = off[a + k - 1] + (n + i)
      BY <2>6
    <3>2. QED
      BY <2>7, <3>1
  <2>10. fields(a + k) = off[a + k - 1] + n
    BY <2>4 DEF name
  <2> HIDE DEF fields
  <2>11. /\ w[fields(a + k) + 1] * 256 + w[fields(a + k) + 2] = m.records[k].type
         /\ w[fields(a + k) + 9] * 256 + w[fields(a + k) + 10] = m.records[k].rdlength
    <3>1. 1 \in 1 .. 10 /\ 2 \in 1 .. 10 /\ 9 \in 1 .. 10 /\ 10 \in 1 .. 10
      OBVIOUS
    <3>2. /\ w[fields(a + k) + 1] = r[k][n + 1] /\ w[fields(a + k) + 2] = r[k][n + 2]
          /\ w[fields(a + k) + 9] = r[k][n + 9] /\ w[fields(a + k) + 10] = r[k][n + 10]
      BY <2>9, <2>10, <3>1
    <3>3. QED
      BY <2>5, <3>2
  <2>12. off[a + k] = fields(a + k) + 10 + d
    BY <2>6, <2>10
  <2>13. /\ name = m.records[k].name /\ name \in Seq(Octet)
         /\ \A i \in 1 .. Len(name) : w[off[a + k - 1] + i] = name[i]
         /\ off[a + k] = fields(a + k) + 10 + Len(m.records[k].rdata)
         /\ Len(m.records[k].rdata) \in Nat
    BY <2>2, <2>3, <2>4, <2>8, <2>12
  <2>14. QED
    BY <2>11, <2>13, Zenon DEF name
<1>18. Laid(m, off)
  <2>1. Items(m) = a + b /\ Asked(m) = a
    BY <1>1 DEF Items, Asked
  <2>2. SUFFICES ASSUME NEW k \in 1 .. a + b
                 PROVE  /\ NameIn(m, k) \in Seq(Octet)
                        /\ \A i \in 1 .. Len(NameIn(m, k)) : w[off[k - 1] + i] = NameIn(m, k)[i]
                        /\ w[fields(k) + 1] * 256 + w[fields(k) + 2] = TypeIn(m, k)
                        /\ k <= a => off[k] = fields(k) + 4
                        /\ k > a =>
                              /\ off[k] = fields(k) + 10 + Len(m.records[k - a].rdata)
                              /\ Len(m.records[k - a].rdata) \in Nat
                              /\ w[fields(k) + 9] * 256 + w[fields(k) + 10] = m.records[k - a].rdlength
    BY <1>12, <1>13, <2>1, ZenonT(60) DEF Laid, w
  <2>3. CASE k <= a
    <3>1. k \in 1 .. a /\ ~(k > a)
      BY <2>3
    <3>2. TypeIn(m, k) = m.questions[k].type
      BY <2>1, <2>3 DEF TypeIn
    <3> HIDE DEF fields
    <3>3. QED
      BY <1>16, <3>1, <3>2 DEF fields
  <2>4. CASE ~(k <= a)
    <3>1. PICK j \in 1 .. b : j = k - a /\ k = a + j
      <4>1. k - a \in 1 .. b /\ k = a + (k - a)
        BY <2>4
      <4>2. QED
        BY <4>1
    <3>2. TypeIn(m, k) = m.records[j].type
      BY <2>1, <2>4, <3>1 DEF TypeIn
    <3> HIDE DEF fields
    <3>3. QED
      BY <1>17, <2>4, <3>1, <3>2 DEF fields
  <2>5. QED
    BY <2>3, <2>4
<1>19. QED
  BY <1>18 DEF Offsets

-------------------------------------------------------------------------------
(* Names are skipped *)

EndsRow(name, f, i) ==
    IF i > Len(name) THEN FALSE
    ELSE \/ name[i] = 0 /\ i = Len(name)
         \/ name[i] \in 192 .. 255 /\ i + 1 = Len(name)
         \/ /\ name[i] \in 1 .. NS_MAXLABEL \/ (name[i] = BITSTRING /\ i < Len(name))
            /\ f[NextLabel(name, i)]

EndsFrom(name) == CHOOSE f : f = [i \in 1 .. Len(name) + 1 |-> EndsRow(name, f, i)]

LEMMA EndsUnfolds ==
    ASSUME NEW name \in Seq(Octet)
    PROVE  /\ EndsItself(name) <=> EndsFrom(name)[1]
           /\ \A i \in 1 .. Len(name) + 1 : EndsFrom(name)[i] = EndsRow(name, EndsFrom(name), i)
<1>1. PICK n \in Nat : n = Len(name)
  BY LenProperties
<1>2. EndsItself(name) <=> EndsFrom(name)[1]
  BY DEF EndsItself, EndsFrom, EndsRow
<1> DEFINE ends(i) == \/ name[i] = 0 /\ i = Len(name)
                      \/ name[i] \in 192 .. 255 /\ i + 1 = Len(name)
           on(i) == name[i] \in 1 .. NS_MAXLABEL \/ (name[i] = BITSTRING /\ i < Len(name))
           step == [i \in 1 .. n |-> [x \in BOOLEAN |-> ends(i) \/ (on(i) /\ x)]]
<1>s. /\ step \in [1 .. n -> [BOOLEAN -> BOOLEAN]] /\ FALSE \in BOOLEAN
      /\ \A i \in 1 .. n : \A x \in BOOLEAN : step[i][x] = (ends(i) \/ (on(i) /\ x))
  BY Zenon
<1> HIDE DEF step, ends, on
<1>3. PICK f \in [1 .. n + 1 -> BOOLEAN] :
              f[n + 1] = FALSE /\ \A i \in 1 .. n : f[i] = step[i][f[Steps(name)[i]]]
  <2>1. Onward(Steps(name), n) /\ n \in Nat
    BY <1>1, NextLabelLemma
  <2>2. Looking(BOOLEAN, n, FALSE, step, Steps(name))
    BY <1>s, <2>1, Zenon DEF Looking
  <2>3. PICK f : Unrolls(f, BOOLEAN, n, FALSE, step, Steps(name))
    BY <2>2, SuffixFunction
  <2>4. QED
    BY <2>3, Zenon DEF Unrolls
<1>4. \A i \in 1 .. n + 1 : f[i] = EndsRow(name, f, i)
  <2>1. TAKE i \in 1 .. n + 1
  <2>2. CASE i = n + 1
    <3>1. n + 1 > Len(name)
      BY <1>1
    <3>2. QED
      BY <1>3, <2>2, <3>1, Zenon DEF EndsRow
  <2>3. CASE i # n + 1
    <3>1. i \in 1 .. n /\ ~(i > n)
      BY <2>3
    <3>2. Steps(name)[i] = NextLabel(name, i) /\ NextLabel(name, i) \in 1 .. n + 1
      <4>1. NextLabel(name, i) \in i + 1 .. n + 1 /\ Steps(name)[i] = NextLabel(name, i)
        BY <1>1, <3>1, NextLabelLemma
      <4>2. QED
        BY <3>1, <4>1
    <3>3. f[NextLabel(name, i)] \in BOOLEAN
      BY <3>2
    <3>4. f[i] = (ends(i) \/ (on(i) /\ f[NextLabel(name, i)]))
      BY <1>s, <1>3, <3>1, <3>2, <3>3, Zenon
    <3>5. QED
      BY <1>1, <3>1, <3>4, Zenon DEF EndsRow, ends, on
  <2>4. QED
    BY <2>2, <2>3
<1>5. f = [i \in 1 .. n + 1 |-> EndsRow(name, f, i)]
  BY <1>4
<1>6. EndsFrom(name) = CHOOSE g : g = [i \in 1 .. n + 1 |-> EndsRow(name, g, i)]
  BY <1>1 DEF EndsFrom
<1>7. EndsFrom(name) = [i \in 1 .. n + 1 |-> EndsRow(name, EndsFrom(name), i)]
  BY <1>5, <1>6
<1>8. QED
  BY <1>1, <1>2, <1>7, Zenon

\* name stands at o, as far as the message goes.
Stands(name, o) == \A k \in 1 .. Len(name) : o + k <= eom => msg[o + k] = name[k]

\* A whole name is skipped; of one that is cut nothing is left to skip.
LEMMA SkipsName ==
    ASSUME msg \in Seq(Octet), NEW name \in Seq(Octet), EndsItself(name), NEW o \in Nat,
           o <= eom, Stands(name, o)
    PROVE  IF o + Len(name) <= eom THEN SkipName(o) = o + Len(name)
           ELSE SkipName(o) = -1 \/ SkipName(o) = eom
<1>1. PICK n \in Nat, e \in Nat : n = Len(name) /\ e = eom
  BY LenProperties, Get16Type
<1>2. UP!eom = e
  BY <1>1 DEF UP!eom, eom
<1> DEFINE good(x) == IF o + n <= e THEN x = o + n ELSE x = -1 \/ x = e
           at(i) == UP!Skip[o + i - 1]
           T == {i \in 1 .. n + 1 : EndsFrom(name)[i] /\ o + i - 1 <= e + 64 => good(at(i))}
<1>3. n + 1 \in T
  <2>1. n + 1 \in 1 .. n + 1 /\ n + 1 > n
    OBVIOUS
  <2>2. ~EndsFrom(name)[n + 1]
    BY <1>1, <2>1, EndsUnfolds DEF EndsRow
  <2>3. QED
    BY <2>1, <2>2
<1>4. ASSUME NEW i \in 1 .. n, Steps(name)[i] \in T
      PROVE  i \in T
  <2>1. SUFFICES ASSUME EndsFrom(name)[i], o + i - 1 <= e + 64
                 PROVE  good(at(i))
    OBVIOUS
  <2>2. PICK cp \in Nat : cp = o + i - 1
    OBVIOUS
  <2>3. UP!Skip[cp] = UP!SkipRound(UP!Skip, cp)
    <3>1. cp \in 0 .. UP!eom + 64
      BY <1>2, <2>1, <2>2
    <3>2. QED
      BY <3>1, UnpackAssumed, UP!SkipRounds
  <2>4. /\ i \in 1 .. n + 1 /\ ~(i > n) /\ i \in 1 .. Len(name)
        /\ EndsRow(name, EndsFrom(name), i)
    <3>1. i \in 1 .. n + 1 /\ ~(i > n)
      OBVIOUS
    <3>2. QED
      BY <1>1, <2>1, <3>1, EndsUnfolds
  <2>5. CASE cp >= e
    <3>1. cp > e \/ cp = e
      BY <2>5
    <3>2. UP!Skip[cp] = -1 \/ UP!Skip[cp] = e
      BY <1>2, <2>3, <3>1 DEF UP!SkipRound
    <3>3. ~(o + n <= e)
      BY <2>2, <2>5
    <3>4. QED
      BY <2>2, <3>2, <3>3
  <2>6. CASE cp < e
    <3>1. ~(cp > e) /\ cp # e /\ cp \in 0 .. e - 1 /\ o + i <= e /\ o + i = cp + 1
      BY <2>2, <2>6
    <3>2. UP!Byte(cp) = name[i] /\ name[i] \in Octet
      <4>1. msg[o + i] = name[i]
        BY <1>1, <2>4, <3>1 DEF Stands
      <4>2. QED
        BY <2>4, <3>1, <4>1, ElementOfSeq DEF UP!Byte
    <3>c. PICK c \in 0 .. 255 : c = name[i]
      BY <3>2 DEF Octet
    <3>3. CASE name[i] = 0 /\ i = n
      <4>1. UP!Skip[cp] = cp + 1
        BY <1>2, <2>3, <3>1, <3>2, <3>3 DEF UP!SkipRound
      <4>2. o + n <= e /\ cp + 1 = o + n
        BY <3>1, <3>3
      <4>3. QED
        BY <2>2, <4>1, <4>2
    <3>4. CASE name[i] \in 192 .. 255 /\ i + 1 = n
      <4>1. name[i] # 0 /\ name[i] \notin UP!Labels \cup {UP!BITSTRING} /\ name[i] \in UP!Pointers
        <5>1. c \in 192 .. 255
          BY <3>4, <3>c
        <5>2. c # 0 /\ c \notin 0 .. 63 \cup {65}
          BY <5>1
        <5>3. QED
          BY <3>c, <5>1, <5>2 DEF UP!Labels, UP!BITSTRING, UP!Pointers
      <4>2. UP!Skip[cp] = IF cp + 2 > e THEN -1 ELSE cp + 2
        BY <1>2, <2>3, <3>1, <3>2, <4>1 DEF UP!SkipRound
      <4>3. cp + 2 = o + n
        BY <3>1, <3>4
      <4>4. QED
        BY <2>2, <4>2, <4>3
    <3>5. CASE /\ name[i] \in 1 .. NS_MAXLABEL \/ (name[i] = BITSTRING /\ i < n)
               /\ EndsFrom(name)[NextLabel(name, i)]
      <4>1. name[i] # 0 /\ name[i] \in UP!Labels \cup {UP!BITSTRING}
        <5>1. c \in 1 .. 63 \/ c = 65
          BY <3>5, <3>c DEF BITSTRING, NS_MAXLABEL
        <5>2. c # 0 /\ c \in 0 .. 63 \cup {65}
          BY <5>1
        <5>3. QED
          BY <3>c, <5>2 DEF UP!Labels, UP!BITSTRING
      <4> DEFINE l == CHOOSE x \in UP!LabelLen(cp) : TRUE
      <4>2. UP!Skip[cp] = UP!Skip[cp + 1 + l]
        BY <1>2, <2>3, <3>1, <3>2, <4>1 DEF UP!SkipRound
      <4>3. /\ \A x \in UP!LabelLen(cp) : x \in 0 .. 63
            /\ UP!LabelLen(cp) # {}
            /\ cp + 1 < e \/ UP!Byte(cp) \in UP!Labels =>
                  \A x \in UP!LabelLen(cp) :
                     x = IF UP!Byte(cp) \in UP!Labels THEN UP!Byte(cp)
                         ELSE UP!BitLabel(UP!Byte(cp + 1))
        BY <1>2, <3>1, <3>2, <4>1, UnpackAssumed, UP!LabelLenLemma
      <4>4. l \in UP!LabelLen(cp)
        BY <4>3, Zenon
      <4> HIDE DEF l
      <4>5. l \in 0 .. 63
        BY <4>3, <4>4, Zenon
      <4>6. CASE cp + 1 < e \/ name[i] \in UP!Labels
        <5>1. l = IF name[i] \in UP!Labels THEN name[i] ELSE UP!BitLabel(UP!Byte(cp + 1))
          BY <3>2, <4>3, <4>4, <4>6, Zenon
        <5>2. l = LabelLen(name, i)
          <6>1. CASE name[i] \in UP!Labels
            <7>1. c \in 0 .. 63
              BY <3>c, <6>1 DEF UP!Labels
            <7>2. name[i] # BITSTRING
              <8>1. c # 65
                BY <7>1
              <8>2. QED
                BY <3>c, <8>1 DEF BITSTRING
            <7>3. QED
              BY <5>1, <6>1, <7>2 DEF LabelLen
          <6>2. CASE name[i] \notin UP!Labels
            <7>1. name[i] = BITSTRING /\ i < n /\ cp + 1 < e
              <8>1. c \notin 0 .. 63
                BY <3>c, <6>2 DEF UP!Labels
              <8>2. c \notin 1 .. 63
                BY <8>1
              <8>3. QED
                BY <3>5, <3>c, <4>6, <6>2, <8>2 DEF NS_MAXLABEL
            <7>2. i + 1 \in 1 .. n /\ o + (i + 1) <= e /\ (cp + 1) + 1 = o + (i + 1)
              BY <3>1, <7>1
            <7>3. UP!Byte(cp + 1) = name[i + 1]
              <8>1. msg[o + (i + 1)] = name[i + 1]
                BY <1>1, <7>2 DEF Stands
              <8>2. QED
                BY <7>2, <8>1 DEF UP!Byte
            <7>4. QED
              BY <5>1, <6>2, <7>1, <7>3 DEF LabelLen, BitsOf, UP!BitLabel
          <6>3. QED
            BY <6>1, <6>2
        <5>3. NextLabel(name, i) \in T /\ NextLabel(name, i) # n + 1
          <6>1. NextLabel(name, i) \in T
            BY <1>1, <1>4, <2>4, NextLabelLemma
          <6>2. ~EndsFrom(name)[n + 1]
            <7>1. n + 1 \in 1 .. n + 1 /\ n + 1 > n
              OBVIOUS
            <7>2. QED
              BY <1>1, <7>1, EndsUnfolds DEF EndsRow
          <6>3. QED
            BY <3>5, <6>1, <6>2
        <5>4. NextLabel(name, i) = i + 1 + l
          BY <1>1, <5>2, <5>3 DEF NextLabel
        <5>5. o + (i + 1 + l) - 1 = cp + 1 + l /\ cp + 1 + l <= e + 64
          BY <3>1, <4>5
        <5>6. good(at(i + 1 + l))
          BY <3>5, <5>3, <5>4, <5>5
        <5>7. at(i + 1 + l) = UP!Skip[cp + 1 + l] /\ at(i) = UP!Skip[cp]
          BY <2>2, <5>5
        <5>8. QED
          BY <4>2, <5>6, <5>7
      <4>7. CASE ~(cp + 1 < e \/ name[i] \in UP!Labels)
        <5>1. cp + 1 = e /\ i < n
          BY <3>1, <3>5, <4>7 DEF UP!Labels, NS_MAXLABEL
        <5>2. l # 0
          <6>1. \A x \in UP!LabelLen(cp) : UP!Byte(cp) # 0 => x # 0
            BY <1>2, <3>1, <3>2, <4>1, UnpackAssumed, UP!LabelLenLemma
          <6>2. QED
            BY <3>2, <4>1, <4>4, <6>1, Zenon
        <5>3. cp + 1 + l \in 0 .. e + 64 /\ cp + 1 + l > e
          BY <4>5, <5>1, <5>2
        <5>4. UP!Skip[cp + 1 + l] = UP!SkipRound(UP!Skip, cp + 1 + l)
          BY <1>2, <5>3, UnpackAssumed, UP!SkipRounds
        <5>5. UP!Skip[cp + 1 + l] = -1
          BY <1>2, <5>3, <5>4 DEF UP!SkipRound
        <5>6. ~(o + n <= e)
          BY <3>1, <5>1
        <5>7. QED
          BY <2>2, <4>2, <5>5, <5>6
      <4>8. QED
        BY <4>6, <4>7
    <3>6. QED
      BY <1>1, <2>4, <3>3, <3>4, <3>5, Zenon DEF EndsRow
  <2>7. QED
    BY <2>5, <2>6
<1>5. 1 \in T
  <2> HIDE DEF T
  <2>1. 1 .. n + 1 \subseteq T
    BY <1>1, <1>3, <1>4, NextLabelLemma, SuffixInduction
  <2>2. 1 \in 1 .. n + 1
    OBVIOUS
  <2>3. QED
    BY <2>1, <2>2
<1>6. EndsFrom(name)[1] /\ o + 1 - 1 <= e + 64 /\ o + 1 - 1 = o
  BY <1>1, EndsUnfolds
<1>7. good(UP!Skip[o])
  BY <1>5, <1>6
<1>8. SkipName(o) = UP!Skip[o]
  BY <1>1, SameUnpack DEF SkipName
<1>9. QED
  BY <1>1, <1>7, <1>8

-------------------------------------------------------------------------------
(* What the parser returns *)

\* The records before section s.
Before(m, s) ==
    (IF s >= 1 THEN m.counts[1] ELSE 0) + (IF s >= 2 THEN m.counts[2] ELSE 0)
      + (IF s >= 3 THEN m.counts[3] ELSE 0)

LEMMA CountsLemma ==
    ASSUME made \in Made, TrueCounts
    PROVE  /\ Items(made) \in Nat /\ Asked(made) \in Nat
           /\ Before(made, 0) = 0 /\ Before(made, 1) = Asked(made)
           /\ made.counts[1] = Asked(made)
           /\ Asked(made) + made.counts[2] <= Items(made)
           /\ Before(made, 3) + made.counts[4] = Items(made)
           /\ \A s \in 0 .. 3 :
                 /\ made.counts[s + 1] \in Nat /\ Before(made, s) \in Nat
                 /\ s < 3 => Before(made, s + 1) = Before(made, s) + made.counts[s + 1]
                 /\ s >= 1 => Before(made, s) >= Asked(made)
                 /\ Before(made, s) + made.counts[s + 1] <= Items(made)
<1>1. PICK c1 \in Nat, c2 \in Nat, c3 \in Nat, c4 \in Nat :
         c1 = made.counts[1] /\ c2 = made.counts[2] /\ c3 = made.counts[3] /\ c4 = made.counts[4]
  <2>1. made.counts \in [1 .. 4 -> Octets2]
    BY MadeParts
  <2>2. 1 \in 1 .. 4 /\ 2 \in 1 .. 4 /\ 3 \in 1 .. 4 /\ 4 \in 1 .. 4
    OBVIOUS
  <2>3. /\ made.counts[1] \in Octets2 /\ made.counts[2] \in Octets2
        /\ made.counts[3] \in Octets2 /\ made.counts[4] \in Octets2
    BY <2>1, <2>2
  <2>4. QED
    BY <2>3 DEF Octets2
<1>2. Asked(made) = c1 /\ Items(made) = c1 + (c2 + c3 + c4)
  BY <1>1, MadeParts DEF TrueCounts, Asked, Items
<1>3. /\ Before(made, 0) = 0 /\ Before(made, 1) = c1 /\ Before(made, 2) = c1 + c2
      /\ Before(made, 3) = c1 + c2 + c3
  BY <1>1 DEF Before
<1>4. ASSUME NEW s \in 0 .. 3
      PROVE  /\ made.counts[s + 1] \in Nat /\ Before(made, s) \in Nat
             /\ s < 3 => Before(made, s + 1) = Before(made, s) + made.counts[s + 1]
             /\ s >= 1 => Before(made, s) >= Asked(made)
             /\ Before(made, s) + made.counts[s + 1] <= Items(made)
  <2>1. CASE s = 0
    <3>1. s + 1 = 1
      BY <2>1
    <3>2. QED
      BY <1>1, <1>2, <1>3, <2>1, <3>1
  <2>2. CASE s = 1
    <3>1. s + 1 = 2
      BY <2>2
    <3>2. QED
      BY <1>1, <1>2, <1>3, <2>2, <3>1
  <2>3. CASE s = 2
    <3>1. s + 1 = 3
      BY <2>3
    <3>2. QED
      BY <1>1, <1>2, <1>3, <2>3, <3>1
  <2>4. CASE s = 3
    <3>1. s + 1 = 4
      BY <2>4
    <3>2. QED
      BY <1>1, <1>2, <1>3, <2>4, <3>1
  <2>5. QED
    BY <2>1, <2>2, <2>3, <2>4
<1>5. QED
  BY <1>1, <1>2, <1>3, <1>4

\* What has arrived is the message as far as it goes.
LEMMA ArrivedLemma ==
    ASSUME made \in Made, msg = Assembled(made)
    PROVE  /\ msg \in Seq(Octet) /\ eom \in Nat
           /\ Len(Whole(made)) \in Nat /\ Len(Whole(made)) >= 12
           /\ made.tail \in Int
           /\ eom = IF Len(Whole(made)) + made.tail >= 1 THEN Len(Whole(made)) + made.tail ELSE 0
           /\ made.tail = 0 <=> eom = Len(Whole(made))
           /\ \A o \in Nat : o + 2 <= eom /\ o + 2 <= Len(Whole(made)) =>
                 Get16(o) = Whole(made)[o + 1] * 256 + Whole(made)[o + 2]
           /\ eom >= 12 => \A s \in 0 .. 3 : Count(s) = made.counts[s + 1]
<1> DEFINE w == Whole(made)
<1>1. PICK l \in Nat, e \in Nat, t \in Int : l = Len(w) /\ e = eom /\ t = made.tail
  BY AssembledLemma, MadeParts DEF eom
<1>2. /\ msg \in Seq(Octet) /\ e = IF l + t >= 1 THEN l + t ELSE 0
      /\ \A k \in 1 .. e : k <= l => msg[k] = w[k]
  BY <1>1, AssembledLemma DEF eom
<1>3. PICK front : /\ Appends(Octet, front, Header(made.counts), 12, Flat(made), Len(Flat(made)))
                   /\ Appends(Octet, w, front, 12 + Len(Flat(made)), FlatRecords(made),
                              Len(FlatRecords(made)))
                   /\ Len(Flat(made)) \in Nat /\ Len(FlatRecords(made)) \in Nat
  BY WholeLemma
<1> HIDE DEF w
<1>4. l >= 12 /\ \A k \in 1 .. 12 : w[k] = Header(made.counts)[k]
  <2>1. PICK f \in Nat, g \in Nat : f = Len(Flat(made)) /\ g = Len(FlatRecords(made))
    BY <1>3
  <2>2. l = 12 + f + g
    BY <1>1, <1>3, <2>1 DEF Appends
  <2>3. ASSUME NEW k \in 1 .. 12
        PROVE  w[k] = Header(made.counts)[k]
    <3>1. k \in 1 .. 12 + f
      OBVIOUS
    <3>2. w[k] = front[k]
      BY <1>3, <2>1, <3>1 DEF Appends
    <3>3. front[k] = Header(made.counts)[k]
      BY <1>3 DEF Appends
    <3>4. QED
      BY <3>2, <3>3
  <2>4. QED
    BY <2>2, <2>3
<1>5. ASSUME NEW o \in Nat, o + 2 <= e, o + 2 <= l
      PROVE  Get16(o) = w[o + 1] * 256 + w[o + 2]
  <2>1. o < e /\ o + 1 < e /\ o + 1 \in 1 .. e /\ o + 2 \in 1 .. e /\ (o + 1) + 1 = o + 2
        /\ o + 1 <= l
    BY <1>5
  <2>2. Byte(o) = w[o + 1]
    BY <1>1, <1>2, <2>1 DEF Byte
  <2>3. Byte(o + 1) = w[o + 2]
    BY <1>1, <1>2, <1>5, <2>1 DEF Byte
  <2>4. QED
    BY <2>2, <2>3 DEF Get16
<1>6. ASSUME e >= 12, NEW s \in 0 .. 3
      PROVE  Count(s) = made.counts[s + 1]
  <2>1. /\ 4 + 2 * s \in Nat /\ (4 + 2 * s) + 2 <= e /\ (4 + 2 * s) + 2 <= l
        /\ (4 + 2 * s) + 1 \in 1 .. 12 /\ (4 + 2 * s) + 2 \in 1 .. 12 /\ s + 1 \in 1 .. 4
        /\ (4 + 2 * s) + 1 = 2 * (s + 1) + 3 /\ (4 + 2 * s) + 2 = 2 * (s + 1) + 4
    BY <1>4, <1>6
  <2>2. Count(s) = w[(4 + 2 * s) + 1] * 256 + w[(4 + 2 * s) + 2]
    BY <1>5, <2>1 DEF Count
  <2>3. /\ w[(4 + 2 * s) + 1] = Header(made.counts)[2 * (s + 1) + 3]
        /\ w[(4 + 2 * s) + 2] = Header(made.counts)[2 * (s + 1) + 4]
    BY <1>4, <2>1
  <2>4. Header(made.counts)[2 * (s + 1) + 3] * 256 + Header(made.counts)[2 * (s + 1) + 4]
           = made.counts[s + 1]
    BY <2>1, MadeParts, HeaderLemma
  <2>5. QED
    BY <2>2, <2>3, <2>4
<1>7. t = 0 <=> e = l
  BY <1>2, <1>4
<1>8. QED
  BY <1>1, <1>2, <1>4, <1>5, <1>6, <1>7 DEF w

LEMMA OffsetsGrow ==
    ASSUME made \in Made, Items(made) \in Nat
    PROVE  \A k \in 0 .. Items(made) :
              Offsets(made)[k] \in Nat /\ Offsets(made)[k] >= 12 /\ Offsets(made)[k] <= Len(Whole(made))
<1> DEFINE off == Offsets(made)
           n == Items(made)
<1>1. Laid(made, off)
  BY OffsetsLemma
<1>2. off \in [0 .. n -> Nat] /\ off[0] = 12 /\ off[n] = Len(Whole(made))
  BY <1>1, Zenon DEF Laid
<1>3. ASSUME NEW k \in 1 .. n
      PROVE  off[k - 1] <= off[k]
  <2> DEFINE name == NameIn(made, k)
             r == made.records[k - Asked(made)]
  <2>1. /\ name \in Seq(Octet)
        /\ k <= Asked(made) => off[k] = off[k - 1] + Len(name) + 4
        /\ k > Asked(made) => /\ off[k] = off[k - 1] + Len(name) + 10 + Len(r.rdata)
                              /\ Len(r.rdata) \in Nat
    BY <1>1, Zenon DEF Laid
  <2>2. k - 1 \in 0 .. n
    OBVIOUS
  <2> HIDE DEF off, name, r
  <2>3. off[k - 1] \in Nat /\ Len(name) \in Nat
    BY <1>2, <2>1, <2>2, LenProperties
  <2>4. k <= Asked(made) \/ k > Asked(made)
    BY MadeParts DEF Asked
  <2>5. QED
    BY <2>1, <2>3, <2>4
<1> HIDE DEF off, n
<1>4. n \in Nat
  BY DEF n
<1>5. ASSUME NEW k \in 0 .. n
      PROVE  off[k] \in Nat /\ off[k] >= 12 /\ off[k] <= Len(Whole(made))
  <2>1. 0 \in 0 .. n /\ n \in 0 .. n /\ 0 <= k /\ k <= n
    BY <1>4
  <2>2. off[0] <= off[k] /\ off[k] <= off[n]
    BY <1>2, <1>3, <1>4, <2>1, GrowsTo
  <2>3. QED
    BY <1>2, <2>1, <2>2
<1>6. QED
  BY <1>5 DEF off, n

\* What the parser finds of the k-th record, at b with a name of n bytes.
Found(k, b, n) ==
    LET end == Offsets(made)[k]
    IN /\ end \in Nat /\ end <= Len(Whole(made)) /\ end >= b + n + 4
       /\ b + n <= eom => SkipName(b) = b + n
       /\ b + n > eom => SkipName(b) = -1 \/ SkipName(b) = eom
       /\ b + n + 2 <= eom => Get16(b + n) = TypeIn(made, k)
       /\ k <= Asked(made) => end = b + n + 4
       /\ k > Asked(made) => /\ end >= b + n + 10
                             /\ b + n + 10 <= eom => AfterData(b + n + 4) = end

LEMMA ItemLemma ==
    ASSUME made \in Made, msg = Assembled(made), TrueCounts, NEW k \in 1 .. Items(made),
           Offsets(made)[k - 1] <= eom
    PROVE  \E b \in Nat, n \in Nat : b = Offsets(made)[k - 1] /\ b >= 12 /\ Found(k, b, n)
<1> DEFINE off == Offsets(made)
           w == Whole(made)
           name == NameIn(made, k)
           r == made.records[k - Asked(made)]
<1>1. Laid(made, off)
  BY OffsetsLemma
<1>2. /\ name \in Seq(Octet)
      /\ \A i \in 1 .. Len(name) : w[off[k - 1] + i] = name[i]
      /\ w[(off[k - 1] + Len(name)) + 1] * 256 + w[(off[k - 1] + Len(name)) + 2] = TypeIn(made, k)
      /\ k <= Asked(made) => off[k] = (off[k - 1] + Len(name)) + 4
      /\ k > Asked(made) =>
            /\ off[k] = (off[k - 1] + Len(name)) + 10 + Len(r.rdata) /\ Len(r.rdata) \in Nat
            /\ w[(off[k - 1] + Len(name)) + 9] * 256 + w[(off[k - 1] + Len(name)) + 10] = r.rdlength
  BY <1>1, Zenon DEF Laid
<1>3. Items(made) \in Nat /\ Asked(made) \in Nat /\ k - 1 \in 0 .. Items(made) /\ k \in 0 .. Items(made)
      /\ k \in Nat
  BY CountsLemma
<1>4. /\ off[k - 1] \in Nat /\ off[k - 1] >= 12 /\ off[k] \in Nat /\ off[k] <= Len(w)
  BY <1>3, OffsetsGrow
<1>5. /\ msg \in Seq(Octet) /\ eom \in Nat /\ Len(w) \in Nat
      /\ \A o \in Nat : o + 2 <= eom /\ o + 2 <= Len(w) =>
            Get16(o) = w[o + 1] * 256 + w[o + 2]
      /\ \A i \in 1 .. eom : i <= Len(w) => msg[i] = w[i]
  <2>1. \A i \in 1 .. eom : i <= Len(w) => msg[i] = w[i]
    BY AssembledLemma DEF eom
  <2>2. QED
    BY <2>1, ArrivedLemma
<1>p. PICK a \in Nat, c \in Nat : a = Asked(made) /\ c = Len(made.records) /\ Items(made) = a + c
  BY MadeParts DEF Asked, Items
<1>6. EndsItself(name)
  <2>1. CASE k <= Asked(made)
    <3>1. k \in DOMAIN made.questions
      BY <1>3, <2>1, MadeParts DEF Asked
    <3>2. QED
      BY <2>1, <3>1 DEF TrueCounts, NameIn
  <2>2. CASE ~(k <= Asked(made))
    <3>1. k - Asked(made) \in DOMAIN made.records
      <4>1. k - Asked(made) \in 1 .. Len(made.records)
        BY <1>3, <1>p, <2>2
      <4>2. QED
        BY <4>1, MadeParts
    <3>2. QED
      BY <2>2, <3>1 DEF TrueCounts, NameIn
  <2>3. QED
    BY <2>1, <2>2
<1>7. k > Asked(made) => r.rdlength = Len(r.rdata)
  <2>1. ASSUME k > Asked(made)
        PROVE  k - Asked(made) \in DOMAIN made.records
    <3>1. k - Asked(made) \in 1 .. Len(made.records)
      BY <1>3, <1>p, <2>1
    <3>2. QED
      BY <3>1, MadeParts
  <2>2. QED
    BY <2>1 DEF TrueCounts
<1> HIDE DEF off, w, name, r
<1>8. PICK b \in Nat, n \in Nat, l \in Nat :
         b = off[k - 1] /\ n = Len(name) /\ (k > Asked(made) => l = Len(r.rdata))
  <2>1. Len(name) \in Nat
    BY <1>2, LenProperties
  <2>2. PICK l \in Nat : k > Asked(made) => l = Len(r.rdata)
    BY <1>2, 0 \in Nat
  <2>3. QED
    BY <1>4, <2>1, <2>2
<1>9. PICK e \in Nat : e = eom
  BY <1>5
<1>10. b + n + 4 <= off[k] /\ b <= e
  <2>1. k <= Asked(made) \/ k > Asked(made)
    BY <1>3
  <2>2. off[k - 1] <= eom
    BY DEF off
  <2>3. QED
    <3>1. CASE k <= Asked(made)
      BY <1>2, <1>8, <1>9, <2>2, <3>1
    <3>2. CASE k > Asked(made)
      <4>1. off[k] = (b + n) + 10 + l
        BY <1>2, <1>8, <3>2
      <4>2. QED
        BY <1>8, <1>9, <2>2, <4>1
    <3>3. QED
      BY <2>1, <3>1, <3>2
<1>11. Stands(name, b)
  <2>1. ASSUME NEW i \in 1 .. n, b + i <= e
        PROVE  msg[b + i] = name[i]
    <3>1. b + i \in 1 .. e /\ b + i <= Len(w)
      BY <1>4, <1>5, <1>10, <2>1
    <3>2. msg[b + i] = w[b + i]
      BY <1>5, <1>9, <3>1
    <3>3. w[b + i] = name[i]
      BY <1>2, <1>8
    <3>4. QED
      BY <3>2, <3>3
  <2>2. QED
    BY <1>8, <1>9, <2>1 DEF Stands
<1>12. IF b + n <= e THEN SkipName(b) = b + n ELSE SkipName(b) = -1 \/ SkipName(b) = e
  BY <1>2, <1>5, <1>6, <1>8, <1>9, <1>10, <1>11, SkipsName
<1>13. b + n + 2 <= e => Get16(b + n) = TypeIn(made, k)
  <2>1. SUFFICES ASSUME b + n + 2 <= e
                 PROVE  Get16(b + n) = TypeIn(made, k)
    OBVIOUS
  <2>2. b + n \in Nat /\ (b + n) + 2 <= e /\ (b + n) + 2 <= Len(w)
    BY <1>4, <1>5, <1>10, <2>1
  <2>3. Get16(b + n) = w[(b + n) + 1] * 256 + w[(b + n) + 2]
    BY <1>5, <1>9, <2>2
  <2>4. QED
    BY <1>2, <1>8, <2>3
<1>14. ASSUME k > Asked(made)
       PROVE  off[k] >= b + n + 10 /\ (b + n + 10 <= e => AfterData(b + n + 4) = off[k])
  <2>1. off[k] = b + n + 10 + l /\ w[(b + n) + 9] * 256 + w[(b + n) + 10] = l
    <3>1. off[k] = (b + n) + 10 + l
      BY <1>2, <1>8, <1>14
    <3>2. w[(b + n) + 9] * 256 + w[(b + n) + 10] = l
      BY <1>2, <1>7, <1>8, <1>14
    <3>3. QED
      BY <3>1, <3>2
  <2>2. ASSUME b + n + 10 <= e
        PROVE  AfterData(b + n + 4) = off[k]
    <3>1. /\ b + n + 8 \in Nat /\ (b + n + 8) + 2 <= e /\ (b + n + 8) + 2 <= Len(w)
          /\ (b + n + 8) + 1 = (b + n) + 9 /\ (b + n + 8) + 2 = (b + n) + 10
          /\ (b + n + 4) + 4 = b + n + 8
      BY <1>4, <1>5, <2>1, <2>2
    <3>2. Get16(b + n + 8) = l
      BY <1>5, <1>9, <2>1, <3>1
    <3>3. QED
      BY <2>1, <3>1, <3>2 DEF AfterData
  <2>3. QED
    BY <2>1, <2>2
<1>15. k <= Asked(made) => off[k] = b + n + 4
  BY <1>2, <1>8
<1>16. Found(k, b, n)
  <2>1. off[k] \in Nat /\ off[k] <= Len(Whole(made)) /\ off[k] >= b + n + 4
    BY <1>4, <1>10 DEF w
  <2>2. QED
    BY <1>9, <1>12, <1>13, <1>14, <1>15, <2>1 DEF Found, off
<1>17. QED
  BY <1>4, <1>8, <1>16 DEF off

\* The records that have been skipped.
Skipped == Before(made, sect) + made.counts[sect + 1] - left

\* The parser follows a message with true counts: it has come to where a record
\* begins or, in one that is cut or too long, behind its end; it has found the
\* sections; it goes on only with what is whole and has the record it asks for.
Follows ==
    /\ pc = "skip" =>
          /\ left <= made.counts[sect + 1]
          /\ ptr = Offsets(made)[Skipped] \/ (made.tail # 0 /\ ptr > eom)
    /\ pc \notin {"header", "refused"} =>
          /\ starts[0] = 12
          /\ pc # "skip" \/ sect >= 1 => starts[1] = Offsets(made)[Asked(made)]
    /\ pc \notin {"header", "skip", "refused"} => made.tail = 0
    /\ pc \notin {"header", "skip", "question", "refused"} => Asked(made) >= 1
    /\ pc = "question name" => src = starts[0]
    /\ pc = "answer name" => src = starts[1] /\ made.counts[2] # 0

\* What it returns then.
Returns ==
    /\ pc \in {"stored", "sent"} => type = made.questions[1].type
    /\ pc = "returned" =>
          type = IF made.counts[2] = 0 THEN ns_t_invalid ELSE made.records[1].type
    /\ made.tail = 0 /\ pc = "refused" => made.questions = << >> \/ (result = -1 /\ src >= 12)

ParseInv == msg = Assembled(made) /\ (TrueCounts => Follows /\ Returns)

LEMMA InitParse == Init => ParseInv
<1> SUFFICES ASSUME Init
             PROVE  ParseInv
  OBVIOUS
<1>1. msg = Assembled(made) /\ pc = "header"
  BY DEF Init
<1>2. QED
  BY <1>1 DEF ParseInv, Follows, Returns

\* Where an unpacked name ends.
LEMMA NameEnds ==
    ASSUME UnpackInv, ~U!Running, result # -1
    PROVE  /\ result \in Nat /\ src \in Nat /\ src <= eom
           /\ SkipName(src) = src + result
<1>1. UP!TypeOK /\ UP!SkipAgrees /\ ~UP!Running
  BY SameUnpack DEF UnpackInv, UP!InsideInv, UP!StaysInside, UP!SkipInv
<1>2. msg \in Seq(Octet) /\ src \in 0 .. eom /\ result \in -2 .. eom /\ eom \in Nat
  <2>1. msg \in Seq(Octet) /\ src \in 0 .. eom /\ result \in -2 .. eom
    BY <1>1 DEF UP!TypeOK, UP!eom, eom
  <2>2. QED
    BY <2>1, Get16Type
<1>3. result # -2
  BY <1>1 DEF UP!Running
<1>4. result \in Nat /\ src \in Nat /\ src <= eom
  BY <1>2, <1>3
<1>5. UP!Skip[src] = src + result
  BY <1>1, <1>4 DEF UP!SkipAgrees
<1>6. ~(src > eom)
  BY <1>2, <1>4
<1>7. SkipName(src) = UP!Skip[src]
  BY <1>6, SameUnpack, Zenon DEF SkipName
<1>8. QED
  BY <1>4, <1>5, <1>7, Zenon

\* The first record, in the order of the sections, of a message that is whole.
LEMMA RecordFound ==
    ASSUME made \in Made, msg = Assembled(made), TrueCounts, made.tail = 0,
           NEW k \in 1 .. Items(made), src = Offsets(made)[k - 1],
           UnpackInv, ~U!Running, result # -1
    PROVE  /\ src >= 12
           /\ Get16(src + result) = TypeIn(made, k)
           /\ src + result + 4 <= eom
           /\ k > Asked(made) => src + result + 10 <= eom /\ AfterData(src + result + 4) <= eom
<1>1. result \in Nat /\ src \in Nat /\ src <= eom /\ SkipName(src) = src + result
  BY NameEnds
<1>2. eom \in Nat /\ eom = Len(Whole(made))
  BY ArrivedLemma
<1>3. PICK n \in Nat : src >= 12 /\ Found(k, src, n)
  BY <1>1, ItemLemma
<1>4. PICK end \in Nat : end = Offsets(made)[k]
  BY <1>3 DEF Found
<1>5. end <= eom /\ end >= src + n + 4
  BY <1>2, <1>3, <1>4 DEF Found
<1>6. src + n <= eom /\ src + n + 2 <= eom /\ src + n + 4 <= eom
  BY <1>1, <1>2, <1>5
<1>7. n = result
  <2>1. SkipName(src) = src + n
    BY <1>3, <1>6 DEF Found
  <2>2. QED
    BY <1>1, <2>1
<1>8. Get16(src + n) = TypeIn(made, k)
  BY <1>3, <1>6 DEF Found
<1>9. ASSUME k > Asked(made)
      PROVE  src + n + 10 <= eom /\ AfterData(src + n + 4) <= eom
  <2>1. end >= src + n + 10
    BY <1>3, <1>4, <1>9 DEF Found
  <2>2. src + n + 10 <= eom
    BY <1>1, <1>2, <1>5, <2>1
  <2>3. AfterData(src + n + 4) = end
    BY <1>3, <1>4, <1>9, <2>2 DEF Found
  <2>4. QED
    BY <1>5, <2>2, <2>3
<1>10. QED
  BY <1>3, <1>6, <1>7, <1>8, <1>9

\* The section a record is skipped in.
LEMMA SkippedLemma ==
    ASSUME made \in Made, TrueCounts, sect \in 0 .. 3, left \in Nat,
           left <= made.counts[sect + 1]
    PROVE  /\ Skipped \in 0 .. Items(made) /\ Items(made) \in Nat /\ Asked(made) \in Nat
           /\ left > 0 => /\ Skipped + 1 \in 1 .. Items(made)
                          /\ sect = 0 <=> Skipped + 1 <= Asked(made)
           /\ left = 0 /\ sect < 3 => Skipped = Before(made, sect + 1)
           /\ left = 0 /\ sect = 3 => Skipped = Items(made)
<1>1. PICK b \in Nat, c \in Nat, i \in Nat, a \in Nat :
         b = Before(made, sect) /\ c = made.counts[sect + 1] /\ i = Items(made) /\ a = Asked(made)
  BY CountsLemma
<1>2. /\ b + c <= i
      /\ sect < 3 => Before(made, sect + 1) = b + c
      /\ sect >= 1 => b >= a
  BY <1>1, CountsLemma
<1>3. sect = 0 => b = 0 /\ c = a
  BY <1>1, CountsLemma
<1>4. sect = 3 => b + c = i
  BY <1>1, CountsLemma
<1>5. Skipped = b + c - left /\ left <= c
  BY <1>1 DEF Skipped
<1>6. Skipped \in 0 .. i
  BY <1>2, <1>5
<1>7. ASSUME left > 0
      PROVE  Skipped + 1 \in 1 .. i /\ (sect = 0 <=> Skipped + 1 <= a)
  BY <1>2, <1>3, <1>5, <1>7
<1>8. QED
  BY <1>1, <1>2, <1>4, <1>5, <1>6, <1>7

\* What ns_initparse skips.
LEMMA SkipParses ==
    ASSUME ReadsInv, made \in Made, msg = Assembled(made), TrueCounts, Follows, Returns,
           SkipRecord, made' = made, msg' = msg
    PROVE  Follows' /\ Returns'
<1> DEFINE name == SkipName(ptr)
           fields == name + 4
<1>1. /\ pc = "skip" /\ left > 0 /\ left \in Nat /\ left <= made.counts[sect + 1]
      /\ sect \in 0 .. 3 /\ ptr \in Nat /\ eom' = eom /\ eom \in Nat /\ eom >= 12
      /\ msg \in Seq(Octet) /\ made.tail \in Int
  <2>1. pc = "skip" /\ left > 0
    BY DEF SkipRecord
  <2>2. left \in Octets2 /\ sect \in 0 .. 3 /\ ptr \in Nat /\ eom >= 12
    BY <2>1 DEF ReadsInv, ReadsInside, TypeOK, NS_HFIXEDSZ
  <2>3. left <= made.counts[sect + 1]
    BY <2>1 DEF Follows
  <2>4. left \in Nat
    BY <2>2 DEF Octets2
  <2>5. QED
    BY <2>1, <2>2, <2>3, <2>4, ArrivedLemma DEF eom
<1>2. /\ Skipped \in 0 .. Items(made) /\ Items(made) \in Nat /\ Asked(made) \in Nat
      /\ Skipped + 1 \in 1 .. Items(made)
      /\ sect = 0 <=> Skipped + 1 <= Asked(made)
  BY <1>1, SkippedLemma
<1>3. PICK s \in Nat : s = Skipped
  BY <1>2
<1>4. ptr = Offsets(made)[s] \/ (made.tail # 0 /\ ptr > eom)
  BY <1>1, <1>3 DEF Follows
<1>5. /\ starts[0] = 12
      /\ sect >= 1 => starts[1] = Offsets(made)[Asked(made)]
  BY <1>1 DEF Follows
<1>6. CASE ptr > eom
  <2>1. name = -1
    BY <1>6 DEF SkipName
  <2>2. Refuse
    BY <2>1 DEF SkipRecord
  <2>3. made.tail # 0
    <3>1. Offsets(made)[s] <= Len(Whole(made)) /\ Offsets(made)[s] \in Nat
      BY <1>2, <1>3, OffsetsGrow
    <3>2. made.tail = 0 <=> eom = Len(Whole(made))
      BY ArrivedLemma
    <3>3. QED
      BY <1>1, <1>4, <1>6, <3>1, <3>2
  <2>4. QED
    BY <2>2, <2>3 DEF Refuse, Follows, Returns
<1>7. CASE ~(ptr > eom)
  <2>1. ptr = Offsets(made)[s] /\ ptr <= eom /\ (s + 1) - 1 = s /\ s + 1 \in 1 .. Items(made)
    BY <1>1, <1>2, <1>3, <1>4, <1>7
  <2>2. PICK n \in Nat : Found(s + 1, ptr, n)
    <3>1. Offsets(made)[(s + 1) - 1] <= eom
      BY <2>1
    <3>2. QED
      BY <2>1, <3>1, ItemLemma
  <2>3. PICK end \in Nat : end = Offsets(made)[s + 1]
    BY <2>2 DEF Found
  <2>4. end <= Len(Whole(made)) /\ end >= ptr + n + 4 /\ Len(Whole(made)) \in Nat
    BY <2>2, <2>3, ArrivedLemma DEF Found
  <2>5. made.tail = 0 => ptr + n + 4 <= eom
    <3>1. made.tail = 0 <=> eom = Len(Whole(made))
      BY ArrivedLemma
    <3>2. QED
      BY <1>1, <2>4, <3>1
  <2>6. \/ ptr + n <= eom /\ name = ptr + n
        \/ /\ ptr + n > eom /\ (name = -1 \/ name = eom) /\ made.tail # 0
    BY <1>1, <2>2, <2>5 DEF Found
  <2> HIDE DEF name
  <2>7. sect = 0 => (end = ptr + n + 4)
    BY <1>2, <1>3, <2>2, <2>3 DEF Found
  <2>8. ASSUME sect # 0
        PROVE  /\ end >= ptr + n + 10
               /\ ptr + n + 10 <= eom => AfterData(ptr + n + 4) = end
    <3>1. s + 1 > Asked(made)
      BY <1>2, <1>3, <2>8
    <3>2. QED
      BY <2>2, <2>3, <3>1 DEF Found
  <2>9. ASSUME Refuse
        PROVE  made.tail # 0
    <3>1. SUFFICES ASSUME made.tail = 0
                   PROVE  FALSE
      OBVIOUS
    <3>2. eom = Len(Whole(made))
      BY <3>1, ArrivedLemma
    <3>3. name = ptr + n /\ name # -1
      BY <1>1, <2>6, <3>1
    <3>4. sect # 0 => FieldsFit(fields)
      <4>1. SUFFICES ASSUME sect # 0
                     PROVE  FieldsFit(fields)
        OBVIOUS
      <4>2. ptr + n + 10 <= eom
        BY <1>1, <2>4, <2>8, <3>2, <4>1
      <4>3. fields + 6 <= eom
        BY <1>1, <3>3, <4>2
      <4>4. QED
        BY <4>3 DEF FieldsFit
    <3>5. pc' = pc
      BY <3>3, <3>4 DEF SkipRecord, name
    <3>6. QED
      BY <1>1, <2>9, <3>5 DEF Refuse
  <2>10. CASE Refuse
    BY <2>9, <2>10 DEF Refuse, Follows, Returns
  <2>11. CASE ~Refuse
    <3>1. /\ name # -1 /\ (sect # 0 => FieldsFit(fields))
          /\ ptr' = (IF sect = 0 THEN fields ELSE AfterData(fields))
          /\ left' = left - 1 /\ pc' = "skip"
          /\ UNCHANGED <<pc, sect, starts, text, type, asked, unpackVars>>
      BY <1>1, <2>11 DEF SkipRecord, name
    <3>2. left' <= made.counts[sect + 1] /\ Skipped' = s + 1
      <4>1. PICK b \in Nat, c \in Nat : b = Before(made, sect) /\ c = made.counts[sect + 1]
        BY <1>1, CountsLemma
      <4>2. Skipped = b + c - left /\ Skipped' = b + c - left'
        BY <3>1, <4>1 DEF Skipped
      <4>3. PICK l \in Nat : l = left /\ l <= c
        BY <1>1, <4>1
      <4>4. left' = l - 1
        BY <3>1, <4>3
      <4>5. l - 1 <= c /\ (b + c) - (l - 1) = ((b + c) - l) + 1
        BY <4>3
      <4>6. QED
        BY <1>3, <4>1, <4>2, <4>3, <4>4, <4>5
    <3>3. ptr' = end \/ (made.tail # 0 /\ ptr' > eom)
      <4>1. CASE ptr + n <= eom /\ name = ptr + n
        <5>1. CASE sect = 0
          BY <1>1, <2>7, <3>1, <4>1, <5>1
        <5>2. CASE sect # 0
          <6>1. fields + 6 <= eom /\ fields = ptr + n + 4
            BY <1>1, <3>1, <4>1, <5>2 DEF FieldsFit
          <6>2. ptr + n + 10 <= eom
            BY <1>1, <6>1
          <6>3. QED
            BY <2>8, <3>1, <5>2, <6>1, <6>2
        <5>3. QED
          BY <5>1, <5>2
      <4>2. CASE name = eom /\ made.tail # 0
        <5>1. fields = eom + 4 /\ ~(fields + 6 <= eom) /\ fields > eom
          BY <1>1, <4>2
        <5>2. sect = 0
          BY <3>1, <5>1 DEF FieldsFit
        <5>3. QED
          BY <3>1, <4>2, <5>1, <5>2
      <4>3. QED
        BY <2>6, <3>1, <4>1, <4>2
    <3>4. Follows'
      <4>1. ptr' = Offsets(made)[Skipped'] \/ (made.tail # 0 /\ ptr' > eom)
        BY <2>3, <3>2, <3>3
      <4>2. QED
        BY <1>1, <1>5, <3>1, <3>2, <4>1 DEF Follows
    <3>5. Returns'
      BY <3>1 DEF Returns
    <3>6. QED
      BY <3>4, <3>5
  <2>12. QED
    BY <2>10, <2>11
<1>8. QED
  BY <1>6, <1>7

\* A section ends.
LEMMA SectionParses ==
    ASSUME ReadsInv, made \in Made, msg = Assembled(made), TrueCounts, Follows, Returns,
           EndSection, made' = made, msg' = msg
    PROVE  Follows' /\ Returns'
<1>1. /\ pc = "skip" /\ left = 0 /\ left <= made.counts[sect + 1]
      /\ sect \in 0 .. 3 /\ ptr \in Nat /\ eom' = eom /\ eom \in Nat /\ eom >= 12
      /\ made.tail \in Int
  <2>1. pc = "skip" /\ left = 0
    BY DEF EndSection
  <2>2. sect \in 0 .. 3 /\ ptr \in Nat /\ eom >= 12
    BY <2>1 DEF ReadsInv, ReadsInside, TypeOK, NS_HFIXEDSZ
  <2>3. left <= made.counts[sect + 1]
    BY <2>1 DEF Follows
  <2>4. QED
    BY <2>1, <2>2, <2>3, ArrivedLemma DEF eom
<1>2. /\ Skipped \in 0 .. Items(made) /\ Items(made) \in Nat /\ Asked(made) \in Nat
      /\ sect < 3 => Skipped = Before(made, sect + 1)
      /\ sect = 3 => Skipped = Items(made)
  BY <1>1, 0 \in Nat, SkippedLemma
<1>3. ptr = Offsets(made)[Skipped] \/ (made.tail # 0 /\ ptr > eom)
  BY <1>1 DEF Follows
<1>4. /\ starts[0] = 12
      /\ sect >= 1 => starts[1] = Offsets(made)[Asked(made)]
  BY <1>1 DEF Follows
<1>5. /\ Len(Whole(made)) \in Nat
      /\ made.tail = 0 <=> eom = Len(Whole(made))
      /\ \A s \in 0 .. 3 : Count(s) = made.counts[s + 1]
  BY <1>1, ArrivedLemma
<1>6. Offsets(made)[Skipped] \in Nat /\ Offsets(made)[Skipped] <= Len(Whole(made))
  BY <1>2, OffsetsGrow
<1>7. Offsets(made)[Items(made)] = Len(Whole(made))
  BY OffsetsLemma, Zenon DEF Laid
<1>8. made.tail = 0 => SectionFits
  BY <1>1, <1>3, <1>5, <1>6 DEF SectionFits
<1>9. sect = 3 /\ SectionFits => (WholeMessage <=> made.tail = 0)
  <2>1. ASSUME sect = 3, SectionFits
        PROVE  ptr = Len(Whole(made))
    BY <1>1, <1>2, <1>3, <1>7, <2>1 DEF SectionFits
  <2>2. QED
    BY <1>5, <2>1 DEF WholeMessage
<1>s. starts \in [0 .. 3 -> 0 .. eom]
  BY DEF ReadsInv, ReadsInside, TypeOK
<1>10. CASE /\ SectionFits /\ sect < 3 /\ sect' = sect + 1 /\ left' = Count(sect + 1)
            /\ starts' = [starts EXCEPT ![sect + 1] = ptr]
            /\ UNCHANGED <<pc, ptr, text, type, asked, read, unpackVars>>
  <2>1. /\ sect + 1 \in 0 .. 3 /\ sect + 1 >= 1 /\ 0 \in 0 .. 3 /\ 1 \in 0 .. 3 /\ sect + 1 # 0
        /\ sect + 1 = 1 <=> sect = 0
    BY <1>1, <1>10
  <2>2. ptr = Offsets(made)[Skipped]
    BY <1>1, <1>3, <1>10 DEF SectionFits
  <2>3. left' = made.counts[sect' + 1] /\ made.counts[sect' + 1] \in Nat
    BY <1>5, <1>10, <2>1, CountsLemma
  <2>4. Skipped' = Skipped
    <3>1. Before(made, sect + 1) \in Nat
      BY <2>1, CountsLemma
    <3>2. Skipped' = Before(made, sect') + made.counts[sect' + 1] - left'
      BY DEF Skipped
    <3>3. QED
      BY <1>2, <1>10, <2>3, <3>1, <3>2
  <2>5. starts'[0] = 12
    BY <1>4, <1>10, <1>s, <2>1
  <2>6. starts'[1] = Offsets(made)[Asked(made)]
    <3>1. CASE sect = 0
      <4>1. starts'[1] = ptr
        BY <1>10, <1>s, <2>1, <3>1
      <4>2. Skipped = Asked(made)
        BY <1>2, <1>10, <3>1, CountsLemma
      <4>3. QED
        BY <2>2, <4>1, <4>2
    <3>2. CASE sect # 0
      <4>1. starts'[1] = starts[1] /\ sect >= 1
        BY <1>1, <1>10, <1>s, <2>1, <3>2
      <4>2. QED
        BY <1>4, <4>1
    <3>3. QED
      BY <3>1, <3>2
  <2>7. Follows'
    <3>1. left' <= made.counts[sect' + 1]
      BY <2>3
    <3>2. pc' = "skip" /\ ptr' = Offsets(made)[Skipped']
      BY <1>1, <1>10, <2>2, <2>4
    <3>3. QED
      BY <2>5, <2>6, <3>1, <3>2 DEF Follows
  <2>8. Returns'
    BY <1>1, <1>10 DEF Returns
  <2>9. QED
    BY <2>7, <2>8
<1>11. CASE Refuse
  <2>1. made.tail # 0
    <3>1. SUFFICES ASSUME made.tail = 0
                   PROVE  FALSE
      OBVIOUS
    <3>2. pc' = "refused"
      BY <1>11 DEF Refuse
    <3>3. \/ ~SectionFits
          \/ sect = 3 /\ SectionFits /\ ~WholeMessage
      BY <1>1, <3>2 DEF EndSection
    <3>4. QED
      BY <1>8, <1>9, <3>1, <3>3
  <2>2. QED
    BY <1>11, <2>1 DEF Refuse, Follows, Returns
<1>12. CASE /\ SectionFits /\ sect = 3 /\ WholeMessage /\ pc' = "question"
            /\ UNCHANGED <<parseVars, text, type, asked, read, unpackVars>>
  <2>1. made.tail = 0
    BY <1>9, <1>12
  <2>2. starts' = starts /\ starts[1] = Offsets(made)[Asked(made)]
    BY <1>1, <1>4, <1>12 DEF parseVars
  <2>3. QED
    BY <1>4, <1>12, <2>1, <2>2 DEF Follows, Returns
<1>13. QED
  BY <1>10, <1>11, <1>12 DEF EndSection

\* The first question is where ns_parserr looks for it, and so is the first answer.
LEMMA FirstQuestion ==
    ASSUME made \in Made, TrueCounts, Asked(made) >= 1
    PROVE  /\ 1 \in 1 .. Items(made) /\ Offsets(made)[1 - 1] = 12
           /\ TypeIn(made, 1) = made.questions[1].type
<1>1. PICK a \in Nat, i \in Nat, c \in Nat :
         a = Asked(made) /\ i = Items(made) /\ c = made.counts[2] /\ a + c <= i
  <2>1. 1 \in 0 .. 3 /\ 1 + 1 = 2
    OBVIOUS
  <2>2. QED
    BY <2>1, CountsLemma
<1>2. 1 \in 1 .. i /\ 1 - 1 = 0 /\ 1 <= a
  BY <1>1
<1>3. Offsets(made)[0] = 12
  BY OffsetsLemma, Zenon DEF Laid
<1>4. QED
  BY <1>1, <1>2, <1>3 DEF TypeIn

LEMMA FirstAnswer ==
    ASSUME made \in Made, TrueCounts, made.counts[2] # 0
    PROVE  /\ Asked(made) + 1 \in 1 .. Items(made) /\ (Asked(made) + 1) - 1 = Asked(made)
           /\ Asked(made) + 1 > Asked(made)
           /\ TypeIn(made, Asked(made) + 1) = made.records[1].type
<1>1. PICK a \in Nat, i \in Nat, c \in Nat :
         a = Asked(made) /\ i = Items(made) /\ c = made.counts[2] /\ a + c <= i /\ c # 0
  <2>1. 1 \in 0 .. 3 /\ 1 + 1 = 2
    OBVIOUS
  <2>2. QED
    BY <2>1, CountsLemma
<1>2. a + 1 \in 1 .. i /\ (a + 1) - 1 = a /\ a + 1 > a /\ (a + 1) - a = 1 /\ ~(a + 1 <= a)
  <2>1. c >= 1
    BY <1>1
  <2>2. a + 1 <= i
    BY <1>1, <2>1
  <2>3. a + 1 \in 1 .. i
    BY <2>2
  <2>4. QED
    BY <2>3
<1>3. QED
  BY <1>1, <1>2 DEF TypeIn

LEMMA NextParses ==
    ASSUME ReadsInv, ParseInv, Next
    PROVE  ParseInv'
<1>1. made' = made /\ msg' = msg /\ eom' = eom /\ made \in Made /\ msg = Assembled(made)
  BY DEF Next, eom, ReadsInv, ReadsInside, TypeOK, ParseInv
<1>2. TrueCounts' <=> TrueCounts
  BY <1>1 DEF TrueCounts
<1> SUFFICES ASSUME TrueCounts
             PROVE  Follows' /\ Returns'
  BY <1>1, <1>2 DEF ParseInv
<1>3. Follows /\ Returns
  BY DEF ParseInv
<1>4. /\ starts \in [0 .. 3 -> 0 .. eom] /\ eom \in Nat /\ Asked(made) \in Nat
      /\ msg \in Seq(Octet) /\ NS_HFIXEDSZ = 12
  BY <1>1, ArrivedLemma, CountsLemma DEF ReadsInv, ReadsInside, TypeOK, NS_HFIXEDSZ
<1>5. pc \notin {"header", "refused"} =>
         /\ Count(0) = Asked(made) /\ Count(1) = made.counts[2]
  <2>1. SUFFICES ASSUME pc \notin {"header", "refused"}
                 PROVE  Count(0) = Asked(made) /\ Count(1) = made.counts[2]
    OBVIOUS
  <2>2. eom >= 12
    BY <1>4, <2>1 DEF ReadsInv
  <2>3. 0 \in 0 .. 3 /\ 1 \in 0 .. 3 /\ 0 + 1 = 1 /\ 1 + 1 = 2
    OBVIOUS
  <2>4. Count(0) = made.counts[1] /\ Count(1) = made.counts[2]
    BY <1>1, <2>2, <2>3, ArrivedLemma
  <2>5. QED
    BY <1>1, <2>4, CountsLemma
<1>6. CASE ParseHeader
  <2>1. eom < 12 => made.tail # 0
    BY <1>1, ArrivedLemma
  <2>2. CASE eom < 12
    <3>1. Refuse
      BY <1>4, <1>6, <2>2 DEF ParseHeader, NS_HFIXEDSZ
    <3>2. QED
      BY <1>1, <2>1, <2>2, <3>1 DEF Refuse, Follows, Returns
  <2>3. CASE ~(eom < 12)
    <3>1. /\ pc' = "skip" /\ sect' = 0 /\ left' = Count(0) /\ ptr' = 12
          /\ starts' = [starts EXCEPT ![0] = 12]
      BY <1>4, <1>6, <2>3 DEF ParseHeader, NS_HFIXEDSZ
    <3>2. eom >= 12 /\ 0 \in 0 .. 3 /\ 0 + 1 = 1
      BY <1>4, <2>3
    <3>3. Count(0) = made.counts[1] /\ made.counts[1] \in Nat /\ Before(made, 0) = 0
      BY <1>1, <3>2, ArrivedLemma, CountsLemma
    <3>4. left' <= made.counts[sect' + 1] /\ Skipped' = 0
      <4>1. Skipped' = Before(made, sect') + made.counts[sect' + 1] - left'
        BY <1>1 DEF Skipped
      <4>2. QED
        BY <3>1, <3>2, <3>3, <4>1
    <3>5. ptr' = Offsets(made)[Skipped']
      <4>1. Offsets(made)[0] = 12
        BY <1>1, OffsetsLemma, Zenon DEF Laid
      <4>2. QED
        BY <3>1, <3>4, <4>1
    <3>6. starts'[0] = 12
      BY <1>4, <3>1, <3>2
    <3>7. Follows'
      BY <1>1, <3>1, <3>4, <3>5, <3>6 DEF Follows
    <3>8. Returns'
      BY <3>1 DEF Returns
    <3>9. QED
      BY <3>7, <3>8
  <2>4. QED
    BY <2>2, <2>3
<1>7. CASE SkipRecord
  BY <1>1, <1>3, <1>7, SkipParses
<1>8. CASE EndSection
  BY <1>1, <1>3, <1>8, SectionParses
<1>9. CASE ParseQuestion
  <2>1. pc = "question" /\ made.tail = 0 /\ starts[0] = 12 /\ starts[1] = Offsets(made)[Asked(made)]
    BY <1>3, <1>9 DEF ParseQuestion, Follows
  <2>2. CASE Refuse
    <3>1. Count(0) = 0
      BY <1>9, <2>2 DEF ParseQuestion, Refuse
    <3>2. Asked(made) = 0
      BY <1>5, <2>1, <3>1
    <3>3. made.questions = << >>
      BY <1>1, <3>2, MadeParts, EmptySeq DEF Asked
    <3>4. QED
      BY <1>1, <2>2, <3>3 DEF Refuse, Follows, Returns
  <2>3. CASE ~Refuse
    <3>1. Count(0) # 0 /\ pc' = "question name" /\ Unpack(starts[0]) /\ starts' = starts
      BY <1>9, <2>3 DEF ParseQuestion, parseVars
    <3>2. Asked(made) >= 1
      <4>1. Asked(made) # 0
        BY <1>5, <2>1, <3>1
      <4>2. QED
        BY <1>4, <4>1
    <3>3. src' = starts[0]
      BY <3>1 DEF Unpack
    <3>4. QED
      BY <1>1, <2>1, <3>1, <3>2, <3>3 DEF Follows, Returns
  <2>4. QED
    BY <2>2, <2>3
<1>10. CASE UnpackStep
  <2>1. /\ pc \in {"question name", "answer name"} /\ src' = src
        /\ UNCHANGED <<pc, parseVars, text, type, asked, read>>
    BY <1>10 DEF UnpackStep, U!Next
  <2>2. QED
    BY <1>1, <1>3, <2>1 DEF Follows, Returns, parseVars
<1>11. CASE QuestionName
  <2>1. /\ pc = "question name" /\ made.tail = 0 /\ starts[0] = 12 /\ src = starts[0]
        /\ starts[1] = Offsets(made)[Asked(made)] /\ Asked(made) >= 1
        /\ ~U!Running
    BY <1>3, <1>11 DEF QuestionName, Follows
  <2>2. UnpackInv /\ WellFormed(dst) /\ U!StaysInside
    BY <2>1 DEF ReadsInv, ReadsInside
  <2>3. Expanded(dst) # NoName
    BY <2>2, ExpandedType
  <2>4. /\ 1 \in 1 .. Items(made) /\ Offsets(made)[1 - 1] = 12
        /\ TypeIn(made, 1) = made.questions[1].type
    BY <1>1, <2>1, FirstQuestion
  <2>5. result # -1 =>
           /\ Get16(starts[0] + result) = made.questions[1].type
           /\ starts[0] + result + 4 <= eom /\ ~((starts[0] + result) + 4 > eom)
    <3>1. SUFFICES ASSUME result # -1
                   PROVE  /\ Get16(starts[0] + result) = made.questions[1].type
                          /\ starts[0] + result + 4 <= eom /\ ~((starts[0] + result) + 4 > eom)
      OBVIOUS
    <3>2. /\ Get16(src + result) = TypeIn(made, 1) /\ src + result + 4 <= eom
      BY <1>1, <2>1, <2>2, <2>4, <3>1, RecordFound
    <3>3. result \in Nat
      BY <2>1, <2>2, <3>1, NameEnds
    <3>4. ~((12 + result) + 4 > eom)
      <4>1. 12 + result + 4 <= eom
        BY <2>1, <3>2
      <4>2. QED
        BY <1>4, <3>3, <4>1
    <3>5. QED
      BY <2>1, <2>4, <3>2, <3>4
  <2>6. CASE Refuse
    <3>1. result = -1
      <4>1. pc' = "refused"
        BY <2>6 DEF Refuse
      <4>2. result = -1 \/ Expanded(dst) = NoName \/ (starts[0] + result) + 4 > eom
        BY <1>11, <4>1, Zenon DEF QuestionName
      <4>3. QED
        BY <2>3, <2>5, <4>2
    <3>2. result' = -1 /\ src' >= 12
      <4>1. result' = result /\ src' = 12
        BY <2>1, <2>6 DEF Refuse, unpackVars
      <4>2. QED
        BY <3>1, <4>1
    <3>3. QED
      BY <1>1, <2>6, <3>2 DEF Refuse, Follows, Returns
  <2>7. CASE ~Refuse
    <3>1. /\ result # -1 /\ type' = Get16(starts[0] + result)
          /\ pc' = (IF made.kind = "query" THEN "stored" ELSE "answer")
          /\ starts' = starts
      BY <1>11, <2>7, Zenon DEF QuestionName, parseVars
    <3>2. type' = made.questions[1].type
      BY <2>5, <3>1
    <3>3. QED
      BY <1>1, <2>1, <3>1, <3>2 DEF Follows, Returns
  <2>8. QED
    BY <2>6, <2>7
<1>12. CASE ParseAnswer
  <2>1. /\ pc = "answer" /\ made.tail = 0 /\ starts[0] = 12 /\ Asked(made) >= 1
        /\ starts[1] = Offsets(made)[Asked(made)] /\ starts' = starts
        /\ Count(1) = made.counts[2]
    BY <1>3, <1>5, <1>12 DEF ParseAnswer, Follows, parseVars
  <2>2. CASE Count(1) = 0
    <3>1. type' = ns_t_invalid /\ pc' = "returned"
      BY <1>12, <2>2 DEF ParseAnswer
    <3>2. QED
      BY <1>1, <2>1, <2>2, <3>1 DEF Follows, Returns
  <2>3. CASE Count(1) # 0
    <3>1. pc' = "answer name" /\ src' = starts[1]
      BY <1>12, <2>3 DEF ParseAnswer, Unpack
    <3>2. QED
      BY <1>1, <2>1, <2>3, <3>1 DEF Follows, Returns
  <2>4. QED
    BY <2>2, <2>3
<1>13. CASE AnswerName
  <2>1. /\ pc = "answer name" /\ made.tail = 0 /\ starts[0] = 12 /\ src = starts[1]
        /\ starts[1] = Offsets(made)[Asked(made)] /\ Asked(made) >= 1
        /\ made.counts[2] # 0 /\ ~U!Running
    BY <1>3, <1>13 DEF AnswerName, Follows
  <2>2. UnpackInv /\ WellFormed(dst) /\ U!StaysInside
    BY <2>1 DEF ReadsInv, ReadsInside
  <2>3. Expanded(dst) # NoName
    BY <2>2, ExpandedType
  <2>4. /\ Asked(made) + 1 \in 1 .. Items(made) /\ (Asked(made) + 1) - 1 = Asked(made)
        /\ Asked(made) + 1 > Asked(made)
        /\ TypeIn(made, Asked(made) + 1) = made.records[1].type
    BY <1>1, <2>1, FirstAnswer
  <2>5. src >= 12
    <3>1. Items(made) \in Nat /\ Asked(made) \in 0 .. Items(made)
      BY <1>1, <1>4, <2>4, CountsLemma
    <3>2. QED
      BY <1>1, <2>1, <3>1, OffsetsGrow
  <2>6. result # -1 =>
           /\ Get16(starts[1] + result) = made.records[1].type
           /\ FieldsFit(starts[1] + result + 4) /\ ~(AfterData(starts[1] + result + 4) > eom)
    <3>1. SUFFICES ASSUME result # -1
                   PROVE  /\ Get16(src + result) = made.records[1].type
                          /\ FieldsFit(src + result + 4) /\ ~(AfterData(src + result + 4) > eom)
      BY <2>1
    <3>2. /\ Get16(src + result) = TypeIn(made, Asked(made) + 1)
          /\ src + result + 10 <= eom /\ AfterData(src + result + 4) <= eom
      BY <1>1, <2>1, <2>2, <2>4, <3>1, RecordFound
    <3>3. result \in Nat /\ src \in Nat
      BY <2>1, <2>2, <3>1, NameEnds
    <3>4. FieldsFit(src + result + 4)
      BY <1>4, <3>2, <3>3 DEF FieldsFit
    <3>5. AfterData(src + result + 4) \in Nat
      <4>1. src + result + 4 \in Nat /\ (src + result + 4) + 4 \in Nat
        BY <3>3
      <4>2. Get16((src + result + 4) + 4) \in Nat
        BY <1>4, <4>1, Get16Type
      <4>3. QED
        BY <4>1, <4>2 DEF AfterData
    <3>6. QED
      BY <1>4, <2>4, <3>2, <3>4, <3>5
  <2>7. CASE Refuse
    <3>1. result = -1
      <4>1. pc' = "refused"
        BY <2>7 DEF Refuse
      <4>2. \/ result = -1 \/ Expanded(dst) = NoName
            \/ ~FieldsFit(starts[1] + result + 4) \/ AfterData(starts[1] + result + 4) > eom
        BY <1>13, <4>1, Zenon DEF AnswerName
      <4>3. QED
        BY <2>3, <2>6, <4>2
    <3>2. result' = -1 /\ src' >= 12
      BY <2>5, <2>7, <3>1 DEF Refuse, unpackVars
    <3>3. QED
      BY <1>1, <2>7, <3>2 DEF Refuse, Follows, Returns
  <2>8. CASE ~Refuse
    <3>1. /\ result # -1 /\ type' = Get16(starts[1] + result)
          /\ pc' = "returned" /\ starts' = starts
      BY <1>13, <2>8, Zenon DEF AnswerName, parseVars
    <3>2. type' = made.records[1].type
      BY <2>6, <3>1
    <3>3. QED
      BY <1>1, <2>1, <3>1, <3>2 DEF Follows, Returns
  <2>9. QED
    BY <2>7, <2>8
<1>14. CASE MkQuery
  <2>1. pc = "stored" /\ pc' = "sent" /\ starts' = starts /\ type' = type
    BY <1>14 DEF MkQuery, parseVars
  <2>2. QED
    BY <1>1, <1>3, <2>1 DEF Follows, Returns
<1>15. QED
  BY <1>6, <1>7, <1>8, <1>9, <1>10, <1>11, <1>12, <1>13, <1>14 DEF Next

\* Of a message whose counts and lengths are true the parser returns what has been
\* put in it, and it refuses one that was cut or has bytes too many.
THEOREM ParserReturnsWhatWasPut == Spec => []ParsesTheMessage
<1>1. ReadsInv /\ ParseInv /\ [Next]_vars => ParseInv'
  <2>1. ASSUME ParseInv, UNCHANGED vars
        PROVE  ParseInv'
    BY <2>1 DEF vars, parseVars, unpackVars, ParseInv, Follows, Returns, TrueCounts, Skipped, eom
  <2>2. QED
    BY <2>1, NextParses
<1>2. ParseInv => ParsesTheMessage
  <2>1. SUFFICES ASSUME ParseInv, TrueCounts
                 PROVE  ParsesTheMessage
    BY DEF ParsesTheMessage, Truthful
  <2>2. Follows /\ Returns
    BY <2>1 DEF ParseInv
  <2>3. QED
    BY <2>2 DEF Follows, Returns, ParsesTheMessage, Truthful, NS_HFIXEDSZ
<1>3. QED
  BY InitReads, NextReads, InitParse, <1>1, <1>2, PTL DEF Spec

-------------------------------------------------------------------------------
(* A label is read back *)

\* The state of ns_name_pton, part by part; and with an open label.
At(st, mode, z, l, num, more, bits) ==
    /\ st \in PtonStates
    /\ st.mode = mode /\ st.name = z /\ st.label = l
    /\ st.num = num /\ st.more = more /\ st.bits = bits
Open(st, z, l) == At(st, "plain", z, l, 0, 3, << >>)

\* There is room for one more byte.
Fits(z, l) == Len(z) + Len(l) + 1 < NS_MAXCDNAME

\* The parts of a state have their types.
LEMMA AtParts ==
    ASSUME NEW st, NEW mode, NEW z, NEW l, NEW num, NEW more, NEW bits,
           At(st, mode, z, l, num, more, bits)
    PROVE  /\ z \in Seq(Octet) /\ l \in Seq(Octet) /\ bits \in Seq(Octet)
           /\ num \in Nat /\ more \in 1 .. 3
BY StateParts DEF At

\* A byte is stored in the open label.
LEMMA StoredAt ==
    ASSUME NEW st, NEW mode, NEW z, NEW l, NEW num, NEW more, NEW bits, NEW c \in Octet,
           At(st, mode, z, l, num, more, bits), Fits(z, l)
    PROVE  At(Stored(st, c, NS_MAXCDNAME), "plain", z, Append(l, c), num, more, bits)
<1>1. ~Full(st, NS_MAXCDNAME)
  <2>1. st.name = z /\ st.label = l
    BY DEF At
  <2>2. PICK a \in Nat, b \in Nat : a = Len(z) /\ b = Len(l)
    BY AtParts, LenProperties
  <2>3. ~(a + b + 1 >= NS_MAXCDNAME)
    BY <2>2 DEF Fits, NS_MAXCDNAME
  <2>4. QED
    BY <2>1, <2>2, <2>3 DEF Full
<1> DEFINE m == Append(st.label, c)
<1>2. Stored(st, c, NS_MAXCDNAME) = [st EXCEPT !.mode = "plain", !.label = m]
  BY <1>1, Zenon DEF Stored
<1>3. m = Append(l, c)
  BY DEF At
<1>4. Stored(st, c, NS_MAXCDNAME) \in PtonStates
  BY StoredType DEF At
<1> HIDE DEF m
<1>5. QED
  BY <1>2, <1>3, <1>4 DEF At, PtonStates

\* A character that stands for itself.
LEMMA ItselfAt ==
    ASSUME NEW st, NEW z, NEW l, NEW c \in Octet, NEW next, Open(st, z, l), Fits(z, l),
           c # BACKSLASH, c # DOT
    PROVE  Open(Char(st, c, next, NS_MAXCDNAME), z, Append(l, c))
<1>1. Char(st, c, next, NS_MAXCDNAME) = Stored(st, c, NS_MAXCDNAME)
  <2>1. CharMeans(st, c, next, NS_MAXCDNAME)
    BY CharCases
  <2>2. st.mode = "plain"
    BY DEF Open, At
  <2>3. QED
    BY <2>1, <2>2, Zenon DEF CharMeans
<1>2. QED
  BY <1>1, StoredAt DEF Open

\* A backslash is seen.
LEMMA BackslashAt ==
    ASSUME NEW st, NEW z, NEW l, NEW next, Open(st, z, l)
    PROVE  At(Char(st, BACKSLASH, next, NS_MAXCDNAME), "escaped", z, l, 0, 3, << >>)
<1>1. Char(st, BACKSLASH, next, NS_MAXCDNAME) = [st EXCEPT !.mode = "escaped"]
  <2>1. CharMeans(st, BACKSLASH, next, NS_MAXCDNAME)
    BY CharCases
  <2>2. st.mode = "plain"
    BY DEF Open, At
  <2>3. QED
    BY <2>1, <2>2, Zenon DEF CharMeans
<1>2. BACKSLASH \in Octet
  BY DEF BACKSLASH, Octet
<1>3. Char(st, BACKSLASH, next, NS_MAXCDNAME) \in PtonStates
  BY <1>2, CharType DEF Open, At
<1>4. QED
  BY <1>1, <1>3 DEF Open, At, PtonStates

\* A byte behind a backslash is stored.
LEMMA QuotedAt ==
    ASSUME NEW st, NEW z, NEW l, NEW c \in Octet, NEW next,
           At(st, "escaped", z, l, 0, 3, << >>), Fits(z, l), c # BRACKET, c \notin Digits
    PROVE  Open(Char(st, c, next, NS_MAXCDNAME), z, Append(l, c))
<1>1. Char(st, c, next, NS_MAXCDNAME) = Stored(st, c, NS_MAXCDNAME)
  <2>1. CharMeans(st, c, next, NS_MAXCDNAME)
    BY CharCases
  <2>2. st.mode = "escaped"
    BY DEF Open, At
  <2>3. QED
    BY <2>1, <2>2, Zenon DEF CharMeans
<1>2. QED
  BY <1>1, StoredAt DEF Open

\* The digits of a number.
LEMMA DigitAt ==
    ASSUME NEW st, NEW mode, mode \in {"escaped", "number"}, NEW z, NEW l, NEW num, NEW more,
           NEW d \in 0 .. 9, NEW next,
           At(st, mode, z, l, num, more, << >>), more > 1
    PROVE  At(Char(st, DIGIT + d, next, NS_MAXCDNAME), "number", z, l, num * 10 + d, more - 1, << >>)
<1>1. DIGIT + d \in Digits /\ DIGIT + d \in Octet /\ (DIGIT + d) - DIGIT = d
  BY DEF DIGIT, Digits, Octet
<1>2. Char(st, DIGIT + d, next, NS_MAXCDNAME) = Number(st, DIGIT + d, NS_MAXCDNAME)
  <2>1. CharMeans(st, DIGIT + d, next, NS_MAXCDNAME)
    BY CharCases
  <2>2. st.mode = "escaped" \/ st.mode = "number"
    BY DEF Open, At
  <2>3. QED
    BY <1>1, <2>1, <2>2, Zenon DEF CharMeans
<1> DEFINE n == st.num * 10 + ((DIGIT + d) - DIGIT)
<1>3. Number(st, DIGIT + d, NS_MAXCDNAME) = [st EXCEPT !.mode = "number", !.num = n, !.more = @ - 1]
  <2>1. st.more > 1
    BY DEF At
  <2>2. QED
    BY <1>1, <2>1, Zenon DEF Number
<1>4. n = num * 10 + d
  BY <1>1 DEF At
<1>5. Number(st, DIGIT + d, NS_MAXCDNAME) \in PtonStates
  BY <1>1, NumberType DEF At
<1> HIDE DEF n
<1>6. QED
  BY <1>2, <1>3, <1>4, <1>5 DEF At, PtonStates

\* The last digit of a number: the byte it stands for is stored.
LEMMA LastDigitAt ==
    ASSUME NEW st, NEW z, NEW l, NEW num \in Nat, NEW d \in 0 .. 9, NEW next,
           At(st, "number", z, l, num, 1, << >>), num * 10 + d \in Octet, Fits(z, l)
    PROVE  Open(Char(st, DIGIT + d, next, NS_MAXCDNAME), z, Append(l, num * 10 + d))
<1>1. DIGIT + d \in Digits /\ DIGIT + d \in Octet /\ (DIGIT + d) - DIGIT = d
  BY DEF DIGIT, Digits, Octet
<1>2. Char(st, DIGIT + d, next, NS_MAXCDNAME) = Number(st, DIGIT + d, NS_MAXCDNAME)
  <2>1. CharMeans(st, DIGIT + d, next, NS_MAXCDNAME)
    BY CharCases
  <2>2. st.mode = "number"
    BY DEF Open, At
  <2>3. QED
    BY <1>1, <2>1, <2>2, Zenon DEF CharMeans
<1> DEFINE n == st.num * 10 + ((DIGIT + d) - DIGIT)
           zero == [st EXCEPT !.num = 0, !.more = 3]
<1>3. n = num * 10 + d
  BY <1>1 DEF At
<1>4. Number(st, DIGIT + d, NS_MAXCDNAME) = Stored(zero, n, NS_MAXCDNAME)
  <2>1. ~(st.more > 1)
    BY DEF At
  <2>2. ~(n > 255)
    BY <1>3 DEF Octet
  <2>3. QED
    BY <1>1, <2>1, <2>2, Zenon DEF Number
<1>5. At(zero, "number", z, l, 0, 3, << >>)
  <2>1. 0 \in Nat /\ 3 \in 1 .. 3
    OBVIOUS
  <2>2. QED
    BY <2>1 DEF At, PtonStates
<1> HIDE DEF n, zero
<1>6. At(Stored(zero, n, NS_MAXCDNAME), "plain", z, Append(l, n), 0, 3, << >>)
  BY <1>3, <1>5, StoredAt
<1>7. QED
  BY <1>2, <1>3, <1>4, <1>6 DEF Open

\* t stands in a text behind its first p characters.
Written(chars, p, t) ==
    /\ p \in Nat /\ t \in Seq(Octet) /\ p + Len(t) <= Len(chars)
    /\ \A k \in 1 .. Len(t) : chars[p + k] = t[k]

\* The states ns_name_pton goes through for these characters.
Runs(f, chars) == chars \in Seq(Octet) /\ PtonRun(f, chars, NS_MAXCDNAME)

\* One character, one step.
LEMMA StepAt ==
    ASSUME NEW f, NEW chars, Runs(f, chars), NEW q \in Nat, q + 1 <= Len(chars)
    PROVE  /\ f[q + 1] = Char(f[q], chars[q + 1], CharAfter(chars, q + 1), NS_MAXCDNAME)
           /\ f[q] \in PtonStates /\ f[q + 1] \in PtonStates
           /\ chars[q + 1] \in Octet
<1>1. PICK n \in Nat : n = Len(chars)
  BY LenProperties DEF Runs
<1>2. q + 1 \in 1 .. n /\ (q + 1) - 1 = q /\ q \in 0 .. n /\ q + 1 \in 0 .. n
  BY <1>1
<1>3. chars[q + 1] \in Octet
  BY <1>1, <1>2, ElementOfSeq DEF Runs
<1>4. QED
  BY <1>1, <1>2, <1>3 DEF Runs, PtonRun

\* The same with the offsets named.
LEMMA StepTo ==
    ASSUME NEW f, NEW chars, Runs(f, chars), NEW q \in Nat, NEW w, q + 1 = w, w <= Len(chars)
    PROVE  f[w] = Char(f[q], chars[w], CharAfter(chars, w), NS_MAXCDNAME)
<1>1. f[q + 1] = Char(f[q], chars[q + 1], CharAfter(chars, q + 1), NS_MAXCDNAME)
  BY StepAt
<1>2. QED
  BY <1>1, Zenon

\* The text of a byte puts that byte into the open label.
LEMMA QuotedRun ==
    ASSUME NEW f, NEW chars, Runs(f, chars), NEW p, NEW c \in Octet,
           Written(chars, p, Quoted(c)),
           NEW z, NEW l, Open(f[p], z, l), Fits(z, l)
    PROVE  Open(f[p + Len(Quoted(c))], z, Append(l, c))
<1>1. PICK t \in Seq(Octet) : t = Quoted(c)
  BY QuotedType
<1>2. p \in Nat /\ p + Len(t) <= Len(chars) /\ \A k \in 1 .. Len(t) : chars[p + k] = t[k]
  BY <1>1 DEF Written
<1>3. CASE AsItself(c, t)
  <2>1. t = <<c>> /\ c # BACKSLASH /\ c # DOT
    BY <1>3 DEF AsItself, Special, BACKSLASH, DOT
  <2>2. Len(t) = 1 /\ t[1] = c /\ 1 \in 1 .. 1
    BY <2>1
  <2>3. p + 1 <= Len(chars) /\ chars[p + 1] = c
    BY <1>2, <2>2
  <2>4. f[p + 1] = Char(f[p], c, CharAfter(chars, p + 1), NS_MAXCDNAME)
    <3>1. f[p + 1] = Char(f[p], chars[p + 1], CharAfter(chars, p + 1), NS_MAXCDNAME)
      BY <1>2, <2>3, StepAt
    <3>2. QED
      BY <2>3, <3>1, Zenon
  <2>5. QED
    BY <1>1, <2>1, <2>2, <2>4, ItselfAt
<1>4. CASE AsSpecial(c, t)
  <2>1. t = <<BACKSLASH, c>> /\ c # BRACKET /\ c \notin Digits
    BY <1>4 DEF AsSpecial, Special, BRACKET, Digits
  <2>2. Len(t) = 2 /\ t[1] = BACKSLASH /\ t[2] = c /\ 1 \in 1 .. 2 /\ 2 \in 1 .. 2
    BY <2>1
  <2>3. chars[p + 1] = BACKSLASH /\ chars[p + 2] = c
    BY <1>2, <2>2
  <2>4. PICK n \in Nat : n = Len(chars) /\ p + 2 <= n
    BY <1>2, <2>2, LenProperties DEF Runs
  <2>5. p + 1 <= Len(chars) /\ p + 1 \in Nat /\ (p + 1) + 1 = p + 2 /\ p + 2 <= Len(chars)
    BY <1>2, <2>4
  <2>6. f[p + 1] = Char(f[p], BACKSLASH, CharAfter(chars, p + 1), NS_MAXCDNAME)
    <3>1. f[p + 1] = Char(f[p], chars[p + 1], CharAfter(chars, p + 1), NS_MAXCDNAME)
      BY <1>2, <2>5, StepAt
    <3>2. QED
      BY <2>3, <3>1, Zenon
  <2>7. f[p + 2] = Char(f[p + 1], c, CharAfter(chars, p + 2), NS_MAXCDNAME)
    <3>1. f[p + 2] = Char(f[p + 1], chars[p + 2], CharAfter(chars, p + 2), NS_MAXCDNAME)
      BY <2>5, StepTo
    <3>2. QED
      BY <2>3, <3>1, Zenon
  <2>8. At(f[p + 1], "escaped", z, l, 0, 3, << >>)
    BY <2>6, BackslashAt
  <2>9. QED
    BY <1>1, <2>1, <2>2, <2>7, <2>8, QuotedAt
<1>5. CASE AsNumber(c, t)
  <2>1. PICK x \in 0 .. 9, y \in 0 .. 9, v \in 0 .. 9 :
               t = <<BACKSLASH, DIGIT + x, DIGIT + y, DIGIT + v>> /\ c = x * 100 + y * 10 + v
    BY <1>5 DEF AsNumber
  <2>2. /\ Len(t) = 4
        /\ t[1] = BACKSLASH /\ t[2] = DIGIT + x /\ t[3] = DIGIT + y /\ t[4] = DIGIT + v
        /\ 1 \in 1 .. 4 /\ 2 \in 1 .. 4 /\ 3 \in 1 .. 4 /\ 4 \in 1 .. 4
    BY <2>1
  <2>3. /\ chars[p + 1] = BACKSLASH /\ chars[p + 2] = DIGIT + x
        /\ chars[p + 3] = DIGIT + y /\ chars[p + 4] = DIGIT + v
    BY <1>2, <2>2
  <2>4. PICK n \in Nat : n = Len(chars) /\ p + 4 <= n
    BY <1>2, <2>2, LenProperties DEF Runs
  <2>5. /\ p + 1 <= Len(chars) /\ p + 2 <= Len(chars) /\ p + 3 <= Len(chars) /\ p + 4 <= Len(chars)
        /\ p + 1 \in Nat /\ p + 2 \in Nat /\ p + 3 \in Nat
        /\ (p + 1) + 1 = p + 2 /\ (p + 2) + 1 = p + 3 /\ (p + 3) + 1 = p + 4
    BY <1>2, <2>4
  <2>6. f[p + 1] = Char(f[p], BACKSLASH, CharAfter(chars, p + 1), NS_MAXCDNAME)
    <3>1. f[p + 1] = Char(f[p], chars[p + 1], CharAfter(chars, p + 1), NS_MAXCDNAME)
      BY <1>2, <2>5, StepAt
    <3>2. QED
      BY <2>3, <3>1, Zenon
  <2>7. f[p + 2] = Char(f[p + 1], DIGIT + x, CharAfter(chars, p + 2), NS_MAXCDNAME)
    <3>1. f[p + 2] = Char(f[p + 1], chars[p + 2], CharAfter(chars, p + 2), NS_MAXCDNAME)
      BY <2>5, StepTo
    <3>2. QED
      BY <2>3, <3>1, Zenon
  <2>8. f[p + 3] = Char(f[p + 2], DIGIT + y, CharAfter(chars, p + 3), NS_MAXCDNAME)
    <3>1. f[p + 3] = Char(f[p + 2], chars[p + 3], CharAfter(chars, p + 3), NS_MAXCDNAME)
      BY <2>5, StepTo
    <3>2. QED
      BY <2>3, <3>1, Zenon
  <2>9. f[p + 4] = Char(f[p + 3], DIGIT + v, CharAfter(chars, p + 4), NS_MAXCDNAME)
    <3>1. f[p + 4] = Char(f[p + 3], chars[p + 4], CharAfter(chars, p + 4), NS_MAXCDNAME)
      BY <2>5, StepTo
    <3>2. QED
      BY <2>3, <3>1, Zenon
  <2>10. At(f[p + 1], "escaped", z, l, 0, 3, << >>)
    BY <2>6, BackslashAt
  <2>11. At(f[p + 2], "number", z, l, x, 2, << >>)
    <3>1. At(f[p + 2], "number", z, l, 0 * 10 + x, 3 - 1, << >>)
      BY <2>7, <2>10, DigitAt, 3 > 1
    <3>2. 0 * 10 + x = x /\ 3 - 1 = 2
      OBVIOUS
    <3>3. QED
      BY <3>1, <3>2
  <2>12. At(f[p + 3], "number", z, l, x * 10 + y, 1, << >>)
    <3>1. At(f[p + 3], "number", z, l, x * 10 + y, 2 - 1, << >>)
      BY <2>8, <2>11, DigitAt, 2 > 1
    <3>2. 2 - 1 = 1
      OBVIOUS
    <3>3. QED
      BY <3>1, <3>2
  <2>13. x * 10 + y \in Nat /\ (x * 10 + y) * 10 + v = c
    BY <2>1
  <2>14. Open(f[p + 4], z, Append(l, c))
    BY <2>9, <2>12, <2>13, LastDigitAt
  <2>15. QED
    BY <1>1, <2>2, <2>14
<1>6. QED
  BY <1>1, <1>3, <1>4, <1>5, QuotedKinds

\* l is the k bytes of name behind position i.
Copied(l, name, i, k) == l \in Seq(Octet) /\ Len(l) = k /\ \A j \in 1 .. k : l[j] = name[i + j]

\* The text of an ordinary label leaves it open.
LEMMA LabelRun ==
    ASSUME NEW f, NEW chars, Runs(f, chars), NEW p,
           NEW name \in Seq(Octet), NEW i \in 1 .. Len(name), LabelFits(name, i),
           name[i] # BITSTRING, Written(chars, p, LabelText(name, i)),
           NEW z, Open(f[p], z, << >>), Len(z) + LabelLen(name, i) + 1 < NS_MAXCDNAME
    PROVE  \E l : /\ Open(f[p + Len(LabelText(name, i))], z, l)
                  /\ Copied(l, name, i, LabelLen(name, i))
<1>1. PICK n \in Nat : n = Len(name)
  BY LenProperties
<1>2. PICK m \in 1 .. 63 : m = name[i] /\ LabelLen(name, i) = m /\ i + m <= n
  <2>1. name[i] \in 1 .. 63 /\ LabelLen(name, i) = name[i]
    BY LabelFitsLemma
  <2>2. i + name[i] <= n
    BY <1>1 DEF LabelFits
  <2>3. QED
    BY <2>1, <2>2
<1>3. \A k \in 1 .. m : name[i + k] \in Octet
  <2>1. TAKE k \in 1 .. m
  <2>2. i + k \in 1 .. n
    BY <1>1, <1>2
  <2>3. QED
    BY <1>1, <2>2, ElementOfSeq
<1> DEFINE e(k) == Quoted(name[i + k])
           s == [k \in 1 .. m |-> e(k)]
<1>4. LabelText(name, i) = FlattenSeq(s)
  BY <1>2 DEF LabelText
<1>5. \A k \in 1 .. m : e(k) \in Seq(Octet)
  BY <1>3, QuotedType
<1>6. s \in Seq(Seq(Octet)) /\ Len(s) = m
  <2> HIDE DEF e
  <2>1. s \in [1 .. m -> Seq(Octet)] /\ m \in Nat
    BY <1>5
  <2> HIDE DEF s
  <2>2. QED
    BY <2>1
<1>7. \A k \in 1 .. m : s[k] = Quoted(name[i + k])
  OBVIOUS
<1> HIDE DEF e, s
<1>8. PICK off : Places(off, s, FlattenSeq(s))
  BY <1>6, FlattenSeqPlaces
<1>9. /\ off \in [0 .. m -> Nat] /\ off[0] = 0 /\ off[m] = Len(LabelText(name, i))
      /\ \A j \in 1 .. m :
            /\ off[j] = off[j - 1] + Len(s[j])
            /\ \A k \in 1 .. Len(s[j]) : LabelText(name, i)[off[j - 1] + k] = s[j][k]
  BY <1>4, <1>6, <1>8 DEF Places
<1>10. PICK t \in Seq(Octet) : t = LabelText(name, i)
  BY DEF Written
<1>11. p \in Nat /\ p + Len(t) <= Len(chars) /\ \A k \in 1 .. Len(t) : chars[p + k] = t[k]
  BY <1>10 DEF Written
<1>12. PICK u \in Nat, w \in Nat : u = Len(t) /\ w = Len(chars)
  BY LenProperties DEF Runs
<1>13. PICK y \in Nat : y = Len(z) /\ y + m + 1 < 255
  <2>1. Len(z) \in Nat
    BY AtParts, LenProperties DEF Open
  <2>2. QED
    BY <1>2, <2>1 DEF NS_MAXCDNAME
<1>14. ASSUME NEW k \in 1 .. m
       PROVE  Written(chars, p + off[k - 1], Quoted(name[i + k])) /\ off[k - 1] \in Nat
  <2>1. k - 1 \in 0 .. m /\ k \in 0 .. m
    OBVIOUS
  <2>2. PICK a \in Nat, b \in Nat : a = off[k - 1] /\ b = off[k]
    BY <1>9, <2>1
  <2>3. PICK c \in Seq(Octet) : c = s[k]
    BY <1>6, ElementOfSeq
  <2>4. PICK d \in Nat : d = Len(c)
    BY LenProperties
  <2>5. b = a + d
    BY <1>9, <2>2, <2>3, <2>4
  <2>6. b <= u
    <3>1. \A j \in 1 .. m : off[j - 1] <= off[j]
      <4>1. TAKE j \in 1 .. m
      <4>2. off[j] = off[j - 1] + Len(s[j]) /\ s[j] \in Seq(Octet)
        BY <1>6, <1>9, ElementOfSeq
      <4>3. j - 1 \in 0 .. m
        OBVIOUS
      <4>4. off[j - 1] \in Nat /\ Len(s[j]) \in Nat
        BY <1>9, <4>2, <4>3, LenProperties
      <4>5. QED
        BY <4>2, <4>4
    <3>2. m \in Nat /\ m \in 0 .. m /\ k <= m
      OBVIOUS
    <3>3. off[k] <= off[m]
      BY <1>9, <2>1, <3>1, <3>2, GrowsTo
    <3>4. QED
      BY <1>9, <1>10, <1>12, <2>2, <3>3
  <2>7. p + a + d <= w /\ p + a \in Nat
    BY <1>11, <1>12, <2>5, <2>6
  <2>8. \A j \in 1 .. d : chars[(p + a) + j] = c[j]
    <3>1. TAKE j \in 1 .. d
    <3>2. a + j \in 1 .. u /\ (p + a) + j = p + (a + j)
      <4>1. j \in Nat /\ 1 <= j /\ j <= d /\ a + d <= u
        BY <2>5, <2>6
      <4>2. a + j \in 1 .. u
        BY <4>1
      <4>3. p \in Nat
        BY <1>11
      <4>4. (p + a) + j = p + (a + j)
        BY <4>1, <4>3
      <4>5. QED
        BY <4>2, <4>4
    <3>3. chars[p + (a + j)] = t[a + j]
      BY <1>11, <1>12, <3>2
    <3>4. t[a + j] = c[j]
      BY <1>9, <1>10, <2>2, <2>3, <2>4
    <3>5. QED
      BY <3>2, <3>3, <3>4
  <2>9. Written(chars, p + a, c)
    BY <1>12, <2>4, <2>7, <2>8 DEF Written
  <2>10. QED
    BY <1>7, <2>2, <2>3, <2>9
<1> DEFINE R == {k \in Nat : k <= m => \E l : Open(f[p + off[k]], z, l) /\ Copied(l, name, i, k)}
<1>15. 0 \in R
  <2>1. Copied(<< >>, name, i, 0)
    BY DEF Copied
  <2>2. p + off[0] = p
    BY <1>9, <1>11
  <2>3. QED
    BY <2>1, <2>2
<1>16. ASSUME NEW k \in Nat, k \in R
       PROVE  k + 1 \in R
  <2>1. SUFFICES ASSUME k + 1 <= m
                 PROVE  \E l : Open(f[p + off[k + 1]], z, l) /\ Copied(l, name, i, k + 1)
    OBVIOUS
  <2>2. k + 1 \in 1 .. m /\ (k + 1) - 1 = k /\ k <= m /\ k \in 0 .. m
    BY <2>1
  <2>3. PICK l : Open(f[p + off[k]], z, l) /\ Copied(l, name, i, k)
    BY <1>16, <2>2
  <2>4. PICK c \in Octet : c = name[i + (k + 1)]
    BY <1>3, <2>2
  <2>5. Written(chars, p + off[k], Quoted(c)) /\ off[k] \in Nat
    BY <1>14, <2>2, <2>4
  <2>6. Fits(z, l)
    <3>1. Len(l) = k
      BY <2>3 DEF Copied
    <3>2. y + k + 1 < 255
      BY <1>13, <2>2
    <3>3. QED
      BY <1>13, <3>1, <3>2 DEF Fits, NS_MAXCDNAME
  <2>7. Open(f[(p + off[k]) + Len(Quoted(c))], z, Append(l, c))
    BY <2>3, <2>5, <2>6, QuotedRun
  <2>8. off[k + 1] = off[k] + Len(Quoted(c))
    BY <1>7, <1>9, <2>2, <2>4
  <2>9. (p + off[k]) + Len(Quoted(c)) = p + off[k + 1]
    <3>1. Len(Quoted(c)) \in Nat
      BY QuotedType, LenProperties
    <3>2. QED
      BY <1>11, <2>5, <2>8, <3>1
  <2>10. Copied(Append(l, c), name, i, k + 1)
    <3>1. l \in Seq(Octet) /\ Len(l) = k /\ \A j \in 1 .. k : l[j] = name[i + j]
      BY <2>3 DEF Copied
    <3>2. /\ Append(l, c) \in Seq(Octet) /\ Len(Append(l, c)) = k + 1
          /\ \A j \in 1 .. k : Append(l, c)[j] = l[j]
          /\ Append(l, c)[k + 1] = c
      BY <3>1, AppendProperties
    <3>3. \A j \in 1 .. k + 1 : Append(l, c)[j] = name[i + j]
      <4>1. TAKE j \in 1 .. k + 1
      <4>2. j \in 1 .. k \/ j = k + 1
        OBVIOUS
      <4>3. QED
        BY <2>4, <3>1, <3>2, <4>2
    <3>4. QED
      BY <3>2, <3>3 DEF Copied
  <2>11. QED
    BY <2>7, <2>9, <2>10
<1> HIDE DEF R
<1>17. m \in R
  <2>1. Nat \subseteq R
    BY <1>15, <1>16, SetInduction
  <2>2. QED
    BY <2>1
<1>18. QED
  BY <1>2, <1>9, <1>17 DEF R

\* What stands between \[ and ] for the bitstring label at i.
Inner(name, i) == <<LETTER_X>> \o HexOf(name, i) \o <<SLASH>> \o Decimal(BitsAt(name, i))

\* What decode_bitstring writes lies between brackets.
LEMMA DecodeParts ==
    ASSUME NEW name \in Seq(Octet), NEW i \in 1 .. Len(name), LabelFits(name, i),
           name[i] = BITSTRING
    PROVE  DecodeBitstring(name, i) = <<BACKSLASH, BRACKET>> \o (Inner(name, i) \o <<BRACKET_END>>)
<1>1. PICK h, o, d :
             /\ h = HexBytes(name, i) /\ o = HexOver(name, i) /\ d = Decimal(BitsAt(name, i))
             /\ h \in Seq(Octet) /\ o \in Seq(Octet) /\ d \in Seq(Octet)
  <2>1. HexBytes(name, i) \in Seq(HexDigits) /\ HexOver(name, i) \in Seq(HexDigits)
    BY HexOfType
  <2>2. Decimal(BitsAt(name, i)) \in Seq(Digits)
    BY BitstringLemma, DecimalType
  <2>3. Seq(HexDigits) \subseteq Seq(Octet) /\ Seq(Digits) \subseteq Seq(Octet)
    BY HexDigitsAreOctets, DigitsAreOctets, SeqMonotonic
  <2>4. QED
    BY <2>1, <2>2, <2>3
<1>2. PICK a, x, s, e : /\ a = <<BACKSLASH, BRACKET>> /\ x = <<LETTER_X>> /\ s = <<SLASH>>
                        /\ e = <<BRACKET_END>>
  OBVIOUS
<1>3. a \in Seq(Octet) /\ x \in Seq(Octet) /\ s \in Seq(Octet) /\ e \in Seq(Octet)
  BY <1>2 DEF BACKSLASH, BRACKET, LETTER_X, SLASH, BRACKET_END, Octet
<1>4. <<BACKSLASH, BRACKET, LETTER_X>> = a \o x
  BY <1>2
<1>5. DecodeBitstring(name, i) = Join(Join(Join(Join(Join(Join(a, x), h), o), s), d), e)
  <2>1. DecodeBitstring(name, i) = a \o x \o h \o o \o s \o d \o e
    BY <1>1, <1>2, <1>4, DecodeUnfolds
  <2>2. QED
    BY <2>1, Zenon DEF Join
<1>6. Inner(name, i) = Join(Join(Join(x, Join(h, o)), s), d)
  BY <1>1, <1>2, Zenon DEF Inner, HexOf, Join
<1>8. PICK u \in Seq(Octet) : u = Join(x, Join(h, o))
  <2>1. Join(h, o) \in Seq(Octet)
    BY <1>1, JoinProperties
  <2>2. Join(x, Join(h, o)) \in Seq(Octet)
    BY <1>3, <2>1, JoinProperties
  <2>3. QED
    BY <2>2
<1>9. PICK v \in Seq(Octet) : v = Join(u, s)
  BY <1>3, JoinProperties
<1>10. PICK w \in Seq(Octet) : w = Join(v, d)
  BY <1>1, JoinProperties
<1>11. Join(Join(Join(a, x), h), o) = Join(a, u)
  <2>1. Join(Join(a, x), h) = Join(a, Join(x, h))
    BY <1>1, <1>3, JoinProperties
  <2>2. Join(Join(a, Join(x, h)), o) = Join(a, Join(Join(x, h), o))
    BY <1>1, <1>3, JoinProperties
  <2>3. Join(Join(x, h), o) = u
    BY <1>1, <1>3, JoinProperties, <1>8
  <2>4. QED
    BY <2>1, <2>2, <2>3
<1>12. Join(Join(a, u), s) = Join(a, v)
  BY <1>3, JoinProperties, <1>9
<1>13. Join(Join(a, v), d) = Join(a, w)
  BY <1>1, <1>3, JoinProperties, <1>10
<1>14. Join(Join(a, w), e) = Join(a, Join(w, e))
  BY <1>3, JoinProperties
<1>15. Inner(name, i) = w
  BY <1>6, <1>8, <1>9, <1>10
<1>16. DecodeBitstring(name, i) = Join(a, Join(w, e))
  BY <1>5, <1>11, <1>12, <1>13, <1>14
<1>17. QED
  BY <1>2, <1>15, <1>16, Zenon DEF Join

\* Whole bytes are two digits each.
LEMMA HexBytesLemma ==
    ASSUME NEW name \in Seq(Octet), NEW i \in 1 .. Len(name), LabelFits(name, i),
           name[i] = BITSTRING
    PROVE  \A k \in 1 .. BytesAt(name, i) :
              /\ HexBytes(name, i)[2 * k - 1] = Hex(name[i + 1 + k])[1]
              /\ HexBytes(name, i)[2 * k] = Hex(name[i + 1 + k])[2]
<1>1. PICK q \in Nat : /\ q = BytesAt(name, i)
                       /\ \A k \in 1 .. q : name[i + 1 + k] \in Octet
  BY BitstringLemma
<1> DEFINE e(k) == Hex(name[i + 1 + k])
           s == [k \in 1 .. q |-> e(k)]
<1>2. \A k \in 1 .. q : e(k) \in Seq(HexDigits) /\ Len(e(k)) = 2
  BY <1>1, HexLemma
<1>3. HexBytes(name, i) = FlattenSeq(s)
  BY <1>1 DEF HexBytes
<1>4. \A k \in 1 .. q : s[k] = Hex(name[i + 1 + k])
  OBVIOUS
<1>5. \A k \in 1 .. q : s[k] = e(k)
  OBVIOUS
<1> HIDE DEF e
<1>6. s \in Seq(Seq(HexDigits)) /\ Len(s) = q
  <2>1. s \in [1 .. q -> Seq(HexDigits)]
    BY <1>2
  <2> HIDE DEF s
  <2>2. QED
    BY <2>1
<1>7. \A k \in 1 .. q : Len(s[k]) = 2
  BY <1>2, <1>5
<1> HIDE DEF s
<1>8. PICK off : Places(off, s, FlattenSeq(s))
  BY <1>6, FlattenSeqPlaces
<1>9. /\ off \in [0 .. q -> Nat] /\ off[0] = 0
      /\ \A j \in 1 .. q :
            /\ off[j] = off[j - 1] + 2
            /\ \A k \in 1 .. 2 : HexBytes(name, i)[off[j - 1] + k] = s[j][k]
  <2>1. PICK g : g = FlattenSeq(s)
    OBVIOUS
  <2>2. Places(off, s, g)
    BY <1>8, <2>1
  <2>3. /\ off \in [0 .. q -> Nat] /\ off[0] = 0
        /\ \A j \in 1 .. q :
              /\ off[j] = off[j - 1] + Len(s[j])
              /\ \A k \in 1 .. Len(s[j]) : g[off[j - 1] + k] = s[j][k]
    BY <1>6, <2>2 DEF Places
  <2>4. g = HexBytes(name, i)
    BY <1>3, <2>1
  <2>5. ASSUME NEW j \in 1 .. q
        PROVE  /\ off[j] = off[j - 1] + 2
               /\ \A k \in 1 .. 2 : g[off[j - 1] + k] = s[j][k]
    <3>1. Len(s[j]) = 2
      BY <1>7
    <3>2. QED
      BY <2>3, <3>1
  <2>6. QED
    BY <2>3, <2>4, <2>5, Zenon
<1> DEFINE R == {k \in Nat : k <= q => off[k] = 2 * k}
<1>10. 0 \in R
  BY <1>9
<1>11. ASSUME NEW k \in Nat, k \in R
       PROVE  k + 1 \in R
  <2>1. SUFFICES ASSUME k + 1 <= q
                 PROVE  off[k + 1] = 2 * (k + 1)
    OBVIOUS
  <2>2. k + 1 \in 1 .. q /\ (k + 1) - 1 = k /\ k <= q
    BY <2>1
  <2>3. off[k] = 2 * k /\ off[k + 1] = off[k] + 2
    BY <1>9, <1>11, <2>2
  <2>4. QED
    BY <2>3
<1> HIDE DEF R
<1>12. Nat \subseteq R
  BY <1>10, <1>11, SetInduction
<1>13. ASSUME NEW k \in 1 .. q
       PROVE  /\ HexBytes(name, i)[2 * k - 1] = Hex(name[i + 1 + k])[1]
              /\ HexBytes(name, i)[2 * k] = Hex(name[i + 1 + k])[2]
  <2>1. k - 1 \in R /\ k - 1 <= q
    BY <1>12
  <2>2. off[k - 1] = 2 * (k - 1)
    BY <2>1 DEF R
  <2>3. off[k - 1] + 1 = 2 * k - 1 /\ off[k - 1] + 2 = 2 * k
    BY <2>2
  <2>4. 1 \in 1 .. 2 /\ 2 \in 1 .. 2
    OBVIOUS
  <2>5. HexBytes(name, i)[off[k - 1] + 1] = s[k][1] /\ HexBytes(name, i)[off[k - 1] + 2] = s[k][2]
    BY <1>9, <2>4
  <2>6. s[k] = Hex(name[i + 1 + k])
    BY <1>4
  <2>7. QED
    BY <2>3, <2>5, <2>6
<1>14. QED
  BY <1>1, <1>13

\* The digits in order.
LEMMA HexOfLemma ==
    ASSUME NEW name \in Seq(Octet), NEW i \in 1 .. Len(name), LabelFits(name, i),
           name[i] = BITSTRING
    PROVE  /\ HexOf(name, i) \in Seq(HexDigits)
           /\ Len(HexOf(name, i)) = 2 * BytesAt(name, i) + Len(HexOver(name, i))
           /\ \A k \in 1 .. BytesAt(name, i) :
                 /\ HexOf(name, i)[2 * k - 1] = Hex(name[i + 1 + k])[1]
                 /\ HexOf(name, i)[2 * k] = Hex(name[i + 1 + k])[2]
           /\ \A k \in 1 .. Len(HexOver(name, i)) :
                 HexOf(name, i)[2 * BytesAt(name, i) + k] = HexOver(name, i)[k]
<1>1. PICK q \in Nat : q = BytesAt(name, i)
  BY BitstringLemma
<1>2. PICK h \in Seq(HexDigits), o \in Seq(HexDigits) :
             h = HexBytes(name, i) /\ o = HexOver(name, i) /\ Len(h) = 2 * q
  BY <1>1, HexOfType
<1>3. PICK m \in Nat : m = Len(o)
  BY LenProperties
<1>4. Appends(HexDigits, h \o o, h, 2 * q, o, m)
  BY <1>2, <1>3, AppendsLemma
<1>5. HexOf(name, i) = h \o o
  BY <1>2 DEF HexOf
<1>6. PICK w : w = HexOf(name, i)
  OBVIOUS
<1>7. /\ w \in Seq(HexDigits) /\ Len(w) = 2 * q + m
      /\ \A k \in 1 .. 2 * q : w[k] = h[k]
      /\ \A k \in 1 .. m : w[2 * q + k] = o[k]
  BY <1>4, <1>5, <1>6 DEF Appends
<1>8. ASSUME NEW k \in 1 .. q
      PROVE  w[2 * k - 1] = Hex(name[i + 1 + k])[1] /\ w[2 * k] = Hex(name[i + 1 + k])[2]
  <2>1. 2 * k - 1 \in 1 .. 2 * q /\ 2 * k \in 1 .. 2 * q
    OBVIOUS
  <2>2. QED
    BY <1>1, <1>2, <1>7, <2>1, HexBytesLemma
<1>9. QED
  BY <1>1, <1>2, <1>3, <1>6, <1>7, <1>8

\* What stands between the brackets, place by place.
LEMMA InnerLemma ==
    ASSUME NEW name \in Seq(Octet), NEW i \in 1 .. Len(name), LabelFits(name, i),
           name[i] = BITSTRING
    PROVE  \E m \in Nat, n \in 1 .. 3 :
              /\ m = Len(HexOf(name, i)) /\ n = Len(Decimal(BitsAt(name, i)))
              /\ Inner(name, i) \in Seq(Octet) /\ Len(Inner(name, i)) = m + n + 2
              /\ Inner(name, i)[1] = LETTER_X
              /\ \A k \in 1 .. m : Inner(name, i)[k + 1] = HexOf(name, i)[k]
              /\ Inner(name, i)[m + 2] = SLASH
              /\ \A k \in 1 .. n : Inner(name, i)[m + 2 + k] = Decimal(BitsAt(name, i))[k]
<1>1. PICK h \in Seq(Octet) : h = HexOf(name, i)
  BY HexOfLemma, HexDigitsAreOctets, SeqMonotonic
<1>2. PICK d \in Seq(Octet) : d = Decimal(BitsAt(name, i)) /\ Len(d) \in 1 .. 3
  BY BitstringLemma, DecimalType, DigitsAreOctets, SeqMonotonic
<1>3. PICK m \in Nat : m = Len(h)
  BY LenProperties
<1>4. PICK n \in 1 .. 3 : n = Len(d)
  BY <1>2
<1>5. PICK x \in Seq(Octet) : x = <<LETTER_X>> /\ Len(x) = 1 /\ x[1] = LETTER_X
  <2>1. LETTER_X \in Octet
    BY DEF LETTER_X, Octet
  <2>2. <<LETTER_X>> \in Seq(Octet) /\ Len(<<LETTER_X>>) = 1 /\ <<LETTER_X>>[1] = LETTER_X
    BY <2>1
  <2>3. QED
    BY <2>2, Zenon
<1>6. PICK s \in Seq(Octet) : s = <<SLASH>> /\ Len(s) = 1 /\ s[1] = SLASH
  <2>1. SLASH \in Octet
    BY DEF SLASH, Octet
  <2>2. <<SLASH>> \in Seq(Octet) /\ Len(<<SLASH>>) = 1 /\ <<SLASH>>[1] = SLASH
    BY <2>1
  <2>3. QED
    BY <2>2, Zenon
<1>7. PICK u : u = x \o h /\ Appends(Octet, u, x, 1, h, m)
  BY <1>3, <1>5, AppendsLemma
<1>8. u \in Seq(Octet) /\ Len(u) = 1 + m
  BY <1>7 DEF Appends
<1>9. PICK v : v = u \o s /\ Appends(Octet, v, u, 1 + m, s, 1)
  BY <1>6, <1>8, AppendsLemma
<1>10. v \in Seq(Octet) /\ Len(v) = (1 + m) + 1
  BY <1>9 DEF Appends
<1>11. PICK w : w = v \o d /\ Appends(Octet, w, v, (1 + m) + 1, d, n)
  BY <1>4, <1>10, AppendsLemma
<1>12. w = Inner(name, i)
  BY <1>1, <1>2, <1>5, <1>6, <1>7, <1>9, <1>11 DEF Inner
<1>13. w \in Seq(Octet) /\ Len(w) = m + n + 2
  BY <1>11 DEF Appends
<1>14. w[1] = LETTER_X
  <2>1. 1 \in 1 .. 1 /\ 1 \in 1 .. 1 + m /\ 1 \in 1 .. (1 + m) + 1
    OBVIOUS
  <2>2. QED
    BY <1>5, <1>7, <1>9, <1>11, <2>1 DEF Appends
<1>15. \A k \in 1 .. m : w[k + 1] = h[k]
  <2>1. TAKE k \in 1 .. m
  <2>2. 1 + k = k + 1 /\ k + 1 \in 1 .. 1 + m /\ k + 1 \in 1 .. (1 + m) + 1
    OBVIOUS
  <2>3. u[1 + k] = h[k]
    BY <1>7 DEF Appends
  <2>4. QED
    BY <1>9, <1>11, <2>2, <2>3 DEF Appends
<1>16. w[m + 2] = SLASH
  <2>1. 1 \in 1 .. 1 /\ (1 + m) + 1 = m + 2 /\ m + 2 \in 1 .. (1 + m) + 1
    OBVIOUS
  <2>2. v[(1 + m) + 1] = s[1]
    BY <1>9, <2>1 DEF Appends
  <2>3. QED
    BY <1>6, <1>11, <2>1, <2>2 DEF Appends
<1>17. \A k \in 1 .. n : w[m + 2 + k] = d[k]
  <2>1. TAKE k \in 1 .. n
  <2>2. w[((1 + m) + 1) + k] = d[k]
    BY <1>11 DEF Appends
  <2>3. ((1 + m) + 1) + k = m + 2 + k
    OBVIOUS
  <2>4. QED
    BY <2>2, <2>3
<1>18. QED
  BY <1>1, <1>2, <1>3, <1>4, <1>12, <1>13, <1>14, <1>15, <1>16, <1>17

\* A number is read as it was written.
LEMMA DecimalValue ==
    ASSUME NEW k \in 1 .. 256
    PROVE  Value(10, Decimal(k)) = k
<1>1. \A x \in 0 .. 9 : DIGIT + x \in Digits /\ DigitValue(DIGIT + x) = x
  BY DEF DIGIT, Digits, DigitValue
<1>2. PICK d \in Seq(Octet) : d = Decimal(k)
  BY DecimalType, DigitsAreOctets, SeqMonotonic
<1>3. CASE k <= 9
  <2>1. PICK x \in 0 .. 9 : x = k
    BY <1>3
  <2>2. d = <<DIGIT + x>>
    BY <1>2, <1>3, <2>1, DecimalLemma
  <2>3. Len(d) = 1 /\ d[1] = DIGIT + x
    BY <2>2
  <2>4. Value(10, d) = x
    BY <1>1, <2>3, ValueShort
  <2>5. QED
    BY <1>2, <2>1, <2>4
<1>4. CASE k \in 10 .. 99
  <2>1. PICK x \in 0 .. 9, y \in 0 .. 9 : x = k \div 10 /\ y = k % 10 /\ k = x * 10 + y
    BY <1>4
  <2>2. d = <<DIGIT + x, DIGIT + y>>
    BY <1>2, <1>4, <2>1, DecimalLemma
  <2>3. Len(d) = 2 /\ d[1] = DIGIT + x /\ d[2] = DIGIT + y
    BY <2>2
  <2>4. Value(10, d) = x * 10 + y
    BY <1>1, <2>3, ValueShort
  <2>5. QED
    BY <1>2, <2>1, <2>4
<1>5. CASE k > 99
  <2>1. PICK x \in 0 .. 9, y \in 0 .. 9, v \in 0 .. 9 :
               /\ x = k \div 100 /\ y = (k \div 10) % 10 /\ v = k % 10
               /\ k = (x * 10 + y) * 10 + v
    <3>1. k \div 100 \in 0 .. 9 /\ (k \div 10) % 10 \in 0 .. 9 /\ k % 10 \in 0 .. 9
      BY <1>5
    <3>2. k = ((k \div 100) * 10 + ((k \div 10) % 10)) * 10 + (k % 10)
      BY <1>5
    <3>3. QED
      BY <3>1, <3>2
  <2>2. d = <<DIGIT + x, DIGIT + y, DIGIT + v>>
    BY <1>2, <1>5, <2>1, DecimalLemma
  <2>3. Len(d) = 3 /\ d[1] = DIGIT + x /\ d[2] = DIGIT + y /\ d[3] = DIGIT + v
    BY <2>2
  <2>4. Value(10, d) = (x * 10 + y) * 10 + v
    BY <1>1, <2>3, ValueShort
  <2>5. QED
    BY <1>2, <2>1, <2>4
<1>6. QED
  BY <1>3, <1>4, <1>5

\* ns_name_pton finds the parts of a bitstring label again.
LEMMA InnerRead ==
    ASSUME NEW name \in Seq(Octet), NEW i \in 1 .. Len(name), LabelFits(name, i),
           name[i] = BITSTRING, NEW inner, inner = Inner(name, i)
    PROVE  /\ inner \in Seq(Octet) /\ SLASH \in ToSet(inner) /\ inner[1] = LETTER_X
           /\ \A k \in 1 .. Len(inner) : inner[k] # BRACKET_END
           /\ DigitsIn(inner) = HexOf(name, i)
           /\ LengthIn(inner) = Decimal(BitsAt(name, i))
           /\ BlenIn(inner) = BitsAt(name, i)
           /\ TrailingIn(inner) = 4 * Len(HexOf(name, i)) - BitsAt(name, i)
<1>1. PICK m \in Nat, n \in 1 .. 3 :
              /\ m = Len(HexOf(name, i)) /\ n = Len(Decimal(BitsAt(name, i)))
              /\ inner \in Seq(Octet) /\ Len(inner) = m + n + 2
              /\ inner[1] = LETTER_X
              /\ \A k \in 1 .. m : inner[k + 1] = HexOf(name, i)[k]
              /\ inner[m + 2] = SLASH
              /\ \A k \in 1 .. n : inner[m + 2 + k] = Decimal(BitsAt(name, i))[k]
  BY InnerLemma
<1>2. PICK h \in Seq(HexDigits) : h = HexOf(name, i) /\ Len(h) = m
  BY <1>1, HexOfLemma
<1>3. PICK d \in Seq(Digits) : d = Decimal(BitsAt(name, i)) /\ Len(d) = n
  BY <1>1, BitstringLemma, DecimalType
<1>4. \A k \in 1 .. m : h[k] \in HexDigits
  BY <1>2, ElementOfSeq
<1>5. \A k \in 1 .. n : d[k] \in Digits
  BY <1>3, ElementOfSeq
<1>6. /\ LETTER_X # SLASH /\ LETTER_X # BRACKET_END /\ SLASH # BRACKET_END
      /\ \A c \in HexDigits : c # SLASH /\ c # BRACKET_END
      /\ \A c \in Digits : c # SLASH /\ c # BRACKET_END
  BY DEF LETTER_X, SLASH, BRACKET_END, HexDigits, Digits
<1>7. ASSUME NEW k \in 1 .. m + n + 2
      PROVE  inner[k] # BRACKET_END /\ (k # m + 2 => inner[k] # SLASH)
  <2>1. CASE k = 1
    BY <1>1, <1>6, <2>1
  <2>2. CASE k \in 2 .. m + 1
    <3>1. PICK j \in 1 .. m : k = j + 1
      <4>1. k - 1 \in 1 .. m /\ k = (k - 1) + 1
        BY <2>2
      <4>2. QED
        BY <4>1
    <3>2. inner[k] = h[j]
      BY <1>1, <1>2, <3>1
    <3>3. QED
      BY <1>4, <1>6, <3>2
  <2>3. CASE k = m + 2
    BY <1>1, <1>6, <2>3
  <2>4. CASE k \in m + 3 .. m + n + 2
    <3>1. PICK j \in 1 .. n : k = m + 2 + j
      <4>1. k - (m + 2) \in 1 .. n /\ k = m + 2 + (k - (m + 2))
        BY <2>4
      <4>2. QED
        BY <4>1
    <3>2. inner[k] = d[j]
      BY <1>1, <1>3, <3>1
    <3>3. QED
      BY <1>5, <1>6, <3>2
  <2>5. k = 1 \/ k \in 2 .. m + 1 \/ k = m + 2 \/ k \in m + 3 .. m + n + 2
    OBVIOUS
  <2>6. QED
    BY <2>1, <2>2, <2>3, <2>4, <2>5
<1>8. DOMAIN inner = 1 .. m + n + 2
  BY <1>1, LenProperties
<1>9. m + 2 \in 1 .. m + n + 2
  OBVIOUS
<1>10. SLASH \in ToSet(inner)
  BY <1>1, <1>8, <1>9 DEF ToSet
<1>11. SlashIn(inner) = m + 2
  <2>1. SlashIn(inner) \in DOMAIN inner /\ inner[SlashIn(inner)] = SLASH
    BY <1>1, <1>8, <1>9 DEF SlashIn
  <2>2. QED
    BY <1>7, <1>8, <2>1
<1>12. DigitsIn(inner) = h
  <2>1. \A k \in 2 .. m + 1 : inner[k] \in Octet
    BY <1>1, <1>8, ElementOfSeq
  <2>2. 2 \in Int /\ m + 1 \in Int /\ (m + 2) - 1 = m + 1 /\ (m + 1) - 2 + 1 = m
    OBVIOUS
  <2>3. PICK s : s = SubSeq(inner, 2, m + 1)
    OBVIOUS
  <2>4. /\ s \in Seq(Octet)
        /\ Len(s) = IF 2 <= m + 1 THEN (m + 1) - 2 + 1 ELSE 0
        /\ \A k \in 1 .. (m + 1) - 2 + 1 : s[k] = inner[2 + k - 1]
    BY <2>1, <2>2, <2>3, SubSeqProperties
  <2>5. Len(s) = m
    BY <2>4
  <2>6. \A k \in 1 .. m : s[k] = h[k]
    <3>1. TAKE k \in 1 .. m
    <3>2. 2 + k - 1 = k + 1 /\ k \in 1 .. (m + 1) - 2 + 1
      OBVIOUS
    <3>3. QED
      BY <1>1, <1>2, <2>4, <3>2
  <2>7. s = h
    <3>1. h \in Seq(Octet)
      BY HexDigitsAreOctets, SeqMonotonic
    <3>2. Len(s) = Len(h) /\ \A k \in 1 .. Len(s) : s[k] = h[k]
      BY <1>2, <2>5, <2>6
    <3>3. QED
      BY <2>4, <3>1, <3>2, SeqEqual
  <2>8. QED
    BY <1>11, <2>2, <2>3, <2>7 DEF DigitsIn
<1>13. LengthIn(inner) = d
  <2>1. \A k \in m + 3 .. m + n + 2 : inner[k] \in Octet
    BY <1>1, <1>8, ElementOfSeq
  <2>2. m + 3 \in Int /\ m + n + 2 \in Int /\ (m + 2) + 1 = m + 3 /\ (m + n + 2) - (m + 3) + 1 = n
        /\ m + 3 <= m + n + 2
    OBVIOUS
  <2>3. PICK s : s = SubSeq(inner, m + 3, m + n + 2)
    OBVIOUS
  <2>4. /\ s \in Seq(Octet)
        /\ Len(s) = IF m + 3 <= m + n + 2 THEN (m + n + 2) - (m + 3) + 1 ELSE 0
        /\ \A k \in 1 .. (m + n + 2) - (m + 3) + 1 : s[k] = inner[(m + 3) + k - 1]
    BY <2>1, <2>2, <2>3, SubSeqProperties
  <2>5. Len(s) = n
    BY <2>2, <2>4
  <2>6. \A k \in 1 .. n : s[k] = d[k]
    <3>1. TAKE k \in 1 .. n
    <3>2. (m + 3) + k - 1 = m + 2 + k /\ k \in 1 .. (m + n + 2) - (m + 3) + 1
      OBVIOUS
    <3>3. QED
      BY <1>1, <1>3, <2>4, <3>2
  <2>7. s = d
    <3>1. d \in Seq(Octet)
      BY DigitsAreOctets, SeqMonotonic
    <3>2. Len(s) = Len(d) /\ \A k \in 1 .. Len(s) : s[k] = d[k]
      BY <1>3, <2>5, <2>6
    <3>3. QED
      BY <2>4, <3>1, <3>2, SeqEqual
  <2>8. QED
    BY <1>1, <1>11, <2>2, <2>3, <2>7 DEF LengthIn
<1>14. BlenIn(inner) = BitsAt(name, i)
  <2>1. PICK k \in 1 .. 256 : k = BitsAt(name, i)
    BY BitstringLemma
  <2>2. Value(10, Decimal(k)) = k
    BY DecimalValue
  <2>3. LengthIn(inner) = Decimal(k)
    BY <1>3, <1>13, <2>1
  <2>4. QED
    BY <2>1, <2>2, <2>3, Zenon DEF BlenIn
<1>15. TrailingIn(inner) = 4 * m - BitsAt(name, i)
  BY <1>2, <1>12, <1>14 DEF TrailingIn
<1>16. QED
  BY <1>1, <1>2, <1>3, <1>7, <1>10, <1>12, <1>13, <1>14, <1>15

\* The label at i as it is spelled: of the last byte of a bitstring only the bits
\* that count are kept.
Unused(name, i) == IF name[i] = BITSTRING THEN (8 * 32 - BitsOf(name[i + 1])) % 8 ELSE 0
\* The label at position i, its length first, with those bits zero.
CleanLabel(name, i) ==
    LET last == i + LabelLen(name, i)
    IN [SubSeq(name, i, last) EXCEPT ![last - i + 1] = @ - (@ % 2^Unused(name, i))]

\* Its last byte.
CleanByte(name, i) ==
    IF name[i] = BITSTRING /\ OverAt(name, i) # 0 THEN Kept(LastAt(name, i), OverAt(name, i))
    ELSE name[i + LabelLen(name, i)]

\* A label stays inside its name.
LEMMA LabelInside ==
    ASSUME NEW name \in Seq(Octet), NEW i \in 1 .. Len(name), LabelFits(name, i)
    PROVE  \E n \in Nat, m \in 1 .. 63 :
              /\ n = Len(name) /\ m = LabelLen(name, i) /\ i \in 1 .. n /\ i + m \in 1 .. n
              /\ NextLabel(name, i) = i + m + 1
<1>1. PICK n \in Nat, m \in 1 .. 63 : n = Len(name) /\ m = LabelLen(name, i)
  BY LenProperties, LabelFitsLemma
<1>2. i \in 1 .. n
  BY <1>1
<1>3. i + m <= n
  <2>1. CASE name[i] = BITSTRING
    <3>1. name[i] \notin 1 .. NS_MAXLABEL
      BY <2>1 DEF BITSTRING, NS_MAXLABEL
    <3>2. QED
      BY <1>1, <3>1 DEF LabelFits
  <2>2. CASE name[i] # BITSTRING
    <3>1. LabelLen(name, i) = name[i]
      BY <2>2, LabelFitsLemma
    <3>2. QED
      BY <1>1, <2>2, <3>1 DEF LabelFits
  <2>3. QED
    BY <2>1, <2>2
<1>4. i + m \in 1 .. n
  BY <1>2, <1>3
<1>5. NextLabel(name, i) = i + m + 1
  BY <1>1, LabelFitsLemma
<1>6. QED
  BY <1>1, <1>2, <1>4, <1>5

\* The bits that do not count are cleared in the last byte alone.
LEMMA UnusedLemma ==
    ASSUME NEW name \in Seq(Octet), NEW i \in 1 .. Len(name), LabelFits(name, i)
    PROVE  LET c == name[i + LabelLen(name, i)]
           IN c - (c % 2^Unused(name, i)) = CleanByte(name, i) /\ CleanByte(name, i) \in Octet
<1>1. PICK n \in Nat, m \in 1 .. 63 :
              n = Len(name) /\ m = LabelLen(name, i) /\ i \in 1 .. n /\ i + m \in 1 .. n
  BY LabelInside
<1>2. i + m \in 1 .. n
  BY <1>1
<1>3. PICK c \in Octet : c = name[i + m]
  BY <1>1, <1>2, ElementOfSeq
<1>4. c % 2^0 = 0
  BY Powers DEF Octet
<1>5. CASE name[i] # BITSTRING
  BY <1>1, <1>3, <1>4, <1>5 DEF Unused, CleanByte, Octet
<1>6. CASE name[i] = BITSTRING
  <2>1. PICK k \in 1 .. 256 : k = BitsAt(name, i)
    BY <1>6, BitstringLemma
  <2>2. PICK b \in 0 .. 7 : b = OverAt(name, i) /\ b = k % 8
    BY <1>6, <2>1, BitstringLemma DEF OverAt
  <2>3. (8 * 32 - k) % 8 = IF b = 0 THEN 0 ELSE 8 - b
    BY <2>2
  <2>4. Unused(name, i) = IF b = 0 THEN 0 ELSE 8 - b
    BY <1>6, <2>1, <2>3 DEF Unused, BitsAt
  <2>5. CASE b = 0
    BY <1>1, <1>3, <1>4, <2>2, <2>4, <2>5 DEF CleanByte, Octet
  <2>6. CASE b # 0
    <3>1. LastAt(name, i) = c
      BY <1>1, <1>3, <1>6, <2>2, <2>6, BitstringLemma DEF LastAt
    <3>2. CleanByte(name, i) = Kept(c, b)
      BY <1>6, <2>2, <2>6, <3>1 DEF CleanByte
    <3>3. Kept(c, b) = c - (c % 2^Unused(name, i))
      BY <2>4, <2>6 DEF Kept
    <3>4. Kept(c, b) \in Octet
      <4>1. b \in 1 .. 7 /\ c \in 0 .. 255
        BY <2>6 DEF Octet
      <4>2. QED
        BY <4>1, KeptLemma DEF Octet
    <3>5. QED
      BY <1>1, <1>3, <3>2, <3>3, <3>4
  <2>7. QED
    BY <2>5, <2>6
<1>7. QED
  BY <1>5, <1>6

\* A label as it is spelled: only its last byte may differ.
LEMMA CleanLemma ==
    ASSUME NEW name \in Seq(Octet), NEW i \in 1 .. Len(name), LabelFits(name, i)
    PROVE  /\ CleanLabel(name, i) \in Seq(Octet)
           /\ Len(CleanLabel(name, i)) = LabelLen(name, i) + 1
           /\ \A k \in 1 .. LabelLen(name, i) : CleanLabel(name, i)[k] = name[i - 1 + k]
           /\ CleanLabel(name, i)[LabelLen(name, i) + 1] = CleanByte(name, i)
<1>1. PICK n \in Nat, m \in 1 .. 63 :
              n = Len(name) /\ m = LabelLen(name, i) /\ i \in 1 .. n /\ i + m \in 1 .. n
  BY LabelInside
<1>2. i + m \in 1 .. n
  BY <1>1
<1>3. i \in Int /\ i + m \in Int /\ i <= i + m /\ (i + m) - i + 1 = m + 1
  <2>1. PICK j \in 1 .. n : j = i
    BY <1>1
  <2>2. j \in Int /\ j + m \in Int /\ j <= j + m /\ (j + m) - j + 1 = m + 1
    OBVIOUS
  <2>3. QED
    BY <2>1, <2>2
<1>4. \A k \in i .. i + m : name[k] \in Octet
  <2>1. TAKE k \in i .. i + m
  <2>2. k \in 1 .. n
    BY <1>2
  <2>3. QED
    BY <1>1, <2>2, ElementOfSeq
<1>5. PICK s : s = SubSeq(name, i, i + m)
  OBVIOUS
<1>6. /\ s \in Seq(Octet)
      /\ Len(s) = IF i <= i + m THEN (i + m) - i + 1 ELSE 0
      /\ \A k \in 1 .. (i + m) - i + 1 : s[k] = name[i + k - 1]
  BY <1>3, <1>4, <1>5, SubSeqProperties
<1>7. Len(s) = m + 1
  BY <1>3, <1>6
<1>8. ASSUME NEW k \in 1 .. m + 1
      PROVE  s[k] = name[i - 1 + k]
  <2>1. i + k - 1 = i - 1 + k /\ k \in 1 .. (i + m) - i + 1
    OBVIOUS
  <2>2. QED
    BY <1>6, <2>1
<1>9. s[m + 1] = name[i + m]
  <2>1. m + 1 \in 1 .. m + 1 /\ i - 1 + (m + 1) = i + m
    OBVIOUS
  <2>2. QED
    BY <1>8, <2>1
<1>10. PICK c \in Octet : /\ c = CleanByte(name, i)
                          /\ c = s[m + 1] - (s[m + 1] % 2^Unused(name, i))
  BY <1>1, <1>9, UnusedLemma
<1>11. CleanLabel(name, i) = [s EXCEPT ![m + 1] = @ - (@ % 2^Unused(name, i))]
  BY <1>1, <1>3, <1>5 DEF CleanLabel
<1>12. CleanLabel(name, i) = [s EXCEPT ![m + 1] = c]
  BY <1>10, <1>11, Zenon
<1>13. PICK w : w = [s EXCEPT ![m + 1] = c]
  OBVIOUS
<1>14. m + 1 \in 1 .. Len(s)
  BY <1>7
<1>15. /\ w \in Seq(Octet) /\ Len(w) = m + 1
       /\ \A k \in 1 .. m + 1 : w[k] = IF k = m + 1 THEN c ELSE s[k]
  BY <1>6, <1>7, <1>13, <1>14
<1>16. \A k \in 1 .. m : w[k] = name[i - 1 + k]
  <2>1. TAKE k \in 1 .. m
  <2>2. k \in 1 .. m + 1 /\ k # m + 1
    OBVIOUS
  <2>3. QED
    BY <1>8, <1>15, <2>2
<1>17. w[m + 1] = c
  BY <1>15
<1>18. QED
  BY <1>1, <1>10, <1>12, <1>13, <1>15, <1>16, <1>17

\* The label at i is a bitstring that is written with a digit too many.
MisprintedAt(name, i) ==
    /\ CharIsSigned /\ name[i] = BITSTRING
    /\ OverAt(name, i) \in 5 .. 7 /\ LastAt(name, i) > 127

\* The digits of a bitstring and what they pack to.
LEMMA PackedBits ==
    ASSUME NEW name \in Seq(Octet), NEW i \in 1 .. Len(name), LabelFits(name, i),
           name[i] = BITSTRING, NEW h, h = HexOf(name, i)
    PROVE  /\ h \in Seq(HexDigits) /\ Len(h) \in Nat
           /\ MisprintedAt(name, i) => 4 * Len(h) - BitsAt(name, i) \notin 0 .. 3
           /\ ~MisprintedAt(name, i) =>
                 LET trailing == 4 * Len(h) - BitsAt(name, i)
                 IN /\ Len(h) \in 1 .. 64 /\ trailing \in 0 .. 3
                    /\ DigitValue(h[Len(h)]) % 2^trailing = 0
                    /\ (Len(h) + 1) \div 2 = LabelLen(name, i) - 1
                    /\ \A k \in 1 .. LabelLen(name, i) - 1 :
                          Packing(h)[k] = CleanLabel(name, i)[k + 2]
<1>1. PICK q \in 0 .. 32, b \in 0 .. 7, v \in 1 .. 256 :
              /\ q = BytesAt(name, i) /\ b = OverAt(name, i) /\ v = BitsAt(name, i)
              /\ v = 8 * q + b
  BY BitstringLemma
<1>0. v = 8 * q + b
  BY <1>1
<1>2. PICK c \in Octet : c = LastAt(name, i)
  BY BitstringLemma
<1>3. PICK o : o = HexOver(name, i) /\ o = LastBits(c, b)
  BY <1>1, <1>2 DEF HexOver
<1>4. o \in Seq(HexDigits)
  BY <1>3, LastBitsLemma
<1>5. PICK w \in Nat : w = Len(o)
  BY <1>4, LenProperties
<1>50. /\ b = 0 => o = << >>
       /\ b \in 1 .. 4 => /\ Len(o) = 1
                          /\ DigitValue(o[1]) * 16 = Kept(c, b)
                          /\ DigitValue(o[1]) % 2^(4 - b) = 0
       /\ b \in 5 .. 7 /\ ~(CharIsSigned /\ c > 127) =>
             /\ Len(o) = 2
             /\ DigitValue(o[1]) * 16 + DigitValue(o[2]) = Kept(c, b)
             /\ DigitValue(o[2]) % 2^(8 - b) = 0
       /\ b \in 5 .. 7 /\ CharIsSigned /\ c > 127 => Len(o) = 3
  <2>1. /\ b = 0 => LastBits(c, b) = << >>
        /\ b \in 1 .. 4 => /\ Len(LastBits(c, b)) = 1
                           /\ DigitValue(LastBits(c, b)[1]) * 16 = Kept(c, b)
                           /\ DigitValue(LastBits(c, b)[1]) % 2^(4 - b) = 0
        /\ b \in 5 .. 7 /\ ~(CharIsSigned /\ c > 127) =>
              /\ Len(LastBits(c, b)) = 2
              /\ DigitValue(LastBits(c, b)[1]) * 16 + DigitValue(LastBits(c, b)[2]) = Kept(c, b)
              /\ DigitValue(LastBits(c, b)[2]) % 2^(8 - b) = 0
        /\ b \in 5 .. 7 /\ CharIsSigned /\ c > 127 => Len(LastBits(c, b)) = 3
    BY LastBitsLemma, Zenon
  <2>2. QED
    BY <1>3, <2>1, Zenon
<1>51. ASSUME b = 0 PROVE w = 0
  <2>1. o = << >>
    BY <1>50, <1>51
  <2>2. QED
    BY <1>5, <2>1
<1>52. ASSUME b \in 1 .. 4 PROVE w = 1
  <2>1. Len(o) = 1
    BY <1>50, <1>52
  <2>2. QED
    BY <1>5, <2>1
<1>53. ASSUME b \in 5 .. 7, ~(CharIsSigned /\ c > 127) PROVE w = 2
  <2>1. Len(o) = 2
    BY <1>50, <1>53
  <2>2. QED
    BY <1>5, <2>1
<1>54. ASSUME b \in 5 .. 7, CharIsSigned, c > 127 PROVE w = 3
  <2>1. Len(o) = 3
    BY <1>50, <1>54
  <2>2. QED
    BY <1>5, <2>1
<1>6. /\ h \in Seq(HexDigits) /\ Len(h) = 2 * q + w
      /\ \A k \in 1 .. q : h[2 * k - 1] = Hex(name[i + 1 + k])[1] /\ h[2 * k] = Hex(name[i + 1 + k])[2]
      /\ \A k \in 1 .. w : h[2 * q + k] = o[k]
  <2>1. /\ h \in Seq(HexDigits)
        /\ Len(h) = 2 * BytesAt(name, i) + Len(HexOver(name, i))
        /\ \A k \in 1 .. BytesAt(name, i) :
              /\ h[2 * k - 1] = Hex(name[i + 1 + k])[1]
              /\ h[2 * k] = Hex(name[i + 1 + k])[2]
        /\ \A k \in 1 .. Len(HexOver(name, i)) :
              h[2 * BytesAt(name, i) + k] = HexOver(name, i)[k]
    BY HexOfLemma
  <2>2. BytesAt(name, i) = q /\ HexOver(name, i) = o /\ Len(HexOver(name, i)) = w
    BY <1>1, <1>3, <1>5
  <2>3. QED
    BY <2>1, <2>2, Zenon
<1>7. CASE MisprintedAt(name, i)
  <2>1. b \in 5 .. 7 /\ CharIsSigned /\ c > 127
    BY <1>1, <1>2, <1>7 DEF MisprintedAt
  <2>2. w = 3
    BY <1>54, <2>1
  <2>3. 4 * (2 * q + w) - v \notin 0 .. 3
    BY <1>0, <2>1, <2>2
  <2>4. QED
    BY <1>1, <1>6, <1>7, <2>3
<1>8. CASE ~MisprintedAt(name, i)
  <2>1. PICK m \in 1 .. 63 : m = LabelLen(name, i) /\ m = q + (IF b = 0 THEN 1 ELSE 2)
    <3>1. LabelLen(name, i) \in 1 .. 63
      BY LabelFitsLemma
    <3>2. LabelLen(name, i) = q + (IF b = 0 THEN 1 ELSE 2)
      BY <1>1, BitstringLemma
    <3>3. QED
      BY <3>1, <3>2
  <2>2. w = IF b = 0 THEN 0 ELSE IF b <= 4 THEN 1 ELSE 2
    <3>1. b = 0 \/ b \in 1 .. 4 \/ b \in 5 .. 7
      OBVIOUS
    <3>2. CASE b = 0
      BY <1>51, <3>2
    <3>3. CASE b \in 1 .. 4
      BY <1>52, <3>3
    <3>4. CASE b \in 5 .. 7
      <4>1. ~(CharIsSigned /\ c > 127)
        BY <1>1, <1>2, <1>8, <3>4 DEF MisprintedAt
      <4>2. w = 2
        BY <1>53, <3>4, <4>1
      <4>3. QED
        BY <3>4, <4>2
    <3>5. QED
      BY <3>1, <3>2, <3>3, <3>4
  <2>3. PICK t \in 0 .. 3 : t = 4 * (2 * q + w) - v
    <3>1. 4 * (2 * q + w) - v \in 0 .. 3
      BY <1>0, <2>2
    <3>2. QED
      BY <3>1
  <2>4. 2 * q + w \in 1 .. 64
    BY <1>0, <2>2
  <2>5. DigitValue(h[2 * q + w]) % 2^t = 0
    <3>1. CASE b = 0
      <4>1. t = 0
        BY <1>0, <2>2, <2>3, <3>1
      <4>2. h[2 * q + w] \in Octet
        <5>1. 2 * q + w \in 1 .. 2 * q + w
          BY <2>4
        <5>2. Len(h) = 2 * q + w
          BY <1>6
        <5>3. h[2 * q + w] \in HexDigits
          BY <1>6, <5>1, <5>2, ElementOfSeq
        <5>4. QED
          BY <5>3, HexDigitsAreOctets
      <4>3. PICK x \in 0 .. 15 : x = DigitValue(h[2 * q + w])
        BY <4>2, DigitValueType
      <4>4. x % 2^0 = 0
        BY Powers
      <4>5. QED
        BY <4>1, <4>3, <4>4
    <3>2. CASE b \in 1 .. 4
      <4>1. t = 4 - b /\ w = 1 /\ 1 \in 1 .. 1
        BY <1>0, <2>2, <2>3, <3>2
      <4>2. h[2 * q + w] = o[1]
        BY <1>6, <4>1
      <4>3. QED
        BY <1>50, <3>2, <4>1, <4>2
    <3>3. CASE b \in 5 .. 7
      <4>1. t = 8 - b /\ w = 2 /\ 2 \in 1 .. 2
        BY <1>0, <2>2, <2>3, <3>3
      <4>2. h[2 * q + w] = o[2]
        BY <1>6, <4>1
      <4>3. ~(CharIsSigned /\ c > 127)
        BY <1>1, <1>2, <1>8, <3>3 DEF MisprintedAt
      <4>4. QED
        BY <1>50, <3>3, <4>1, <4>2, <4>3, Zenon
    <3>4. b = 0 \/ b \in 1 .. 4 \/ b \in 5 .. 7
      OBVIOUS
    <3>5. QED
      BY <3>1, <3>2, <3>3, <3>4
  <2>6. (2 * q + w + 1) \div 2 = m - 1
    <3>1. CASE b = 0
      BY <2>1, <2>2, <3>1
    <3>2. CASE b \in 1 .. 4
      BY <2>1, <2>2, <3>2
    <3>3. CASE b \in 5 .. 7
      BY <2>1, <2>2, <3>3
    <3>4. QED
      BY <3>1, <3>2, <3>3
  <2>7. h \in Seq(Octet)
    BY <1>6, HexDigitsAreOctets, SeqMonotonic
  <2>8. \A k \in 1 .. m - 1 :
           Packing(h)[k] = IF 2 * k <= 2 * q + w
                           THEN DigitValue(h[2 * k - 1]) * 16 + DigitValue(h[2 * k])
                           ELSE DigitValue(h[2 * k - 1]) * 16
    <3>1. PICK l \in Nat : l = Len(h) /\ l = 2 * q + w /\ (l + 1) \div 2 = m - 1
      BY <1>1, <1>5, <1>6, <2>6
    <3>2. \A k \in 1 .. (l + 1) \div 2 :
             Packing(h)[k] = IF 2 * k <= l
                             THEN DigitValue(h[2 * k - 1]) * 16 + DigitValue(h[2 * k])
                             ELSE DigitValue(h[2 * k - 1]) * 16
      BY <2>7, <3>1, PackingType
    <3>3. QED
      BY <3>1, <3>2
  <2>9. /\ \A k \in 1 .. m : CleanLabel(name, i)[k] = name[i - 1 + k]
        /\ CleanLabel(name, i)[m + 1] = CleanByte(name, i)
    BY <2>1, CleanLemma
  <2>10. PICK j \in Nat : j = i
    OBVIOUS
  <2>11. ASSUME NEW k \in 1 .. q
         PROVE  Packing(h)[k] = name[i + 1 + k]
    <3>1. k \in 1 .. m - 1 /\ 2 * k <= 2 * q + w
      BY <2>1, <2>2
    <3>2. Packing(h)[k] = DigitValue(h[2 * k - 1]) * 16 + DigitValue(h[2 * k])
      BY <2>8, <3>1
    <3>3. name[i + 1 + k] \in Octet
      BY <1>1, BitstringLemma
    <3>4. QED
      BY <1>6, <3>2, <3>3, HexLemma
  <2>12. ASSUME NEW k \in 1 .. m - 1
         PROVE  Packing(h)[k] = CleanLabel(name, i)[k + 2]
    <3>1. CASE k + 2 \in 1 .. m
      <4>1. k \in 1 .. q
        BY <2>1, <3>1
      <4>2. j - 1 + (k + 2) = j + 1 + k
        OBVIOUS
      <4>3. CleanLabel(name, i)[k + 2] = name[i + 1 + k]
        BY <2>9, <2>10, <3>1, <4>2
      <4>4. QED
        BY <2>11, <4>1, <4>3
    <3>2. CASE k + 2 = m + 1 /\ b = 0
      <4>1. k \in 1 .. q /\ j + 1 + k = j + m
        BY <2>1, <3>2
      <4>2. CleanByte(name, i) = name[i + m]
        BY <1>1, <2>1, <3>2 DEF CleanByte
      <4>3. QED
        BY <2>9, <2>10, <2>11, <3>2, <4>1, <4>2
    <3>3. CASE k + 2 = m + 1 /\ b # 0
      <4>1. k = q + 1
        BY <2>1, <3>3
      <4>2. CleanByte(name, i) = Kept(c, b)
        BY <1>1, <1>2, <3>3 DEF CleanByte
      <4>3. 2 * k - 1 = 2 * q + 1 /\ 2 * k = 2 * q + 2
        BY <4>1
      <4>4. Packing(h)[k] = Kept(c, b)
        <5>1. CASE b \in 1 .. 4
          <6>1. w = 1 /\ 1 \in 1 .. 1 /\ ~(2 * k <= 2 * q + w)
            BY <2>2, <4>3, <5>1
          <6>2. h[2 * q + 1] = o[1]
            BY <1>6, <6>1
          <6>3. Packing(h)[k] = DigitValue(h[2 * k - 1]) * 16
            BY <2>8, <6>1
          <6>4. DigitValue(o[1]) * 16 = Kept(c, b)
            BY <1>50, <5>1
          <6>5. QED
            BY <4>3, <6>2, <6>3, <6>4
        <5>2. CASE b \in 5 .. 7
          <6>1. w = 2 /\ 1 \in 1 .. 2 /\ 2 \in 1 .. 2 /\ 2 * k <= 2 * q + w
            BY <2>2, <4>3, <5>2
          <6>2. h[2 * q + 1] = o[1] /\ h[2 * q + 2] = o[2]
            BY <1>6, <6>1
          <6>3. Packing(h)[k] = DigitValue(h[2 * k - 1]) * 16 + DigitValue(h[2 * k])
            BY <2>8, <6>1
          <6>4. ~(CharIsSigned /\ c > 127)
            BY <1>1, <1>2, <1>8, <5>2 DEF MisprintedAt
          <6>5. DigitValue(o[1]) * 16 + DigitValue(o[2]) = Kept(c, b)
            BY <1>50, <5>2, <6>4
          <6>6. QED
            BY <4>3, <6>2, <6>3, <6>5
        <5>3. b \in 1 .. 4 \/ b \in 5 .. 7
          BY <3>3
        <5>4. QED
          BY <5>1, <5>2, <5>3
      <4>5. QED
        BY <2>9, <3>3, <4>2, <4>4
    <3>4. k + 2 \in 1 .. m \/ k + 2 = m + 1
      OBVIOUS
    <3>5. QED
      BY <3>1, <3>2, <3>3, <3>4
  <2>13. Len(h) = 2 * q + w /\ 4 * Len(h) - BitsAt(name, i) = t
    BY <1>1, <1>6, <2>3
  <2>14. QED
    BY <1>6, <1>8, <2>1, <2>4, <2>5, <2>6, <2>12, <2>13
<1>9. QED
  BY <1>7, <1>8

\* A bitstring begins behind a backslash and a bracket.
LEMMA BracketAt ==
    ASSUME NEW st, NEW z, NEW l, NEW next, At(st, "escaped", z, l, 0, 3, << >>)
    PROVE  At(Char(st, BRACKET, next, NS_MAXCDNAME), "bits", z, l, 0, 3, << >>)
<1>1. Char(st, BRACKET, next, NS_MAXCDNAME) = [st EXCEPT !.mode = "bits"]
  <2>1. CharMeans(st, BRACKET, next, NS_MAXCDNAME)
    BY CharCases
  <2>2. st.mode = "escaped"
    BY DEF At
  <2>3. QED
    BY <2>1, <2>2, Zenon DEF CharMeans
<1>2. BRACKET \in Octet
  BY DEF BRACKET, Octet
<1>3. Char(st, BRACKET, next, NS_MAXCDNAME) \in PtonStates
  BY <1>2, CharType DEF At
<1>4. QED
  BY <1>1, <1>3 DEF At, PtonStates

\* A character of a bitstring is kept until its bracket is closed.
LEMMA BitAt ==
    ASSUME NEW st, NEW z, NEW l, NEW bits, NEW c \in Octet, NEW next,
           At(st, "bits", z, l, 0, 3, bits), c # BRACKET_END
    PROVE  At(Char(st, c, next, NS_MAXCDNAME), "bits", z, l, 0, 3, Append(bits, c))
<1> DEFINE m == Append(st.bits, c)
<1>1. Char(st, c, next, NS_MAXCDNAME) = [st EXCEPT !.bits = m]
  <2>1. CharMeans(st, c, next, NS_MAXCDNAME)
    BY CharCases
  <2>2. st.mode = "bits"
    BY DEF At
  <2>3. QED
    BY <2>1, <2>2, Zenon DEF CharMeans
<1>2. m = Append(bits, c)
  BY DEF At
<1>3. Char(st, c, next, NS_MAXCDNAME) \in PtonStates
  BY CharType DEF At
<1> HIDE DEF m
<1>4. QED
  BY <1>1, <1>2, <1>3 DEF At, PtonStates

\* What is between the brackets is encoded as it was spelled, or not at all.
LEMMA EncodesBack ==
    ASSUME NEW name \in Seq(Octet), NEW i \in 1 .. Len(name), LabelFits(name, i),
           name[i] = BITSTRING, NEW st, NEW z,
           At(st, "bits", z, << >>, 0, 3, Inner(name, i)),
           Len(z) + LabelLen(name, i) + 1 < NS_MAXCDNAME
    PROVE  IF MisprintedAt(name, i) THEN EncodeBitstring(st, NS_MAXCDNAME) = Failed(st)
           ELSE At(EncodeBitstring(st, NS_MAXCDNAME), "bits end", z \o CleanLabel(name, i), << >>,
                   0, 3, << >>)
<1>1. PICK inner : inner = Inner(name, i) /\ inner = st.bits
  BY DEF At
<1>2. st \in PtonStates /\ st.name = z /\ st.label = << >> /\ st.num = 0 /\ st.more = 3
  BY DEF At
<1>3. PICK h : h = HexOf(name, i)
  OBVIOUS
<1>4. PICK v \in 1 .. 256 : v = BitsAt(name, i)
  BY BitstringLemma
<1>5. /\ inner \in Seq(Octet) /\ SLASH \in ToSet(inner) /\ inner[1] = LETTER_X
      /\ DigitsIn(inner) = h /\ LengthIn(inner) = Decimal(v) /\ BlenIn(inner) = v
      /\ TrailingIn(inner) = 4 * Len(h) - v
  BY <1>1, <1>3, <1>4, InnerRead
<1>6. EncodeBitstring(st, NS_MAXCDNAME) =
        IF EncodeGuard(st, NS_MAXCDNAME) THEN Encoded(st) ELSE Failed(st)
  BY EncodeUnfolds
<1>7. CASE MisprintedAt(name, i)
  <2>1. 4 * Len(h) - v \notin 0 .. 3
    BY <1>3, <1>4, <1>7, PackedBits
  <2>2. ~EncodeGuard(st, NS_MAXCDNAME)
    BY <1>1, <1>5, <2>1, Zenon DEF EncodeGuard
  <2>3. QED
    BY <1>6, <1>7, <2>2
<1>8. CASE ~MisprintedAt(name, i)
  <2>1. PICK n \in Nat, m \in 1 .. 63 :
                n = Len(name) /\ m = LabelLen(name, i) /\ i \in 1 .. n /\ i + m \in 1 .. n
    BY LabelInside
  <2>2. PICK k \in 1 .. 64, t \in 0 .. 3 :
                /\ k = Len(h) /\ t = 4 * Len(h) - v
                /\ DigitValue(h[k]) % 2^t = 0 /\ (k + 1) \div 2 = m - 1
    <3>1. Len(h) \in 1 .. 64 /\ 4 * Len(h) - v \in 0 .. 3
      BY <1>3, <1>4, <1>8, PackedBits
    <3>2. /\ DigitValue(h[Len(h)]) % 2^(4 * Len(h) - v) = 0
          /\ (Len(h) + 1) \div 2 = m - 1
      BY <1>3, <1>4, <1>8, <2>1, PackedBits
    <3>3. QED
      BY <3>1, <3>2
  <2>3. h \in Seq(HexDigits) /\ h \in Seq(Octet)
    BY <1>3, PackedBits, HexDigitsAreOctets, SeqMonotonic
  <2>4. PICK y : y = CleanLabel(name, i)
    OBVIOUS
  <2>5. /\ y \in Seq(Octet) /\ Len(y) = m + 1
        /\ \A j \in 1 .. m : y[j] = name[i - 1 + j]
    BY <2>1, <2>4, CleanLemma
  <2>6. PICK g : g = Packing(h)
    OBVIOUS
  <2>7. g \in Seq(Octet) /\ Len(g) = m - 1
    <3>1. g \in Seq(Octet) /\ Len(g) = (Len(h) + 1) \div 2
      BY <2>3, <2>6, PackingType
    <3>2. QED
      BY <2>2, <3>1
  <2>8. \A j \in 1 .. m - 1 : g[j] = y[j + 2]
    BY <1>3, <1>8, <2>1, <2>4, <2>6, PackedBits
  <2>9. m >= 2
    BY <2>2
  <2>10. y[1] = BITSTRING /\ y[2] = v % 256 /\ v % 256 \in Octet /\ BITSTRING \in Octet
    <3>1. PICK j \in Nat : j = i
      OBVIOUS
    <3>2. 1 \in 1 .. m /\ 2 \in 1 .. m /\ j - 1 + 1 = j /\ j - 1 + 2 = j + 1
      BY <2>9
    <3>3. y[1] = name[j] /\ y[2] = name[j + 1]
      BY <2>5, <3>1, <3>2
    <3>4. name[i + 1] \in Octet
      BY BitstringLemma
    <3>5. v % 256 = name[i + 1]
      BY <1>4, <3>4, BitsOfLemma DEF BitsAt
    <3>6. QED
      BY <3>1, <3>3, <3>4, <3>5 DEF BITSTRING, Octet
  <2>11. EncodedName(st) = z \o y /\ z \in Seq(Octet)
    <3>1. PICK a, e, b : a = <<BITSTRING>> /\ e = << >> /\ b = <<v % 256>>
      OBVIOUS
    <3>2. a \in Seq(Octet) /\ e \in Seq(Octet) /\ b \in Seq(Octet)
      BY <2>10, <3>1
    <3>3. z \in Seq(Octet)
      BY AtParts
    <3>4. EncodedName(st) = Join(Join(Join(Join(z, a), e), b), g)
      <4>1. EncodedName(st) = z \o a \o e \o b \o g
        BY <1>1, <1>2, <1>5, <2>6, <3>1 DEF EncodedName
      <4>2. QED
        BY <4>1, Zenon DEF Join
    <3>5. Join(a, e) = a
      <4>1. a \o e = a
        BY <3>1, <3>2
      <4>2. QED
        BY <4>1, Zenon DEF Join
    <3>6. Join(Join(z, a), e) = Join(z, a)
      BY <3>2, <3>3, <3>5, JoinProperties
    <3>7. Join(a, b) \in Seq(Octet)
      BY <3>2, JoinProperties
    <3>8. Join(Join(z, a), b) = Join(z, Join(a, b))
      BY <3>2, <3>3, JoinProperties
    <3>9. Join(Join(z, Join(a, b)), g) = Join(z, Join(Join(a, b), g))
      BY <2>7, <3>3, <3>7, JoinProperties
    <3>10. PICK u : u = Join(a, b)
      OBVIOUS
    <3>11. u \in Seq(Octet) /\ Len(u) = 2 /\ u[1] = BITSTRING /\ u[2] = v % 256
      <4>1. a \o b = <<BITSTRING, v % 256>>
        BY <2>10, <3>1, TwoJoined
      <4>2. u = <<BITSTRING, v % 256>>
        BY <3>10, <4>1, Zenon DEF Join
      <4>3. QED
        BY <3>7, <3>10, <4>2
    <3>12. PICK w : w = u \o g /\ Appends(Octet, w, u, 2, g, m - 1)
      BY <2>7, <3>11, AppendsLemma
    <3>13. w = y
      <4>1. w \in Seq(Octet) /\ Len(w) = 2 + (m - 1)
        BY <3>12 DEF Appends
      <4>2. Len(w) = Len(y)
        BY <2>5, <4>1
      <4>3. \A j \in 1 .. 2 : w[j] = u[j]
        BY <3>12 DEF Appends
      <4>4. \A j \in 1 .. m - 1 : w[2 + j] = g[j]
        BY <3>12 DEF Appends
      <4>5. ASSUME NEW j \in 1 .. m + 1
            PROVE  w[j] = y[j]
        <5>1. CASE j = 1
          BY <2>10, <3>11, <4>3, <5>1
        <5>2. CASE j = 2
          BY <2>10, <3>11, <4>3, <5>2
        <5>3. CASE j \in 3 .. m + 1
          <6>1. PICK x \in 1 .. m - 1 : j = 2 + x /\ j = x + 2
            <7>1. j - 2 \in 1 .. m - 1 /\ j = 2 + (j - 2) /\ j = (j - 2) + 2
              BY <5>3
            <7>2. QED
              BY <7>1
          <6>2. w[2 + x] = g[x] /\ g[x] = y[x + 2]
            BY <2>8, <4>4
          <6>3. QED
            BY <6>1, <6>2
        <5>4. j = 1 \/ j = 2 \/ j \in 3 .. m + 1
          OBVIOUS
        <5>5. QED
          BY <5>1, <5>2, <5>3, <5>4
      <4>6. \A j \in 1 .. Len(w) : w[j] = y[j]
        BY <2>5, <4>2, <4>5
      <4>7. QED
        BY <2>5, <4>1, <4>2, <4>6, SeqEqual
    <3>14. Join(u, g) = y
      BY <3>12, <3>13, Zenon DEF Join
    <3>15. EncodedName(st) = Join(z, y)
      BY <3>4, <3>6, <3>8, <3>9, <3>10, <3>14
    <3>16. QED
      BY <3>3, <3>15, Zenon DEF Join
  <2>12. Len(EncodedName(st)) < NS_MAXCDNAME /\ z \o y \in Seq(Octet)
    <3>1. PICK x \in Nat : x = Len(z)
      BY <2>11, LenProperties
    <3>2. Appends(Octet, z \o y, z, x, y, m + 1)
      BY <2>5, <2>11, <3>1, AppendsLemma
    <3>3. z \o y \in Seq(Octet) /\ Len(z \o y) = x + (m + 1)
      BY <3>2 DEF Appends
    <3>4. x + m + 1 < NS_MAXCDNAME
      BY <2>1, <3>1
    <3>5. x + (m + 1) = x + m + 1
      OBVIOUS
    <3>6. QED
      BY <2>11, <3>3, <3>4, <3>5
  <2>13. EncodeGuard(st, NS_MAXCDNAME)
    <3>1. DigitsIn(inner) # << >> /\ ToSet(DigitsIn(inner)) \subseteq HexDigits /\ Len(DigitsIn(inner)) <= 64
      <4>1. h # << >> /\ Len(h) <= 64
        <5>1. k # 0 /\ k <= 64
          OBVIOUS
        <5>2. Len(<< >>) = 0
          OBVIOUS
        <5>3. QED
          BY <2>2, <5>1, <5>2
      <4>2. ToSet(h) \subseteq HexDigits
        BY <2>3, ElementOfSeq, LenProperties DEF ToSet
      <4>3. QED
        BY <1>5, <4>1, <4>2
    <3>2. LengthIn(inner) # << >> /\ ToSet(LengthIn(inner)) \subseteq Digits /\ LengthIn(inner)[1] # DIGIT
      <4>1. PICK d : d = Decimal(v)
        OBVIOUS
      <4>2. d \in Seq(Digits) /\ Len(d) \in 1 .. 3 /\ d[1] # DIGIT
        BY <4>1, DecimalType
      <4>3. d # << >>
        BY <4>2
      <4>4. ToSet(d) \subseteq Digits
        BY <4>2, ElementOfSeq, LenProperties DEF ToSet
      <4>5. QED
        BY <1>5, <4>1, <4>2, <4>3, <4>4
    <3>3. TrailingIn(inner) = t
      BY <1>5, <2>2
    <3>4. Value(16, <<Last(DigitsIn(inner))>>) % 2^TrailingIn(inner) = 0
      <4>1. Last(h) = h[k]
        BY <2>2 DEF Last
      <4>2. h[k] \in Octet
        BY <2>2, <2>3, ElementOfSeq
      <4>3. PICK s : s = <<h[k]>>
        OBVIOUS
      <4>4. s \in Seq(Octet) /\ Len(s) = 1 /\ s[1] = h[k]
        BY <4>2, <4>3
      <4>5. Value(16, s) = DigitValue(h[k])
        BY <4>4, ValueShort, 16 \in Nat
      <4>6. QED
        BY <1>5, <2>2, <3>3, <4>1, <4>3, <4>5
    <3>5. TrailingIn(inner) \in 0 .. 3
      BY <3>3
    <3>6. QED
      BY <1>1, <1>5, <2>12, <3>1, <3>2, <3>4, <3>5, Zenon DEF EncodeGuard
  <2>14. EncodeBitstring(st, NS_MAXCDNAME) = Encoded(st)
    BY <1>6, <2>13
  <2>15. Encoded(st) = [st EXCEPT !.mode = "bits end", !.name = z \o y, !.label = << >>, !.bits = << >>]
    BY <2>11 DEF Encoded
  <2>16. PICK x \in Seq(Octet) : x = z \o y
    BY <2>12
  <2>17. EncodeBitstring(st, NS_MAXCDNAME) \in PtonStates
    BY <1>2, EncodeType
  <2>18. At(EncodeBitstring(st, NS_MAXCDNAME), "bits end", x, << >>, 0, 3, << >>)
    BY <1>2, <2>14, <2>15, <2>16, <2>17 DEF At, PtonStates
  <2>19. QED
    BY <1>8, <2>4, <2>16, <2>18
<1>9. QED
  BY <1>7, <1>8
\* What stands in front of and behind what is between the brackets.
LEMMA BitstringText ==
    ASSUME NEW name \in Seq(Octet), NEW i \in 1 .. Len(name), LabelFits(name, i),
           name[i] = BITSTRING
    PROVE  \E t \in Seq(Octet), n \in Nat :
              /\ t = LabelText(name, i) /\ Len(t) = n + 3 /\ n = Len(Inner(name, i))
              /\ t[1] = BACKSLASH /\ t[2] = BRACKET /\ t[n + 3] = BRACKET_END
              /\ \A k \in 1 .. n : t[2 + k] = Inner(name, i)[k]
<1>1. PICK s \in Seq(Octet) : s = Inner(name, i)
  BY InnerRead
<1>2. PICK n \in Nat : n = Len(s)
  BY LenProperties
<1>3. PICK a, e : a = <<BACKSLASH, BRACKET>> /\ e = <<BRACKET_END>>
  OBVIOUS
<1>4. /\ a \in Seq(Octet) /\ Len(a) = 2 /\ a[1] = BACKSLASH /\ a[2] = BRACKET
      /\ e \in Seq(Octet) /\ Len(e) = 1 /\ e[1] = BRACKET_END
  <2>1. BACKSLASH \in Octet /\ BRACKET \in Octet /\ BRACKET_END \in Octet
    BY DEF BACKSLASH, BRACKET, BRACKET_END, Octet
  <2>2. QED
    BY <1>3, <2>1
<1>5. PICK u : u = s \o e /\ Appends(Octet, u, s, n, e, 1)
  BY <1>2, <1>4, AppendsLemma
<1>6. u \in Seq(Octet) /\ Len(u) = n + 1 /\ \A k \in 1 .. n : u[k] = s[k]
  BY <1>5 DEF Appends
<1>7. u[n + 1] = BRACKET_END
  <2>1. 1 \in 1 .. 1
    OBVIOUS
  <2>2. u[n + 1] = e[1]
    BY <1>5, <2>1 DEF Appends
  <2>3. QED
    BY <1>4, <2>2
<1>8. PICK t : t = a \o u /\ Appends(Octet, t, a, 2, u, n + 1)
  BY <1>4, <1>6, AppendsLemma
<1>9. /\ t \in Seq(Octet) /\ Len(t) = 2 + (n + 1)
      /\ \A k \in 1 .. 2 : t[k] = a[k]
      /\ \A k \in 1 .. n + 1 : t[2 + k] = u[k]
  BY <1>8 DEF Appends
<1>10. 2 + (n + 1) = n + 3 /\ n + 1 \in 1 .. n + 1 /\ 1 \in 1 .. 2 /\ 2 \in 1 .. 2
  OBVIOUS
<1>11. t[1] = BACKSLASH /\ t[2] = BRACKET /\ t[n + 3] = BRACKET_END
  <2>1. t[1] = a[1] /\ t[2] = a[2] /\ t[2 + (n + 1)] = u[n + 1]
    BY <1>9, <1>10
  <2>2. QED
    BY <1>4, <1>7, <1>10, <2>1
<1>12. \A k \in 1 .. n : t[2 + k] = s[k]
  <2>1. TAKE k \in 1 .. n
  <2>2. k \in 1 .. n + 1
    OBVIOUS
  <2>3. QED
    BY <1>6, <1>9, <2>2
<1>13. t = LabelText(name, i)
  BY <1>1, <1>3, <1>5, <1>8, DecodeParts DEF LabelText
<1>14. /\ t \in Seq(Octet) /\ Len(t) = n + 3 /\ n = Len(Inner(name, i))
       /\ \A k \in 1 .. n : t[2 + k] = Inner(name, i)[k]
  BY <1>1, <1>2, <1>9, <1>10, <1>12
<1>15. QED
  BY <1>11, <1>13, <1>14, Zenon

\* The text of a bitstring label is read as that label, or refused.
LEMMA BitsRun ==
    ASSUME NEW f, NEW chars, Runs(f, chars), NEW p,
           NEW name \in Seq(Octet), NEW i \in 1 .. Len(name), LabelFits(name, i),
           name[i] = BITSTRING, Written(chars, p, LabelText(name, i)),
           NEW z, Open(f[p], z, << >>), Len(z) + LabelLen(name, i) + 1 < NS_MAXCDNAME
    PROVE  LET st == f[p + Len(LabelText(name, i))]
           IN IF MisprintedAt(name, i) THEN st.mode = "fail"
              ELSE At(st, "bits end", z \o CleanLabel(name, i), << >>, 0, 3, << >>)
<1>1. PICK t \in Seq(Octet), n \in Nat :
              /\ t = LabelText(name, i) /\ Len(t) = n + 3 /\ n = Len(Inner(name, i))
              /\ t[1] = BACKSLASH /\ t[2] = BRACKET /\ t[n + 3] = BRACKET_END
              /\ \A k \in 1 .. n : t[2 + k] = Inner(name, i)[k]
  BY BitstringText
<1>2. PICK s \in Seq(Octet) : s = Inner(name, i) /\ \A k \in 1 .. Len(s) : s[k] # BRACKET_END
  BY InnerRead
<1>3. Len(s) = n
  BY <1>1, <1>2
<1>4. p \in Nat /\ p + (n + 3) <= Len(chars) /\ \A k \in 1 .. n + 3 : chars[p + k] = t[k]
  BY <1>1 DEF Written
<1>5. PICK w \in Nat : w = Len(chars) /\ p + (n + 3) <= w
  BY <1>4, LenProperties DEF Runs
<1>6. ASSUME NEW k \in 0 .. n + 2
      PROVE  /\ p + k \in Nat /\ p + (k + 1) = (p + k) + 1
             /\ f[(p + k) + 1] = Char(f[p + k], t[k + 1], CharAfter(chars, (p + k) + 1), NS_MAXCDNAME)
  <2>1. p + k \in Nat /\ p + (k + 1) = (p + k) + 1 /\ (p + k) + 1 <= w /\ k + 1 \in 1 .. n + 3
    BY <1>4, <1>5
  <2>2. chars[(p + k) + 1] = t[k + 1]
    BY <1>4, <2>1
  <2>3. f[(p + k) + 1] = Char(f[p + k], chars[(p + k) + 1], CharAfter(chars, (p + k) + 1), NS_MAXCDNAME)
    BY <1>5, <2>1, StepAt
  <2>4. QED
    BY <2>1, <2>2, <2>3
<1>7. At(f[p + 1], "escaped", z, << >>, 0, 3, << >>)
  <2>1. 0 \in 0 .. n + 2 /\ p + 0 = p /\ 0 + 1 = 1
    BY <1>4
  <2>2. f[p + 1] = Char(f[p], BACKSLASH, CharAfter(chars, p + 1), NS_MAXCDNAME)
    BY <1>1, <1>6, <2>1
  <2>3. QED
    BY <2>2, BackslashAt
<1>8. At(f[p + 2], "bits", z, << >>, 0, 3, << >>)
  <2>1. 1 \in 0 .. n + 2 /\ 1 + 1 = 2
    OBVIOUS
  <2>2. (p + 1) + 1 = p + 2
    BY <1>4
  <2>3. f[p + 2] = Char(f[p + 1], BRACKET, CharAfter(chars, p + 2), NS_MAXCDNAME)
    BY <1>1, <1>6, <2>1, <2>2
  <2>4. QED
    BY <1>7, <2>3, BracketAt
<1> DEFINE R == {k \in Nat : k <= n =>
                   \E b : /\ At(f[p + (2 + k)], "bits", z, << >>, 0, 3, b)
                         /\ b \in Seq(Octet) /\ Len(b) = k /\ \A j \in 1 .. k : b[j] = s[j]}
<1>9. 0 \in R
  <2>1. p + (2 + 0) = p + 2
    OBVIOUS
  <2>2. << >> \in Seq(Octet) /\ Len(<< >>) = 0 /\ \A j \in 1 .. 0 : << >>[j] = s[j]
    OBVIOUS
  <2>3. QED
    BY <1>8, <2>1, <2>2
<1>10. ASSUME NEW k \in Nat, k \in R
       PROVE  k + 1 \in R
  <2>1. SUFFICES ASSUME k + 1 <= n
                 PROVE  \E b : /\ At(f[p + (2 + (k + 1))], "bits", z, << >>, 0, 3, b)
                               /\ b \in Seq(Octet) /\ Len(b) = k + 1
                               /\ \A j \in 1 .. k + 1 : b[j] = s[j]
    OBVIOUS
  <2>2. k <= n /\ k + 1 \in 1 .. n /\ 2 + k \in 0 .. n + 2
    BY <2>1
  <2>3. PICK b : /\ At(f[p + (2 + k)], "bits", z, << >>, 0, 3, b)
                 /\ b \in Seq(Octet) /\ Len(b) = k /\ \A j \in 1 .. k : b[j] = s[j]
    BY <1>10, <2>2
  <2>4. PICK c \in Octet : c = s[k + 1] /\ c # BRACKET_END
    BY <1>2, <1>3, <2>2, ElementOfSeq
  <2>5. t[(2 + k) + 1] = c
    <3>1. (2 + k) + 1 = 2 + (k + 1)
      OBVIOUS
    <3>2. QED
      BY <1>1, <1>2, <2>2, <2>4, <3>1
  <2>6. (p + (2 + k)) + 1 = p + (2 + (k + 1))
    BY <1>4
  <2>7. f[p + (2 + (k + 1))] = Char(f[p + (2 + k)], c, CharAfter(chars, (p + (2 + k)) + 1), NS_MAXCDNAME)
    BY <1>6, <2>2, <2>5, <2>6
  <2>8. At(f[p + (2 + (k + 1))], "bits", z, << >>, 0, 3, Append(b, c))
    BY <2>3, <2>4, <2>7, BitAt
  <2>9. /\ Append(b, c) \in Seq(Octet) /\ Len(Append(b, c)) = k + 1
        /\ \A j \in 1 .. k : Append(b, c)[j] = b[j]
        /\ Append(b, c)[k + 1] = c
    BY <2>3, AppendProperties
  <2>10. \A j \in 1 .. k + 1 : Append(b, c)[j] = s[j]
    <3>1. TAKE j \in 1 .. k + 1
    <3>2. j \in 1 .. k \/ j = k + 1
      OBVIOUS
    <3>3. QED
      BY <2>3, <2>4, <2>9, <3>2
  <2>11. QED
    BY <2>8, <2>9, <2>10
<1> HIDE DEF R
<1>11. n \in R
  <2>1. Nat \subseteq R
    BY <1>9, <1>10, SetInduction
  <2>2. QED
    BY <2>1
<1>12. PICK b : /\ At(f[p + (2 + n)], "bits", z, << >>, 0, 3, b)
                /\ b \in Seq(Octet) /\ Len(b) = n /\ \A j \in 1 .. n : b[j] = s[j]
  BY <1>11 DEF R
<1>13. b = s
  BY <1>3, <1>12, SeqEqual
<1>14. PICK st : st = f[p + (2 + n)]
  OBVIOUS
<1>15. At(st, "bits", z, << >>, 0, 3, Inner(name, i))
  BY <1>2, <1>12, <1>13, <1>14
<1>16. 2 + n \in 0 .. n + 2 /\ (2 + n) + 1 = n + 3 /\ (p + (2 + n)) + 1 = p + (n + 3)
  BY <1>4
<1>17. f[p + (n + 3)] = Char(st, BRACKET_END, CharAfter(chars, p + (n + 3)), NS_MAXCDNAME)
  BY <1>1, <1>6, <1>14, <1>16
<1>18. Char(st, BRACKET_END, CharAfter(chars, p + (n + 3)), NS_MAXCDNAME) = EncodeBitstring(st, NS_MAXCDNAME)
  <2>1. CharMeans(st, BRACKET_END, CharAfter(chars, p + (n + 3)), NS_MAXCDNAME)
    BY CharCases
  <2>2. st.mode = "bits"
    BY <1>15 DEF At
  <2>3. QED
    BY <2>1, <2>2, Zenon DEF CharMeans
<1>19. f[p + Len(LabelText(name, i))] = EncodeBitstring(st, NS_MAXCDNAME)
  BY <1>1, <1>17, <1>18
<1>20. MisprintedAt(name, i) => Failed(st).mode = "fail"
  BY <1>15 DEF At, Failed, PtonStates
<1>21. QED
  BY <1>15, <1>19, <1>20, EncodesBack

\* Behind the text of a label: y are the labels up to here.
Behind(st, y) ==
    \/ \E z, l : Open(st, z, l) /\ Len(l) \in 1 .. 63 /\ y = z \o <<Len(l)>> \o l
    \/ At(st, "bits end", y, << >>, 0, 3, << >>)

\* Closing a label that is open.
LEMMA ClosedLemma ==
    ASSUME NEW st, NEW z, NEW l, Open(st, z, l), Len(l) \in 1 .. 63,
           NEW y, y = z \o <<Len(l)>> \o l, Len(y) < NS_MAXCDNAME
    PROVE  /\ Open(Closed(st, NS_MAXCDNAME), y, << >>)
           /\ Closed(st, NS_MAXCDNAME).mode = "plain" /\ Closed(st, NS_MAXCDNAME).name = y
           /\ st.label # << >> /\ l # << >>
<1>1. PICK m \in 1 .. 63, x \in Nat : m = Len(l) /\ x = Len(z)
  BY AtParts, LenProperties DEF Open
<1>2. z \in Seq(Octet) /\ l \in Seq(Octet) /\ <<m>> \in Seq(Octet) /\ Len(<<m>>) = 1
  BY AtParts DEF Open, Octet
<1>3. Appends(Octet, z \o <<m>>, z, x, <<m>>, 1)
  BY <1>1, <1>2, AppendsLemma
<1>4. z \o <<m>> \in Seq(Octet) /\ Len(z \o <<m>>) = x + 1
  BY <1>3 DEF Appends
<1>5. Appends(Octet, (z \o <<m>>) \o l, z \o <<m>>, x + 1, l, m)
  BY <1>1, <1>2, <1>4, AppendsLemma
<1>6. y \in Seq(Octet) /\ Len(y) = (x + 1) + m
  BY <1>1, <1>5 DEF Appends
<1>7. x < NS_MAXCDNAME
  <2>1. (x + 1) + m < 255
    BY <1>6 DEF NS_MAXCDNAME
  <2>2. QED
    BY <2>1 DEF NS_MAXCDNAME
<1>8. ~(Len(l) > NS_MAXLABEL \/ Len(z) >= NS_MAXCDNAME)
  <2>1. ~(m > NS_MAXLABEL) /\ ~(x >= NS_MAXCDNAME)
    BY <1>7 DEF NS_MAXLABEL, NS_MAXCDNAME
  <2>2. QED
    BY <1>1, <2>1
<1>9. st.label = l /\ st.name = z
  BY DEF Open, At
<1>10. Closed(st, NS_MAXCDNAME) = [st EXCEPT !.name = @ \o <<Len(st.label)>> \o st.label, !.label = << >>]
  BY <1>8, <1>9, Zenon DEF Closed
<1>11. Closed(st, NS_MAXCDNAME) = [st EXCEPT !.name = y, !.label = << >>]
  BY <1>9, <1>10 DEF Open, At, PtonStates
<1>12. Closed(st, NS_MAXCDNAME) \in PtonStates
  BY ClosedType DEF Open, At
<1>13. Open(Closed(st, NS_MAXCDNAME), y, << >>)
  BY <1>11, <1>12 DEF Open, At, PtonStates
<1>14. l # << >>
  <2>1. Len(<< >>) = 0 /\ m # 0
    OBVIOUS
  <2>2. QED
    BY <1>1, <2>1
<1>15. QED
  BY <1>9, <1>13, <1>14 DEF Open, At

\* Before a label that follows there is a full stop.
LEMMA BehindDot ==
    ASSUME NEW st, NEW y, Behind(st, y), Len(y) < NS_MAXCDNAME, NEW next, next # 0, next # DOT
    PROVE  Open(Char(st, DOT, next, NS_MAXCDNAME), y, << >>)
<1>1. CharMeans(st, DOT, next, NS_MAXCDNAME)
  BY CharCases
<1>2. ASSUME NEW z, NEW l, Open(st, z, l), Len(l) \in 1 .. 63, y = z \o <<Len(l)>> \o l
      PROVE  Open(Char(st, DOT, next, NS_MAXCDNAME), y, << >>)
  <2>1. st.mode = "plain"
    BY <1>2 DEF Open, At
  <2>2. DOT # BACKSLASH
    BY DEF DOT, BACKSLASH
  <2>3. Char(st, DOT, next, NS_MAXCDNAME) = Dot(st, next, NS_MAXCDNAME)
    BY <1>1, <2>1, <2>2, Zenon DEF CharMeans
  <2>4. st.label # << >> /\ Open(Closed(st, NS_MAXCDNAME), y, << >>)
    BY <1>2, ClosedLemma
  <2>5. Dot(st, next, NS_MAXCDNAME) = Closed(st, NS_MAXCDNAME)
    BY <2>4, Zenon DEF Dot
  <2>6. QED
    BY <2>3, <2>4, <2>5
<1>3. CASE At(st, "bits end", y, << >>, 0, 3, << >>)
  <2>1. st.mode = "bits end"
    BY <1>3 DEF At
  <2>2. Char(st, DOT, next, NS_MAXCDNAME) = [st EXCEPT !.mode = "plain"]
    BY <1>1, <2>1, Zenon DEF CharMeans
  <2>3. DOT \in Octet
    BY DEF DOT, Octet
  <2>4. Char(st, DOT, next, NS_MAXCDNAME) \in PtonStates
    BY <1>3, <2>3, CharType DEF At
  <2>5. QED
    BY <1>3, <2>2, <2>4 DEF Open, At, PtonStates
<1>4. QED
  BY <1>2, <1>3 DEF Behind

\* At the end of the text the name is what has been read.
LEMMA BehindEnd ==
    ASSUME NEW st, NEW y, Behind(st, y), Len(y) \in Nat, Len(y) < NS_MAXCDNAME
    PROVE  PtonResult(st, NS_MAXCDNAME) = y
<1>1. PICK m \in Nat : m = Len(y) /\ ~(m >= NS_MAXCDNAME) /\ ~(m + 1 > NS_MAXCDNAME)
  BY DEF NS_MAXCDNAME
<1>2. ~(Len(y) >= NS_MAXCDNAME) /\ ~(Len(y) + 1 > NS_MAXCDNAME)
  BY <1>1
<1>3. ASSUME NEW z, NEW l, Open(st, z, l), Len(l) \in 1 .. 63, y = z \o <<Len(l)>> \o l
      PROVE  PtonResult(st, NS_MAXCDNAME) = y
  <2>1. /\ st.mode = "plain" /\ st \in PtonStates
        /\ st.mode \notin {"fail", "done"} /\ st.mode \notin {"number", "bits"}
    BY <1>3 DEF Open, At
  <2>2. /\ st.label # << >> /\ Closed(st, NS_MAXCDNAME).mode = "plain"
        /\ Closed(st, NS_MAXCDNAME).name = y
    BY <1>3, ClosedLemma
  <2>3. Ended(st, NS_MAXCDNAME) = [st EXCEPT !.mode = "done", !.name = y]
    BY <1>2, <2>2 DEF Ended
  <2>4. PtonEnd(st, NS_MAXCDNAME) = Ended(st, NS_MAXCDNAME)
    BY <2>1, Zenon DEF PtonEnd
  <2>5. Ended(st, NS_MAXCDNAME).mode = "done" /\ Ended(st, NS_MAXCDNAME).name = y
    BY <2>1, <2>3 DEF PtonStates
  <2>6. QED
    BY <2>4, <2>5 DEF PtonResult
<1>4. CASE At(st, "bits end", y, << >>, 0, 3, << >>)
  <2>1. /\ st.mode = "bits end" /\ st \in PtonStates /\ st.name = y /\ st.label = << >>
        /\ st.mode \notin {"fail", "done"} /\ st.mode \notin {"number", "bits"}
    BY <1>4 DEF At
  <2>2. ~(Len(st.label) > NS_MAXLABEL \/ Len(st.name) >= NS_MAXCDNAME)
    <3>1. Len(<< >>) = 0 /\ ~(0 > NS_MAXLABEL)
      BY DEF NS_MAXLABEL
    <3>2. QED
      BY <1>2, <2>1, <3>1
  <2>3. Closed(st, NS_MAXCDNAME) = [st EXCEPT !.name = @ \o <<Len(st.label)>> \o st.label, !.label = << >>]
    BY <2>2, Zenon DEF Closed
  <2>4. Closed(st, NS_MAXCDNAME).mode # "fail"
    BY <2>1, <2>3 DEF PtonStates
  <2>5. Ended(st, NS_MAXCDNAME) = [st EXCEPT !.mode = "done", !.name = y]
    BY <1>2, <2>1, <2>4 DEF Ended
  <2>6. PtonEnd(st, NS_MAXCDNAME) = Ended(st, NS_MAXCDNAME)
    BY <2>1, Zenon DEF PtonEnd
  <2>7. Ended(st, NS_MAXCDNAME).mode = "done" /\ Ended(st, NS_MAXCDNAME).name = y
    BY <2>1, <2>5 DEF PtonStates
  <2>8. QED
    BY <2>6, <2>7 DEF PtonResult
<1>5. QED
  BY <1>3, <1>4 DEF Behind

\* Once it has failed it has failed.
LEMMA FailStays ==
    ASSUME NEW f, NEW chars, Runs(f, chars), NEW p \in Nat, p <= Len(chars), f[p].mode = "fail"
    PROVE  PtonResult(f[Len(chars)], NS_MAXCDNAME) = NoName
<1>1. PICK n \in Nat : n = Len(chars) /\ p <= n
  BY LenProperties DEF Runs
<1> DEFINE R == {k \in Nat : p + k <= n => f[p + k].mode = "fail"}
<1>2. 0 \in R
  BY p + 0 = p
<1>3. ASSUME NEW k \in Nat, k \in R
      PROVE  k + 1 \in R
  <2>1. SUFFICES ASSUME p + (k + 1) <= n
                 PROVE  f[p + (k + 1)].mode = "fail"
    OBVIOUS
  <2>2. p + k \in Nat /\ p + (k + 1) = (p + k) + 1 /\ p + k <= n /\ (p + k) + 1 <= n
    BY <2>1
  <2>3. f[p + k].mode = "fail"
    BY <1>3, <2>2
  <2>4. PICK c, next : f[(p + k) + 1] = Char(f[p + k], c, next, NS_MAXCDNAME)
    BY <1>1, <2>2, StepAt
  <2>5. CharMeans(f[p + k], c, next, NS_MAXCDNAME)
    BY CharCases
  <2>6. f[p + k].mode \in {"fail", "done"}
    BY <2>3
  <2>7. Char(f[p + k], c, next, NS_MAXCDNAME) = f[p + k]
    BY <2>5, <2>6, Zenon DEF CharMeans
  <2>8. QED
    BY <2>2, <2>3, <2>4, <2>7
<1> HIDE DEF R
<1>4. n - p \in R
  <2>1. Nat \subseteq R
    BY <1>2, <1>3, SetInduction
  <2>2. n - p \in Nat
    BY <1>1
  <2>3. QED
    BY <2>1, <2>2
<1>5. p + (n - p) = n
  BY <1>1
<1>6. f[n].mode = "fail"
  <2>1. p + (n - p) <= n
    BY <1>5
  <2>2. QED
    BY <1>4, <1>5, <2>1 DEF R
<1>7. f[n].mode \in {"fail", "done"} /\ f[n].mode # "done"
  BY <1>6
<1>8. PtonEnd(f[n], NS_MAXCDNAME) = f[n]
  BY <1>7, Zenon DEF PtonEnd
<1>9. QED
  BY <1>1, <1>7, <1>8 DEF PtonResult

\* The text of a label is that label again, or refused.
LEMMA LabelDone ==
    ASSUME NEW f, NEW chars, Runs(f, chars), NEW p,
           NEW name \in Seq(Octet), NEW i \in 1 .. Len(name), LabelFits(name, i),
           Written(chars, p, LabelText(name, i)),
           NEW z, Open(f[p], z, << >>), Len(z) + LabelLen(name, i) + 1 < NS_MAXCDNAME
    PROVE  LET st == f[p + Len(LabelText(name, i))]
           IN IF MisprintedAt(name, i) THEN st.mode = "fail"
              ELSE Behind(st, z \o CleanLabel(name, i))
<1>1. CASE name[i] = BITSTRING
  BY <1>1, BitsRun DEF Behind
<1>2. CASE name[i] # BITSTRING
  <2>1. PICK l : /\ Open(f[p + Len(LabelText(name, i))], z, l)
                 /\ Copied(l, name, i, LabelLen(name, i))
    BY <1>2, LabelRun
  <2>2. PICK m \in 1 .. 63 : m = LabelLen(name, i) /\ m = name[i]
    BY <1>2, LabelFitsLemma
  <2>3. l \in Seq(Octet) /\ Len(l) = m /\ \A j \in 1 .. m : l[j] = name[i + j]
    BY <2>1, <2>2 DEF Copied
  <2>4. PICK y : y = CleanLabel(name, i)
    OBVIOUS
  <2>5. /\ y \in Seq(Octet) /\ Len(y) = m + 1
        /\ \A k \in 1 .. m : y[k] = name[i - 1 + k]
        /\ y[m + 1] = name[i + m]
    BY <1>2, <2>2, <2>4, CleanLemma DEF CleanByte
  <2>6. PICK a : a = <<m>>
    OBVIOUS
  <2>7. a \in Seq(Octet) /\ Len(a) = 1 /\ a[1] = m
    BY <2>6 DEF Octet
  <2>8. PICK w : w = a \o l /\ Appends(Octet, w, a, 1, l, m)
    BY <2>3, <2>7, AppendsLemma
  <2>9. w = y
    <3>1. PICK j \in Nat : j = i
      OBVIOUS
    <3>2. /\ w \in Seq(Octet) /\ Len(w) = 1 + m
          /\ \A k \in 1 .. 1 : w[k] = a[k]
          /\ \A k \in 1 .. m : w[1 + k] = l[k]
      BY <2>8 DEF Appends
    <3>3. ASSUME NEW k \in 1 .. m + 1
          PROVE  w[k] = y[k]
      <4>1. CASE k = 1
        <5>1. w[1] = m
          BY <2>7, <3>2
        <5>2. j - 1 + 1 = j /\ 1 \in 1 .. m
          OBVIOUS
        <5>3. y[1] = name[j]
          BY <2>5, <3>1, <5>2
        <5>4. QED
          BY <2>2, <3>1, <4>1, <5>1, <5>3
      <4>2. CASE k \in 2 .. m
        <5>1. PICK x \in 1 .. m : k = 1 + x
          <6>1. k - 1 \in 1 .. m /\ k = 1 + (k - 1)
            BY <4>2
          <6>2. QED
            BY <6>1
        <5>2. w[k] = name[j + x]
          BY <2>3, <3>1, <3>2, <5>1
        <5>3. j - 1 + k = j + x /\ k \in 1 .. m
          BY <4>2, <5>1
        <5>4. y[k] = name[j + x]
          BY <2>5, <3>1, <5>3
        <5>5. QED
          BY <5>2, <5>4
      <4>3. CASE k = m + 1
        <5>1. m \in 1 .. m /\ k = 1 + m
          BY <4>3
        <5>2. w[k] = name[i + m]
          BY <2>3, <3>2, <5>1
        <5>3. QED
          BY <2>5, <4>3, <5>2
      <4>4. k = 1 \/ k \in 2 .. m \/ k = m + 1
        OBVIOUS
      <4>5. QED
        BY <4>1, <4>2, <4>3, <4>4
    <3>4. Len(w) = Len(y) /\ \A k \in 1 .. Len(w) : w[k] = y[k]
      BY <2>5, <3>2, <3>3
    <3>5. QED
      BY <2>5, <3>2, <3>4, SeqEqual
  <2>10. z \o <<Len(l)>> \o l = z \o y
    <3>1. z \in Seq(Octet)
      BY AtParts DEF Open
    <3>2. Join(Join(z, a), l) = Join(z, Join(a, l))
      BY <2>3, <2>7, <3>1, JoinProperties
    <3>3. Join(a, l) = y
      BY <2>8, <2>9, Zenon DEF Join
    <3>4. Join(Join(z, a), l) = Join(z, y)
      BY <3>2, <3>3
    <3>5. <<Len(l)>> = a
      BY <2>3, <2>6
    <3>6. QED
      BY <3>4, <3>5, Zenon DEF Join
  <2>11. Len(l) \in 1 .. 63
    BY <2>3
  <2>12. ~MisprintedAt(name, i)
    BY <1>2 DEF MisprintedAt
  <2>13. Behind(f[p + Len(LabelText(name, i))], z \o y)
    BY <2>1, <2>10, <2>11, Zenon DEF Behind
  <2>14. QED
    BY <2>4, <2>12, <2>13
<1>3. QED
  BY <1>1, <1>2

\* The text of a label begins with neither a full stop nor a zero.
LEMMA LabelTextBegins ==
    ASSUME NEW name \in Seq(Octet), NEW i \in 1 .. Len(name), LabelFits(name, i)
    PROVE  /\ LabelText(name, i) \in Seq(Octet) /\ Len(LabelText(name, i)) >= 1
           /\ LabelText(name, i)[1] # DOT /\ LabelText(name, i)[1] # 0
<1>1. BACKSLASH # DOT /\ BACKSLASH # 0
  BY DEF BACKSLASH, DOT
<1>2. CASE name[i] = BITSTRING
  <2>1. PICK t \in Seq(Octet), n \in Nat : t = LabelText(name, i) /\ Len(t) = n + 3 /\ t[1] = BACKSLASH
    BY <1>2, BitstringText
  <2>2. QED
    BY <1>1, <2>1
<1>3. CASE name[i] # BITSTRING
  <2>1. PICK n \in Nat, m \in 1 .. 63 :
                n = Len(name) /\ m = LabelLen(name, i) /\ i \in 1 .. n /\ i + m \in 1 .. n
    BY LabelInside
  <2>2. m = name[i]
    BY <1>3, <2>1, LabelFitsLemma
  <2>3. \A k \in 1 .. m : name[i + k] \in Octet
    <3>1. TAKE k \in 1 .. m
    <3>2. PICK j \in 1 .. n : j = i /\ j + m <= n
      BY <2>1
    <3>3. j + k \in 1 .. n
      BY <3>2
    <3>4. QED
      BY <2>1, <3>2, <3>3, ElementOfSeq
  <2> DEFINE e(k) == Quoted(name[i + k])
             s == [k \in 1 .. m |-> e(k)]
  <2>4. LabelText(name, i) = FlattenSeq(s)
    BY <1>3, <2>2 DEF LabelText
  <2>5. \A k \in 1 .. m : e(k) \in Seq(Octet)
    BY <2>3, QuotedType
  <2>6. s[1] = Quoted(name[i + 1])
    OBVIOUS
  <2>7. s \in Seq(Seq(Octet)) /\ Len(s) = m
    <3> HIDE DEF e
    <3>1. s \in [1 .. m -> Seq(Octet)] /\ m \in Nat
      BY <2>5
    <3> HIDE DEF s
    <3>2. QED
      BY <3>1
  <2> HIDE DEF e, s
  <2>8. s # << >> /\ 1 \in 1 .. m
    <3>1. Len(<< >>) = 0 /\ m # 0
      OBVIOUS
    <3>2. QED
      BY <2>7, <3>1
  <2>9. FlattenSeq(s) = Join(s[1], FlattenSeq(Tail(s)))
    BY <2>7, <2>8, FlattenSeqFront
  <2>10. PICK c \in Octet : c = name[i + 1]
    BY <2>3, <2>8
  <2>11. PICK a : a = Quoted(c)
    OBVIOUS
  <2>12. a \in Seq(Octet) /\ Len(a) \in 1 .. 4
    BY <2>11, QuotedType
  <2>13. a[1] # DOT /\ a[1] # 0
    <3>1. CASE AsItself(c, a)
      BY <3>1 DEF AsItself, Special, Printable, DOT
    <3>2. CASE AsSpecial(c, a)
      BY <1>1, <3>2 DEF AsSpecial
    <3>3. CASE AsNumber(c, a)
      <4>1. PICK x, y, v : a = <<BACKSLASH, DIGIT + x, DIGIT + y, DIGIT + v>>
        BY <3>3 DEF AsNumber
      <4>2. a[1] = BACKSLASH
        BY <4>1
      <4>3. QED
        BY <1>1, <4>2
    <3>4. QED
      BY <2>11, <3>1, <3>2, <3>3, QuotedKinds
  <2>14. PICK b \in Seq(Octet) : b = FlattenSeq(Tail(s))
    <3>1. Tail(s) \in Seq(Seq(Octet))
      BY <2>7, <2>8
    <3>2. QED
      BY <3>1, FlattenSeqType
  <2>15. PICK u \in 1 .. 4, v \in Nat : u = Len(a) /\ v = Len(b)
    BY <2>12, LenProperties
  <2>16. Appends(Octet, a \o b, a, u, b, v)
    BY <2>12, <2>15, AppendsLemma
  <2>17. LabelText(name, i) = a \o b
    BY <2>4, <2>6, <2>9, <2>10, <2>11, <2>14 DEF Join
  <2>18. PICK w : w = a \o b
    OBVIOUS
  <2>19. w \in Seq(Octet) /\ Len(w) = u + v /\ \A k \in 1 .. u : w[k] = a[k]
    BY <2>16, <2>18 DEF Appends
  <2>20. 1 \in 1 .. u /\ u + v >= 1
    OBVIOUS
  <2>21. QED
    BY <2>13, <2>17, <2>18, <2>19, <2>20
<1>4. QED
  BY <1>2, <1>3

-------------------------------------------------------------------------------
(* A name is read back *)

\* The labels from position i on, as they are spelled, and whether there is one that
\* is written with a digit too many.
CleanFrom(name) ==
    CHOOSE f : f = [i \in 1 .. Len(name) + 1 |->
                      IF i > Len(name) THEN << >>
                      ELSE Join(CleanLabel(name, i), f[NextLabel(name, i)])]
MisprintRow(name, f, i) ==
    IF i > Len(name) THEN FALSE
    ELSE \/ /\ name[i] = BITSTRING /\ name[i + 1] % 8 \in 5 .. 7
            /\ name[i + LabelLen(name, i)] > 127
         \/ f[NextLabel(name, i)]
MisprintFrom(name) == CHOOSE f : f = [i \in 1 .. Len(name) + 1 |-> MisprintRow(name, f, i)]

\* Spelled and Misprinted, named; and what holds of them, label by label.
LEMMA SpelledUnfolds ==
    ASSUME NEW o
    PROVE  Spelled(o) = CleanFrom(U!Spelled[o])[1]
BY Zenon DEF Spelled, CleanFrom, CleanLabel, Unused, Join

LEMMA MisprintedUnfolds ==
    ASSUME NEW name
    PROVE  Misprinted(name) <=> CharIsSigned /\ MisprintFrom(name)[1]
BY Zenon DEF Misprinted, MisprintFrom, MisprintRow

LEMMA CleanFromUnfolds ==
    ASSUME NEW name \in Seq(Octet)
    PROVE  /\ CleanFrom(name)[Len(name) + 1] = << >>
           /\ \A i \in 1 .. Len(name) :
                 CleanFrom(name)[i] = Join(CleanLabel(name, i), CleanFrom(name)[NextLabel(name, i)])
<1>1. PICK n \in Nat : n = Len(name)
  BY NextLabelLemma
<1> DEFINE piece == [i \in 1 .. n |-> CleanLabel(name, i)]
           F(f) == [i \in 1 .. n + 1 |->
                      IF i > n THEN << >> ELSE Join(CleanLabel(name, i), f[NextLabel(name, i)])]
<1>2. PICK f : f = [i \in 1 .. n + 1 |->
                      IF i > n THEN << >> ELSE Join(piece[i], f[Steps(name)[i]])]
  <2> HIDE DEF piece
  <2>1. \E f : JoinsFrom(f, n, piece, Steps(name))
    BY <1>1, NextLabelLemma, SuffixJoin
  <2>2. QED
    BY <2>1 DEF JoinsFrom
<1>3. \A i \in 1 .. n + 1 :
         (IF i > n THEN << >> ELSE Join(piece[i], f[Steps(name)[i]])) =
            IF i > n THEN << >> ELSE Join(CleanLabel(name, i), f[NextLabel(name, i)])
  <2>1. TAKE i \in 1 .. n + 1
  <2>2. ~(i > n) => i \in 1 .. n
    OBVIOUS
  <2>3. QED
    BY <1>1, <2>2, NextLabelLemma
<1>4. f = F(f)
  BY <1>2, <1>3
<1>5. CleanFrom(name) = CHOOSE g : g = F(g)
  BY <1>1 DEF CleanFrom
<1>6. CleanFrom(name) = F(CleanFrom(name))
  BY <1>4, <1>5
<1>7. \A i \in 1 .. n + 1 : CleanFrom(name)[i] =
         IF i > n THEN << >> ELSE Join(CleanLabel(name, i), CleanFrom(name)[NextLabel(name, i)])
  BY <1>6
<1>8. n + 1 > n /\ n + 1 \in 1 .. n + 1 /\ \A i \in 1 .. n : ~(i > n) /\ i \in 1 .. n + 1
  OBVIOUS
<1>9. QED
  BY <1>1, <1>7, <1>8

LEMMA MisprintFromUnfolds ==
    ASSUME NEW name \in Seq(Octet)
    PROVE  \A i \in 1 .. Len(name) + 1 :
              MisprintFrom(name)[i] = MisprintRow(name, MisprintFrom(name), i)
<1>1. PICK n \in Nat : n = Len(name)
  BY LenProperties
<1> DEFINE here(i) == /\ name[i] = BITSTRING /\ name[i + 1] % 8 \in 5 .. 7
                      /\ name[i + LabelLen(name, i)] > 127
           step == [i \in 1 .. n |-> [x \in BOOLEAN |-> here(i) \/ x]]
<1>s. /\ step \in [1 .. n -> [BOOLEAN -> BOOLEAN]] /\ FALSE \in BOOLEAN
      /\ \A i \in 1 .. n : \A x \in BOOLEAN : step[i][x] = (here(i) \/ x)
  BY Zenon
<1> HIDE DEF step, here
<1>3. PICK f \in [1 .. n + 1 -> BOOLEAN] :
              f[n + 1] = FALSE /\ \A i \in 1 .. n : f[i] = step[i][f[Steps(name)[i]]]
  <2>1. Onward(Steps(name), n) /\ n \in Nat
    BY <1>1, NextLabelLemma
  <2>2. Looking(BOOLEAN, n, FALSE, step, Steps(name))
    BY <1>s, <2>1, Zenon DEF Looking
  <2>3. PICK f : Unrolls(f, BOOLEAN, n, FALSE, step, Steps(name))
    BY <2>2, SuffixFunction
  <2>4. QED
    BY <2>3, Zenon DEF Unrolls
<1>4. \A i \in 1 .. n + 1 : f[i] = MisprintRow(name, f, i)
  <2>1. TAKE i \in 1 .. n + 1
  <2>2. CASE i = n + 1
    <3>1. n + 1 > Len(name)
      BY <1>1
    <3>2. QED
      BY <1>3, <2>2, <3>1, Zenon DEF MisprintRow
  <2>3. CASE i # n + 1
    <3>1. i \in 1 .. n /\ ~(i > n)
      BY <2>3
    <3>2. Steps(name)[i] = NextLabel(name, i) /\ NextLabel(name, i) \in 1 .. n + 1
      <4>1. NextLabel(name, i) \in i + 1 .. n + 1 /\ Steps(name)[i] = NextLabel(name, i)
        BY <1>1, <3>1, NextLabelLemma
      <4>2. QED
        BY <3>1, <4>1
    <3>3. f[NextLabel(name, i)] \in BOOLEAN
      BY <3>2
    <3>4. f[i] = (here(i) \/ f[NextLabel(name, i)])
      BY <1>s, <1>3, <3>1, <3>2, <3>3, Zenon
    <3>5. QED
      BY <1>1, <3>1, <3>4, Zenon DEF MisprintRow, here
  <2>4. QED
    BY <2>2, <2>3
<1>5. f = [i \in 1 .. n + 1 |-> MisprintRow(name, f, i)]
  BY <1>4
<1>6. MisprintFrom(name) = CHOOSE g : g = [i \in 1 .. n + 1 |-> MisprintRow(name, g, i)]
  BY <1>1 DEF MisprintFrom
<1>7. MisprintFrom(name) = [i \in 1 .. n + 1 |-> MisprintRow(name, MisprintFrom(name), i)]
  BY <1>5, <1>6
<1>8. QED
  BY <1>1, <1>7, Zenon

\* The misprints of a name are those of its labels.
LEMMA MisprintSteps ==
    ASSUME NEW name \in Seq(Octet)
    PROVE  /\ ~MisprintFrom(name)[Len(name) + 1]
           /\ \A i \in 1 .. Len(name) : LabelFits(name, i) =>
                 (CharIsSigned /\ MisprintFrom(name)[i]
                    <=> \/ MisprintedAt(name, i)
                        \/ CharIsSigned /\ MisprintFrom(name)[NextLabel(name, i)])
<1>1. PICK n \in Nat : n = Len(name)
  BY LenProperties
<1>2. \A i \in 1 .. n + 1 : MisprintFrom(name)[i] = MisprintRow(name, MisprintFrom(name), i)
  BY <1>1, MisprintFromUnfolds
<1>3. ~MisprintFrom(name)[n + 1]
  <2>1. n + 1 \in 1 .. n + 1 /\ n + 1 > Len(name)
    BY <1>1
  <2>2. QED
    BY <1>2, <2>1, Zenon DEF MisprintRow
<1>4. ASSUME NEW i \in 1 .. n, LabelFits(name, i)
      PROVE  CharIsSigned /\ MisprintFrom(name)[i]
               <=> \/ MisprintedAt(name, i)
                   \/ CharIsSigned /\ MisprintFrom(name)[NextLabel(name, i)]
  <2>1. i \in 1 .. n + 1 /\ ~(i > Len(name)) /\ i \in 1 .. Len(name)
    BY <1>1
  <2> DEFINE here == /\ name[i] = BITSTRING /\ name[i + 1] % 8 \in 5 .. 7
                     /\ name[i + LabelLen(name, i)] > 127
  <2>2. MisprintFrom(name)[i] <=> here \/ MisprintFrom(name)[NextLabel(name, i)]
    BY <1>2, <2>1, Zenon DEF MisprintRow
  <2>3. MisprintedAt(name, i) <=> CharIsSigned /\ here
    <3>1. CASE name[i] = BITSTRING
      <4>1. name[i + 1] \in Octet
        BY <1>4, <2>1, <3>1, BitstringLemma
      <4>2. BitsOf(name[i + 1]) % 8 = name[i + 1] % 8
        BY <4>1 DEF BitsOf, Octet
      <4>3. OverAt(name, i) = name[i + 1] % 8
        BY <4>2 DEF OverAt, BitsAt
      <4>4. OverAt(name, i) # 0 => LastAt(name, i) = name[i + LabelLen(name, i)]
        BY <1>4, <2>1, <3>1, BitstringLemma DEF LastAt
      <4>5. OverAt(name, i) \in 5 .. 7 => OverAt(name, i) # 0
        OBVIOUS
      <4>6. QED
        BY <3>1, <4>3, <4>4, <4>5, Zenon DEF MisprintedAt
    <3>2. CASE name[i] # BITSTRING
      BY <3>2, Zenon DEF MisprintedAt
    <3>3. QED
      BY <3>1, <3>2
  <2> HIDE DEF here
  <2>4. QED
    BY <2>2, <2>3, Zenon
<1>5. QED
  BY <1>1, <1>3, <1>4

\* From the start of a label on, a text and a spelled name are sequences of bytes.
LEMMA FromType ==
    ASSUME NEW name \in Seq(Octet), NEW S, Marked(name, S)
    PROVE  \A i \in S : /\ TextFrom(name)[i] \in Seq(Octet) /\ CleanFrom(name)[i] \in Seq(Octet)
                        /\ Len(CleanFrom(name)[i]) = (Len(name) + 1) - i
<1>1. PICK n \in Nat : n = Len(name)
  BY LenProperties
<1> DEFINE t == TextFrom(name)
           c == CleanFrom(name)
           T == {i \in 1 .. n + 1 : i \in S =>
                   t[i] \in Seq(Octet) /\ c[i] \in Seq(Octet) /\ Len(c[i]) = (n + 1) - i}
<1>2. n + 1 \in T
  <2>1. t[n + 1] = << >> /\ c[n + 1] = << >>
    BY <1>1, TextFromUnfolds, CleanFromUnfolds
  <2> HIDE DEF t, c
  <2>2. t[n + 1] \in Seq(Octet) /\ c[n + 1] \in Seq(Octet) /\ Len(c[n + 1]) = 0
    BY <2>1
  <2>3. QED
    BY <2>2
<1>3. ASSUME NEW i \in 1 .. n, Steps(name)[i] \in T
      PROVE  i \in T
  <2>1. SUFFICES ASSUME i \in S
                 PROVE  t[i] \in Seq(Octet) /\ c[i] \in Seq(Octet) /\ Len(c[i]) = (n + 1) - i
    OBVIOUS
  <2>2. i <= Len(name) /\ i \in 1 .. Len(name)
    BY <1>1
  <2>3. LabelFits(name, i) /\ i + LabelLen(name, i) + 1 \in S
    BY <2>1, <2>2 DEF Marked
  <2>4. PICK l \in 1 .. 63 : l = LabelLen(name, i) /\ NextLabel(name, i) = i + l + 1
    BY <2>2, <2>3, LabelFitsLemma
  <2>5. Steps(name)[i] = i + l + 1
    BY <2>2, <2>4, NextLabelLemma
  <2>6. i + l + 1 \in T /\ i + l + 1 \in S /\ i + l + 1 \in 1 .. n + 1
    BY <1>3, <2>3, <2>4, <2>5
  <2>7. PICK m \in 1 .. n + 1 : m = i + l + 1 /\ m \in T /\ m \in S
    BY <2>6
  <2>8. t[m] \in Seq(Octet) /\ c[m] \in Seq(Octet) /\ Len(c[m]) = (n + 1) - m
    BY <2>7
  <2>9. Piece(name, i) \in Seq(Octet)
    BY <2>2, <2>3, PieceType
  <2>10. CleanLabel(name, i) \in Seq(Octet) /\ Len(CleanLabel(name, i)) = l + 1
    BY <2>2, <2>3, <2>4, CleanLemma
  <2>11. t[i] = Piece(name, i) \o t[m] /\ c[i] = CleanLabel(name, i) \o c[m]
    <3>1. t[i] = Piece(name, i) \o t[m]
      BY <2>2, <2>4, <2>7, TextFromUnfolds DEF Join
    <3>2. c[i] = CleanLabel(name, i) \o c[m]
      BY <2>2, <2>4, <2>7, CleanFromUnfolds DEF Join
    <3>3. QED
      BY <3>1, <3>2
  <2> HIDE DEF t, c
  <2>12. t[i] \in Seq(Octet)
    BY <2>8, <2>9, <2>11, ConcatProperties
  <2>13. c[i] \in Seq(Octet) /\ Len(c[i]) = Len(CleanLabel(name, i)) + Len(c[m])
    BY <2>8, <2>10, <2>11, ConcatProperties
  <2>14. Len(c[i]) = (n + 1) - i
    BY <2>7, <2>8, <2>10, <2>13
  <2>15. QED
    BY <2>12, <2>13, <2>14
<1> HIDE DEF T, t, c
<1>4. 1 .. n + 1 \subseteq T
  BY <1>1, <1>2, <1>3, NextLabelLemma, SuffixInduction
<1>5. \A i \in S : t[i] \in Seq(Octet) /\ c[i] \in Seq(Octet) /\ Len(c[i]) = (n + 1) - i
  <2>1. TAKE i \in S
  <2>2. i \in T
    BY <1>1, <1>4 DEF Marked
  <2>3. QED
    BY <2>2 DEF T
<1>6. QED
  BY <1>1, <1>5 DEF t, c

\* A text of two parts.
LEMMA WrittenParts ==
    ASSUME NEW chars \in Seq(Octet), NEW p, NEW a \in Seq(Octet), NEW b \in Seq(Octet),
           Written(chars, p, a \o b)
    PROVE  /\ Written(chars, p, a) /\ Written(chars, p + Len(a), b)
           /\ (p + Len(a)) + Len(b) = p + Len(a \o b)
<1>1. PICK m \in Nat, n \in Nat, w \in Nat : m = Len(a) /\ n = Len(b) /\ w = Len(chars)
  BY LenProperties
<1>2. Appends(Octet, a \o b, a, m, b, n)
  BY <1>1, AppendsLemma
<1>3. PICK t : t = a \o b
  OBVIOUS
<1>4. /\ t \in Seq(Octet) /\ Len(t) = m + n
      /\ \A k \in 1 .. m : t[k] = a[k]
      /\ \A k \in 1 .. n : t[m + k] = b[k]
  BY <1>2, <1>3 DEF Appends
<1>5. p \in Nat /\ p + Len(t) <= Len(chars) /\ \A k \in 1 .. Len(t) : chars[p + k] = t[k]
  BY <1>3 DEF Written
<1>6. PICK q \in Nat : q = p
  BY <1>5
<1>7. q + (m + n) <= w /\ \A k \in 1 .. m + n : chars[q + k] = t[k]
  BY <1>1, <1>4, <1>5, <1>6
<1>8. Written(chars, q, a)
  <2>1. q + m <= w
    BY <1>7
  <2>2. \A k \in 1 .. m : chars[q + k] = a[k]
    <3>1. TAKE k \in 1 .. m
    <3>2. k \in 1 .. m + n
      OBVIOUS
    <3>3. QED
      BY <1>4, <1>7, <3>2
  <2>3. QED
    BY <1>1, <2>1, <2>2 DEF Written
<1>9. Written(chars, q + m, b)
  <2>1. (q + m) + n <= w /\ q + m \in Nat
    BY <1>7
  <2>2. \A k \in 1 .. n : chars[(q + m) + k] = b[k]
    <3>1. TAKE k \in 1 .. n
    <3>2. m + k \in 1 .. m + n /\ (q + m) + k = q + (m + k)
      OBVIOUS
    <3>3. QED
      BY <1>4, <1>7, <3>2
  <2>3. QED
    BY <1>1, <2>1, <2>2 DEF Written
<1>10. (q + m) + n = q + (m + n)
  OBVIOUS
<1>11. QED
  BY <1>1, <1>3, <1>4, <1>6, <1>8, <1>9, <1>10

\* ns_name_pton has read the text in front of the label at i; y are its labels.
Come(st, y, i) == (i = 1 /\ y = << >> /\ Open(st, y, << >>)) \/ (i > 1 /\ Behind(st, y))

\* What is written in front of the text of a label opens it.
LEMMA PieceOpens ==
    ASSUME NEW f, NEW chars, Runs(f, chars), NEW name \in Seq(Octet), NEW i \in 1 .. Len(name),
           LabelFits(name, i), NEW p, Written(chars, p, Piece(name, i)),
           NEW y, Come(f[p], y, i), Len(y) < NS_MAXCDNAME
    PROVE  \E q \in Nat : /\ Written(chars, q, LabelText(name, i)) /\ Open(f[q], y, << >>)
                          /\ q + Len(LabelText(name, i)) = p + Len(Piece(name, i))
<1>1. PICK t : t = LabelText(name, i)
  OBVIOUS
<1>2. t \in Seq(Octet) /\ Len(t) >= 1 /\ t[1] # DOT /\ t[1] # 0
  BY <1>1, LabelTextBegins
<1>3. chars \in Seq(Octet) /\ p \in Nat
  BY DEF Runs, Written
<1>4. CASE i = 1
  <2>1. Piece(name, i) = t
    <3>1. << >> \o t = t
      BY <1>2
    <3>2. QED
      BY <1>1, <1>4, <3>1 DEF Piece
  <2>2. Open(f[p], y, << >>)
    BY <1>4 DEF Come
  <2>3. QED
    BY <1>1, <1>3, <2>1, <2>2
<1>5. CASE i # 1
  <2>1. PICK d : d = <<DOT>>
    OBVIOUS
  <2>2. d \in Seq(Octet) /\ Len(d) = 1 /\ d[1] = DOT
    BY <2>1 DEF DOT, Octet
  <2>3. Piece(name, i) = d \o t
    BY <1>1, <1>5, <2>1 DEF Piece
  <2>4. /\ Written(chars, p, d) /\ Written(chars, p + 1, t)
        /\ (p + 1) + Len(t) = p + Len(d \o t)
    <3>1. Written(chars, p, d \o t)
      BY <2>3
    <3>2. /\ Written(chars, p, d) /\ Written(chars, p + Len(d), t)
          /\ (p + Len(d)) + Len(t) = p + Len(d \o t)
      <4>1. d \in Seq(Octet) /\ t \in Seq(Octet) /\ chars \in Seq(Octet)
        BY <1>2, <1>3, <2>2
    <4>2. QED
        BY <3>1, <4>1, WrittenParts
    <3>3. QED
      BY <2>2, <3>2
  <2>5. PICK w \in Nat, n \in Nat : w = Len(chars) /\ n = Len(t) /\ n >= 1 /\ (p + 1) + n <= w
    BY <1>2, <1>3, <2>4, LenProperties DEF Written
  <2>6. chars[p + 1] = DOT
    BY <2>2, <2>4 DEF Written
  <2>7. CharAfter(chars, p + 1) = t[1]
    <3>1. 1 \in 1 .. n /\ (p + 1) + 1 <= w /\ p + 1 < w
      BY <1>3, <2>5
    <3>2. chars[(p + 1) + 1] = t[1]
      BY <2>4, <2>5, <3>1 DEF Written
    <3>3. QED
      BY <2>5, <3>1, <3>2 DEF CharAfter
  <2>8. p + 1 <= Len(chars)
    BY <1>3, <2>5
  <2>9. f[p + 1] = Char(f[p], DOT, t[1], NS_MAXCDNAME)
    BY <1>3, <2>6, <2>7, <2>8, StepAt
  <2>10. Behind(f[p], y)
    BY <1>5 DEF Come
  <2>11. Open(f[p + 1], y, << >>)
    BY <1>2, <2>9, <2>10, BehindDot
  <2>12. p + 1 \in Nat
    BY <1>3
  <2>13. QED
    BY <1>1, <2>3, <2>4, <2>11, <2>12
<1>6. QED
  BY <1>4, <1>5

\* The text of a name is read as the labels of the name, or refused for a misprint.
LEMMA NameRuns ==
    ASSUME NEW name \in Seq(Octet), name # << >>, NEW S, Marked(name, S),
           Len(name) < NS_MAXCDNAME,
           NEW f, NEW chars, chars = TextFrom(name)[1], Runs(f, chars)
    PROVE  PtonResult(f[Len(chars)], NS_MAXCDNAME) =
              IF CharIsSigned /\ MisprintFrom(name)[1] THEN NoName ELSE CleanFrom(name)[1]
<1>1. PICK n \in Nat, w \in Nat : n = Len(name) /\ w = Len(chars)
  BY LenProperties DEF Runs
<1>2. n >= 1 /\ n < 255
  <2>1. n < 255
    BY <1>1 DEF NS_MAXCDNAME
  <2>2. n # 0
    BY <1>1, EmptySeq
  <2>3. QED
    BY <2>1, <2>2
<1> DEFINE t == TextFrom(name)
           c == CleanFrom(name)
           m(i) == CharIsSigned /\ MisprintFrom(name)[i]
           r == PtonResult(f[w], NS_MAXCDNAME)
           Reads(i, p, y) == r = IF m(i) THEN NoName ELSE y \o c[i]
           Here(i, p, y) == /\ y \in Seq(Octet) /\ Len(y) = i - 1
                            /\ Written(chars, p, t[i]) /\ p + Len(t[i]) = w
                            /\ Come(f[p], y, i)
           T == {i \in 1 .. n + 1 : i \in S => \A p, y : Here(i, p, y) => Reads(i, p, y)}
<1>3. \A i \in S : t[i] \in Seq(Octet) /\ c[i] \in Seq(Octet) /\ Len(c[i]) = (n + 1) - i
  BY <1>1, FromType
<1>4. t[n + 1] = << >> /\ c[n + 1] = << >> /\ ~m(n + 1)
  BY <1>1, TextFromUnfolds, CleanFromUnfolds, MisprintSteps
<1>5. ASSUME NEW i \in 1 .. n, LabelFits(name, i)
      PROVE  LET k == NextLabel(name, i)
             IN /\ t[i] = Piece(name, i) \o t[k] /\ c[i] = Join(CleanLabel(name, i), c[k])
                /\ m(i) <=> MisprintedAt(name, i) \/ m(k)
  <2>1. i \in 1 .. Len(name)
    BY <1>1
  <2>2. t[i] = Piece(name, i) \o t[NextLabel(name, i)]
    BY <2>1, TextFromUnfolds DEF Join
  <2>3. c[i] = Join(CleanLabel(name, i), c[NextLabel(name, i)])
    BY <2>1, CleanFromUnfolds
  <2>4. m(i) <=> MisprintedAt(name, i) \/ m(NextLabel(name, i))
    BY <1>5, <2>1, MisprintSteps
  <2>5. QED
    BY <2>2, <2>3, <2>4
<1>6. t[1] = chars /\ r = PtonResult(f[Len(chars)], NS_MAXCDNAME)
  BY <1>1
<1> HIDE DEF t, c, m, r
<1>7. n + 1 \in T
  <2>1. ASSUME NEW p, NEW y, Here(n + 1, p, y)
        PROVE  Reads(n + 1, p, y)
    <3>1. p \in Nat /\ p + 0 = w
      BY <1>4, <2>1 DEF Written
    <3>2. p = w
      BY <3>1
    <3>3. Behind(f[w], y)
      <4>1. n + 1 # 1
        BY <1>2
      <4>2. QED
        BY <2>1, <3>2, <4>1 DEF Come
    <3>4. Len(y) = n
      BY <2>1
    <3>5. Len(y) < NS_MAXCDNAME /\ Len(y) \in Nat
      BY <1>2, <3>4 DEF NS_MAXCDNAME
    <3>6. r = y
      BY <3>3, <3>5, BehindEnd DEF r
    <3>7. y \o << >> = y
      BY <2>1
    <3>8. QED
      BY <1>4, <3>6, <3>7
  <2>2. n + 1 \in 1 .. n + 1
    OBVIOUS
  <2> HIDE DEF Reads, Here
  <2>3. QED
    BY <2>1, <2>2
<1>8. ASSUME NEW i \in 1 .. n, Steps(name)[i] \in T
      PROVE  i \in T
  <2>1. SUFFICES ASSUME i \in S, NEW p, NEW y, Here(i, p, y)
                 PROVE  Reads(i, p, y)
    BY i \in 1 .. n + 1
  <2>2. i <= Len(name) /\ i \in 1 .. Len(name)
    BY <1>1
  <2>3. LabelFits(name, i) /\ i + LabelLen(name, i) + 1 \in S
    BY <2>1, <2>2 DEF Marked
  <2>4. PICK l \in 1 .. 63 : /\ l = LabelLen(name, i) /\ NextLabel(name, i) = i + l + 1
                             /\ i + l <= n
    <3>1. PICK x \in Nat, l \in 1 .. 63 :
                  /\ x = Len(name) /\ l = LabelLen(name, i) /\ i \in 1 .. x /\ i + l \in 1 .. x
                  /\ NextLabel(name, i) = i + l + 1
      BY <2>2, <2>3, LabelInside
    <3>2. i + l <= n
      BY <1>1, <3>1
    <3>3. QED
      BY <3>1, <3>2
  <2>5. PICK k \in 1 .. n + 1 : k = i + l + 1 /\ k = NextLabel(name, i) /\ k \in S
    <3>0. i + l <= n
      BY <2>4
    <3>1. i + l + 1 \in 1 .. n + 1
      BY <3>0
    <3>2. QED
      BY <2>3, <2>4, <3>1
  <2>6. k \in T
    BY <1>8, <2>2, <2>5, NextLabelLemma
  <2>7. /\ y \in Seq(Octet) /\ Len(y) = i - 1
        /\ Written(chars, p, t[i]) /\ p + Len(t[i]) = w /\ Come(f[p], y, i)
    BY <2>1
  <2>8. PICK a \in Seq(Octet), b \in Seq(Octet) : a = Piece(name, i) /\ b = t[k] /\ t[i] = a \o b
    BY <1>3, <1>5, <2>2, <2>3, <2>5, PieceType
  <2>9. /\ Written(chars, p, a) /\ Written(chars, p + Len(a), b)
        /\ (p + Len(a)) + Len(b) = w
    <3>1. Written(chars, p, a \o b) /\ chars \in Seq(Octet)
      BY <2>7, <2>8 DEF Runs
    <3>2. /\ Written(chars, p, a) /\ Written(chars, p + Len(a), b)
          /\ (p + Len(a)) + Len(b) = p + Len(a \o b)
      BY <3>1, WrittenParts
    <3>3. QED
      BY <2>7, <2>8, <3>2
  <2>10. Len(y) < NS_MAXCDNAME /\ Len(y) + l + 1 < NS_MAXCDNAME
    <3>1. (i - 1) + l + 1 < 255 /\ i - 1 < 255
      BY <1>2, <2>4
    <3>2. QED
      BY <2>7, <3>1 DEF NS_MAXCDNAME
  <2>11. PICK q \in Nat : /\ Written(chars, q, LabelText(name, i)) /\ Open(f[q], y, << >>)
                          /\ q + Len(LabelText(name, i)) = p + Len(a)
    <3>1. Written(chars, p, Piece(name, i))
      BY <2>8, <2>9
    <3>2. \E q \in Nat : /\ Written(chars, q, LabelText(name, i)) /\ Open(f[q], y, << >>)
                         /\ q + Len(LabelText(name, i)) = p + Len(Piece(name, i))
      BY <2>2, <2>3, <2>7, <2>10, <3>1, PieceOpens
    <3>3. QED
      BY <2>8, <3>2
  <2>12. PICK o : o = p + Len(a)
    OBVIOUS
  <2>13. IF MisprintedAt(name, i) THEN f[o].mode = "fail"
         ELSE Behind(f[o], y \o CleanLabel(name, i))
    BY <2>2, <2>3, <2>4, <2>10, <2>11, <2>12, LabelDone
  <2>14. o \in Nat /\ o <= w
    <3>1. o \in Nat /\ Len(b) \in Nat /\ o + Len(b) = w
      BY <2>9, <2>12, LenProperties DEF Written
    <3>2. QED
      BY <3>1
  <2>15. c[i] = Join(CleanLabel(name, i), c[k]) /\ (m(i) <=> MisprintedAt(name, i) \/ m(k))
    BY <1>5, <2>3, <2>5
  <2>16. CASE MisprintedAt(name, i)
    <3>1. r = NoName
      BY <1>1, <2>13, <2>14, <2>16, FailStays DEF r
    <3>2. QED
      BY <2>15, <2>16, <3>1
  <2>17. CASE ~MisprintedAt(name, i)
    <3>1. PICK x : x = CleanLabel(name, i)
      OBVIOUS
    <3>2. x \in Seq(Octet) /\ Len(x) = l + 1
      BY <2>2, <2>3, <2>4, <3>1, CleanLemma
    <3>3. PICK z : z = y \o x
      OBVIOUS
    <3>4. z \in Seq(Octet) /\ Len(z) = Len(y) + Len(x)
      BY <2>7, <3>2, <3>3, ConcatProperties
    <3>5. Len(z) = k - 1
      BY <2>5, <2>7, <3>2, <3>4
    <3>6. k > 1
      BY <2>5
    <3>7. Come(f[o], z, k)
      BY <2>13, <2>17, <3>1, <3>3, <3>6 DEF Come
    <3>8. Here(k, o, z)
      BY <2>8, <2>9, <2>12, <3>4, <3>5, <3>7
    <3>9. r = IF m(k) THEN NoName ELSE z \o c[k]
      BY <2>5, <2>6, <3>8
    <3>10. z \o c[k] = y \o c[i]
      <4>1. PICK g \in Seq(Octet) : g = c[k]
        BY <1>3, <2>5
      <4>2. Join(Join(y, x), g) = Join(y, Join(x, g))
        BY <2>7, <3>2, JoinProperties
      <4>3. Join(z, c[k]) = Join(y, c[i])
        BY <2>15, <3>1, <3>3, <4>1, <4>2, Zenon DEF Join
      <4>4. QED
        BY <4>3, Zenon DEF Join
    <3>11. m(i) <=> m(k)
      BY <2>15, <2>17
    <3>12. QED
      BY <3>9, <3>10, <3>11
  <2>18. QED
    BY <2>16, <2>17
<1>9. 1 .. n + 1 \subseteq T
  <2> HIDE DEF T
  <2>1. QED
    BY <1>1, <1>7, <1>8, NextLabelLemma, SuffixInduction
<1>10. Reads(1, 0, << >>)
  <2>1. 1 \in T /\ 1 \in S
    <3> HIDE DEF T
    <3>1. 1 \in 1 .. n + 1
      OBVIOUS
    <3>2. QED
      BY <1>9, <3>1 DEF Marked
  <2>2. Come(f[0], << >>, 1)
    <3>1. f[0] = PtonStart
      BY DEF Runs, PtonRun
    <3>2. QED
      BY <3>1, PtonStartType DEF Come, Open, At, PtonStart
  <2>3. Written(chars, 0, t[1]) /\ 0 + Len(t[1]) = w
    BY <1>1, <1>6 DEF Written, Runs
  <2>4. << >> \in Seq(Octet) /\ Len(<< >>) = 1 - 1
    OBVIOUS
  <2>5. Here(1, 0, << >>)
    BY <2>2, <2>3, <2>4
  <2> HIDE DEF Here, Reads
  <2>6. QED
    BY <2>1, <2>5
<1>11. << >> \o c[1] = c[1]
  BY <1>3 DEF Marked
<1>12. r = IF m(1) THEN NoName ELSE c[1]
  BY <1>10, <1>11
<1>13. QED
  BY <1>6, <1>12 DEF c, m

\* The name that ends where it begins.
LEMMA EmptyEnded ==
    /\ Ended(PtonStart, NS_MAXCDNAME).mode = "done"
    /\ Ended(PtonStart, NS_MAXCDNAME).name = << >>
<1>1. /\ PtonStart.mode = "plain" /\ PtonStart.name = << >> /\ PtonStart.label = << >>
      /\ PtonStart.mode \notin {"fail", "done"} /\ PtonStart.mode \notin {"number", "bits"}
      /\ PtonStart \in PtonStates
  BY PtonStartType DEF PtonStart
<1>2. /\ Len(<< >>) = 0 /\ ~(0 > NS_MAXLABEL) /\ ~(0 >= NS_MAXCDNAME)
      /\ ~(0 + 1 > NS_MAXCDNAME)
  BY DEF NS_MAXLABEL, NS_MAXCDNAME
<1>3. ~(Len(PtonStart.label) > NS_MAXLABEL \/ Len(PtonStart.name) >= NS_MAXCDNAME)
  BY <1>1, <1>2
<1> DEFINE s == PtonStart
<1>4. s.label = << >> /\ s \in PtonStates /\ s.mode \notin {"fail", "done"}
      /\ s.mode \notin {"number", "bits"} /\ s.name = << >> /\ s.mode = "plain"
      /\ ~(Len(s.label) > NS_MAXLABEL \/ Len(s.name) >= NS_MAXCDNAME)
  BY <1>1, <1>3
<1> HIDE DEF s
<1>5. Closed(s, NS_MAXCDNAME) = [s EXCEPT !.name = @ \o <<Len(s.label)>> \o s.label, !.label = << >>]
  BY <1>4, Zenon DEF Closed
<1>6. Closed(s, NS_MAXCDNAME).mode # "fail"
  BY <1>4, <1>5 DEF PtonStates
<1>7. Ended(s, NS_MAXCDNAME) = [s EXCEPT !.mode = "done", !.name = << >>]
  <2>1. ~(Len(s.name) >= NS_MAXCDNAME \/ Len(s.name) + 1 > NS_MAXCDNAME)
    BY <1>2, <1>4
  <2>2. QED
    BY <1>4, <1>6, <2>1 DEF Ended
<1>8. Ended(s, NS_MAXCDNAME).mode = "done" /\ Ended(s, NS_MAXCDNAME).name = << >>
  BY <1>4, <1>7 DEF PtonStates
<1>9. QED
  BY <1>8 DEF s

\* A full stop alone ends the name of the root.
LEMMA DotEnd ==
    ASSUME NEW chars \in Seq(Octet), chars = <<DOT>>
    PROVE  Pton(chars, NS_MAXCDNAME) = << >>
<1>1. PICK n \in Nat : n = 1 /\ n = Len(chars) /\ chars[n] = DOT
  <2>1. Len(<<DOT>>) = 1 /\ <<DOT>>[1] = DOT
    OBVIOUS
  <2>2. QED
    BY <2>1, 1 \in Nat
<1>2. PICK f : f = PtonAfter(chars, NS_MAXCDNAME)
  OBVIOUS
<1>3. PtonRun(f, chars, NS_MAXCDNAME)
  BY <1>2, PtonRuns
<1>4. n \in 1 .. Len(chars) /\ n - 1 = 0 /\ ~(n < Len(chars))
  BY <1>1
<1>5. CharAfter(chars, n) = 0
  BY <1>4 DEF CharAfter
<1>6. f[n] = Char(PtonStart, DOT, 0, NS_MAXCDNAME)
  BY <1>1, <1>3, <1>4, <1>5 DEF PtonRun
<1>7. PtonStart.mode = "plain" /\ DOT # BACKSLASH
  BY DEF PtonStart, DOT, BACKSLASH
<1>8. CharMeans(PtonStart, DOT, 0, NS_MAXCDNAME)
  BY CharCases
<1>9. Char(PtonStart, DOT, 0, NS_MAXCDNAME) = Dot(PtonStart, 0, NS_MAXCDNAME)
  BY <1>7, <1>8, Zenon DEF CharMeans
<1>10. Dot(PtonStart, 0, NS_MAXCDNAME) = Ended(PtonStart, NS_MAXCDNAME)
  BY DEF Dot
<1>11. f[n].mode = "done" /\ f[n].name = << >>
  BY <1>6, <1>9, <1>10, EmptyEnded
<1>12. f[n].mode \in {"fail", "done"}
  BY <1>11
<1>13. PtonEnd(f[n], NS_MAXCDNAME) = f[n]
  BY <1>12, Zenon DEF PtonEnd
<1>14. PtonResult(f[n], NS_MAXCDNAME) = << >>
  BY <1>11, <1>13 DEF PtonResult
<1>15. QED
  BY <1>1, <1>2, <1>14, PtonUnfolds

\* The text of a name as it is kept.
KeptText(name) == RrName(IF TextOf(name) = <<DOT>> THEN << >> ELSE TextOf(name))

\* What ns_name_pton makes of the text of a name.
LEMMA TextReadBack ==
    ASSUME NEW name, WellFormed(name), Len(name) < NS_MAXCDNAME
    PROVE  /\ Pton(KeptText(name), NS_MAXCDNAME) =
                 IF Misprinted(name) THEN NoName ELSE CleanFrom(name)[1]
           /\ CleanFrom(name)[1] \in Seq(Octet) /\ Len(CleanFrom(name)[1]) = Len(name)
<1>1. name \in Seq(Octet)
  BY DEF WellFormed
<1>2. PICK S : Marked(name, S)
  BY DEF WellFormed
<1>3. PICK n \in Nat : n = Len(name)
  BY <1>1, LenProperties
<1>4. 1 \in S
  BY <1>2 DEF Marked
<1>5. /\ TextFrom(name)[1] \in Seq(Octet) /\ CleanFrom(name)[1] \in Seq(Octet)
      /\ Len(CleanFrom(name)[1]) = Len(name)
  <2>1. /\ TextFrom(name)[1] \in Seq(Octet) /\ CleanFrom(name)[1] \in Seq(Octet)
        /\ Len(CleanFrom(name)[1]) = (Len(name) + 1) - 1
    BY <1>1, <1>2, <1>4, FromType
  <2>2. (n + 1) - 1 = n
    OBVIOUS
  <2>3. QED
    BY <1>3, <2>1, <2>2
<1>6. CASE name = << >>
  <2>1. KeptText(name) = <<DOT>>
    BY <1>6 DEF KeptText, RrName, TextOf
  <2>2. <<DOT>> \in Seq(Octet)
    BY DEF DOT, Octet
  <2>3. PICK chars \in Seq(Octet) : chars = <<DOT>>
    BY <2>2, Zenon
  <2>4. Pton(chars, NS_MAXCDNAME) = << >>
    BY <2>3, DotEnd
  <2>6. Len(name) + 1 = 1
    BY <1>6
  <2>7. CleanFrom(name)[1] = << >> /\ ~MisprintFrom(name)[1]
    BY <1>1, <2>6, CleanFromUnfolds, MisprintSteps
  <2>8. ~Misprinted(name)
    BY <2>7, MisprintedUnfolds
  <2>9. QED
    BY <1>5, <2>1, <2>3, <2>4, <2>7, <2>8
<1>7. CASE name # << >>
  <2>1. PICK chars \in Seq(Octet) : chars = TextFrom(name)[1]
    BY <1>5
  <2>2. 1 \in 1 .. Len(name) /\ 1 <= Len(name)
    <3>1. n # 0
      BY <1>1, <1>3, <1>7, EmptySeq
    <3>2. 1 \in 1 .. n /\ 1 <= n
      BY <3>1
    <3>3. QED
      BY <1>3, <3>2
  <2>3. LabelFits(name, 1)
    BY <1>2, <1>4, <2>2 DEF Marked
  <2>4. chars[1] # DOT /\ chars # << >>
    <3>1. PICK t : t = LabelText(name, 1)
      OBVIOUS
    <3>2. t \in Seq(Octet) /\ Len(t) >= 1 /\ t[1] # DOT
      BY <1>1, <2>2, <2>3, <3>1, LabelTextBegins
    <3>3. << >> \o t = t
      BY <3>2
    <3>4. Piece(name, 1) = t
      BY <3>1, <3>3 DEF Piece
    <3>5. NextLabel(name, 1) \in S
      <4>1. NextLabel(name, 1) = 1 + LabelLen(name, 1) + 1
        BY <1>1, <2>2, <2>3, LabelFitsLemma
      <4>2. QED
        BY <1>2, <1>4, <2>2, <4>1 DEF Marked
    <3>6. PICK b \in Seq(Octet) : b = TextFrom(name)[NextLabel(name, 1)]
      BY <1>1, <1>2, <3>5, FromType
    <3>7. chars = t \o b
      BY <1>1, <2>1, <2>2, <3>4, <3>6, TextFromUnfolds DEF Join
    <3>8. PICK u \in Nat, v \in Nat : u = Len(t) /\ v = Len(b) /\ u >= 1
      BY <3>2, LenProperties
    <3>9. Appends(Octet, t \o b, t, u, b, v)
      BY <3>2, <3>8, AppendsLemma
    <3>10. 1 \in 1 .. u
      BY <3>8
    <3>11. (t \o b)[1] = t[1] /\ Len(t \o b) = u + v
      BY <3>9, <3>10 DEF Appends
    <3>12. Len(chars) # 0
      BY <3>7, <3>8, <3>11
    <3>13. QED
      BY <3>2, <3>7, <3>11, <3>12
  <2>5. KeptText(name) = chars
    <3>1. TextOf(name) = chars
      BY <1>7, <2>1 DEF TextOf
    <3>2. <<DOT>>[1] = DOT
      OBVIOUS
    <3>3. chars # <<DOT>>
      BY <2>4, <3>2
    <3>4. QED
      BY <2>4, <3>1, <3>3 DEF KeptText, RrName
  <2>6. PICK f : f = PtonAfter(chars, NS_MAXCDNAME)
    OBVIOUS
  <2>7. Runs(f, chars)
    BY <2>6, PtonRuns DEF Runs
  <2>8. PtonResult(f[Len(chars)], NS_MAXCDNAME) =
           IF CharIsSigned /\ MisprintFrom(name)[1] THEN NoName ELSE CleanFrom(name)[1]
    BY <1>1, <1>2, <1>7, <2>1, <2>7, NameRuns
  <2>9. Pton(chars, NS_MAXCDNAME) = PtonResult(f[Len(chars)], NS_MAXCDNAME)
    BY <2>6, PtonUnfolds
  <2>10. QED
    BY <1>5, <2>5, <2>8, <2>9, MisprintedUnfolds
<1>8. QED
  BY <1>6, <1>7

\* The first twelve bytes of the question that is sent on.
LEMMA QuestionHeader == Header(<<1, 0, 0, 0>>) = <<7, 7, 1, 0, 0, 1, 0, 0, 0, 0, 0, 0>>
<1> DEFINE counts == <<1, 0, 0, 0>>
           e(k) == Bytes16(counts[k])
           s == [k \in 1 .. 4 |-> e(k)]
           h == <<7, 7, 1, 0>>
           w == <<7, 7, 1, 0, 0, 1, 0, 0, 0, 0, 0, 0>>
<1>1. e(1) = <<0, 1>> /\ e(2) = <<0, 0>> /\ e(3) = <<0, 0>> /\ e(4) = <<0, 0>>
  BY DEF Bytes16
<1>2. \A k \in 1 .. 4 : e(k) \in Seq(Octet) /\ Len(e(k)) = 2
  <2>1. TAKE k \in 1 .. 4
  <2>2. k = 1 \/ k = 2 \/ k = 3 \/ k = 4
    OBVIOUS
  <2>3. /\ <<0, 1>> \in Seq(Octet) /\ Len(<<0, 1>>) = 2
        /\ <<0, 0>> \in Seq(Octet) /\ Len(<<0, 0>>) = 2
    BY DEF Octet
  <2> HIDE DEF e
  <2>4. QED
    BY <1>1, <2>2, <2>3
<1>3. Header(counts) = h \o FlattenSeq(s)
  BY DEF Header
<1> HIDE DEF e
<1>4. s \in Seq(Seq(Octet)) /\ Len(s) = 4
  <2>1. s \in [1 .. 4 -> Seq(Octet)]
    BY <1>2
  <2> HIDE DEF s
  <2>2. QED
    BY <2>1, FunctionIsASeq, 4 \in Nat
<1>5. s[1] = e(1) /\ s[2] = e(2) /\ s[3] = e(3) /\ s[4] = e(4)
  BY 1 \in 1 .. 4, 2 \in 1 .. 4, 3 \in 1 .. 4, 4 \in 1 .. 4
<1> HIDE DEF s
<1>6. PICK g : g = FlattenSeq(s)
  OBVIOUS
<1>7. PICK off : Places(off, s, g)
  BY <1>4, <1>6, FlattenSeqPlaces
<1>8. /\ g \in Seq(Octet) /\ off[0] = 0 /\ off[4] = Len(g)
      /\ \A j \in 1 .. 4 :
            /\ off[j] = off[j - 1] + Len(s[j])
            /\ \A k \in 1 .. Len(s[j]) : g[off[j - 1] + k] = s[j][k]
  BY <1>4, <1>6, <1>7, FlattenSeqType DEF Places
<1>9. Len(s[1]) = 2 /\ Len(s[2]) = 2 /\ Len(s[3]) = 2 /\ Len(s[4]) = 2
  BY <1>2, <1>5
<1>10. off[1] = 2 /\ off[2] = 4 /\ off[3] = 6 /\ off[4] = 8
  <2>1. off[1] = off[1 - 1] + 2 /\ off[2] = off[2 - 1] + 2 /\ off[3] = off[3 - 1] + 2
        /\ off[4] = off[4 - 1] + 2
    BY <1>8, <1>9, 1 \in 1 .. 4, 2 \in 1 .. 4, 3 \in 1 .. 4, 4 \in 1 .. 4
  <2>2. 1 - 1 = 0 /\ 2 - 1 = 1 /\ 3 - 1 = 2 /\ 4 - 1 = 3
    OBVIOUS
  <2>3. QED
    BY <1>8, <2>1, <2>2
<1>11. /\ g[1] = 0 /\ g[2] = 1 /\ g[3] = 0 /\ g[4] = 0
       /\ g[5] = 0 /\ g[6] = 0 /\ g[7] = 0 /\ g[8] = 0
  <2>1. ASSUME NEW j \in 1 .. 4
        PROVE  g[off[j - 1] + 1] = s[j][1] /\ g[off[j - 1] + 2] = s[j][2]
    <3>1. Len(s[j]) = 2
      BY <1>9
    <3>2. 1 \in 1 .. 2 /\ 2 \in 1 .. 2
      OBVIOUS
    <3>3. QED
      BY <1>8, <3>1, <3>2
  <2>2. /\ s[1][1] = 0 /\ s[1][2] = 1 /\ s[2][1] = 0 /\ s[2][2] = 0
        /\ s[3][1] = 0 /\ s[3][2] = 0 /\ s[4][1] = 0 /\ s[4][2] = 0
    BY <1>1, <1>5
  <2>3. 1 - 1 = 0 /\ 2 - 1 = 1 /\ 3 - 1 = 2 /\ 4 - 1 = 3
    OBVIOUS
  <2>4. g[0 + 1] = 0 /\ g[0 + 2] = 1
    BY <1>8, <2>1, <2>2, <2>3, 1 \in 1 .. 4
  <2>5. g[2 + 1] = 0 /\ g[2 + 2] = 0
    BY <1>10, <2>1, <2>2, <2>3, 2 \in 1 .. 4
  <2>6. g[4 + 1] = 0 /\ g[4 + 2] = 0
    BY <1>10, <2>1, <2>2, <2>3, 3 \in 1 .. 4
  <2>7. g[6 + 1] = 0 /\ g[6 + 2] = 0
    BY <1>10, <2>1, <2>2, <2>3, 4 \in 1 .. 4
  <2>8. QED
    BY <2>4, <2>5, <2>6, <2>7
<1>12. Len(g) = 8
  BY <1>8, <1>10
<1>13. h \in Seq(Octet) /\ Len(h) = 4 /\ h[1] = 7 /\ h[2] = 7 /\ h[3] = 1 /\ h[4] = 0
  BY DEF Octet
<1> HIDE DEF h
<1>14. PICK x : x = h \o g /\ Appends(Octet, x, h, 4, g, 8)
  BY <1>8, <1>12, <1>13, AppendsLemma
<1>15. /\ x \in Seq(Octet) /\ Len(x) = 4 + 8
       /\ \A k \in 1 .. 4 : x[k] = h[k]
       /\ \A k \in 1 .. 8 : x[4 + k] = g[k]
  BY <1>14 DEF Appends
<1>16. x[1] = 7 /\ x[2] = 7 /\ x[3] = 1 /\ x[4] = 0
  BY <1>13, <1>15, 1 \in 1 .. 4, 2 \in 1 .. 4, 3 \in 1 .. 4, 4 \in 1 .. 4
<1>17. /\ x[4 + 1] = 0 /\ x[4 + 2] = 1 /\ x[4 + 3] = 0 /\ x[4 + 4] = 0
       /\ x[4 + 5] = 0 /\ x[4 + 6] = 0 /\ x[4 + 7] = 0 /\ x[4 + 8] = 0
  BY <1>11, <1>15, 1 \in 1 .. 8, 2 \in 1 .. 8, 3 \in 1 .. 8, 4 \in 1 .. 8,
     5 \in 1 .. 8, 6 \in 1 .. 8, 7 \in 1 .. 8, 8 \in 1 .. 8
<1>18. /\ w \in Seq(Octet) /\ Len(w) = 12
       /\ w[1] = 7 /\ w[2] = 7 /\ w[3] = 1 /\ w[4] = 0 /\ w[5] = 0 /\ w[6] = 1
       /\ w[7] = 0 /\ w[8] = 0 /\ w[9] = 0 /\ w[10] = 0 /\ w[11] = 0 /\ w[12] = 0
  BY DEF Octet
<1> HIDE DEF w
<1>19. /\ 4 + 8 = 12 /\ 4 + 1 = 5 /\ 4 + 2 = 6 /\ 4 + 3 = 7 /\ 4 + 4 = 8 /\ 4 + 5 = 9
       /\ 4 + 6 = 10 /\ 4 + 7 = 11
  OBVIOUS
<1>20. \A k \in 1 .. 12 : x[k] = w[k]
  <2>1. TAKE k \in 1 .. 12
  <2>2. k \in {1, 2, 3, 4, 5, 6, 7, 8, 9, 10, 11, 12}
    OBVIOUS
  <2>3. QED
    BY <1>16, <1>17, <1>18, <1>19, <2>2
<1>21. x = w
  <2>1. Len(x) = Len(w) /\ \A k \in 1 .. Len(x) : x[k] = w[k]
    BY <1>15, <1>18, <1>19, <1>20
  <2>2. QED
    BY <1>15, <1>18, <2>1, SeqEqual
<1>22. QED
  BY <1>3, <1>6, <1>14, <1>21 DEF w, h

\* The question made from the text of a name has the labels of the name.
LEMMA QueryOfText ==
    ASSUME NEW name, WellFormed(name), Len(name) < NS_MAXCDNAME, NEW t \in Octets2
    PROVE  Query(KeptText(name), t) =
             IF Misprinted(name) THEN NoMessage
             ELSE Header(<<1, 0, 0, 0>>) \o CleanFrom(name)[1] \o <<0>> \o Bytes16(t) \o <<0, 1>>
<1> DEFINE bytes == Pton(KeptText(name), NS_MAXCDNAME)
           room == NS_PACKETSZ - NS_HFIXEDSZ - 4
           packed == Packed(bytes, room)
           h == <<7, 7, 1, 0, 0, 1, 0, 0, 0, 0, 0, 0>>
<1>1. Query(KeptText(name), t) =
         IF bytes = NoName \/ packed = NoName THEN NoMessage
         ELSE h \o packed \o Bytes16(t) \o <<0, 1>>
  BY DEF Query
<1>2. /\ bytes = (IF Misprinted(name) THEN NoName ELSE CleanFrom(name)[1])
      /\ CleanFrom(name)[1] \in Seq(Octet) /\ Len(CleanFrom(name)[1]) = Len(name)
  BY TextReadBack
<1>3. CASE Misprinted(name)
  BY <1>1, <1>2, <1>3
<1>4. CASE ~Misprinted(name)
  <2>1. PICK c \in Seq(Octet) : c = CleanFrom(name)[1] /\ Len(c) = Len(name)
    BY <1>2
  <2>2. bytes = c
    BY <1>2, <1>4, <2>1
  <2>3. PICK n \in Nat, p \in Nat : n = Len(c) /\ p = NS_PACKETSZ /\ p >= 512 /\ n < NS_MAXCDNAME
    BY <2>1, LenProperties, RoomAssumption
  <2>4. n + 1 <= NS_MAXCDNAME /\ n + 1 < room
    BY <2>3 DEF NS_MAXCDNAME, NS_HFIXEDSZ
  <2>5. packed = c \o <<0>>
    <3>1. Len(c) + 1 <= NS_MAXCDNAME /\ Len(c) + 1 < room
      BY <2>3, <2>4
    <3> HIDE DEF bytes, room
    <3>2. QED
      BY <2>2, <3>1, Zenon DEF Packed
  <2>f. <<0>> \in Seq(Octet) /\ <<0, 1>> \in Seq(Octet) /\ h \in Seq(Octet)
    BY DEF Octet
  <2>6. PICK z \in Seq(Octet) : z = <<0>>
    BY <2>f, Zenon
  <2>7. PICK b \in Seq(Octet), e \in Seq(Octet) : b = Bytes16(t) /\ e = <<0, 1>>
    <3>1. Bytes16(t) \in Seq(Octet)
      BY Bytes16Lemma
    <3>2. QED
      BY <2>f, <3>1, Zenon
  <2> HIDE DEF h
  <2>8. PICK d \in Seq(Octet) : d = h
    BY <2>f, Zenon
  <2>9. c \o z \in Seq(Octet)
    BY ConcatProperties
  <2>10. \A x \in Seq(Octet) : x # NoName
    <3>1. TAKE x \in Seq(Octet)
    <3>2. SUFFICES ASSUME x = NoName
                   PROVE  FALSE
      OBVIOUS
    <3>3. x[1] = -1 /\ Len(x) = 1
      BY <3>2 DEF NoName
    <3>4. 1 \in 1 .. Len(x)
      BY <3>3
    <3>5. x[1] \in Octet
      BY <3>4, ElementOfSeq
    <3>6. QED
      BY <3>3, <3>5 DEF Octet
  <2>11. bytes # NoName /\ packed # NoName
    BY <2>2, <2>5, <2>6, <2>9, <2>10
  <2> HIDE DEF bytes, packed
  <2>12. Query(KeptText(name), t) = d \o (c \o z) \o b \o e
    BY <1>1, <2>5, <2>6, <2>7, <2>8, <2>11
  <2>13. d \o (c \o z) = (d \o c) \o z
    <3>1. Join(Join(d, c), z) = Join(d, Join(c, z))
      BY JoinProperties
    <3>2. QED
      BY <3>1, Zenon DEF Join
  <2>14. Header(<<1, 0, 0, 0>>) = d
    BY <2>8, QuestionHeader DEF h
  <2>15. QED
    BY <1>4, <2>1, <2>6, <2>7, <2>12, <2>13, <2>14
<1>5. QED
  BY <1>3, <1>4

\* The name of the question begins where the header ends, and its text is kept.
KeptInv ==
    /\ pc \notin {"header", "refused"} => starts[0] = NS_HFIXEDSZ
    /\ pc = "question name" => src = NS_HFIXEDSZ
    /\ pc \in {"stored", "sent"} =>
          /\ WellFormed(dst) /\ Len(dst) < NS_MAXCDNAME
          /\ dst = U!Spelled[NS_HFIXEDSZ]
          /\ text = KeptText(dst)
    /\ pc = "sent" => asked = Query(text, type)

\* No name is kept at first.
LEMMA InitKept == Init => KeptInv
BY DEF Init, KeptInv

\* What a name spells hangs on the message alone.
LEMMA SpelledStays == msg' = msg => U!Spelled' = U!Spelled
<1>1. msg' = msg => UP!Spelled' = UP!Spelled
  BY UnpackAssumed, UP!SpellerStays
<1>2. U!Spelled = UP!Spelled
  BY SameUnpack
<1>3. (U!Spelled = UP!Spelled)'
  BY <1>2, PTL
<1>4. QED
  BY <1>1, <1>2, <1>3

\* Every step keeps the name and the type.
LEMMA NextKept ==
    ASSUME ReadsInv, KeptInv, Next
    PROVE  KeptInv'
<1>1. /\ msg' = msg /\ eom' = eom /\ U!Spelled' = U!Spelled
  BY SpelledStays DEF Next, eom
<1>2. starts \in [0 .. 3 -> 0 .. eom] /\ sect \in 0 .. 3
  BY DEF ReadsInv, ReadsInside, TypeOK
<1>3. CASE Refuse
  BY <1>3 DEF Refuse, KeptInv
<1>4. ASSUME ParseHeader, ~Refuse
      PROVE  KeptInv'
  <2>1. pc' = "skip" /\ starts' = [starts EXCEPT ![0] = NS_HFIXEDSZ]
    BY <1>4 DEF ParseHeader
  <2>2. starts'[0] = NS_HFIXEDSZ
    BY <1>2, <2>1, 0 \in 0 .. 3
  <2>3. QED
    BY <2>1, <2>2 DEF KeptInv
<1>5. ASSUME SkipRecord, ~Refuse
      PROVE  KeptInv'
  BY <1>5 DEF SkipRecord, KeptInv
<1>6. ASSUME EndSection, ~Refuse
      PROVE  KeptInv'
  <2>1. /\ pc = "skip" /\ pc' \in {"skip", "question"}
        /\ starts' = starts \/ (sect < 3 /\ starts' = [starts EXCEPT ![sect + 1] = ptr])
    BY <1>6 DEF EndSection, parseVars
  <2>2. starts[0] = NS_HFIXEDSZ
    BY <2>1 DEF KeptInv
  <2>3. starts'[0] = starts[0]
    <3>1. sect + 1 # 0
      BY <1>2
    <3>2. QED
      BY <1>2, <2>1, <3>1
  <2>4. QED
    BY <2>1, <2>2, <2>3 DEF KeptInv
<1>7. ASSUME ParseQuestion, ~Refuse
      PROVE  KeptInv'
  BY <1>7 DEF ParseQuestion, Unpack, KeptInv, parseVars
<1>8. CASE UnpackStep
  BY <1>8 DEF UnpackStep, U!Next, KeptInv, parseVars
<1>9. ASSUME QuestionName, ~Refuse
      PROVE  KeptInv'
  <2>1. /\ pc = "question name" /\ ~U!Running /\ result # -1 /\ text' = RrName(Expanded(dst))
        /\ pc' = (IF made.kind = "query" THEN "stored" ELSE "answer")
        /\ UNCHANGED <<parseVars, unpackVars>>
    BY <1>9, Zenon DEF QuestionName
  <2>2. UnpackInv /\ WellFormed(dst) /\ U!StaysInside
    BY <2>1 DEF ReadsInv, ReadsInside
  <2>3. text' = KeptText(dst)
    BY <2>1, <2>2, ExpandedType DEF KeptText
  <2>4. Len(dst) < NS_MAXCDNAME
    <3>1. Len(dst) \in Nat /\ Len(dst) + 1 <= NS_MAXCDNAME /\ NS_MAXCDNAME \in Nat
      BY <2>2, LenProperties DEF U!StaysInside, WellFormed, NS_MAXCDNAME
    <3>2. QED
      BY <3>1
  <2>5. dst = U!Spelled[NS_HFIXEDSZ]
    <3>0. result \in Nat
      BY <2>1, <2>2, NameEnds
    <3>1. result >= 0
      BY <3>0
    <3>2. dst = UP!Spelled[src]
      BY <2>2, <3>1 DEF UnpackInv, UP!SpellInv, UP!NameAsSpelled
    <3>3. src = NS_HFIXEDSZ
      BY <2>1 DEF KeptInv
    <3>4. QED
      BY <3>2, <3>3, SameUnpack
  <2>6. starts' = starts /\ starts[0] = NS_HFIXEDSZ /\ dst' = dst /\ pc' \in {"stored", "answer"}
    BY <2>1 DEF KeptInv, parseVars, unpackVars
  <2>7. WellFormed(dst') /\ text' = KeptText(dst')
    BY <2>2, <2>3, <2>6
  <2>8. QED
    BY <1>1, <2>4, <2>5, <2>6, <2>7 DEF KeptInv, WellFormed, Marked, LabelFits, LabelLen, BitsOf,
                                         KeptText, RrName, TextOf
<1>10. CASE ParseAnswer
  BY <1>10 DEF ParseAnswer, KeptInv, parseVars
<1>11. ASSUME AnswerName, ~Refuse
       PROVE  KeptInv'
  BY <1>11, Zenon DEF AnswerName, KeptInv, parseVars
<1>12. CASE MkQuery
  <2>1. /\ pc = "stored" /\ pc' = "sent" /\ asked' = Query(text, type)
        /\ UNCHANGED <<parseVars, text, type, unpackVars>>
    BY <1>12 DEF MkQuery
  <2>2. /\ WellFormed(dst) /\ Len(dst) < NS_MAXCDNAME /\ dst = U!Spelled[NS_HFIXEDSZ]
        /\ text = KeptText(dst) /\ starts[0] = NS_HFIXEDSZ
    BY <2>1 DEF KeptInv
  <2>3. starts' = starts /\ dst' = dst /\ text' = text /\ type' = type
    BY <2>1 DEF parseVars, unpackVars
  <2>4. asked' = Query(text', type')
    BY <2>1, <2>3
  <2>5. WellFormed(dst') /\ text' = KeptText(dst')
    BY <2>2, <2>3
  <2>6. QED
    BY <1>1, <2>1, <2>2, <2>3, <2>4, <2>5 DEF KeptInv
<1>13. QED
  BY <1>3, <1>4, <1>5, <1>6, <1>7, <1>8, <1>9, <1>10, <1>11, <1>12 DEF Next

\* The question sent on has the labels and the type of the question received: what
\* ns_name_ntop writes of a name, ns_name_pton reads back, but for the bitstrings
\* that decode_bitstring misprints.
THEOREM QuestionSentIsReceived == Spec => []QuestionKept
<1>1. ReadsInv /\ KeptInv /\ [Next]_vars => KeptInv'
  <2>1. ASSUME KeptInv, UNCHANGED vars
        PROVE  KeptInv'
    <3>1. U!Spelled' = U!Spelled
      BY <2>1, SpelledStays DEF vars
    <3>2. /\ UNCHANGED <<pc, starts, src, dst, text, asked, type>>
      BY <2>1 DEF vars, parseVars, unpackVars
    <3>3. QED
      BY <2>1, <3>1, <3>2 DEF KeptInv
  <2>2. QED
    BY <2>1, NextKept
<1>2. ReadsInv /\ KeptInv => QuestionKept
  <2>1. SUFFICES ASSUME ReadsInv, KeptInv, pc = "sent"
                 PROVE  asked = IF Misprinted(U!Spelled[NS_HFIXEDSZ]) THEN NoMessage
                                ELSE Header(<<1, 0, 0, 0>>) \o Spelled(NS_HFIXEDSZ) \o <<0>>
                                       \o Bytes16(type) \o <<0, 1>>
    BY Zenon DEF QuestionKept
  <2>2. PICK name : name = U!Spelled[NS_HFIXEDSZ]
    OBVIOUS
  <2>3. WellFormed(name) /\ Len(name) < NS_MAXCDNAME /\ asked = Query(KeptText(name), type)
    BY <2>1, <2>2 DEF KeptInv
  <2>4. type \in Octets2
    BY <2>1 DEF ReadsInv, ReadsInside, TypeOK
  <2>5. Spelled(NS_HFIXEDSZ) = CleanFrom(name)[1]
    BY <2>2, SpelledUnfolds
  <2>6. QED
    BY <2>2, <2>3, <2>4, <2>5, QueryOfText
<1>3. QED
  BY InitReads, NextReads, InitKept, <1>1, <1>2, PTL DEF Spec
===============================================================================
