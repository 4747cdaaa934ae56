------------------------------- MODULE NameText -------------------------------
(***************************************************************************)
(* Domain names as text (resolv.c).  A name taken from a message is kept as *)
(* text in the table of queries and the cache, and is turned back into      *)
(* bytes when a query is made.  The module has no state: it gives           *)
(* ns_name_ntop, ns_name_pton and ns_name_pack as operators.                *)
(*                                                                          *)
(* A name is the bytes of its labels, each after its length, without the    *)
(* zero that ends it; a text is the codes of its characters, without the    *)
(* zero that ends it.  The functions return NoName when they fail.          *)
(*                                                                          *)
(* A bitstring label is the byte 65, the number of its bits (0 for 256) and *)
(* the bytes that hold them; as text it is \[x, the bits in hexadecimal, a  *)
(* slash, their number and ].                                               *)
(***************************************************************************)
EXTENDS Integers, Sequences, SequencesExt

CONSTANT
    CharIsSigned  \* of the platform; it is on x86

ASSUME TextAssumption == CharIsSigned \in BOOLEAN

NS_MAXLABEL == 63
NS_MAXCDNAME == 255
NS_MAXDNAME == 1025

NoName == <<-1>>

DOT == 46
BACKSLASH == 92
DIGIT == 48
SLASH == 47
BRACKET == 91
BRACKET_END == 93
LETTER_X == 120
BITSTRING == 65

\* Mutant of Special: the full stop is not quoted.
SpecialButDot == {34, 59, 92, 40, 41, 64, 36}

\* The characters " . ; \ ( ) @ $ are quoted.
Special == {34, 46, 59, 92, 40, 41, 64, 36}
Printable == 33 .. 126
Digits == 48 .. 57
HexDigits == Digits \cup 65 .. 70 \cup 97 .. 102

\* The text of one byte of a label.
Quoted(c) ==
    IF c \in Special THEN <<BACKSLASH, c>>
    ELSE IF c \in Printable THEN <<c>>
    ELSE <<BACKSLASH, DIGIT + (c \div 100), DIGIT + ((c % 100) \div 10),
          DIGIT + (c % 10)>>

\* printf's %x and %d, for what is written here.
HexDigit(d) == IF d < 10 THEN DIGIT + d ELSE 87 + d
Hex(byte) == <<HexDigit(byte \div 16), HexDigit(byte % 16)>>
Decimal(k) == (IF k > 99 THEN <<DIGIT + (k \div 100)>> ELSE << >>)
              \o (IF k > 9 THEN <<DIGIT + ((k \div 10) % 10)>> ELSE << >>)
              \o <<DIGIT + (k % 10)>>

BitsOf(k) == IF k = 0 THEN 256 ELSE k

\* labellen, for the label at position i of name.
LabelLen(name, i) ==
    IF name[i] = BITSTRING THEN (BitsOf(name[i + 1]) + 7) \div 8 + 1 ELSE name[i]

\* The position after the label at i; the end, if the label leaves the name, which
\* none does of a name that was unpacked.
NextLabel(name, i) ==
    LET next == i + 1 + LabelLen(name, i)
    IN IF next \in i + 1 .. Len(name) THEN next ELSE Len(name) + 1

\* Mutant of LastBits: the bits that do not count are written, too.
LastBitsAll(byte, b) == IF b > 4 THEN Hex(byte) ELSE <<HexDigit(byte \div 16)>>

\* The last b bits of a bitstring, where b is below 8, are the first of byte.  One
\* to four make one digit; more make two, or three where char is signed and byte
\* is negative: the mask has a ninth bit, which is set in an int.
LastBits(byte, b) ==
    LET kept == byte - (byte % 2^(8 - b))
    IN CASE b = 0 -> << >>
         [] b \in 1 .. 4 -> <<HexDigit(kept \div 16)>>
         [] b \in 5 .. 7 ->
              (IF CharIsSigned /\ byte > 127 THEN <<HexDigit(2^(8 - b) - 1)>> ELSE << >>)
                \o Hex(kept)

\* decode_bitstring, for the label at position i of name.
DecodeBitstring(name, i) ==
    LET bits == BitsOf(name[i + 1])
        last == IF bits % 8 = 0 THEN 0 ELSE name[i + 2 + bits \div 8]
    IN <<BACKSLASH, BRACKET, LETTER_X>>
         \o FlattenSeq([k \in 1 .. bits \div 8 |-> Hex(name[i + 1 + k])])
         \o LastBits(last, bits % 8)
         \o <<SLASH>> \o Decimal(bits) \o <<BRACKET_END>>

\* ns_name_ntop(name, dst, size).  Each of its tests of the room left fails only
\* for a text that will not fit as a whole, with the zero that ends it; that of
\* decode_bitstring wants a byte more, which is never short, as the text of 255
\* bytes is much shorter than the size that is given, NS_MAXDNAME.
Ntop(name, size) ==
    LET label(i) == IF name[i] = BITSTRING THEN DecodeBitstring(name, i)
                    ELSE FlattenSeq([k \in 1 .. name[i] |-> Quoted(name[i + k])])
        from[i \in 1 .. Len(name) + 1] ==
          IF i > Len(name) THEN << >>
          ELSE (IF i = 1 THEN << >> ELSE <<DOT>>) \o label(i)
                 \o from[NextLabel(name, i)]
        text == IF name = << >> THEN <<DOT>> ELSE from[1]
    IN IF Len(text) < size THEN text ELSE NoName

-------------------------------------------------------------------------------
\* ns_name_pton(text, dst, size).  It is in one of the modes "plain", "escaped"
\* (after a backslash), "number" (in the digits after one), "bits" (between \[ and
\* ]) and "bits end" (after ]), or has returned: "fail", "done".  name holds the
\* labels that are closed, label the open one, bits what has been read after \[.

\* bp >= eom
Full(st, size) == Len(st.name) + Len(st.label) + 1 >= size

Failed(st) == [st EXCEPT !.mode = "fail"]

\* The open label is closed and its length written in front of it.
Closed(st, size) ==
    IF Len(st.label) > NS_MAXLABEL \/ Len(st.name) >= size THEN Failed(st)
    ELSE [st EXCEPT !.name = @ \o <<Len(st.label)>> \o st.label, !.label = << >>]

Stored(st, c, size) ==
    IF Full(st, size) THEN Failed(st)
    ELSE [st EXCEPT !.mode = "plain", !.label = Append(@, c)]

\* The name is closed, as is its last label, unless that is empty: then its
\* length is the zero that ends the name.
Ended(st, size) ==
    LET closed == Closed(st, size)
        whole == IF st.label = << >> THEN st.name ELSE closed.name
    IN IF closed.mode = "fail" \/ Len(whole) >= size \/ Len(whole) + 1 > NS_MAXCDNAME
       THEN Failed(st)
       ELSE [st EXCEPT !.mode = "done", !.name = whole]

\* The three digits of a number, read one by one.
Number(st, c, size) ==
    LET num == st.num * 10 + (c - DIGIT)
    IN IF c \notin Digits THEN Failed(st)
       ELSE IF st.more > 1 THEN [st EXCEPT !.mode = "number", !.num = num, !.more = @ - 1]
       ELSE IF num > 255 THEN Failed(st)
       ELSE Stored([st EXCEPT !.num = 0, !.more = 3], num, size)

\* A full stop: the last of a fully qualified name, or one between two labels.
Dot(st, next, size) ==
    IF next = 0 THEN Ended(st, size)
    ELSE IF st.label = << >> \/ next = DOT THEN Failed(st)
    ELSE Closed(st, size)

\* The value of a sequence of digits to base; their bits, as so many bytes.
DigitValue(c) == IF c \in Digits THEN c - DIGIT ELSE (c + 9) % 16
Value(base, digits) ==
    LET first[k \in 0 .. Len(digits)] ==
          IF k = 0 THEN 0 ELSE first[k - 1] * base + DigitValue(digits[k])
    IN first[Len(digits)]
Packing(digits) ==
    [k \in 1 .. (Len(digits) + 1) \div 2 |->
       IF 2 * k <= Len(digits) THEN Value(16, SubSeq(digits, 2 * k - 1, 2 * k))
       ELSE 16 * Value(16, <<digits[2 * k - 1]>>)]

\* encode_bitstring of what is between \[ and ]: x, up to 64 digits, a slash and a
\* number of bits to which they are just sufficient, those behind it being zero.
\* (That the slash and the number may be left out, and the slash repeated, is left
\* out: ns_name_ntop does neither.)
EncodeBitstring(st, size) ==
    LET slash == CHOOSE i \in DOMAIN st.bits : st.bits[i] = SLASH
        digits == SubSeq(st.bits, 2, slash - 1)
        length == SubSeq(st.bits, slash + 1, Len(st.bits))
        blen == Value(10, length)
        trailing == 4 * Len(digits) - blen
        name == st.name \o <<BITSTRING>> \o st.label \o <<blen % 256>> \o Packing(digits)
    IN IF /\ SLASH \in ToSet(st.bits) /\ st.bits[1] = LETTER_X
          /\ digits # << >> /\ ToSet(digits) \subseteq HexDigits /\ Len(digits) <= 64
          /\ length # << >> /\ ToSet(length) \subseteq Digits /\ length[1] # DIGIT
          /\ trailing \in 0 .. 3 /\ Value(16, <<Last(digits)>>) % 2^trailing = 0
          /\ Len(name) < size
       THEN [st EXCEPT !.mode = "bits end", !.name = name, !.label = << >>, !.bits = << >>]
       ELSE Failed(st)

Char(st, c, next, size) ==
    CASE st.mode \in {"fail", "done"} -> st
      [] st.mode = "escaped" /\ c = BRACKET -> [st EXCEPT !.mode = "bits"]
      [] st.mode = "bits" /\ c = BRACKET_END -> EncodeBitstring(st, size)
      [] st.mode = "bits" /\ c # BRACKET_END -> [st EXCEPT !.bits = Append(@, c)]
      [] st.mode = "bits end" -> IF c = DOT THEN [st EXCEPT !.mode = "plain"] ELSE Failed(st)
      [] st.mode = "number" \/ (st.mode = "escaped" /\ c \in Digits) -> Number(st, c, size)
      [] st.mode = "plain" /\ c = BACKSLASH -> [st EXCEPT !.mode = "escaped"]
      [] st.mode = "plain" /\ c = DOT -> Dot(st, next, size)
      [] OTHER -> Stored(st, c, size)

Pton(text, size) ==
    LET start == [mode |-> "plain", name |-> << >>, label |-> << >>, num |-> 0, more |-> 3,
                  bits |-> << >>]
        next(i) == IF i < Len(text) THEN text[i + 1] ELSE 0
        after[i \in 0 .. Len(text)] ==
          IF i = 0 THEN start ELSE Char(after[i - 1], text[i], next(i), size)
        last == after[Len(text)]
        end == CASE last.mode \in {"fail", "done"} -> last
                 [] last.mode \in {"number", "bits"} -> Failed(last)
                 [] OTHER -> Ended(last, size)
    IN IF end.mode = "done" THEN end.name ELSE NoName

\* ns_name_pack of the first name of a message: there is none before it that a
\* pointer could lead to.
Packed(name, room) ==
    IF Len(name) + 1 <= NS_MAXCDNAME /\ Len(name) + 1 < room THEN name \o <<0>> ELSE NoName
===============================================================================
