------------------------------- MODULE NameUnpack -------------------------------
(***************************************************************************)
(* ns_name_unpack (resolv.c): a domain name is read out of a message, label *)
(* by label, following the pointers that compress it.  One step is one      *)
(* round of its loop.  Every message of a small alphabet is tried, from     *)
(* every offset: the bytes come from the network.                           *)
(*                                                                          *)
(* Bytes 0 .. 63 begin a label, 65 begins a bitstring label, 192 .. 255 are *)
(* the first of a pointer's two bytes, and the others are refused.          *)
(***************************************************************************)
EXTENDS Integers, Sequences

CONSTANTS
    Bytes,        \* the bytes messages are made of
    MaxLen,       \* bound: length of a message (NS_PACKETSZ in the code)
    DstSize       \* dstsiz: room for the name (NS_MAXCDNAME)

ASSUME UnpackAssumption ==
    /\ Bytes \subseteq 0 .. 255
    /\ MaxLen \in Nat \ {0}
    /\ DstSize \in Nat \ {0}

VARIABLES
    msg,          \* the message; eom is its length
    src,          \* where the name begins, an offset
    srcp,         \* the offset of the next byte to read
    dst,          \* the bytes written so far
    len,          \* bytes the name takes up at src, once known; else -1
    checked,      \* bytes looked at so far
    result        \* what is returned: -1 or len; -2 while the loop runs

vars == <<msg, src, srcp, dst, len, checked, result>>

eom == Len(msg)
Byte(o) == msg[o + 1]
n == Byte(srcp)
Running == result = -2

Labels == 0 .. 63
BITSTRING == 65
Pointers == 192 .. 255

\* The bytes of a bitstring label, whose second byte is the number of its bits.
BitLabel(bits) == ((IF bits = 0 THEN 256 ELSE bits) + 7) \div 8 + 1

\* labellen for the label at offset o.  The number of bits is read unchecked: if
\* the label begins with the last byte of the message, it may be anything.
LabelLen(o) ==
    IF Byte(o) \in Labels THEN {Byte(o)}
    ELSE IF o + 1 < eom THEN {BitLabel(Byte(o + 1))}
    ELSE {BitLabel(bits) : bits \in 0 .. 255}

Fail == result' = -1 /\ UNCHANGED <<srcp, dst, len, checked>>

\* The pointer whose first byte is at offset o.
Target(o) == (Byte(o) - 192) * 256 + Byte(o + 1)

-------------------------------------------------------------------------------
\* Mutant of Fits: a label may end where the message ends.
FitsToEnd(l) == Len(dst) + l + 1 < DstSize /\ srcp + 1 + l <= eom

\* The limit checks for a label of l bytes.
Fits(l) == Len(dst) + l + 1 < DstSize /\ srcp + 1 + l < eom

Label ==
    /\ n \in (Labels \ {0}) \cup {BITSTRING}
    /\ \E l \in LabelLen(srcp) :
          \/ ~Fits(l) /\ Fail
          \/ /\ Fits(l)
             /\ dst' = dst \o SubSeq(msg, srcp + 1, srcp + 1 + l)
             /\ srcp' = srcp + 1 + l
             /\ checked' = checked + l + 1
             /\ UNCHANGED <<len, result>>

\* Mutant of Looped: it comes much too soon.
LoopedSoon == checked + 4 >= eom

\* "If we've looked at the whole message, there must be a loop."
Looped == checked + 2 >= eom

\* Mutant of Counted: pointers are not counted.
CountedNot == checked

\* checked after a pointer.
Counted == checked + 2

\* The pointer lies inside the message, leads into it, and may be followed.
Followed == srcp + 1 < eom /\ Target(srcp) < eom /\ ~Looped

\* Mutant of Consumed: the second byte of the pointer is forgotten.
ConsumedShort == IF len < 0 THEN srcp + 1 - src ELSE len

\* What the name takes up, when it is known at a pointer.
Consumed == IF len < 0 THEN srcp + 2 - src ELSE len

Pointer ==
    /\ n \in Pointers
    /\ \/ ~Followed /\ Fail
       \/ /\ Followed
          /\ len' = Consumed
          /\ srcp' = Target(srcp)
          /\ checked' = Counted
          /\ UNCHANGED <<dst, result>>

IllegalType == n \notin Labels \cup {BITSTRING} \cup Pointers /\ Fail

Root ==
    /\ n = 0
    /\ result' = IF len < 0 THEN srcp + 1 - src ELSE len
    /\ UNCHANGED <<srcp, dst, len, checked>>

Messages == UNION {[1 .. k -> Bytes] : k \in 1 .. MaxLen}

Init ==
    /\ msg \in Messages
    /\ src \in 0 .. eom
    /\ srcp = src
    /\ dst = << >>
    /\ len = -1
    /\ checked = 0
    /\ result = IF src >= eom THEN -1 ELSE -2

Next == /\ Running
        /\ Label \/ Pointer \/ IllegalType \/ Root
        /\ UNCHANGED <<msg, src>>

Spec == Init /\ [][Next]_vars /\ WF_vars(Next)

-------------------------------------------------------------------------------
(* References *)

NoName == <<-1>>

\* The name that begins at offset o, with as many rounds as there are offsets
\* to begin it from: more would be a loop.
Spelled ==
    LET spell[k \in 0 .. eom] ==
          [o \in 0 .. eom - 1 |->
             IF k = 0 THEN NoName
             ELSE IF Byte(o) = 0 THEN << >>
             ELSE LET label == Byte(o) \in Labels \cup {BITSTRING}
                      next == IF Byte(o) \in Labels THEN o + 1 + Byte(o)
                              ELSE IF label /\ o + 1 < eom THEN o + 1 + BitLabel(Byte(o + 1))
                              ELSE IF Byte(o) \in Pointers /\ o + 1 < eom THEN Target(o)
                              ELSE eom
                  IN IF next >= eom \/ spell[k - 1][next] = NoName THEN NoName
                     ELSE IF label THEN SubSeq(msg, o + 1, next) \o spell[k - 1][next]
                     ELSE spell[k - 1][next]]
    IN spell[eom]

\* ns_name_skip from offset o: the offset after the name, or -1.  A bitstring
\* label that begins with the last byte ends behind the message in any case.
Skip ==
    LET skip[cp \in 0 .. eom + 64] ==
          IF cp > eom THEN -1
          ELSE IF cp = eom THEN eom
          ELSE IF Byte(cp) = 0 THEN cp + 1
          ELSE IF Byte(cp) \in Labels \cup {BITSTRING}
               THEN skip[cp + 1 + CHOOSE l \in LabelLen(cp) : TRUE]
          ELSE IF Byte(cp) \in Pointers THEN IF cp + 2 > eom THEN -1 ELSE cp + 2
          ELSE -1
    IN skip

-------------------------------------------------------------------------------
(* Properties *)

\* Every variable holds a value of its kind.
TypeOK ==
    /\ msg \in Seq(Bytes)
    /\ src \in 0 .. eom
    /\ dst \in Seq(Bytes)
    /\ len \in -1 .. eom
    /\ checked \in Nat
    /\ result \in -2 .. eom

\* Whatever the bytes, each is read inside the message, but for the number of bits
\* after a last byte that begins a bitstring label; and the name, with the zero
\* that ends it, is written inside dst.
StaysInside == /\ TypeOK
               /\ Running => srcp \in 0 .. eom - 1
               /\ Len(dst) + 1 <= DstSize

\* The name returned is the one the message spells at src; and none is refused
\* but one that is not spelled (it leaves the message or never ends), does not
\* fit in dst, or takes as many bytes as the message to spell.
NameAsSpelled ==
    /\ result >= 0 => dst = Spelled[src]
    /\ result = -1 /\ src < eom /\ Spelled[src] # NoName =>
          \/ Len(Spelled[src]) >= DstSize
          \/ checked + 2 >= eom

\* ns_name_unpack and ns_name_skip agree on where a name ends.
SkipAgrees == result >= 0 => Skip[src] = src + result

\* ns_name_unpack returns the name that the message spells, and where it ends:
\* the parser, which skips the name of a record to find its length and then
\* unpacks it, has the right name and finds what follows at the right place.
UnpacksTheName == NameAsSpelled /\ SkipAgrees

\* The loop ends on every message, also on one whose pointers form a circle.
Ends == <>(~Running)
===============================================================================
