------------------------------- MODULE DnsMessage -------------------------------
(***************************************************************************)
(* A message goes through the parser (dns.c, resolv.c): ns_initparse counts *)
(* its sections and skips over their records one by one, then ns_parserr    *)
(* reads the question and, in a reply, the first answer.  The name of a     *)
(* query is kept as text, and ns_mkquery makes from it the question that    *)
(* is sent on.  Names are unpacked by the steps of module NameUnpack and    *)
(* written as text by those of NameText.                                    *)
(*                                                                          *)
(* Messages are what a peer has assembled, truthfully or not, and cut or    *)
(* lengthened on the way.                                                   *)
(***************************************************************************)
EXTENDS NameText

CONSTANTS
    Made,         \* the messages peers make, see Assembled
    NS_PACKETSZ   \* room for the question that is sent on

Octet == 0 .. 255
Octets2 == {k \in Nat : k < 65536}
Questions == [name : Seq(Octet), type : Octets2]
Records == [name : Seq(Octet), type : Octets2, rdlength : Octets2, rdata : Seq(Octet)]

\* There is room for every question that is built.
ASSUME RoomAssumption == NS_PACKETSZ \in Nat /\ NS_PACKETSZ >= 512

\* A message is lengthened by two bytes at most.
ASSUME MadeAssumption ==
    \A m \in Made :
       /\ m.kind \in {"query", "reply"}
       /\ m.counts \in [1 .. 4 -> Octets2]
       /\ m.questions \in Seq(Questions)
       /\ m.records \in Seq(Records)
       /\ m.tail \in Int /\ m.tail <= 2

VARIABLES
    made,         \* what the peer has put in the message
    pc,           \* what is done next
    sect,         \* the section ns_initparse has come to
    left,         \* the records of it that are still to be skipped
    ptr,          \* the offset it has come to
    starts,       \* where each section begins
    text,         \* the name of the question
    type,         \* the type that is returned
    asked,        \* the question sent on, or NoMessage
    read,         \* history: the end of what has been read of the message
    msg, src, srcp, dst, len, checked, result   \* as in NameUnpack

parseVars == <<sect, left, ptr, starts>>
unpackVars == <<src, srcp, dst, len, checked, result>>
vars == <<made, pc, parseVars, text, type, asked, read, msg, unpackVars>>

U == INSTANCE NameUnpack WITH Bytes <- Octet, MaxLen <- NS_PACKETSZ,
                              DstSize <- NS_MAXCDNAME

NoMessage == <<-1>>
NS_HFIXEDSZ == 12
ns_t_invalid == 0

-------------------------------------------------------------------------------
\* The peer

Bytes16(i) == <<i \div 256, i % 256>>

\* A record as it is sent: a question has a name and a type, and any other
\* record data besides, with the length that is given for it.
QuestionBytes(q) == q.name \o Bytes16(q.type) \o <<0, 1>>
RecordBytes(r) == QuestionBytes(r) \o <<0, 0, 0, 9>> \o Bytes16(r.rdlength) \o r.rdata

\* A message: the counts of its sections, its questions, and its other records in
\* three sections; then it is cut or lengthened to what arrives.
Header(counts) ==
    <<7, 7, 1, 0>> \o FlattenSeq([i \in 1 .. 4 |-> Bytes16(counts[i])])
Whole(m) ==
    Header(m.counts)
      \o FlattenSeq([i \in DOMAIN m.questions |-> QuestionBytes(m.questions[i])])
      \o FlattenSeq([i \in DOMAIN m.records |-> RecordBytes(m.records[i])])
Assembled(m) == SubSeq(Whole(m) \o <<0, 0>>, 1, Len(Whole(m)) + m.tail)

-------------------------------------------------------------------------------
eom == Len(msg)

\* A byte that is read outside the message may be anything.
Byte(o) == IF o < eom THEN msg[o + 1] ELSE 0
Get16(o) == Byte(o) * 256 + Byte(o + 1)
Count(s) == Get16(4 + 2 * s)

\* What comes before offset o has been read.
Read(o) == read' = IF o > read THEN o ELSE read

Refuse ==
    /\ pc' = "refused"
    /\ UNCHANGED <<parseVars, text, type, asked, read, unpackVars>>

\* ns_initparse reads the header.
ParseHeader ==
    /\ pc = "header"
    /\ \/ eom < NS_HFIXEDSZ /\ Refuse
       \/ /\ eom >= NS_HFIXEDSZ
          /\ pc' = "skip"
          /\ sect' = 0
          /\ left' = Count(0)
          /\ ptr' = NS_HFIXEDSZ
          /\ starts' = [starts EXCEPT ![0] = NS_HFIXEDSZ]
          /\ Read(NS_HFIXEDSZ)
          /\ UNCHANGED <<text, type, asked, unpackVars>>

\* dn_skipname: the offset after the name at o, or -1.
SkipName(o) == IF o > eom THEN -1 ELSE U!Skip[o]

\* Mutant of FieldsFit: the room for the fields of a record is not looked at.
FieldsFitNot(o) == TRUE

\* A ttl and an rdlength fit at o.
FieldsFit(o) == o + 6 <= eom

\* Mutant of AfterData: the data are not skipped.
AfterDataNot(o) == o + 6

\* The offset after the data, for a ttl and an rdlength at o.
AfterData(o) == o + 6 + Get16(o + 4)

\* ns_skiprr, one record: type and class are skipped unseen.
SkipRecord ==
    /\ pc = "skip" /\ left > 0
    /\ LET name == SkipName(ptr)
           fields == name + 4
       IN \/ name = -1 /\ Refuse
          \/ name # -1 /\ sect # 0 /\ ~FieldsFit(fields) /\ Refuse
          \/ /\ name # -1 /\ (sect # 0 => FieldsFit(fields))
             /\ ptr' = IF sect = 0 THEN fields ELSE AfterData(fields)
             /\ Read(IF sect = 0 THEN name ELSE fields + 6)
             /\ left' = left - 1
             /\ UNCHANGED <<pc, sect, starts, text, type, asked, unpackVars>>

\* Mutant of WholeMessage: bytes behind the last section are let pass.
WholeMessageOrMore == ptr <= eom

\* The last section ends where the message ends.
WholeMessage == ptr = eom

\* The section has ended inside the message.
SectionFits == ptr <= eom

\* The section has been skipped; the next one begins, or the message is done.
EndSection ==
    /\ pc = "skip" /\ left = 0
    /\ \/ ~SectionFits /\ Refuse
       \/ /\ SectionFits /\ sect < 3
          /\ sect' = sect + 1
          /\ left' = Count(sect + 1)
          /\ starts' = [starts EXCEPT ![sect + 1] = ptr]
          /\ UNCHANGED <<pc, ptr, text, type, asked, read, unpackVars>>
       \/ /\ SectionFits /\ sect = 3
          /\ \/ ~WholeMessage /\ Refuse
             \/ /\ WholeMessage
                /\ pc' = "question"
                /\ UNCHANGED <<parseVars, text, type, asked, read, unpackVars>>

\* ns_name_unpack begins at o.
Unpack(o) ==
    /\ src' = o /\ srcp' = o
    /\ dst' = << >> /\ len' = -1 /\ checked' = 0
    /\ result' = IF o >= eom THEN -1 ELSE -2

\* ns_parserr for the first record of section s, which must have one.
ParseQuestion ==
    /\ pc = "question"
    /\ \/ Count(0) = 0 /\ Refuse
       \/ /\ Count(0) # 0
          /\ pc' = "question name"
          /\ Unpack(starts[0])
          /\ UNCHANGED <<parseVars, text, type, asked, read>>

UnpackStep ==
    /\ pc \in {"question name", "answer name"}
    /\ U!Next
    /\ UNCHANGED <<pc, parseVars, text, type, asked, read>>

\* dn_expand: the name as text; that of the root is empty.
Expanded(name) ==
    LET name_text == Ntop(name, NS_MAXDNAME)
    IN IF name_text = <<DOT>> THEN << >> ELSE name_text

\* ns_rr_name: the root is a full stop.
RrName(name) == IF name = << >> THEN <<DOT>> ELSE name

\* The name is unpacked: it is written as text, and the type follows.
QuestionName ==
    /\ pc = "question name" /\ ~U!Running
    /\ LET fields == starts[0] + result
           name == Expanded(dst)
           bad == result = -1 \/ name = NoName \/ fields + 4 > eom
       IN \/ bad /\ Refuse
          \/ /\ ~bad
             /\ text' = RrName(name)
             /\ type' = Get16(fields)
             /\ Read(fields + 2)
             /\ pc' = IF made.kind = "query" THEN "stored" ELSE "answer"
             /\ UNCHANGED <<parseVars, asked, unpackVars>>

\* A reply: the type of the first answer is returned in place of the question's.
ParseAnswer ==
    /\ pc = "answer"
    /\ IF Count(1) = 0
       THEN /\ type' = ns_t_invalid
            /\ pc' = "returned"
            /\ UNCHANGED unpackVars
       ELSE /\ pc' = "answer name"
            /\ Unpack(starts[1])
            /\ UNCHANGED type
    /\ UNCHANGED <<parseVars, text, asked, read>>

AnswerName ==
    /\ pc = "answer name" /\ ~U!Running
    /\ LET fields == starts[1] + result
           bad == \/ result = -1 \/ Expanded(dst) = NoName
                  \/ ~FieldsFit(fields + 4) \/ AfterData(fields + 4) > eom
       IN \/ bad /\ Refuse
          \/ /\ ~bad
             /\ type' = Get16(fields)
             /\ Read(fields + 10)
             /\ pc' = "returned"
             /\ UNCHANGED <<parseVars, text, asked, unpackVars>>

\* ns_mkquery for a name kept as text.
Query(name, qtype) ==
    LET bytes == Pton(name, NS_MAXCDNAME)
        packed == Packed(bytes, NS_PACKETSZ - NS_HFIXEDSZ - 4)
    IN IF bytes = NoName \/ packed = NoName THEN NoMessage
       ELSE <<7, 7, 1, 0, 0, 1, 0, 0, 0, 0, 0, 0>> \o packed \o Bytes16(qtype) \o <<0, 1>>

MkQuery ==
    /\ pc = "stored"
    /\ asked' = Query(text, type)
    /\ pc' = "sent"
    /\ UNCHANGED <<parseVars, text, type, read, unpackVars>>

-------------------------------------------------------------------------------
Init ==
    /\ made \in Made
    /\ msg = Assembled(made)
    /\ pc = "header"
    /\ sect = 0 /\ left = 0 /\ ptr = 0
    /\ starts = [s \in 0 .. 3 |-> 0]
    /\ text = << >> /\ type = ns_t_invalid
    /\ asked = NoMessage
    /\ read = 0
    /\ src = 0 /\ srcp = 0 /\ dst = << >> /\ len = -1 /\ checked = 0 /\ result = -1

Next ==
    /\ \/ ParseHeader \/ SkipRecord \/ EndSection
       \/ ParseQuestion \/ UnpackStep \/ QuestionName
       \/ ParseAnswer \/ AnswerName
       \/ MkQuery
    /\ UNCHANGED <<made, msg>>

Spec == Init /\ [][Next]_vars
-------------------------------------------------------------------------------
(* Properties *)

\* Every variable holds a value of its kind; the offsets of sections are offsets
\* of the message.
TypeOK ==
    /\ made \in Made /\ msg \in Seq(Octet)
    /\ pc \in {"header", "skip", "question", "question name", "answer", "answer name",
               "stored", "returned", "sent", "refused"}
    /\ sect \in 0 .. 3 /\ left \in Octets2 /\ ptr \in Nat
    /\ starts \in [0 .. 3 -> 0 .. eom]
    /\ text \in Seq(Octet) /\ type \in Octets2
    /\ asked = NoMessage \/ asked \in Seq(Octet)
    /\ read \in Nat

\* Whatever the counts and lengths in it say, and wherever it was cut, no byte is
\* read beyond the message: ns_skiprr and ns_parserr look before they read.
ReadsInside == TypeOK /\ read <= eom /\ U!StaysInside

\* A name ends where its bytes say: behind a zero or a pointer.
EndsItself(name) ==
    LET from[i \in 1 .. Len(name) + 1] ==
          IF i > Len(name) THEN FALSE
          ELSE \/ name[i] = 0 /\ i = Len(name)
               \/ name[i] \in 192 .. 255 /\ i + 1 = Len(name)
               \/ /\ name[i] \in 1 .. NS_MAXLABEL \/ (name[i] = BITSTRING /\ i < Len(name))
                  /\ from[NextLabel(name, i)]
    IN from[1]

\* The counts and lengths are true, and the names are whole.
TrueCounts ==
    /\ made.counts[1] = Len(made.questions)
    /\ made.counts[2] + made.counts[3] + made.counts[4] = Len(made.records)
    /\ \A i \in DOMAIN made.questions : EndsItself(made.questions[i].name)
    /\ \A i \in DOMAIN made.records :
          /\ EndsItself(made.records[i].name)
          /\ made.records[i].rdlength = Len(made.records[i].rdata)

\* The message arrived as it was sent.
Truthful == TrueCounts /\ made.tail = 0

\* The bytes of the name that the message spells at offset o, without its zero.
\* The bits of a bitstring's last byte that do not count are zero.
Spelled(o) ==
    LET name == U!Spelled[o]
        from[i \in 1 .. Len(name) + 1] ==
          IF i > Len(name) THEN << >>
          ELSE LET last == i + LabelLen(name, i)
                   unused == IF name[i] = BITSTRING THEN (8 * 32 - BitsOf(name[i + 1])) % 8 ELSE 0
               IN [SubSeq(name, i, last) EXCEPT ![last - i + 1] = @ - (@ % 2^unused)]
                    \o from[NextLabel(name, i)]
    IN from[1]

\* A bitstring that decode_bitstring writes with a digit too many.
Misprinted(name) ==
    LET from[i \in 1 .. Len(name) + 1] ==
          IF i > Len(name) THEN FALSE
          ELSE \/ /\ name[i] = BITSTRING /\ name[i + 1] % 8 \in 5 .. 7
                  /\ name[i + LabelLen(name, i)] > 127
               \/ from[NextLabel(name, i)]
    IN CharIsSigned /\ from[1]

\* Of a message that is truthful the parser returns what the peer has put in it:
\* the type of the question or, in a reply, of the first answer, whatever records
\* come with it, such as those of EDNS.  It refuses such a message only for want
\* of a question or on account of a name.  A message that was cut or has bytes
\* too many, with true counts, is refused.
ParsesTheMessage ==
    /\ Truthful /\ pc \in {"stored", "sent"} => type = made.questions[1].type
    /\ Truthful /\ pc = "returned" =>
          type = IF made.counts[2] = 0 THEN ns_t_invalid ELSE made.records[1].type
    /\ Truthful /\ pc = "refused" =>
          \/ made.questions = << >>
          \/ result = -1 /\ src >= NS_HFIXEDSZ
    /\ TrueCounts /\ made.tail # 0 =>
          pc \notin {"stored", "sent", "returned"}

\* The question sent on is the question received: the same labels and the same
\* type, although the name has been text meanwhile and has lost none of its dots,
\* backslashes and unprintable bytes.  ns_mkquery fails for a name that came in a
\* query in one case only: where char is signed, for a bitstring whose number of
\* bits leaves 5 to 7 in the last byte, the first of them set.  Its callers use the
\* -1 it returns then as a length.
QuestionKept ==
    pc = "sent" =>
       asked = IF Misprinted(U!Spelled[NS_HFIXEDSZ]) THEN NoMessage
               ELSE Header(<<1, 0, 0, 0>>) \o Spelled(NS_HFIXEDSZ) \o <<0>>
                      \o Bytes16(type) \o <<0, 1>>
===============================================================================
