----------------------------- MODULE MCDnsMessage -----------------------------
(***************************************************************************)
(* Messages for DnsMessage.  Questions: every name of up to two labels of   *)
(* up to two bytes out of five, and names as long as a name may be, or one  *)
(* byte longer.  Messages: questions and records in many combinations, true *)
(* and false counts and lengths, cut and lengthened.                        *)
(***************************************************************************)
EXTENDS DnsMessage

\* A dot, a backslash, a digit and unprintable bytes.
Octets == {46, 92, 49, 0, 255}

Labels == {<<1, c>> : c \in Octets} \cup {<<2, c, d>> : c, d \in Octets}
ShortNames == {<<0>>} \cup {l \o <<0>> : l \in Labels} \cup {l \o m \o <<0>> : l, m \in Labels}

LabelOf(k, c) == <<k>> \o [i \in 1 .. k |-> c]
LongNames == {LabelOf(63, c) \o LabelOf(63, c) \o LabelOf(63, c) \o LabelOf(k, c) \o <<0>> :
                 c \in {97, 46}, k \in {61, 62}}

Question(name, qtype) == [name |-> name, type |-> qtype]
Asking(name, tail) == [kind |-> "query", counts |-> <<1, 0, 0, 0>>, tail |-> tail,
                       questions |-> <<Question(name, 1)>>, records |-> << >>]

\* Bitstrings of some lengths, among them the longest, and next to other labels.
Data == {0, 129, 170, 255}
Bitstrings == {<<65, k, b>> : k \in 1 .. 8, b \in Data}
         \cup {<<65, k, b, c>> : k \in {9, 12, 13, 15, 16}, b, c \in Data}
         \cup {<<65, k>> \o [i \in 1 .. ((k + 255) % 256) \div 8 + 1 |-> b] : k \in {0, 100, 255}, b \in Data}
BitNames == {b \o <<0>> : b \in Bitstrings}
       \cup {b \o <<1, 91>> \o c \o <<0>> : b, c \in {<<65, 5, 63>>, <<65, 8, 129>>, <<65, 7, 129>>}}
       \cup {<<1, 91>> \o b \o <<1, 93, 0>> : b \in Bitstrings}

\* Plain: one question, whatever its name.
Plain == {Asking(name, 0) : name \in ShortNames \cup LongNames \cup BitNames}

\* A pointer to the first question, one to itself, one out of the message.
Pointers == {<<192, 12>>, <<192, 200>>, <<1, 97, 192, 12>>}
FewNames == {<<0>>, <<1, 97, 0>>, <<1, 46, 1, 97, 0>>} \cup Pointers
SomeQuestions == {<< >>} \cup {<<Question(name, 6)>> : name \in FewNames}
               \cup {<<Question(<<1, 97, 0>>, 1), Question(<<192, 12>>, 6)>>}
SomeRecords == {[name |-> name, type |-> 5, rdlength |-> rdlength, rdata |-> <<1, 2>>] :
              name \in {<<0>>, <<192, 12>>}, rdlength \in {0, 2, 3}}

\* The record of EDNS, which the parser skips.
Opt == [name |-> <<0>>, type |-> 41, rdlength |-> 0, rdata |-> << >>]

Mixed == {[kind |-> kind, counts |-> <<q, a, 0, e>>, tail |-> tail,
           questions |-> questions, records |-> records] :
             kind \in {"query", "reply"}, q \in 0 .. 2, a \in 0 .. 1, e \in 0 .. 1,
             tail \in {-15, 0, 1},
             questions \in SomeQuestions,
             records \in {<< >>} \cup {<<r>> : r \in SomeRecords}
                           \cup {<<r, Opt>> : r \in {d \in SomeRecords : d.rdlength = 2}}}

MCMade == Plain \cup Mixed
===============================================================================
