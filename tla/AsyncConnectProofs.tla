---------------------------- MODULE AsyncConnectProofs ----------------------------
(***************************************************************************)
(* Theorems about async_connect: for any number of calls, what its comments *)
(* and asserts take for granted holds, and it does what Dialer promises.    *)
(***************************************************************************)
EXTENDS AsyncConnect, SequenceTheorems, TLAPS

\* The state of a call says what the loop watches for it.
Expects ==
    [st \in States |-> CASE st = "connecting" -> "connect"
                         [] st \in {"CLOSED", "HELLO_RCVD"} -> "write"
                         [] st \in {"HELLO_SENT", "REQ_SENT"} -> "read"]
Watching(c) ==
    \/ state[c] = NULL /\ watch[c] = NULL
    \/ state[c] \in States /\ watch[c] = Expects[state[c]]

\* A call that has not begun has no socket, one that goes on has one and no
\* result, and one that has ended has one result.
Outcome(c) ==
    \/ state[c] = NULL /\ result[c] = << >> /\ fd[c] = "none" /\ link[c] = "none"
    \/ state[c] # NULL /\ result[c] = << >> /\ fd[c] = "open"
    \/ state[c] = NULL /\ result[c] = <<"made">> /\ fd[c] = "open"
    \/ state[c] = NULL /\ result[c] = <<"failed">> /\ fd[c] \in {"none", "closed"}

\* A connect that goes on is waited for; one to server itself that succeeded, or
\* was reset later, was accepted.
Linked(c) ==
    /\ link[c] = "trying" => state[c] = "connecting"
    /\ state[c] = "connecting" => link[c] # "none"
    /\ link[c] \in {"up", "closed"} /\ ~Socks5[c] => c \in accepted

\* Of a conversation none of whose answers came in pieces nothing is under way, or
\* one answer as a whole.
Clear(c) == inbox[c] = << >> /\ owed[c] = << >>
Coming(c, r) == \/ inbox[c] = r /\ owed[c] = << >>
                \/ inbox[c] = << >> /\ owed[c] = r

Aligned(c) ==
    c \notin split =>
       /\ state[c] \in {"connecting", "CLOSED", "HELLO_RCVD"} => Clear(c)
       /\ state[c] = "HELLO_SENT" => Clear(c) \/ \E r \in Hello : Coming(c, r)
       /\ state[c] = "REQ_SENT" =>
             Clear(c) \/ \E r \in Answer : Coming(c, r) /\ (r = <<5, 0, 1>> => c \in accepted)
       /\ state[c] = NULL /\ result[c] # <<"failed">> => Clear(c)

CallInv(c) == Watching(c) /\ Outcome(c) /\ Linked(c) /\ Aligned(c)

ConnectInv == /\ TypeOK
              /\ ~crashed
              /\ \A c \in Calls : CallInv(c)

-------------------------------------------------------------------------------
\* A step of one call leaves the others alone.
LEMMA OthersKept ==
    ASSUME NEW d \in Calls, CallInv(d),
           state'[d] = state[d], watch'[d] = watch[d], fd'[d] = fd[d],
           result'[d] = result[d], link'[d] = link[d], inbox'[d] = inbox[d],
           owed'[d] = owed[d], d \in split' <=> d \in split,
           d \in accepted' <=> d \in accepted
    PROVE  CallInv(d)'
<1>1. Watching(d)' /\ Outcome(d)' /\ Linked(d)'
  BY DEF CallInv, Watching, Outcome, Linked
<1>2. Clear(d)' <=> Clear(d)
  BY DEF Clear
<1>3. \A r : Coming(d, r)' <=> Coming(d, r)
  BY DEF Coming
<1>4. Aligned(d)'
  BY <1>2, <1>3 DEF CallInv, Aligned
<1>5. QED
  BY <1>1, <1>4 DEF CallInv

\* The messages of the proxy are sequences of bytes.
LEMMA AnswerBytes ==
    /\ Hello \subseteq Seq(0 .. 255) /\ \A r \in Hello : Len(r) <= 3
    /\ Answer \subseteq Seq(0 .. 255) /\ \A r \in Answer : Len(r) <= 3
BY DEF Hello, Answer

LEMMA BeginKeeps ==
    ASSUME ConnectInv, NEW c \in Calls, AsyncConnect(c)
    PROVE  ConnectInv'
<1>1. /\ state[c] = NULL /\ result[c] = << >> /\ watch[c] = NULL
      /\ fd[c] = "none" /\ link[c] = "none"
      /\ c \notin split => Clear(c)
  BY ConnectAssumption DEF AsyncConnect, ConnectInv, CallInv, Watching, Outcome, Aligned, States
<1>2. TypeOK' /\ ~crashed'
  <2>1. TypeOK /\ ~crashed
    BY DEF ConnectInv
  <2>2. <<"failed">> \in Seq({"made", "failed"})
    OBVIOUS
  <2>3. result' \in [Calls -> Seq({"made", "failed"})]
    BY <2>1, <2>2 DEF TypeOK, AsyncConnect
  <2>4. /\ state' \in [Calls -> States \cup {NULL}]
        /\ watch' \in [Calls -> Watches \cup {NULL}]
    BY <2>1 DEF TypeOK, AsyncConnect, States, Watches
  <2>5. /\ fd' \in [Calls -> {"none", "open", "closed"}]
        /\ link' \in [Calls -> {"none", "trying", "refused", "up", "closed"}]
    BY <2>1 DEF TypeOK, AsyncConnect
  <2>6. QED
    BY <2>1, <2>3, <2>4, <2>5 DEF TypeOK, AsyncConnect
<1>3. \A d \in Calls : d # c => CallInv(d)'
  BY OthersKept DEF ConnectInv, TypeOK, AsyncConnect
<1>4. CallInv(c)'
  <2>1. CASE /\ result' = [result EXCEPT ![c] = <<"failed">>]
             /\ UNCHANGED <<state, watch, fd, link>>
    <3>1. result'[c] = <<"failed">> /\ result'[c] # << >>
      BY <2>1 DEF ConnectInv, TypeOK
    <3>2. Watching(c)' /\ Outcome(c)' /\ Linked(c)'
      BY <1>1, <2>1, <3>1, ConnectAssumption DEF Watching, Outcome, Linked, States
    <3>3. Aligned(c)'
      BY <1>1, <2>1, <3>1, ConnectAssumption DEF Aligned, States
    <3>4. QED
      BY <3>2, <3>3 DEF CallInv
  <2>2. CASE /\ state' = [state EXCEPT ![c] = "connecting"]
             /\ watch' = [watch EXCEPT ![c] = "connect"]
             /\ fd' = [fd EXCEPT ![c] = "open"]
             /\ link' = [link EXCEPT ![c] = "trying"]
             /\ UNCHANGED result
    <3>1. /\ state'[c] = "connecting" /\ watch'[c] = "connect"
          /\ fd'[c] = "open" /\ link'[c] = "trying" /\ result'[c] = << >>
      BY <1>1, <2>2 DEF ConnectInv, TypeOK
    <3>2. Watching(c)' /\ Outcome(c)' /\ Linked(c)'
      BY <3>1, ConnectAssumption DEF Watching, Outcome, Linked, States, Expects
    <3>3. Clear(c) => Clear(c)'
      BY DEF Clear, AsyncConnect
    <3>4. Aligned(c)'
      BY <1>1, <3>1, <3>3, ConnectAssumption DEF Aligned, States, AsyncConnect
    <3>5. QED
      BY <3>2, <3>4 DEF CallInv
  <2>3. QED
    BY <2>1, <2>2 DEF AsyncConnect
<1>5. QED
  BY <1>2, <1>3, <1>4 DEF ConnectInv

\* What the ends of a handler do to the context of their call, for a call that
\* has one.
Ended(c, res) ==
    /\ state'[c] = NULL /\ watch'[c] = NULL
    /\ result'[c] = <<res>>
    /\ fd'[c] = IF res = "made" THEN "open" ELSE "closed"
Going(c, st) ==
    /\ state'[c] = st /\ watch'[c] = Expects[st]
    /\ result'[c] = << >> /\ fd'[c] = "open"

LEMMA EndsOfHandler ==
    ASSUME ConnectInv, NEW c \in Calls, state[c] # NULL
    PROVE  /\ Fail(c) => Ended(c, "failed")
           /\ Made(c) => Ended(c, "made")
           /\ \A st \in States : GoOn(c, st, Expects[st]) => Going(c, st)
           /\ \A st \in States : GoOn(c, st, Expects[st]) \/ Fail(c) \/ Made(c) =>
                 /\ state' \in [Calls -> States \cup {NULL}]
                 /\ watch' \in [Calls -> Watches \cup {NULL}]
                 /\ fd' \in [Calls -> {"none", "open", "closed"}]
                 /\ result' \in [Calls -> Seq({"made", "failed"})]
                 /\ \A d \in Calls : d # c => /\ state'[d] = state[d]
                                              /\ watch'[d] = watch[d]
                                              /\ fd'[d] = fd[d]
                                              /\ result'[d] = result[d]
<1>1. result[c] = << >> /\ fd[c] = "open"
  BY DEF ConnectInv, CallInv, Outcome
<1>2. \A res \in {"made", "failed"} : Append(result[c], res) = <<res>>
  BY <1>1
<1>3. \A st \in States : Expects[st] \in Watches
  BY DEF Expects, States, Watches
<1>4. TypeOK
  BY DEF ConnectInv
<1>5. ASSUME NEW res \in {"made", "failed"}, Finish(c, res)
      PROVE  /\ state'[c] = NULL /\ result'[c] = <<res>>
             /\ state' \in [Calls -> States \cup {NULL}]
             /\ result' \in [Calls -> Seq({"made", "failed"})]
             /\ \A d \in Calls : d # c => state'[d] = state[d] /\ result'[d] = result[d]
  BY <1>2, <1>4, <1>5 DEF Finish, TypeOK
<1>6. Fail(c) => Ended(c, "failed")
  BY <1>4, <1>5 DEF Fail, Ended, TypeOK
<1>7. Made(c) => Ended(c, "made")
  BY <1>1, <1>4, <1>5 DEF Made, Ended, TypeOK
<1>8. \A st \in States : GoOn(c, st, Expects[st]) => Going(c, st)
  BY <1>1, <1>4 DEF GoOn, Going, TypeOK
<1>9. ASSUME NEW st \in States, GoOn(c, st, Expects[st]) \/ Fail(c) \/ Made(c)
      PROVE  /\ state' \in [Calls -> States \cup {NULL}]
             /\ watch' \in [Calls -> Watches \cup {NULL}]
             /\ fd' \in [Calls -> {"none", "open", "closed"}]
             /\ result' \in [Calls -> Seq({"made", "failed"})]
             /\ \A d \in Calls : d # c => /\ state'[d] = state[d]
                                          /\ watch'[d] = watch[d]
                                          /\ fd'[d] = fd[d]
                                          /\ result'[d] = result[d]
  <2>1. CASE GoOn(c, st, Expects[st])
    BY <1>3, <1>4, <2>1 DEF GoOn, TypeOK
  <2>2. CASE Fail(c)
    BY <1>4, <1>5, <2>2 DEF Fail, TypeOK
  <2>3. CASE Made(c)
    BY <1>4, <1>5, <2>3 DEF Made, TypeOK
  <2>4. QED
    BY <1>9, <2>1, <2>2, <2>3
<1>10. QED
  BY <1>6, <1>7, <1>8, <1>9

\* A call that has ended, or goes on in a state with nothing under way.
LEMMA EndedKeeps ==
    ASSUME NEW c \in Calls, NEW res \in {"made", "failed"}, Ended(c, res),
           link'[c] # "trying",
           link'[c] \in {"up", "closed"} /\ ~Socks5[c] => c \in accepted',
           res = "failed" \/ c \in split' \/ Clear(c)'
    PROVE  CallInv(c)'
<1>1. result'[c] # << >> /\ (res = "made" => result'[c] # <<"failed">>)
  BY DEF Ended
<1>2. Watching(c)' /\ Outcome(c)' /\ Linked(c)'
  BY ConnectAssumption DEF Ended, Watching, Outcome, Linked, States
<1>3. Aligned(c)'
  BY <1>1, ConnectAssumption DEF Ended, Aligned, States
<1>4. QED
  BY <1>2, <1>3 DEF CallInv

LEMMA GoingKeeps ==
    ASSUME NEW c \in Calls, NEW st \in States \ {"connecting"}, Going(c, st),
           link'[c] # "trying",
           link'[c] \in {"up", "closed"} /\ ~Socks5[c] => c \in accepted',
           Aligned(c)'
    PROVE  CallInv(c)'
<1>1. st # NULL /\ st # "connecting" /\ st \in States
  BY ConnectAssumption
<1>2. Watching(c)' /\ Outcome(c)' /\ Linked(c)'
  BY <1>1 DEF Going, Watching, Outcome, Linked
<1>3. QED
  BY <1>2 DEF CallInv

\* The end of a handler keeps the invariant when its own call keeps it.
LEMMA HandlerKeeps ==
    ASSUME ConnectInv, NEW c \in Calls, state[c] # NULL, NEW st \in States,
           GoOn(c, st, Expects[st]) \/ Fail(c) \/ Made(c),
           UNCHANGED <<crashed, link, split>>,
           inbox' \in [Calls -> Seq(0 .. 255)], owed' \in [Calls -> Seq(0 .. 255)],
           willing' \subseteq Calls, accepted' \subseteq Calls,
           \A d \in Calls : d # c => /\ inbox'[d] = inbox[d] /\ owed'[d] = owed[d]
                                     /\ d \in accepted' <=> d \in accepted,
           CallInv(c)'
    PROVE  ConnectInv'
<1>1. /\ state' \in [Calls -> States \cup {NULL}]
      /\ watch' \in [Calls -> Watches \cup {NULL}]
      /\ fd' \in [Calls -> {"none", "open", "closed"}]
      /\ result' \in [Calls -> Seq({"made", "failed"})]
      /\ \A d \in Calls : d # c => /\ state'[d] = state[d] /\ watch'[d] = watch[d]
                                   /\ fd'[d] = fd[d] /\ result'[d] = result[d]
  BY EndsOfHandler
<1>2. TypeOK' /\ ~crashed'
  BY <1>1 DEF ConnectInv, TypeOK
<1>3. \A d \in Calls : d # c => CallInv(d)'
  BY <1>1, OthersKept DEF ConnectInv
<1>4. QED
  BY <1>2, <1>3 DEF ConnectInv

LEMMA ConnectCbKeeps ==
    ASSUME ConnectInv, NEW c \in Calls, ConnectCb(c)
    PROVE  ConnectInv'
<1>1. CallInv(c) /\ TypeOK
  BY DEF ConnectInv
<1>2. state[c] = "connecting"
  BY <1>1, ConnectAssumption DEF ConnectCb, CallInv, Watching, Expects, States, Watches
<1>3. state[c] # NULL
  BY <1>2, ConnectAssumption DEF States
<1>4. c \in split \/ Clear(c)
  BY <1>1, <1>2 DEF CallInv, Aligned
<1>5. Clear(c)' <=> Clear(c)
  BY DEF Clear, ConnectCb, netVars
<1>6. /\ link'[c] # "trying"
      /\ link'[c] \in {"up", "closed"} /\ ~Socks5[c] => c \in accepted'
  BY <1>1 DEF CallInv, Linked, ConnectCb, netVars
<1>7. "CLOSED" \in States \ {"connecting"} /\ Expects["CLOSED"] = "write"
  BY DEF States, Expects
<1>8. Fail(c) \/ Made(c) \/ GoOn(c, "CLOSED", Expects["CLOSED"])
  BY <1>7 DEF ConnectCb
<1>9. CallInv(c)'
  <2>1. CASE Fail(c)
    BY <1>3, <1>6, <2>1, EndsOfHandler, EndedKeeps
  <2>2. CASE Made(c)
    <3>1. c \in split' \/ Clear(c)'
      BY <1>4, <1>5 DEF ConnectCb, netVars
    <3>2. QED
      BY <1>3, <1>6, <2>2, <3>1, EndsOfHandler, EndedKeeps
  <2>3. CASE GoOn(c, "CLOSED", Expects["CLOSED"])
    <3>1. Going(c, "CLOSED")
      BY <1>3, <1>7, <2>3, EndsOfHandler
    <3>2. c \in split' \/ Clear(c)'
      BY <1>4, <1>5 DEF ConnectCb, netVars
    <3>3. Aligned(c)'
      BY <3>1, <3>2, ConnectAssumption DEF Going, Aligned, States
    <3>4. QED
      BY <1>6, <1>7, <3>1, <3>3, GoingKeeps
  <2>4. QED
    BY <1>8, <2>1, <2>2, <2>3
<1>10. QED
  BY <1>1, <1>3, <1>7, <1>8, <1>9, HandlerKeeps DEF TypeOK, ConnectCb, netVars

\* What the proxy does with a message: its answer is put on the way, after a
\* conversation that is clear as the whole of it.
LEMMA ProxyAnswers ==
    ASSUME TypeOK, NEW c \in Calls, NEW st \in {"CLOSED", "HELLO_RCVD"},
           ProxyGets(c, st), inbox' = inbox
    PROVE  /\ owed' \in [Calls -> Seq(0 .. 255)]
           /\ willing' \subseteq Calls /\ accepted' \subseteq Calls
           /\ accepted \subseteq accepted'
           /\ \A d \in Calls : d # c => /\ owed'[d] = owed[d]
                                        /\ d \in accepted' <=> d \in accepted
           /\ Clear(c) => \/ Clear(c)'
                          \/ st = "CLOSED" /\ \E r \in Hello : Coming(c, r)'
                          \/ /\ st = "HELLO_RCVD"
                             /\ \E r \in Answer :
                                   Coming(c, r)' /\ (r = <<5, 0, 1>> => c \in accepted')
<1>1. CASE UNCHANGED <<owed, willing, accepted>>
  BY <1>1 DEF TypeOK, Clear
<1>2. ASSUME NEW r \in Seq(0 .. 255), owed' = [owed EXCEPT ![c] = @ \o r]
      PROVE  /\ owed' \in [Calls -> Seq(0 .. 255)]
             /\ \A d \in Calls : d # c => owed'[d] = owed[d]
             /\ Clear(c) => Coming(c, r)'
  <2>1. owed'[c] = owed[c] \o r /\ owed[c] \o r \in Seq(0 .. 255)
    BY <1>2 DEF TypeOK
  <2>2. owed[c] = << >> => owed'[c] = r
    BY <2>1
  <2>3. QED
    BY <1>2, <2>1, <2>2 DEF TypeOK, Clear, Coming
<1>3. CASE /\ st = "CLOSED"
           /\ \E r \in Hello :
                 /\ owed' = [owed EXCEPT ![c] = @ \o r]
                 /\ willing' = IF r = <<5, 0>> THEN willing \cup {c} ELSE willing
           /\ UNCHANGED accepted
  <2>1. PICK r \in Hello :
               /\ owed' = [owed EXCEPT ![c] = @ \o r]
               /\ willing' = IF r = <<5, 0>> THEN willing \cup {c} ELSE willing
    BY <1>3
  <2>2. r \in Seq(0 .. 255)
    BY AnswerBytes
  <2>3. QED
    BY <1>2, <1>3, <2>1, <2>2 DEF TypeOK
<1>4. CASE /\ st = "HELLO_RCVD"
           /\ \E r \in Answer :
                 /\ owed' = [owed EXCEPT ![c] = @ \o r]
                 /\ accepted' = IF r = <<5, 0, 1>> THEN accepted \cup {c} ELSE accepted
           /\ UNCHANGED willing
  <2>1. PICK r \in Answer :
               /\ owed' = [owed EXCEPT ![c] = @ \o r]
               /\ accepted' = IF r = <<5, 0, 1>> THEN accepted \cup {c} ELSE accepted
    BY <1>4
  <2>2. r \in Seq(0 .. 255)
    BY AnswerBytes
  <2>3. QED
    BY <1>2, <1>4, <2>1, <2>2 DEF TypeOK
<1>5. QED
  BY <1>1, <1>3, <1>4 DEF ProxyGets

LEMMA SendCbKeeps ==
    ASSUME ConnectInv, NEW c \in Calls, SendCb(c)
    PROVE  ConnectInv'
<1>1. CallInv(c) /\ TypeOK
  BY DEF ConnectInv
<1>2. state[c] \in {"CLOSED", "HELLO_RCVD"}
  BY <1>1, ConnectAssumption DEF SendCb, CallInv, Watching, Expects, States, Watches
<1>3. state[c] # NULL
  BY <1>2, ConnectAssumption DEF States
<1>4. PICK st \in {"CLOSED", "HELLO_RCVD"} : st = state[c]
  BY <1>2
<1>5. PICK next \in {"HELLO_SENT", "REQ_SENT"} :
            next = AfterSend(st) /\ (next = "HELLO_SENT" <=> st = "CLOSED")
  BY DEF AfterSend
<1>6. next \in States \ {"connecting"} /\ Expects[next] = "read"
  BY DEF States, Expects
<1>7. UNCHANGED <<crashed, link, inbox, split>>
  BY <1>2 DEF SendCb
<1>8. link'[c] # "trying"
  BY <1>1, <1>2, <1>7 DEF CallInv, Linked
<1>9. link'[c] \in {"up", "closed"} /\ ~Socks5[c] => c \in accepted
  BY <1>1, <1>7 DEF CallInv, Linked
<1>10. CASE Fail(c) /\ UNCHANGED <<owed, willing, accepted>>
  <2>1. CallInv(c)'
    BY <1>3, <1>8, <1>9, <1>10, EndsOfHandler, EndedKeeps
  <2>2. QED
    BY <1>1, <1>3, <1>6, <1>7, <1>10, <2>1, HandlerKeeps DEF TypeOK
<1>11. CASE GoOn(c, next, Expects[next]) /\ ProxyGets(c, st)
  <2>1. Going(c, next)
    BY <1>3, <1>6, <1>11, EndsOfHandler
  <2>2. c \in split \/ Clear(c)
    BY <1>1, <1>2 DEF CallInv, Aligned
  <2>3. Aligned(c)'
    <3>1. CASE c \in split
      BY <1>7, <3>1 DEF Aligned
    <3>2. CASE Clear(c)
      <4>1. \/ Clear(c)'
            \/ st = "CLOSED" /\ \E r \in Hello : Coming(c, r)'
            \/ /\ st = "HELLO_RCVD"
               /\ \E r \in Answer :
                     Coming(c, r)' /\ (r = <<5, 0, 1>> => c \in accepted')
        BY <1>1, <1>7, <1>11, <3>2, ProxyAnswers
      <4>2. state'[c] = next /\ state'[c] # NULL
        BY <1>6, <2>1, ConnectAssumption DEF Going
      <4>3. QED
        BY <1>5, <4>1, <4>2 DEF Aligned
    <3>3. QED
      BY <2>2, <3>1, <3>2
  <2>4. accepted \subseteq accepted'
    BY <1>1, <1>7, <1>11, ProxyAnswers
  <2>5. CallInv(c)'
    BY <1>6, <1>8, <1>9, <2>1, <2>3, <2>4, GoingKeeps
  <2>6. QED
    BY <1>1, <1>3, <1>6, <1>7, <1>11, <2>5, ProxyAnswers, HandlerKeeps DEF TypeOK
<1>12. QED
  BY <1>2, <1>4, <1>5, <1>6, <1>10, <1>11 DEF SendCb

\* A part of a sequence.
LEMMA PartOfSeq ==
    ASSUME NEW S, NEW s \in Seq(S), NEW m \in Int, NEW n \in Int,
           1 <= m, n <= Len(s)
    PROVE  SubSeq(s, m, n) \in Seq(S)
<1>1. \A i \in m .. n : s[i] \in S
  BY ElementOfSeq
<1>2. QED
  BY <1>1, SubSeqProperties

\* One recv takes a whole answer.
LEMMA RecvTakesAll ==
    ASSUME NEW buf \in Seq(0 .. 255)
    PROVE  /\ Unread(buf) \in Seq(0 .. 255)
           /\ Len(buf) <= 3 => Unread(buf) = << >>
<1>1. Len(buf) \in Nat
  BY LenProperties
<1>2. SubSeq(buf, 264, Len(buf)) \in Seq(0 .. 255)
  <2>1. 264 \in Int /\ 1 <= 264 /\ Len(buf) \in Int /\ Len(buf) <= Len(buf)
    BY <1>1
  <2>2. QED
    BY <2>1, PartOfSeq, Zenon
<1>3. ASSUME Len(buf) <= 3
      PROVE  SubSeq(buf, 264, Len(buf)) = << >>
  BY <1>1, <1>3, SubSeqEmpty
<1>4. QED
  BY <1>2, <1>3 DEF Unread

LEMMA RecvCbKeeps ==
    ASSUME ConnectInv, NEW c \in Calls, RecvCb(c)
    PROVE  ConnectInv'
<1>1. CallInv(c) /\ TypeOK
  BY DEF ConnectInv
<1>2. state[c] \in {"HELLO_SENT", "REQ_SENT"}
  BY <1>1, ConnectAssumption DEF RecvCb, CallInv, Watching, Expects, States, Watches
<1>3. state[c] # NULL
  BY <1>2, ConnectAssumption DEF States
<1>4. UNCHANGED <<crashed, link, owed, willing, split, accepted>>
  BY <1>2 DEF RecvCb
<1>5. /\ inbox' \in [Calls -> Seq(0 .. 255)]
      /\ inbox'[c] = Unread(inbox[c])
      /\ \A d \in Calls : d # c => inbox'[d] = inbox[d]
  BY <1>1, RecvTakesAll DEF RecvCb, TypeOK
<1>6. /\ link'[c] # "trying"
      /\ link'[c] \in {"up", "closed"} /\ ~Socks5[c] => c \in accepted'
  BY <1>1, <1>2, <1>4 DEF CallInv, Linked
<1>7. "HELLO_RCVD" \in States \ {"connecting"} /\ Expects["HELLO_RCVD"] = "write"
  BY DEF States, Expects
<1>8. \/ Fail(c)
      \/ inbox[c] # << >> /\ GoOn(c, "HELLO_RCVD", Expects["HELLO_RCVD"])
      \/ inbox[c] # << >> /\ Made(c)
  BY <1>2, <1>7 DEF RecvCb
<1>9. inbox[c] # << >> => c \in split' \/ Clear(c)'
  <2>1. SUFFICES ASSUME inbox[c] # << >>, c \notin split
                 PROVE  Clear(c)'
    BY <1>4
  <2>2. \E r \in Hello \cup Answer : Coming(c, r)
    BY <1>1, <1>2, <2>1 DEF CallInv, Aligned, Clear
  <2>3. owed[c] = << >> /\ inbox[c] \in Hello \cup Answer
    BY <2>1, <2>2 DEF Coming
  <2>4. Len(inbox[c]) <= 3
    <3>1. PICK buf \in Hello \cup Answer : buf = inbox[c]
      BY <2>3
    <3>2. Len(buf) <= 3
      BY AnswerBytes, Zenon
    <3>3. QED
      BY <3>1, <3>2, Zenon
  <2>5. Unread(inbox[c]) = << >>
    BY <1>1, <2>4, RecvTakesAll DEF TypeOK
  <2>6. QED
    BY <1>4, <1>5, <2>3, <2>5 DEF Clear
<1>10. CallInv(c)'
  <2>1. CASE Fail(c)
    BY <1>3, <1>6, <2>1, EndsOfHandler, EndedKeeps
  <2>2. CASE inbox[c] # << >> /\ Made(c)
    BY <1>3, <1>6, <1>9, <2>2, EndsOfHandler, EndedKeeps
  <2>3. CASE inbox[c] # << >> /\ GoOn(c, "HELLO_RCVD", Expects["HELLO_RCVD"])
    <3>1. Going(c, "HELLO_RCVD")
      BY <1>3, <1>7, <2>3, EndsOfHandler
    <3>2. Aligned(c)'
      BY <1>9, <2>3, <3>1, ConnectAssumption DEF Going, Aligned, States
    <3>3. QED
      BY <1>6, <1>7, <3>1, <3>2, GoingKeeps
  <2>4. QED
    BY <1>8, <2>1, <2>2, <2>3
<1>11. QED
  BY <1>1, <1>3, <1>4, <1>5, <1>7, <1>8, <1>10, HandlerKeeps DEF TypeOK

\* The connect of a call that goes on ends.
LEMMA NetConnectKeeps ==
    ASSUME ConnectInv, NEW c \in Calls, NetConnect(c)
    PROVE  ConnectInv'
<1>1. CallInv(c) /\ TypeOK /\ ~crashed
  BY DEF ConnectInv
<1>2. PICK l \in {"up", "refused"} : link' = [link EXCEPT ![c] = l]
  BY DEF NetConnect
<1>3. link'[c] = l /\ \A d \in Calls : d # c => link'[d] = link[d]
  BY <1>1, <1>2 DEF TypeOK
<1>4. /\ UNCHANGED <<state, watch, fd, result, crashed, inbox, owed, willing, split>>
      /\ accepted' = IF l = "up" /\ ~Socks5[c] THEN accepted \cup {c} ELSE accepted
  BY <1>3 DEF NetConnect, ctxVars
<1>5. TypeOK' /\ ~crashed'
  BY <1>1, <1>2, <1>4 DEF TypeOK
<1>6. state[c] = "connecting"
  BY <1>1 DEF NetConnect, CallInv, Linked
<1>7. CallInv(c)'
  <2>1. Watching(c)'
    BY <1>1, <1>4 DEF CallInv, Watching
  <2>2. Outcome(c)' /\ Linked(c)'
    BY <1>1, <1>3, <1>4, <1>6, ConnectAssumption DEF CallInv, Outcome, Linked, States
  <2>3. Clear(c)' <=> Clear(c)
    BY <1>4 DEF Clear
  <2>4. Aligned(c)'
    BY <1>1, <1>4, <1>6, <2>3, ConnectAssumption DEF CallInv, Aligned, States
  <2>5. QED
    BY <2>1, <2>2, <2>4 DEF CallInv
<1>8. \A d \in Calls : d # c => CallInv(d)'
  BY <1>3, <1>4, OthersKept DEF ConnectInv
<1>9. QED
  BY <1>5, <1>7, <1>8 DEF ConnectInv

\* Bytes arrive: what is under way stays whole unless the answer comes in pieces.
LEMMA ArriveKeeps ==
    ASSUME ConnectInv, NEW c \in Calls, Arrive(c)
    PROVE  ConnectInv'
<1>1. CallInv(c) /\ TypeOK /\ ~crashed
  BY DEF ConnectInv
<1>2. PICK n \in 1 .. Len(owed[c]) :
             /\ inbox' = [inbox EXCEPT ![c] = @ \o SubSeq(owed[c], 1, n)]
             /\ owed' = [owed EXCEPT ![c] = SubSeq(@, n + 1, Len(@))]
             /\ split' = IF n < Len(owed[c]) THEN split \cup {c} ELSE split
  BY DEF Arrive
<1>3. UNCHANGED <<state, watch, fd, result, crashed, link, willing, accepted>>
  BY DEF Arrive, ctxVars
<1>4. owed[c] \in Seq(0 .. 255) /\ inbox[c] \in Seq(0 .. 255)
  BY <1>1 DEF TypeOK
<1>5. /\ inbox[c] \o SubSeq(owed[c], 1, n) \in Seq(0 .. 255)
      /\ SubSeq(owed[c], n + 1, Len(owed[c])) \in Seq(0 .. 255)
  <2>1. /\ SubSeq(owed[c], 1, n) \in Seq(0 .. 255)
        /\ SubSeq(owed[c], n + 1, Len(owed[c])) \in Seq(0 .. 255)
    <3>1. PICK s \in Seq(0 .. 255) : s = owed[c]
      BY <1>4
    <3>2. /\ 1 \in Int /\ 1 <= 1 /\ n \in Int /\ n <= Len(s)
          /\ n + 1 \in Int /\ 1 <= n + 1 /\ Len(s) \in Int /\ Len(s) <= Len(s)
      BY <3>1, LenProperties
    <3>3. SubSeq(s, 1, n) \in Seq(0 .. 255)
      BY <3>2, PartOfSeq, Zenon
    <3>4. SubSeq(s, n + 1, Len(s)) \in Seq(0 .. 255)
      BY <3>2, PartOfSeq, Zenon
    <3>5. QED
      BY <3>1, <3>3, <3>4
  <2>2. QED
    BY <1>4, <2>1, ConcatProperties
<1>6. TypeOK' /\ ~crashed'
  BY <1>1, <1>2, <1>3, <1>5 DEF TypeOK
<1>7. \A d \in Calls : d # c => /\ inbox'[d] = inbox[d] /\ owed'[d] = owed[d]
                                /\ d \in split' <=> d \in split
  BY <1>1, <1>2 DEF TypeOK
<1>8. c \notin split' => /\ c \notin split
                         /\ inbox'[c] = inbox[c] \o owed[c]
                         /\ owed'[c] = << >>
  <2>1. SUFFICES ASSUME c \notin split'
                 PROVE  /\ c \notin split
                        /\ inbox'[c] = inbox[c] \o owed[c]
                        /\ owed'[c] = << >>
    OBVIOUS
  <2>2. n = Len(owed[c]) /\ c \notin split
    BY <1>2, <1>4, <2>1
  <2>3. SubSeq(owed[c], 1, n) = owed[c] /\ SubSeq(owed[c], n + 1, Len(owed[c])) = << >>
    BY <1>4, <2>2
  <2>4. QED
    BY <1>1, <1>2, <2>2, <2>3 DEF TypeOK
<1>9. Aligned(c)'
  <2>1. SUFFICES ASSUME c \notin split'
                 PROVE  Aligned(c)'
    BY DEF Aligned
  <2>2. owed[c] # << >>
    BY <1>2, <1>4
  <2>3. ASSUME NEW r, Coming(c, r)
        PROVE  Coming(c, r)'
    <3>1. inbox[c] = << >> /\ owed[c] = r
      BY <2>2, <2>3 DEF Coming
    <3>2. inbox[c] \o owed[c] = r
      BY <1>4, <3>1, ConcatEmptySeq
    <3>3. QED
      BY <1>8, <2>1, <3>2 DEF Coming
  <2>4. ~Clear(c)
    BY <2>2 DEF Clear
  <2>5. QED
    BY <1>1, <1>3, <1>8, <2>1, <2>3, <2>4 DEF CallInv, Aligned
<1>10. Watching(c)' /\ Outcome(c)' /\ Linked(c)'
  BY <1>1, <1>3 DEF CallInv, Watching, Outcome, Linked
<1>11. \A d \in Calls : d # c => CallInv(d)'
  BY <1>3, <1>7, OthersKept DEF ConnectInv
<1>12. QED
  BY <1>6, <1>9, <1>10, <1>11 DEF ConnectInv, CallInv

LEMMA PeerClosesKeeps ==
    ASSUME ConnectInv, NEW c \in Calls, PeerCloses(c)
    PROVE  ConnectInv'
<1>1. CallInv(c) /\ TypeOK /\ ~crashed
  BY DEF ConnectInv
<1>2. /\ UNCHANGED <<state, watch, fd, result, crashed, inbox, owed, willing, split, accepted>>
      /\ link'[c] = "closed" /\ \A d \in Calls : d # c => link'[d] = link[d]
  BY <1>1 DEF PeerCloses, TypeOK, ctxVars
<1>3. TypeOK' /\ ~crashed'
  BY <1>1 DEF PeerCloses, TypeOK, ctxVars
<1>4. \A d \in Calls : d # c => CallInv(d)'
  BY <1>2, OthersKept DEF ConnectInv
<1>5. Watching(c)' /\ Outcome(c)' /\ Linked(c)'
  BY <1>1, <1>2 DEF CallInv, Watching, Outcome, Linked, PeerCloses
<1>6. (Clear(c)' <=> Clear(c)) /\ \A r : Coming(c, r)' <=> Coming(c, r)
  BY <1>2 DEF Clear, Coming
<1>7. Aligned(c)'
  BY <1>1, <1>2, <1>6 DEF CallInv, Aligned
<1>8. QED
  BY <1>3, <1>4, <1>5, <1>7 DEF ConnectInv, CallInv

LEMMA InitHolds == Init => ConnectInv
<1>1. Init => TypeOK
  <2>1. << >> \in Seq(0 .. 255) /\ << >> \in Seq({"made", "failed"})
    BY EmptySeq
  <2>2. /\ [c \in Calls |-> << >>] \in [Calls -> Seq(0 .. 255)]
        /\ [c \in Calls |-> << >>] \in [Calls -> Seq({"made", "failed"})]
    BY <2>1
  <2>3. QED
    BY <2>2 DEF Init, TypeOK
<1>2. ASSUME Init, NEW c \in Calls
      PROVE  CallInv(c)
  BY <1>2, ConnectAssumption DEF Init, CallInv, Watching, Outcome, Linked, Aligned, Clear, States
<1>3. QED
  BY <1>1, <1>2 DEF Init, ConnectInv

LEMMA StutterKeeps ==
    ASSUME ConnectInv, UNCHANGED vars
    PROVE  ConnectInv'
<1>1. \A c \in Calls : CallInv(c)'
  BY OthersKept DEF ConnectInv, vars, ctxVars, netVars
<1>2. QED
  BY <1>1 DEF ConnectInv, TypeOK, vars, ctxVars, netVars

LEMMA StepKeeps == ConnectInv /\ [Next]_vars => ConnectInv'
<1> SUFFICES ASSUME ConnectInv, [Next]_vars
             PROVE  ConnectInv'
  OBVIOUS
<1>1. ASSUME NEW c \in Calls,
             AsyncConnect(c) \/ Handler(c) \/ NetConnect(c) \/ Arrive(c) \/ PeerCloses(c)
      PROVE  ConnectInv'
  <2>1. CASE AsyncConnect(c)
    BY <2>1, BeginKeeps
  <2>2. CASE ConnectCb(c)
    BY <2>2, ConnectCbKeeps
  <2>3. CASE SendCb(c)
    BY <2>3, SendCbKeeps
  <2>4. CASE RecvCb(c)
    BY <2>4, RecvCbKeeps
  <2>5. CASE NetConnect(c)
    BY <2>5, NetConnectKeeps
  <2>6. CASE Arrive(c)
    BY <2>6, ArriveKeeps
  <2>7. CASE PeerCloses(c)
    BY <2>7, PeerClosesKeeps
  <2>8. QED
    BY <1>1, <2>1, <2>2, <2>3, <2>4, <2>5, <2>6, <2>7 DEF Handler
<1>2. QED
  BY <1>1, StutterKeeps DEF Next

LEMMA ConnectInvariant == Spec => []ConnectInv
BY InitHolds, StepKeeps, PTL DEF Spec

-------------------------------------------------------------------------------
\* For any number of calls, every variable of the connections keeps to its kind.
THEOREM ConnectTypes == Spec => []TypeOK
<1>1. ConnectInv => TypeOK
  BY DEF ConnectInv
<1>2. QED
  BY <1>1, ConnectInvariant, PTL

\* Whatever the proxy and the network do with any number of calls, none leaves a
\* context without a watcher, a watcher without a context, or the socket of a
\* failed connection open, and the callback is called at most once.
THEOREM ConnectLeavesNothing == Spec => []NothingLeftBehind
<1>1. ConnectInv => NothingLeftBehind
  <2>1. ASSUME ConnectInv, NEW c \in Calls
        PROVE  /\ (state[c] # NULL) <=> (watch[c] # NULL)
               /\ state[c] # NULL => result[c] = << >> /\ fd[c] = "open"
               /\ result[c] = <<"made">> => fd[c] = "open"
               /\ result[c] = <<"failed">> => fd[c] # "open"
    <3>1. Watching(c) /\ Outcome(c)
      BY <2>1 DEF ConnectInv, CallInv
    <3>2. <<"made">> # << >> /\ <<"failed">> # << >> /\ <<"made">> # <<"failed">>
      OBVIOUS
    <3>3. \A st \in States : Expects[st] # NULL /\ st # NULL
      BY ConnectAssumption DEF Expects, States, Watches
    <3>4. QED
      BY <3>1, <3>2, <3>3 DEF Watching, Outcome
  <2>2. ASSUME ConnectInv, NEW c \in Calls
        PROVE  Len(result[c]) <= 1
    <3>1. result[c] \in {<< >>, <<"made">>, <<"failed">>}
      BY <2>2 DEF ConnectInv, CallInv, Outcome
    <3>2. \A r \in {<< >>, <<"made">>, <<"failed">>} : Len(r) <= 1
      OBVIOUS
    <3>3. QED
      BY <3>1, <3>2, Zenon
  <2>3. QED
    BY <2>1, <2>2 DEF NothingLeftBehind
<1>2. QED
  BY <1>1, ConnectInvariant, PTL

\* The asserts of socks5_send_cb and socks5_recv_cb hold for any number of calls,
\* however the proxy's answers are cut.
THEOREM ConnectAssertsHold == Spec => []StateExpected
<1>1. ConnectInv => StateExpected
  BY DEF ConnectInv, StateExpected
<1>2. QED
  BY <1>1, ConnectInvariant, PTL

\* A stream given to the caller of async_connect, none of whose handshake came in
\* pieces, has nothing of the handshake left to read.
THEOREM ConnectStreamsAligned == Spec => []StreamAligned
<1>1. ConnectInv => StreamAligned
  <2>1. SUFFICES ASSUME ConnectInv, NEW c \in Calls, result[c] = <<"made">>, c \notin split
                 PROVE  inbox[c] = << >> /\ owed[c] = << >>
    BY DEF StreamAligned
  <2>2. state[c] = NULL /\ result[c] # <<"failed">>
    BY <2>1 DEF ConnectInv, CallInv, Outcome
  <2>3. QED
    BY <2>1, <2>2 DEF ConnectInv, CallInv, Aligned, Clear
<1>2. QED
  BY <1>1, ConnectInvariant, PTL

-------------------------------------------------------------------------------
\* What Dialer sees of a call.
Shown == [c \in Calls |-> Status(c)]

LEMMA StatusOf ==
    ASSUME NEW c \in Calls
    PROVE  /\ result[c] = << >> /\ state[c] = NULL => Status(c) = "idle"
           /\ result[c] = << >> /\ state[c] # NULL => Status(c) = "dialing"
           /\ \A res : result[c] = <<res>> => Status(c) = res
<1>1. \A res : <<res>> # << >> /\ Head(<<res>>) = res
  OBVIOUS
<1>2. QED
  BY <1>1 DEF Status

LEMMA NextStatus ==
    ASSUME NEW c \in Calls
    PROVE  /\ result'[c] = << >> /\ state'[c] # NULL => Status(c)' = "dialing"
           /\ \A res : result'[c] = <<res>> => Status(c)' = res
<1>1. \A res : <<res>> # << >> /\ Head(<<res>>) = res
  OBVIOUS
<1>2. QED
  BY <1>1 DEF Status

\* A step of one call is seen as one of its status.
LEMMA ShownStep ==
    ASSUME NEW c \in Calls, NEW s, Status(c)' = s,
           \A d \in Calls : d # c => state'[d] = state[d] /\ result'[d] = result[d]
    PROVE  Shown' = [Shown EXCEPT ![c] = s]
<1>1. \A d \in Calls : d # c => Status(d)' = Status(d)
  BY DEF Status
<1>2. QED
  BY <1>1 DEF Shown

LEMMA BeginIsDial ==
    ASSUME ConnectInv, NEW c \in Calls, AsyncConnect(c)
    PROVE  D!Dial(c)
<1>1. TypeOK
  BY DEF ConnectInv
<1>2. Status(c) = "idle"
  BY StatusOf DEF AsyncConnect
<1>3. UNCHANGED <<accepted, split>>
  BY DEF AsyncConnect
<1>4. \A d \in Calls : d # c => state'[d] = state[d] /\ result'[d] = result[d]
  BY <1>1 DEF AsyncConnect, TypeOK
<1>5. \E s \in {"dialing", "failed"} : Status(c)' = s
  <2>1. CASE result' = [result EXCEPT ![c] = <<"failed">>]
    <3>1. result'[c] = <<"failed">>
      BY <1>1, <2>1 DEF TypeOK
    <3>2. QED
      BY <3>1, NextStatus
  <2>2. CASE state' = [state EXCEPT ![c] = "connecting"] /\ UNCHANGED result
    <3>1. state'[c] # NULL /\ result'[c] = << >>
      BY <1>1, <2>2, ConnectAssumption DEF TypeOK, States, AsyncConnect
    <3>2. QED
      BY <3>1, NextStatus
  <2>3. QED
    BY <2>1, <2>2 DEF AsyncConnect
<1>6. \E s \in {"dialing", "failed"} : Shown' = [Shown EXCEPT ![c] = s]
  BY <1>4, <1>5, ShownStep
<1>7. Shown[c] = "idle"
  BY <1>2 DEF Shown
<1>8. QED
  BY <1>3, <1>6, <1>7 DEF Shown, D!Dial

\* What a handler may do to the context of its call.
LEMMA HandlerIsSeen ==
    ASSUME ConnectInv, NEW c \in Calls, state[c] # NULL, NEW st \in States,
           \/ Fail(c) /\ UNCHANGED <<accepted, split>>
           \/ Made(c) /\ c \in accepted \cup split /\ UNCHANGED <<accepted, split>>
           \/ /\ GoOn(c, st, Expects[st])
              /\ accepted' \in {accepted, accepted \cup {c}} /\ split' = split
    PROVE  D!OnTheWay(c) \/ D!End(c)
<1>1. Shown[c] = "dialing"
  BY StatusOf DEF ConnectInv, CallInv, Outcome, Shown
<1>2. \A d \in Calls : d # c => state'[d] = state[d] /\ result'[d] = result[d]
  BY EndsOfHandler
<1>3. CASE Fail(c) /\ UNCHANGED <<accepted, split>>
  <2>1. Status(c)' = "failed"
    BY <1>3, EndsOfHandler, NextStatus DEF Ended
  <2>2. Shown' = [Shown EXCEPT ![c] = "failed"]
    BY <1>2, <2>1, ShownStep
  <2>3. QED
    BY <1>1, <1>3, <2>2 DEF Shown, D!End
<1>4. CASE Made(c) /\ c \in accepted \cup split /\ UNCHANGED <<accepted, split>>
  <2>1. Status(c)' = "made"
    BY <1>4, EndsOfHandler, NextStatus DEF Ended
  <2>2. Shown' = [Shown EXCEPT ![c] = "made"]
    BY <1>2, <2>1, ShownStep
  <2>3. QED
    BY <1>1, <1>4, <2>2 DEF Shown, D!End
<1>5. CASE /\ GoOn(c, st, Expects[st])
           /\ accepted' \in {accepted, accepted \cup {c}} /\ split' = split
  <2>1. Going(c, st) /\ st # NULL
    BY <1>5, EndsOfHandler, ConnectAssumption
  <2>2. Status(c)' = "dialing"
    BY <2>1, NextStatus DEF Going
  <2>3. Shown' = [Shown EXCEPT ![c] = "dialing"]
    BY <1>2, <2>2, ShownStep
  <2>4. Shown' = Shown
    BY <1>1, <2>3 DEF Shown
  <2>5. QED
    BY <1>1, <1>5, <2>4 DEF Shown, D!OnTheWay
<1>6. QED
  BY <1>3, <1>4, <1>5

LEMMA ConnectCbIsSeen ==
    ASSUME ConnectInv, NEW c \in Calls, ConnectCb(c)
    PROVE  D!OnTheWay(c) \/ D!End(c)
<1>1. CallInv(c) /\ TypeOK
  BY DEF ConnectInv
<1>2. state[c] = "connecting" /\ state[c] # NULL
  BY <1>1, ConnectAssumption DEF ConnectCb, CallInv, Watching, Expects, States, Watches
<1>3. "CLOSED" \in States /\ Expects["CLOSED"] = "write"
  BY DEF States, Expects
<1>4. UNCHANGED <<accepted, split>>
  BY DEF ConnectCb, netVars
<1>5. link[c] # "refused" /\ ~Socks5[c] => c \in accepted
  BY <1>1, <1>2 DEF ConnectCb, CallInv, Linked, TypeOK
<1>6. QED
  BY <1>2, <1>3, <1>4, <1>5, HandlerIsSeen DEF ConnectCb

LEMMA SendCbIsSeen ==
    ASSUME ConnectInv, NEW c \in Calls, SendCb(c)
    PROVE  D!OnTheWay(c) \/ D!End(c)
<1>1. CallInv(c) /\ TypeOK
  BY DEF ConnectInv
<1>2. state[c] \in {"CLOSED", "HELLO_RCVD"} /\ state[c] # NULL
  BY <1>1, ConnectAssumption DEF SendCb, CallInv, Watching, Expects, States, Watches
<1>3. PICK next \in {"HELLO_SENT", "REQ_SENT"} : next = AfterSend(state[c])
  BY DEF AfterSend
<1>4. next \in States /\ Expects[next] = "read"
  BY DEF States, Expects
<1>5. split' = split
  BY DEF SendCb
<1>6. CASE Fail(c) /\ UNCHANGED <<owed, willing, accepted>>
  BY <1>2, <1>4, <1>5, <1>6, HandlerIsSeen
<1>7. CASE GoOn(c, next, Expects[next]) /\ ProxyGets(c, state[c])
  <2>1. accepted' \in {accepted, accepted \cup {c}}
    BY <1>7 DEF ProxyGets
  <2>2. QED
    BY <1>2, <1>4, <1>5, <1>7, <2>1, HandlerIsSeen
<1>8. QED
  BY <1>2, <1>3, <1>4, <1>6, <1>7 DEF SendCb

LEMMA RecvCbIsSeen ==
    ASSUME ConnectInv, NEW c \in Calls, RecvCb(c)
    PROVE  D!OnTheWay(c) \/ D!End(c)
<1>1. CallInv(c) /\ TypeOK
  BY DEF ConnectInv
<1>2. state[c] \in {"HELLO_SENT", "REQ_SENT"} /\ state[c] # NULL
  BY <1>1, ConnectAssumption DEF RecvCb, CallInv, Watching, Expects, States, Watches
<1>3. "HELLO_RCVD" \in States /\ Expects["HELLO_RCVD"] = "write"
  BY DEF States, Expects
<1>4. UNCHANGED <<accepted, split>>
  BY DEF RecvCb
<1>5. \/ Fail(c)
      \/ GoOn(c, "HELLO_RCVD", Expects["HELLO_RCVD"])
      \/ inbox[c] # << >> /\ state[c] = "REQ_SENT" /\ Yes(inbox[c]) /\ Made(c)
  BY <1>2, <1>3 DEF RecvCb
<1>6. inbox[c] # << >> /\ state[c] = "REQ_SENT" /\ Yes(inbox[c]) => c \in accepted \cup split
  <2>1. SUFFICES ASSUME inbox[c] # << >>, state[c] = "REQ_SENT", Yes(inbox[c]), c \notin split
                 PROVE  c \in accepted
    OBVIOUS
  <2>2. PICK r \in Answer : Coming(c, r) /\ (r = <<5, 0, 1>> => c \in accepted)
    BY <1>1, <2>1 DEF CallInv, Aligned, Clear
  <2>3. r = inbox[c]
    BY <2>1, <2>2 DEF Coming
  <2>4. Yes(r)
    BY <2>1, <2>3
  <2>5. r = <<5, 0, 1>>
    BY <2>4 DEF Yes, Answer
  <2>6. QED
    BY <2>2, <2>5
<1>7. QED
  BY <1>2, <1>3, <1>4, <1>5, <1>6, HandlerIsSeen

LEMMA NetConnectIsSeen ==
    ASSUME ConnectInv, NEW c \in Calls, NetConnect(c)
    PROVE  D!OnTheWay(c)
<1>1. UNCHANGED <<state, result, split>>
  BY DEF NetConnect, ctxVars
<1>2. CallInv(c)
  BY DEF ConnectInv
<1>3. state[c] # NULL
  BY <1>2, ConnectAssumption DEF NetConnect, CallInv, Linked, States
<1>4. Shown[c] = "dialing" /\ Shown' = Shown
  BY <1>1, <1>2, <1>3, StatusOf DEF CallInv, Outcome, Shown, Status
<1>5. accepted' \in {accepted, accepted \cup {c}}
  BY DEF NetConnect
<1>6. QED
  BY <1>1, <1>4, <1>5 DEF Shown, D!OnTheWay

LEMMA ArriveIsSeen ==
    ASSUME ConnectInv, NEW c \in Calls, Arrive(c)
    PROVE  D!OnTheWay(c) \/ UNCHANGED D!vars
<1>1. UNCHANGED <<state, result, accepted>>
  BY DEF Arrive, ctxVars
<1>2. CallInv(c) /\ TypeOK
  BY DEF ConnectInv
<1>3. split' \in {split, split \cup {c}}
  BY DEF Arrive
<1>4. Shown' = Shown
  BY <1>1 DEF Shown, Status
<1>5. CASE state[c] # NULL
  <2>1. Shown[c] = "dialing"
    BY <1>2, <1>5, StatusOf DEF CallInv, Outcome, Shown
  <2>2. QED
    BY <1>1, <1>3, <1>4, <2>1 DEF Shown, D!OnTheWay
<1>6. CASE state[c] = NULL
  <2>1. owed[c] # << >>
    <3>1. PICK n \in 1 .. Len(owed[c]) : TRUE
      BY DEF Arrive
    <3>2. Len(<< >>) = 0
      OBVIOUS
    <3>3. QED
      BY <3>1, <3>2
  <2>2. fd[c] = "open" /\ result[c] # <<"failed">>
    BY <1>2, <1>6 DEF Arrive, CallInv, Outcome
  <2>3. c \in split
    BY <1>2, <1>6, <2>1, <2>2 DEF CallInv, Aligned, Clear
  <2>4. split' = split
    BY <1>3, <2>3
  <2>5. QED
    BY <1>1, <1>4, <2>4 DEF Shown, D!vars
<1>7. QED
  BY <1>5, <1>6

\* What async_connect does, however many calls there are and whatever the proxy
\* and the network do, is what Dialer promises: a call is told once how it ended,
\* and that it was made only when the far end said yes or the answers were cut.
THEOREM ConnectImplementsDialer == Spec => ImplementsDialer
<1>1. Init => D!Init
  <2>1. SUFFICES ASSUME Init
                 PROVE  D!Init
    OBVIOUS
  <2>2. \A c \in Calls : Status(c) = "idle"
    BY <2>1, StatusOf DEF Init
  <2>3. QED
    BY <2>1, <2>2 DEF Init, D!Init
<1>2. ConnectInv /\ [Next]_vars => [D!Next]_(D!vars)
  <2>1. SUFFICES ASSUME ConnectInv, [Next]_vars
                 PROVE  D!Next \/ UNCHANGED D!vars
    OBVIOUS
  <2>2. ASSUME NEW c \in Calls,
               AsyncConnect(c) \/ Handler(c) \/ NetConnect(c) \/ Arrive(c) \/ PeerCloses(c)
        PROVE  D!Next \/ UNCHANGED D!vars
    <3>1. CASE PeerCloses(c)
      BY <3>1 DEF PeerCloses, ctxVars, D!vars, Status
    <3>2. CASE AsyncConnect(c) \/ Handler(c) \/ NetConnect(c) \/ Arrive(c)
      <4>1. \/ D!Dial(c) \/ D!OnTheWay(c) \/ D!End(c)
            \/ UNCHANGED D!vars
        BY <2>1, <3>2, BeginIsDial, ConnectCbIsSeen, SendCbIsSeen, RecvCbIsSeen,
           NetConnectIsSeen, ArriveIsSeen DEF Handler
      <4>2. QED
        BY <4>1 DEF D!Next
    <3>3. QED
      BY <2>2, <3>1, <3>2
  <2>3. CASE UNCHANGED vars
    BY <2>3 DEF vars, ctxVars, netVars, D!vars, Status
  <2>4. QED
    BY <2>1, <2>2, <2>3 DEF Next
<1>3. QED
  BY <1>1, <1>2, ConnectInvariant, PTL DEF Spec, ImplementsDialer, D!Spec
===============================================================================
