# Sans, specified

TLA+ specifications of `sans`, a DNS forwarder that finds out which names are
polluted: it probes a `test_server` for the SOA of a name, takes an answer with
an A record for a forgery, and then asks `cn_server` about clean names and
`server` (over TCP, through a SOCKS5 proxy, or over UDP with `-u`) about polluted
ones. This directory holds the modules, the TLC configurations that check them,
and proofs for TLAPS. Paths are relative to the repository, which is `src/` here;
the C sources are in `src/src/`.

    tlc -config MCSans.cfg MCSans      # check one run of PROJECT.json
    tlapm VerdictCacheProofs.tla       # check the proofs of one module

## The system

One process, one thread. `ev_run` calls `select` over a list of at most 128
watchers, calls the callbacks of those that are ready, and once a second
`tick_cb`. A callback never blocks, so a handler is one atomic step with respect
to other handlers; what interleaves is the order in which datagrams, bytes,
connections, clients and ticks come.

| component | source | state | operations | what makes it right |
|---|---|---|---|---|
| query table | `query.c` | `qlist`, 128 slots of id, client's id, client, ttl | add, search by id, delete, tick | one slot per request; every slot is freed; full means dropped |
| forwarder | `sans.c` | options, servers | `query_cb`, `test_cb`, `connect_cb`, `reply_cb`, `tick_cb`, `accept_cb` | one right answer per request, under the client's id, from the right server |
| message ids | `dns.c` (`ns_newid`) | none | a random id no query in the table has | what can still bring an answer is told apart by its id |
| verdict cache | `cache.c` | `htable`, chains of entries with a ttl | search, insert, tick | right verdicts, for exactly the ttl; no freed entry reachable |
| asynchronous connect | `async_connect.c` | a context per call: state, watcher, buffer | connect, three handshake callbacks | calls back once; leaves no socket, watcher or context; a connection handed over was accepted |
| event loop | `event.c` | `wlist`, the clock | start, stop, poll, run, stop the loop | acts only on what is ready now; ticks go on |
| DNS over TCP | `dnsmsg.c` | a context per message: offset, length, buffer, watcher; the client's descriptor, kept in the query | receive and send, queries and replies | a message in pieces is put together; an answer goes to the client that asked; peers cost their own connection only |
| DNS over UDP | `dnsmsg.c` | none | receive, send | loss and duplication do no harm |
| names in messages | `resolv.c` | none | unpack, skip, expand | reads and writes inside the buffers; ends; right name |
| names as text | `resolv.c` | none | `ns_name_ntop`, `ns_name_pton`, `ns_name_pack` | there and back gives the same name |
| messages | `resolv.c`, `dns.c` | none | parse a query or a reply, make a query | reads inside the message; what is sent on is what was asked |
| configuration | `conf.c` | `conf_t` | read the command line and a file, once | what the file says, whatever its white space, order and colons |
| process | `main.c`, `utils.c`, `sans_init`, `sans_run` | `run`, signal handlers, descriptors | start as a daemon or not, open the sockets, signals, stop | serves with all sockets or not at all; a signal stops it; exits with success only then. (A callback may end it otherwise: an assert, SIGPIPE, a freed cell) |
| logging, Windows port | `log.c`, `win.h` | | | |

How they interact: `accept_cb` and the receive callbacks of `dnsmsg.c` hand a
query to `query_cb`, which puts it in the table, takes a fresh id from `ns_newid`,
looks in the cache and sends a probe, a question over UDP, or calls
`async_connect`. That comes back through `connect_cb`, at once or later. Answers
reach `test_cb` and `reply_cb`, which find their query **by id only**; `test_cb`
writes the cache. Everything asynchronous goes through `ev_io_start`,
`ev_io_stop` and the walk of `ev_poll`; two watchers share each connection to
`server`. `tick_cb` ages the table and the cache, and nothing tells a connection
or a datagram that its query has gone.

Hard, then: the life of an id across four independent exchanges, answers that are
late or come twice, connections that outlive their queries, messages in pieces,
callbacks that change the list the loop is walking, sockets shared by two watchers,
numbers of descriptors kept while nobody watches them, cells freed and reused in a
chain, lengths and pointers taken from the network, a clock that someone sets, and
signals while the process starts. `PROJECT.json` lists each hazard at its line, with the properties that
are about it.

## The modules

| module | models | code |
|---|---|---|
| `QueryTable` | the table, as operators | `query.c` |
| `Sans` | the forwarder with table, ids, cache and a network that loses, duplicates, delays and reorders | `sans.c`, `dns.c`, `query.c` |
| `Forwarder` | abstract: what clients are promised | |
| `VerdictCache` | the cache's chains over a heap whose cells are reused, one loop step at a time | `cache.c` |
| `VerdictMap` | abstract: a verdict lives exactly `Ttl` ticks | |
| `AsyncConnect` | calls of `async_connect` and the proxy on the other side | `async_connect.c` |
| `Dialer` | abstract: a call ends once, and made means accepted | |
| `Sockets` | `Sans` with the descriptors of TCP clients and of connections, which are numbers that the kernel gives out again | `dnsmsg.c`, `sans.c` |
| `TcpExchange` | DNS over TCP under the walk of the event loop, with peers that send pieces, close or reset | `dnsmsg.c`, `event.c`, `accept_cb` |
| `NameUnpack` | `ns_name_unpack`, a round of its loop a step; `ns_name_skip` | `resolv.c` |
| `NameText` | names as text, as operators | `resolv.c` |
| `DnsMessage` | the parser and the builder; instantiates `NameUnpack` for the names | `resolv.c`, `dns.c` |
| `Conf` | `read_conf` and `parse_args`, as operators | `conf.c` |
| `Process` | `main` from there to its end, with signals and the clock | `main.c`, `utils.c`, `sans_init` and `sans_run`, `ev_init`, `ev_run`, `ev_stop` |
| `MC...` | small instances for TLC | |
| `VerdictCacheProofs`, `AsyncConnectProofs`, `TcpExchangeProofs`, `NameUnpackProofs`, `DnsMessageProofs`, `ProcessProofs` | theorems about the module of that name | |
| `SansProofs` | theorems about `Sans` and `Sockets` | |
| `Induction` | lemmas: induction over sets of naturals, up and down; functions defined from one side; `FlattenSeq` and pieces of sequences | |

### State and actions against the code

**Sans.** `qlist` is the table; `cache` maps each name to its verdict; `conns` are the
connections of `async_connect` until they close; `nspresolver` is the `-u` option, chosen
at the start; `sent` is every datagram sent to an
upstream. A datagram is never taken out of `sent`: it may be answered at any time,
any number of times or never, which covers loss, duplication, delay and
reordering. The actions are `RecvQuery` (`query_cb` with all it calls),
`TestReply` (`test_cb`), `ConnectDone` (`connect_cb`), `UdpReply` and `TcpReply`
(`reply_cb`), `ConnLost`, and `Tick` (`tick_cb`). `AsyncConnect` has the case where
`connect_cb(-1)` runs before `async_connect` returns. The upstream is assumed to
answer the question it was asked, and the forged answer to a probe to come
before the genuine one: that race is the premise of the program. An answer that
does not parse is a choice, except that here in `test_cb` it also stands for lack
of memory. `arrived`, `got`, `expired` and `clash` are history; `clash` records that
`ns_newid` (or a client's own id, by which `query_cb` searches) gave out an id that
another exchange still used. With 16-bit ids that does happen, and the code
cannot tell: properties about which answer is whose say so with `~clash`. The
name on a connection is history until it is open. Verbose mode is left out: it
parses the replies it logs, and so loses those that do not parse, as the network
may.

**VerdictCache.** `cache_insert` and `cache_tick` go through chains an entry at a
time; `at` is the local state of the loop. `cell` is the memory, `live` what is
allocated; a freed cell may be handed out again. When the first entry of a chain
expires the code frees that one alone and forgets the rest; when a later one
expires it unlinks it, and goes on with the freed entry as its predecessor. Whoever
reads or writes a freed cell may find it as it was and go on from there, in
`cache_insert` as in `cache_tick`, or the process ends: `crashed'` is a choice.
`tangled` records the one situation where that bites: an entry put before two of the
same age. Then a chain leads to a freed cell, and `malloc` may hand that out as the
new head of the chain, which is then a circle. A ttl that has come to 0 stays 0 in the
model (in the code it goes below): only a freed cell has it.

**AsyncConnect.** A call goes through the states of `ctx->state`; `watch` says what the
loop waits for. `inbox` and `owed` are bytes, as the handshake callbacks call `recv`
once and look at what they get. The proxy answers yes or no, in one piece or
two, or closes, and `NetConnect` is the end of the non-blocking connect.

**TcpExchange.** `wlist` is the list of watchers with its slots in order; `poll` is the
walk of `ev_poll` with what `select` found, so that callbacks of one walk and
steps of peers interleave as they do. A message is two bytes of length and its text;
a peer may send several, empty ones, and longer ones than there is room for, in any pieces or
several at once. `msglen` is the length a context has read. `RecvCb` and `SendCb`
are the four callbacks, `WholeMessage`, `Sent` and `SendFailed` branches of them. `pieces`, `early` and `missed` are history: where a send
was cut off, which upstreams closed before they had the query, and where a `recv` that was to
return the whole text returned less or more; nothing that the code reads after that is in its place. Starting a watcher with no empty slot, and a
send to a broken connection, end the process (`dead`).

**Sockets.** The composition of `Sans` with accept and the TCP callbacks. `peer` and
`conns` share the numbers: the kernel gives the lowest that is free in both. `asking` is the
set of descriptors with a watcher of `query_recv`; `sock` is the field of the query,
which is all that remains of a client between `WholeQuery` and `ReplySend`; `answer` is what
a watcher of `reply_send` will write. A step of `Sans` is either `Elsewhere`, with the
constraint on the numbers, or joined to what it does to a client's socket (`WholeQuery`,
`ReplyArrives`). `TickCb` comes from the clock, all other handlers from `ev_poll`
(`Callbacks`). When the socket of a connection is closed under its second watcher, which
`TcpExchange` has in detail (`Deaf`, `DeafOnlyIfEarly`), `select` fails from then on and no
callback is called any more; here `deaf` says so, and each step that closes such a socket
(`UpstreamLost`, `TcpReply`) chooses. `reached` is history: whose answer each client read.

**Conf, Process.** A text is a sequence of symbols, a symbol a character or a whole
word that nothing looks inside; `LineRead` says where `fgets` returns, `Setting` is a round of
`read_conf`, `Option` a round of `parse_args`. `Process` begins where `parse_args` has
returned: `pc` is the step of `main`, with `daemonize`, a step for each socket of
`sans_init`, and the three steps of a round of `ev_run`. `fd` has the numbers of the
streams and sockets. A `freopen` keeps the number of the stream (glibc, musl) or takes the
lowest, by choice. `ahead` is the difference that `ev_run` computes, wrapped to the width of a
long (overflow is undefined in C; every build known wraps); `age` is the true time since the
tick, history like `jumped` and `heard`. Signals come between any two steps. What the
callbacks do is left to the other modules; here they may take their time, end the process
(`"died"`: an assert, SIGPIPE, a freed cell) or never return (`"stuck"`: a circle in a chain
of the cache), by choice (`AfterCallbacks`).

**NameUnpack, NameText, DnsMessage.** A round of the loop of `ns_name_unpack` is
`Label`, `Pointer`, `IllegalType` or `Root`. A bitstring label takes its length from its second
byte; when that lies behind the message, `LabelLen` is any length. `DnsMessage` skips the
records of each section one by one (`SkipRecord`, `EndSection`), unpacks the name of the
question and of the first answer through `NameUnpack`, and writes the question as text and
back (`MkQuery`). `read` is how far the message has been read. `ns_name_pton` goes
through its modes a character at a time in `Char`; `DecodeBitstring` and `EncodeBitstring`
are the two ways of a bitstring label. The message is one that a peer
assembles: names, counts, lengths and records of its own choice, cut or lengthened.

## The runs

| run | what it shows | bounds |
|---|---|---|
| `sans` | type, one answer, one slot, ids apart, right answer, right server, right verdicts, orphans only by timeout, `Forwarder` implemented, every request leaves the table; with and without `-u` | two requests for two names, 4 ids, 2 slots, ttl 2, 1 connection |
| `sans_assert` | **violated**: `connect_cb` finds its query | as `sans` |
| `sockets` | a number in a query stays its client's until the answer is written, descriptors leak for dropped requests only, every client is answered or dropped or has left unless the loop is deaf; the verdict on a name is right with several probes for it in flight | two TCP clients and a UDP client, same id and name, 2 descriptors, 2 slots, ttl 1 |
| `verdict_cache` | chains sound, no trouble before the first ttl is over, `VerdictMap` implemented, loops end unless tangled | 4 names, 3 cells, 2 buckets, ttl 3 |
| `async_connect` | nothing left behind, expected states only, the stream at the right byte, `Dialer` implemented, calls end | one call through the proxy, one direct |
| `tcp_exchange` | no callback on a stale `select`, a message is handed over as it was sent, deaf only in the named cases, bytes in order, exchanges end | a client, an upstream, 4 slots; up to two messages, of 0, 2 or 4 bytes, room for 3 |
| `tcp_exchange_sigpipe` | **violated**: a peer cannot end the process | one message each |
| `tcp_exchange_pieces` | **violated**: what was read is handed over | one message each |
| `name_unpack` | reads and writes inside, the spelled name, agreement with `ns_name_skip`, termination | every message of up to 6 bytes out of 7, from every offset |
| `dns_message` | reads inside the message, returns what is in it, and the question sent on is the one received | short names of dots, backslashes, digits and unprintable bytes, bitstrings of 1 to 256 bits, names of 254 and 255 bytes, 5184 mixed messages |
| `process` | the configuration is what the file says, success only when told to, a signal stops it unless a callback never returns, ticks go on and are never early | every file of 4 symbols out of 8, files of 3 lines out of 11, command lines of 3 options; a long of 16 units, a second of 2, the clock set twice |
| `process_daemon` | **violated**: every socket has a number above 0 | as `process` |

Why these bounds are enough to be interesting: two requests are the fewest that can
share or exchange ids, and four ids let the table run through them and give one out
again; two slots make a full table; a ttl of two puts an expiry between any two steps of
an exchange. Three entries of one bucket are what the wrong unlinking of `cache_tick`
needs. One client and one upstream use every kind of watcher, and four slots hold
them all. Two messages of a client are what one `recv` can mix, and a text of four bytes does
not fit in three. Two descriptors for three users make every number come back. Six bytes make a circle of pointers, a pointer into a label and a
label cut by the end of the message. What more of the same could add for `Sans` is
covered by the proofs, which hold for every value of the constants. The buffers of `Conf` are so
small that lines and values of the run overflow them; the clock of `process` wraps within
a few steps.

`CHECK_DEADLOCK FALSE` is set everywhere: the modelled traffic is finite, so the
system stops when it is over, and a failed assert is a stop.

### Fairness

* `Sans`: weak fairness of `Tick` only. `ev_run` calls `tick_cb` from the clock whatever
  else happens; nobody makes the network or a client act. What a clock that is set
  does to that is the subject of `process`.
* `VerdictCache`, `NameUnpack`: a loop that has begun runs on.
* `AsyncConnect`: the loop serves a ready watcher; a non-blocking connect ends, as the
  kernel gives up some time; **the proxy answers or closes**. The code has no time
  limit of its own for the handshake, so the last is an assumption on the proxy,
  and `CallbackComes` does not hold without it.
* `TcpExchange`: the loop runs; `server` answers or closes, for the same reason.
* `Sockets`: ticks as in `Sans`, and a client's socket, which has room for its answer, is
  served as long as the loop is not deaf. A deaf loop serves no one: `ClientsSettled` says so.
* `Process`: the program goes on (weak fairness of `Main`), since `select` has a time limit
  and the rest does not block for ever; and time passes in `select` again and again (strong
  fairness), since a loop that turns takes time.

### What the violated runs show

Each is a statement of the code or its comments that the code does not keep:

1. `connect_cb` asserts that its query is in the table (`sans.c:525`). A connect that
   takes longer than the ten ticks of a query ends the process. `OrphanOnlyByTimeout`
   shows that there is no other way to get there as long as ids are distinct.
2. No one ignores SIGPIPE where `SO_NOSIGPIPE` does not exist. In the trace `server` closes
   a connection before it has the query: the first send of `query_tcp_send_cb` still goes
   through, the second ends the process (`dnsmsg.c:445`). For the answer to a client it is the
   same (`dnsmsg.c:545`).
3. `reply_tcp_recv_cb` does not move its offset after a partial `recv`
   (`dnsmsg.c:360`), so an answer in pieces never is complete.
4. `daemonize` closes descriptor 0 and the first socket gets it; `query_recv` asserts that
   it is above 0 (`dnsmsg.c:74`). A server started with `-d`, as the systemd unit does, aborts
   after its parent has reported success.
Known weaknesses that the properties name as exceptions, with no run of their own:

* `socks5_recv_cb` takes the first byte of an answer in pieces for acceptance
  (`async_connect.c:375`). `split` in `StreamAligned` and `Dialer` excuses it.
* `cache_insert` and `cache_search` need not return. Two entries of one age expire behind a
  newer one in one tick; the second is unlinked from the freed cell of the first
  (`cache.c:181`), so the newer one leads to a freed cell. That cell may be allocated again
  as head of the same chain, which is then a circle. `tangled` says that two such entries
  are there; `ChainsSound`, `LoopsEnd` and `ImplementsVerdictMap` excuse it.
* The list of watchers has 128 slots and no one asks before starting one (`event.c:122`):
  `dead` is `"full"`.
* A bitstring label with a number of bits that is 5, 6 or 7 modulo 8 and whose last byte
  has its first bit set is printed with three digits for two where `char` is signed
  (`resolv.c:848`). `ns_name_pton` refuses that text, `ns_mkquery` returns -1 and the query
  is sent nowhere. `Misprinted` in `QuestionKept` excuses it. The one byte behind the message
  that `labellen` may read is excused in `StaysInside`.
* A `recv` that returns a part of a text, or more than the text, leaves the context past the
  length (`dnsmsg.c:360`): whatever has as many bytes next is taken for the text. `missed` in
  `TextAsSent` excuses it.
* A signal between `sigaction` and the end of `ev_init` is forgotten (`event.c:79`), and one
  that comes while a callback walks in such a circle is not looked at; `SignalStops`
  excuses both.
* A `server` that closes early leaves the loop deaf for all others (`dnsmsg.c:348-358`,
  `event.c:181-188`): ticks alone go on. `DeafOnlyIfEarly` says when; `ExchangeEnds` and
  `ClientsSettled` excuse it.
* A line longer than `LINE_MAX` is read as two (`conf.c:96`), which `ConfAsWritten` excuses.

Other disagreements met while reading, not shown by a run: `conf.c:318` takes
8.8.4.4 as the default of `server`, README.md says 8.8.8.8; README.md gives `nobody` as the
default user, and no default is in the code; README.md says there is no cache in
sans, which is true of answers, not of verdicts. The help says that `-d` daemonizes after
initialization (`conf.c:51`), the manual after startup; `main.c:59` does it before, so that a
failure of `sans_init` is not in the exit code. When `socks5_init` fails `sans_init`
goes on without the proxy (`sans.c:276-283`), and it goes on as root when `runas` fails
(`sans.c:286-293`) or does not know the user (`utils.c:184`). A line `user =x`, with a space
before the sign, is accepted and sets nothing.

## The proofs

| theorem | statement |
|---|---|
| `SansProofs!TypeCorrect` | `Spec => []TypeOK` |
| `SansProofs!AnswersOnce` | `Spec => []AnsweredOnce` |
| `SansProofs!HoldsOneSlot` | `Spec => []PendingOnce` |
| `SansProofs!IdsStayApart` | `Spec => []IdsApart` |
| `SansProofs!AnswersAreRight` | `Spec => []RightAnswer` |
| `SansProofs!RoutesByVerdict` | `Spec => []RoutedByVerdict` |
| `SansProofs!VerdictsAreRight` | `Spec => []CacheSound` |
| `SansProofs!OrphansTimedOut` | `Spec => []OrphanOnlyByTimeout` |
| `SansProofs!ForwarderImplemented` | `Spec => F!Spec`, with the refinement mapping of `Sans` |
| `SansProofs!VerdictsStable` | `Spec => VerdictStable`: a verdict changes only by being forgotten (in no run, as it is proved) |
| `SansProofs!SocketsIsForwarder` | `SocketsSpec => Spec`: every theorem about `Sans` holds of `Sockets` |
| `SansProofs!AnswersToAskers` | `SocketsSpec => []AnswerToAsker` |
| `SansProofs!OnlyDroppedLeak` | `SocketsSpec => []LeaksOnlyIfDropped` |
| `VerdictCacheProofs!CacheChainsSound` | `Spec => []ChainsSound` |
| `VerdictCacheProofs!CacheNoTrouble` | `Spec => []NoTroubleBeforeTtl` |
| `VerdictCacheProofs!CacheImplementsMap` | `Spec => V!Spec`, with the refinement mapping of `VerdictCache` |
| `AsyncConnectProofs!ConnectTypes` | `Spec => []TypeOK` |
| `AsyncConnectProofs!ConnectLeavesNothing` | `Spec => []NothingLeftBehind` |
| `AsyncConnectProofs!ConnectAssertsHold` | `Spec => []StateExpected` |
| `AsyncConnectProofs!ConnectStreamsAligned` | `Spec => []StreamAligned` |
| `AsyncConnectProofs!ConnectImplementsDialer` | `Spec => D!Spec`, with the refinement mapping of `AsyncConnect` |
| `TcpExchangeProofs!ExchangeWalkIsFresh` | `Spec => []WalkIsFresh` |
| `TcpExchangeProofs!ExchangeTextAsSent` | `Spec => []TextAsSent` |
| `TcpExchangeProofs!ExchangeDeafOnlyIfEarly` | `Spec => []DeafOnlyIfEarly` |
| `TcpExchangeProofs!ExchangeSentInOrder` | `Spec => []SentInOrder` |
| `NameUnpackProofs!UnpackStaysInside` | `Spec => []StaysInside` |
| `NameUnpackProofs!UnpackFindsTheName` | `Spec => []UnpacksTheName` |
| `DnsMessageProofs!MessageReadInside` | `Spec => []ReadsInside` |
| `DnsMessageProofs!ParserReturnsWhatWasPut` | `Spec => []ParsesTheMessage` |
| `DnsMessageProofs!QuestionSentIsReceived` | `Spec => []QuestionKept` |
| `ProcessProofs!ProcessConfAsWritten` | `Spec => []ConfAsWritten` |
| `ProcessProofs!ProcessEndsAsTold` | `Spec => []EndsAsTold` |
| `ProcessProofs!ProcessTickNotEarly` | `Spec => TickNotEarly` |

They hold for any number of requests, names, slots, ids, clients and connections, any ttl, any
hash and heap, any messages and any buffers; the assumptions are those that the modules state
of their constants. What is more than typing in them: no id is 0, which is how `ns_newid`
chooses (`SansAssumption`); descriptors are numbers, and NULL is no request, no watcher, no cell
and no loop; the buckets are `0 .. n - 1` and the cells finite (`CacheAssumption`); half the
range of a long holds a second and the longest wait (`ProcessAssumption`); a buffer of `read_conf`
holds a character (`ConfAssumption`); a message has at most two bytes more than its sender put in
it, as there is one way to be too long (`MadeAssumption`); and a question that is built has room for
512 bytes, which is `NS_PACKETSZ` in the code (`RoomAssumption`).

`AnsweredOnce` is not inductive. `reply_cb` answers whatever query it finds under an
id, so it must be known that an answered request is in no slot any more
(`PendingOnce`), that a slot still has the id its client chose, through any number of
renumberings (`QidKept`), and that a request that has not come yet left no trace
(`Untouched`). Together with `TypeOK` these are `OnceInv`; no condition on ids is
needed, because a query that is found wrongly is still answered under its own
client's id and deleted. Lemmas about the table say what `Added`, `Renumbered`,
`Deleted` and `Ticked` keep of it (`Kept`), and each handler's proof comes down to
one of them.

`IdInv` adds everything about names: `CacheSound`, `RightAnswer`, `RoutedByVerdict`,
`IdsApart` and `OrphanOnlyByTimeout`, each under `~clash`. They need one another: a
verdict is right because the forged answer finds only its own query, that is so because ids
are apart, and they stay apart because `test_cb` renumbers its query before routing it,
so that the genuine answer that follows finds nothing. The refinement of
`Forwarder` is then a case per action, with `IdInv` for the step that answers.

`AnswerToAsker` is not inductive either. It says what is so while a query is in the table, but
a query gets there from a watched descriptor and its descriptor may have been given to someone
else meanwhile. `SocketsInv` follows a descriptor through its three places: watched, its
client's request has not come (`AskingIdle`); in the table, the query has its number and nobody
else does (`PendingNamed`); in neither and with nothing to write, the request is in the table
or dropped (`QuietSettled`). A client has one descriptor and no connection has it (`OneFd`,
from `OpensLowest`: a number is given out only when it is free). What the table's steps do to a
request is not looked up in the table again: they are steps of `Forwarder` by the lemmas of
`SansProofs`, and `Forwarder` says which requests change and how (`DropStatus`,
`ReceiveStatus`, `AnswerStatus`). So the proof of the composition never opens a handler of `Sans`
except those of connections, which it shares descriptors with.

`VerdictCache`: `CacheInv` must hold in the middle of a loop, when the chain it walks is cut and
`last` may be a freed cell. As long as nothing has gone wrong (`Sane`) it says: pointers lead to
live cells of their bucket (`Hung`); chains go from the newest to the oldest and have no name
twice (`Sorted`), counted in what a cell has left when the running tick is over (`Left`), which
makes a half-aged chain as sorted as a whole one; two cells of one age are the newest of their
bucket until an entry is put before them, which is what `tangled` records (`Twins`); a live cell
is in its chain or on the way of `cache_tick` (`Found`); what a cell has left and the ticks so far
are `Ttl` together at least (`Aged`), which is why nothing is freed in the first `Ttl` ticks; and where the loops are
(`Searches`, `Walks`). `Twins` is the heart of it: an entry that expires behind a live one is the
last of its chain, so that writing through `last` afterwards cannot happen; an entry that
expires as the head takes with it only entries that expire in the same tick. For the refinement
the same lemmas say that every step but an insertion and the start of a tick leaves what each
verdict has left as it was (`Lasting`), and that a name has one live cell with ticks left
(`Alive`). What a pointer leads to is a recursive function in the model; the lemmas `ReachLeast`
and `ReachClosed` say that it is the least closed set, and all else follows from that.

`AsyncConnect`: `ConnectInv` says, per call, that the state tells what is watched (`Watching`),
that result, socket and state fit (`Outcome`), that a connection that was made was accepted
(`Linked`), and that unless the proxy answered in pieces the stream holds nothing or one whole
answer (`Aligned`). A step of a call leaves the others alone. The refinement is a case per action.

`TcpExchange`: `ListInv` is about the loop: no watcher is in two slots, and everything the walk
still calls is ready. `Good` is about one peer, what its context, its watchers and its
connection say of one another: how much has been read, that what has arrived and what is owed
are together the rest of its messages, that `outbox` is the message up to the offset. A step of
a handler changes the view of one peer (`View`), so its proof is about one record. That a
message is not handed over mixed up was false as it was stated first, for messages other than
those of the run: after a `recv` that returned less than the text the next one can end anywhere.
The proof found it, and `missed` names the case.

`NameUnpack`: for `StaysInside` a step must know how far the name has come and what `checked` is
at most (`Onwards`). `SpellInv` says that after r rounds the name spelled at `src` is what has been
written and then the name spelled at `srcp` in r rounds less; a name that is refused as a loop has
used as many bytes as the message. `SkipInv` says that `ns_name_skip` from `src` ends where it
does from `srcp`, up to the first pointer.

`Process`: `ProcInv` follows the descriptors through the start (`Opened`, `Unopened`, `Apart`), says
that the handler is set before the first wait, that only a signal clears `run` after `ev_init`,
and that the computed difference is the time that has passed as long as it is at most a second
and nobody has set the clock (`ClockRight`), whatever is wrapped. `ConfAsWritten` compares two ways to
read a file: the loop of `read_conf`, which takes what `fgets` returns and changes one setting at
a time, and `Says`, which looks for the last line that names a key. Between them is `Reading`,
an invariant of the loop over the symbols of the file: where it stands is the start of a line, or
the newline behind a line that just fits in the buffer, and the lines before that are done
(`DoneLines`): the outcome is good exactly when none of them is bad, and each key has what the
last of them that sets it says, or what it had at first (`KeyDone`). That holds of files whose
lines are below `LINE_MAX`, for others `ConfAsWritten` promises nothing.

`DnsMessage`: `ReadsInv` adds to `ReadsInside` that a header has been seen, and that while a name is
unpacked its invariants from `NameUnpackProofs` hold and what has been written is a row of whole
labels (`WellFormed`), so that `ns_name_ntop` stays inside it. For `ParsesTheMessage` the message is
what the peer assembled (`ParseInv`), and with true counts the parser goes from the start of one
record to that of the next (`Follows`: `ptr` is an offset in `Offsets`, or it is behind the end of a
message that is too short) until it has come to the end of the last.

For `QuestionKept` the invariant is short: what is kept is the text of the name that the message
spells behind its header, with the type that follows (`KeptInv`). The work is that
`ns_name_pton` reads such a text back, one character at a time, with a state of its own.
`NameRuns` says it by induction over the labels of the name from the first on: where the text
of a label begins (`PieceOpens`), the names of the labels before it have been read as they are
spelled, or one of them was misprinted and the state is `fail`, which it stays (`FailStays`). A
label of bytes is read through one, two or four characters a byte (`LabelRun`, from `QuotedRun`).
A bitstring is collected up to its bracket (`BitsRun`), and `encode_bitstring` makes of
the collected digits and number the label as it was, its unused bits cleared, or fails if
`decode_bitstring` wrote a digit too many (`EncodesBack`). A dot closes a label
(`BehindDot`), and the end of the text does what a dot does (`BehindEnd`). `TextReadBack` has it
for a whole name and `QueryOfText` for the message built from it: a name that could be unpacked
fits in both buffers again, as it is as long as it was.

Induction over data. The library's induction theorems take an operator as a parameter. `Induction`
has the same for a set of naturals (`SetInduction`), which needs none; with it a recursive
function of the model is shown to exist, to unfold and to have the values that are claimed.

What is only model-checked: liveness (`EventuallySettled`, `LoopsEnd`,
`CallbackComes`, `ExchangeEnds`, `Ends`, `ClientsSettled`, `SignalStops`, `TicksGoOn`), which
needs fairness and is out of the provers' reach.

## Not modelled, and why

* `log.c`, `win.h`: no control. Verbose mode, the help and the version: output.
* `cache_delete`: no one calls it. A verdict's data is never freed.
* `malloc` that fails, but in `async_connect`, `cache_insert` and `test_cb`. The `query_t` that
  a failed `recvfrom` or a bad query leaks.
* Bitstrings as text in forms that `ns_name_ntop` does not write (without a number of bits, or
  with more than one slash), and the pointers that `ns_name_pack` writes after the first name
  of a message: all text comes from `ns_name_ntop`, all messages have one name.
* The sizes of `pidfile` and `logfile`, the pidfile itself, and what `runas` does to the
  user: nothing else depends on them.
* The time limits and keep-alive that `utils.c` sets on sockets: they bound no
  non-blocking call.

## Plan

Order: the path of a request first, since everything else serves it.

1. Done: `QueryTable`, `Sans`, `Forwarder` and their proofs; `VerdictCache`;
   `AsyncConnect`; `TcpExchange`; `NameUnpack`, `NameText`, `DnsMessage`; `Sockets` and its
   proofs; `Conf` and `Process`.
2. Done: every safety invariant, every action property and every refinement that a passing run
   checks is a theorem.
