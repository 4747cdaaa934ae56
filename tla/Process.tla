-------------------------------- MODULE Process --------------------------------
(***************************************************************************)
(* The life of the process: main (main.c), daemonize (utils.c), sans_init   *)
(* and sans_run (sans.c), and ev_run with its clock (event.c).  A signal    *)
(* may come between any two steps, the clock may be set, and every call     *)
(* that can fail may.                                                       *)
(*                                                                          *)
(* Descriptors are numbers; open and socket give the lowest free one.  The  *)
(* clock is the number of units by which it is ahead of tv, the time of the *)
(* last tick, as the subtraction in ev_run computes it: modulo the width of *)
(* a long.                                                                  *)
(***************************************************************************)
EXTENDS Conf

CONSTANTS
    Inputs,       \* command lines with the files they name: [argv, files]
    SECOND,       \* units in a second
    LongRange,    \* 2^w for a long of w bits, in units
    ClockSteps,   \* by how much someone may set the clock, forward or back
    MaxSets,      \* bound: how often
    Waits         \* units that a step may take: 0 and others

ASSUME ProcessAssumption ==
    /\ \A i \in Inputs : /\ i.argv \in Seq(STRING)
                         /\ \A f \in DOMAIN i.files : i.files[f] \in Seq(STRING)
    /\ SECOND \in Nat \ {0}
    /\ LongRange \in Nat /\ LongRange % 2 = 0 /\ LongRange > 2 * SECOND + 4
    /\ ClockSteps \subseteq Int
    /\ MaxSets \in Nat
    /\ 0 \in Waits /\ \A u \in Waits : u \in Nat /\ u + SECOND < LongRange \div 2

VARIABLES
    pc,           \* the next step of main, or how it has ended
    input,        \* argv and the files; NoInput once they are forgotten
    conf,         \* what parse_args returned, with main's conf; NoInput when it is not needed
    fd,           \* the number of each stream and socket; -1 when it has none
    handler,      \* SIGINT and SIGTERM go to signal_cb
    run,          \* event.c: the loop is to go on
    ahead,        \* by how much the clock is ahead of tv
    heard,        \* history: signal_cb ran after ev_init
    age,          \* history: units of time since the last tick, SECOND + 1 at most
    jumped,       \* history: the clock was set since the last tick
    sets          \* how often the clock was set

confVars == <<input, conf>>
clockVars == <<ahead, age, jumped, sets>>
vars == <<pc, confVars, fd, handler, run, heard, clockVars>>

NoInput == [argv |-> << >>, files |-> << >>]

\* The sockets in the order sans_init makes them.
Sockets == <<"udp", "tcp", "test", "cn", "server">>
Streams == {"stdin", "stdout", "stderr"}
Ends == {"success", "failure", "killed", "aborted", "died"}
Loop == {"check", "select", "clock"}

Ended == pc \in Ends
Serving == pc \in Loop

\* The lowest number that no one but x has.
LowestFor(x) ==
    Min((0 .. 8) \ {fd[y] : y \in (Streams \cup ToSet(Sockets)) \ {x}})

\* 1000000 * (t.tv_sec - tv.tv_sec) + t.tv_usec - tv.tv_usec in a long.
Wrapped(x) == ((x + LongRange \div 2) % LongRange) - LongRange \div 2

TimePasses(u) ==
    /\ ahead' = Wrapped(ahead + u)
    /\ age' = Min({age + u, SECOND + 1})
    /\ UNCHANGED <<jumped, sets>>

Go(step) == pc' = step

\* The callbacks have run, and mostly the loop goes on.  But a callback may end
\* the process (the asserts of sans.c:525 and event.c:122, SIGPIPE,
\* a freed cell of the verdict cache), or walk in a circle of cells for ever.
AfterCallbacks(step) == Go(step) \/ Go("died") \/ Go("stuck")

-------------------------------------------------------------------------------
\* main up to sans_init

\* The outcome of parse_args; fork, if it is to be a daemon.  The parent writes
\* the pidfile, or cannot, and exits with success; the child goes on here.
Fork ==
    /\ pc = "parsed"
    /\ IF ~conf.ok THEN Go("failure")
       ELSE IF conf.conf.daemon THEN Go("detach") \/ Go("failure")
       ELSE Go("sigaction")
    /\ input' = NoInput
    /\ UNCHANGED <<conf, fd, handler, run, heard, clockVars>>

\* The rest of daemonize: setsid, fclose(stdin) and the two freopen, which may
\* fail.  A libc may keep the number of a stream it opens again (glibc, musl) or
\* take the lowest that is free.
Detach ==
    /\ pc = "detach"
    /\ \/ Go("failure") /\ UNCHANGED fd
       \/ Go("sigaction") /\ fd' = [fd EXCEPT !.stdin = -1]
       \/ Go("sigaction") /\ fd' = [fd EXCEPT !.stdin = -1, !.stdout = 0, !.stderr = 1]
    /\ UNCHANGED <<confVars, handler, run, heard, clockVars>>

Sigaction ==
    /\ pc = "sigaction"
    /\ handler' = TRUE
    /\ Go("ev_init")
    /\ UNCHANGED <<confVars, fd, run, heard, clockVars>>

-------------------------------------------------------------------------------
\* sans_init

\* Mutant of RunAfterInit: run keeps its initial value.
RunAfterInitUnset == FALSE

\* run = 1
RunAfterInit == TRUE

EvInit ==
    /\ pc = "ev_init"
    /\ run' = RunAfterInit
    /\ ahead' = 0
    /\ age' = 0
    /\ Go(Sockets[1])
    /\ UNCHANGED <<confVars, fd, handler, heard, jumped, sets>>

\* getaddrinfo, socket, bind and listen for one of the five sockets, the names
\* of the upstream servers, and after the last socket socks5_init and runas,
\* whose failure changes nothing.  Any of them may take its time.
OpenSocket(i) ==
    /\ pc = Sockets[i]
    /\ \/ Go("failure") /\ UNCHANGED fd
       \/ /\ Go(IF i < Len(Sockets) THEN Sockets[i + 1] ELSE "sans_run")
          /\ fd' = [fd EXCEPT ![Sockets[i]] = LowestFor(Sockets[i])]
    /\ \E u \in Waits : TimePasses(u)
    /\ UNCHANGED <<confVars, handler, run, heard>>

-------------------------------------------------------------------------------
\* sans_run

\* Mutant of RunAtStart: ev_run sets the flag itself.
RunAtStartSet == TRUE

\* ev_run leaves run as it is.
RunAtStart == run

\* The watchers of the sockets are started.  Each asserts that its descriptor
\* is above 0.
StartWatchers ==
    /\ pc = "sans_run"
    /\ IF \E i \in DOMAIN Sockets : fd[Sockets[i]] = 0
       THEN Go("aborted") /\ UNCHANGED <<conf, run>>
       ELSE Go("check") /\ conf' = NoInput /\ run' = RunAtStart
    /\ UNCHANGED <<input, fd, handler, heard, clockVars>>

\* while (run); and the end of sans_run when it is over.
Check ==
    /\ pc = "check"
    /\ IF run THEN Go("select") /\ UNCHANGED fd
       ELSE Go("success") /\ fd' = [x \in DOMAIN fd |-> IF x \in Streams THEN fd[x] ELSE -1]
    /\ UNCHANGED <<confVars, handler, run, heard, clockVars>>

\* ev_poll: select returns because of an event, a signal or, at the latest,
\* its time limit of 100 ms, and the callbacks run; u units pass.
Select(u) ==
    /\ pc = "select"
    /\ TimePasses(u)
    /\ AfterCallbacks("clock")
    /\ UNCHANGED <<confVars, fd, handler, run, heard>>

\* Mutants of Due and TvAfter: the tick comes early; tv is set every round.
DueEarly == ahead >= SECOND
TvAfterEvery == 0

\* The comparison in ev_run, and what tv makes of it when there is no tick.
Due == ahead > SECOND
TvAfter == ahead

\* tick_cb is sans_tick, which ages the queries and the verdicts.
TickCb ==
    /\ pc = "clock"
    /\ Due
    /\ ahead' = 0
    /\ age' = 0
    /\ jumped' = FALSE
    /\ AfterCallbacks("check")
    /\ UNCHANGED <<confVars, fd, handler, run, heard, sets>>

NoTick ==
    /\ pc = "clock"
    /\ ~Due
    /\ ahead' = TvAfter
    /\ Go("check")
    /\ UNCHANGED <<confVars, fd, handler, run, heard, age, jumped, sets>>

-------------------------------------------------------------------------------
\* What comes from outside

\* SIGINT or SIGTERM: signal_cb clears run; before sigaction it kills.
Signal ==
    /\ ~Ended
    /\ IF handler
       THEN /\ run' = FALSE
            /\ heard' = (heard \/ pc # "ev_init")
            /\ UNCHANGED pc
       ELSE Go("killed") /\ UNCHANGED <<run, heard>>
    /\ UNCHANGED <<confVars, fd, handler, clockVars>>

\* Someone sets the clock.
SetClock(d) ==
    /\ Serving
    /\ sets < MaxSets
    /\ ahead' = Wrapped(ahead + d)
    /\ jumped' = TRUE
    /\ sets' = sets + 1
    /\ UNCHANGED <<pc, confVars, fd, handler, run, heard, age>>

-------------------------------------------------------------------------------
\* main after parse_args, which touches nothing but conf.
Init ==
    /\ pc = "parsed"
    /\ input \in Inputs
    /\ conf = ParseArgs(input.argv, input.files)
    /\ fd = [x \in Streams \cup ToSet(Sockets) |->
               CASE x = "stdin" -> 0 [] x = "stdout" -> 1 [] x = "stderr" -> 2 [] OTHER -> -1]
    /\ handler = FALSE
    /\ run = FALSE
    /\ ahead = 0
    /\ heard = FALSE
    /\ age = 0
    /\ jumped = FALSE
    /\ sets = 0

Main == \/ Fork \/ Detach \/ Sigaction \/ EvInit
        \/ \E i \in DOMAIN Sockets : OpenSocket(i)
        \/ StartWatchers \/ Check \/ TickCb \/ NoTick
        \/ \E u \in Waits : Select(u)

Next == Main \/ Signal \/ \E d \in ClockSteps : SetClock(d)

\* The program goes on, as select has a time limit, and time does not stand
\* still in it for ever.
Fairness == WF_vars(Main) /\ SF_vars(\E u \in Waits \ {0} : Select(u))

Spec == Init /\ [][Next]_vars /\ Fairness
-------------------------------------------------------------------------------
(* Properties *)

TypeOK ==
    /\ pc \in Ends \cup Loop \cup ToSet(Sockets)
             \cup {"parsed", "detach", "sigaction", "ev_init", "sans_run", "stuck"}
    /\ input.argv \in Seq(STRING)
    /\ fd \in [Streams \cup ToSet(Sockets) -> -1 .. 8]
    /\ {handler, run, heard, jumped} \subseteq BOOLEAN
    /\ ahead \in -(LongRange \div 2) .. LongRange \div 2 - 1
    /\ age \in 0 .. SECOND + 1
    /\ sets \in 0 .. MaxSets

\* The command line names a file, and nothing follows but flags.
FileNamed ==
    /\ Len(input.argv) >= 2 /\ input.argv[1] = "-c"
    /\ input.argv[2] \in DOMAIN input.files
    /\ \A i \in 3 .. Len(input.argv) : input.argv[i] \in {"-d", "-u", "-v"}

\* The configuration is what the file says, line by line, whatever its white
\* space, order, repetitions and colons, as long as no line is longer than
\* read_conf's buffer (LINE_MAX; the rest of such a line is read as another).
ConfAsWritten ==
    pc = "parsed" /\ FileNamed =>
       LET file == input.files[input.argv[2]]
       IN (\A l \in LinesOf(file) : l.size < LINE_MAX) => Says(file, conf)

\* The process exits with success only when signal_cb has told it to.  While it
\* serves, the signals are caught and each of its five sockets has a number of
\* its own.  The asserts of sans_run fail for a daemon only.  (How the callbacks
\* may end a process that serves, "died" and "stuck", is for Sans, TcpExchange
\* and VerdictCache to say.)
EndsAsTold ==
    /\ TypeOK
    /\ pc = "success" => heard
    /\ Serving => handler /\ Cardinality({fd[x] : x \in ToSet(Sockets)}) = Len(Sockets)
    /\ pc = "aborted" => conf.conf.daemon

\* A signal stops the process, wherever it strikes, between any two steps of
\* starting and of the loop, except between sigaction and the end of ev_init,
\* which sets run again (event.c:79), and unless a callback never returns, as
\* then nobody looks at run.
SignalStops == heard ~> (Ended \/ pc = "stuck")

\* The ticks go on: more than a second after one there is another, also after
\* the clock was set back or its difference has wrapped.
TicksGoOn == Serving /\ age > SECOND ~> ~Serving \/ age = 0

\* No tick comes within a second of the one before, unless someone set the
\* clock: nothing else makes the queries and verdicts older than they are.
TickNotEarly == [][TickCb => age > SECOND \/ jumped]_vars

\* No assert of query_recv or reply_recv (dnsmsg.c:74) fails: every socket has a
\* number above 0.
SocketsAboveZero == pc # "aborted"
===============================================================================
