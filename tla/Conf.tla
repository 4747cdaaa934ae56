---------------------------------- MODULE Conf ----------------------------------
(***************************************************************************)
(* The command line and the configuration file (conf.c).  The module has no *)
(* state: read_conf and parse_args are operators, from which module Process *)
(* starts.                                                                  *)
(*                                                                          *)
(* A text is a sequence of symbols.  A symbol is a character, or a whole    *)
(* word where nothing in the code looks inside it: the keys, the options,   *)
(* the defaults.                                                            *)
(***************************************************************************)
EXTENDS Integers, Sequences, SequencesExt

CONSTANTS
    LINE_MAX,     \* size of read_conf's buffer (1024), with the zero at its end
    UserSize,     \* size of conf->user (16)
    AddrSize,     \* size of an addr (64)
    PortSize      \* size of a port (16)

ASSUME ConfAssumption ==
    /\ LINE_MAX \in Nat /\ LINE_MAX > 2
    /\ {UserSize, AddrSize, PortSize} \subseteq Nat \ {0}

NEWLINE == "\n"
Spaces == {" ", "\t", NEWLINE}
AddressKeys == {"listen", "socks5", "test_server", "cn_server", "server"}

DefaultAddr == [listen |-> <<"127.0.0.1">>, socks5 |-> << >>, test_server |-> <<"8.8.8.8">>,
                cn_server |-> <<"114.114.114.114">>, server |-> <<"8.8.4.4">>]
DefaultPort(k) == IF k = "socks5" THEN << >> ELSE <<"53">>

\* bzero(conf)
EmptyConf == [user |-> << >>, daemon |-> FALSE, nspresolver |-> FALSE, verbose |-> FALSE,
              pidfile |-> "", logfile |-> "",
              addr |-> [k \in AddressKeys |-> << >>], port |-> [k \in AddressKeys |-> << >>]]

\* The positions of symbol c in text.
Found(text, c) == {i \in DOMAIN text : text[i] = c}
Before(text, i) == SubSeq(text, 1, i - 1)
After(text, i) == SubSeq(text, i + 1, Len(text))

\* my_strncpy into size bytes.
Copied(text, size) == SubSeq(text, 1, Min({Len(text), size - 1}))

\* The symbols between the white space at both ends.
Trimmed(line) ==
    LET ink == {i \in DOMAIN line : line[i] \notin Spaces}
    IN IF ink = {} THEN << >> ELSE SubSeq(line, Min(ink), Max(ink))

-------------------------------------------------------------------------------
\* fgets, which began to read at symbol begin, returns with symbol i: at a newline,
\* when the buffer is full, or at the end.
LineRead(file, begin, i) ==
    file[i] = NEWLINE \/ i = begin + LINE_MAX - 2 \/ i = Len(file)

\* Mutant of Colon: the first one, which is inside an IPv6 address.
FirstColon(value) == Min(Found(value, ":"))

\* strrchr(value, ':')
Colon(value) == Max(Found(value, ":"))

\* One round of the loop of read_conf.  st says whether all lines so far were
\* understood, and holds the configuration they make.
Refused(st) == [st EXCEPT !.ok = FALSE]

Setting(st, line) ==
    LET text == Trimmed(line)
        eq == Min(Found(text, "="))
        key == Before(text, eq)
        value == After(text, eq)
    IN CASE ~st.ok \/ text = << >> \/ text[1] = "#" -> st
         [] st.ok /\ text # << >> /\ text[1] # "#" ->
              IF Found(text, "=") = {} THEN Refused(st)
              ELSE IF key = <<"user">> THEN [st EXCEPT !.conf.user = Copied(value, UserSize)]
              ELSE IF \A k \in AddressKeys : key # <<k>> THEN st
              ELSE IF Found(value, ":") = {} THEN Refused(st)
              ELSE [st EXCEPT !.conf.addr[key[1]] = Copied(Before(value, Colon(value)), AddrSize),
                              !.conf.port[key[1]] = Copied(After(value, Colon(value)), PortSize)]

\* read_conf, for a file that opens.
ReadConf(st, file) ==
    LET after[i \in 0 .. Len(file)] ==
          IF i = 0 THEN [st |-> st, begin |-> 1]
          ELSE LET last == after[i - 1]
               IN IF LineRead(file, last.begin, i)
                  THEN [st |-> Setting(last.st, SubSeq(file, last.begin, i)), begin |-> i + 1]
                  ELSE last
    IN after[Len(file)].st

-------------------------------------------------------------------------------
\* One round of the loop of parse_args.  st.want is the option whose argument is
\* still to come, "" when there is none; st.confFile holds what -c named, if anything.
Option(st, arg) ==
    CASE ~st.ok -> st
      [] st.ok /\ st.want = "-c" -> [st EXCEPT !.want = "", !.confFile = <<arg>>]
      [] st.ok /\ st.want = "--pidfile" -> [st EXCEPT !.want = "", !.conf.pidfile = arg]
      [] st.ok /\ st.want = "--logfile" -> [st EXCEPT !.want = "", !.conf.logfile = arg]
      [] st.ok /\ st.want = "" ->
           CASE arg \in {"-c", "--pidfile", "--logfile"} -> [st EXCEPT !.want = arg]
             [] arg = "-d" -> [st EXCEPT !.conf.daemon = TRUE]
             [] arg = "-v" -> [st EXCEPT !.conf.verbose = TRUE]
             [] arg = "-u" -> [st EXCEPT !.conf.nspresolver = TRUE]
             [] OTHER -> Refused(st)

Default(text, default) == IF text = << >> THEN default ELSE text

WithDefaults(conf) ==
    [conf EXCEPT !.pidfile = IF @ = "" THEN "/run/sans.pid" ELSE @,
                 !.logfile = IF @ = "" THEN "/var/log/sans.log" ELSE @,
                 !.addr = [k \in AddressKeys |-> Default(@[k], DefaultAddr[k])],
                 !.port = [k \in AddressKeys |-> Default(@[k], DefaultPort(k))]]

\* parse_args, with the contents of every file that can be opened.
ParseArgs(argv, files) ==
    LET after[i \in 0 .. Len(argv)] ==
          IF i = 0 THEN [ok |-> TRUE, conf |-> EmptyConf, want |-> "", confFile |-> << >>]
          ELSE Option(after[i - 1], argv[i])
        options == after[Len(argv)]
        read == IF ~options.ok \/ options.want # "" THEN Refused(options)
                ELSE IF options.confFile = << >> THEN options
                ELSE IF options.confFile[1] \notin DOMAIN files THEN Refused(options)
                ELSE ReadConf(options, files[options.confFile[1]])
    IN [ok |-> read.ok, conf |-> WithDefaults(read.conf)]
-------------------------------------------------------------------------------
(* References *)

\* The lines of a file, trimmed, each with where it begins.
LinesOf(file) ==
    LET end(i) == Min({j \in Found(file, NEWLINE) : j >= i} \cup {Len(file) + 1})
        starts == {1} \cup {j + 1 : j \in Found(file, NEWLINE)}
    IN {[at |-> i, size |-> end(i) - i, text |-> Trimmed(SubSeq(file, i, end(i) - 1))] :
           i \in starts}

Settings(file, k) == {l \in LinesOf(file) : Len(l.text) > 1 /\ l.text[1] = k /\ l.text[2] = "="}

\* What the last line for k gives it; nothing, if there is none.
Given(file, k) ==
    LET last == CHOOSE l \in Settings(file, k) : \A m \in Settings(file, k) : m.at <= l.at
    IN IF Settings(file, k) = {} THEN << >> ELSE After(last.text, 2)

\* A line that is not a comment and sets nothing, or an address without a port.
Wrong(file, l) ==
    /\ l.text # << >> /\ l.text[1] # "#"
    /\ \/ Found(l.text, "=") = {}
       \/ \E k \in AddressKeys : l \in Settings(file, k) /\ Found(After(l.text, 2), ":") = {}

\* outcome is what the file says: the last line for each key counts, an address
\* ends at its last colon, what is left out has its default, and a file with a
\* wrong line is refused.
Says(file, outcome) ==
    /\ outcome.ok <=> \A l \in LinesOf(file) : ~Wrong(file, l)
    /\ outcome.ok =>
          /\ outcome.conf.user = Copied(Given(file, "user"), UserSize)
          /\ \A k \in AddressKeys :
                LET value == Given(file, k)
                    colon == CHOOSE i \in Found(value, ":") : Found(After(value, i), ":") = {}
                    addr == IF value = << >> THEN << >> ELSE Before(value, colon)
                    port == IF value = << >> THEN << >> ELSE After(value, colon)
                IN /\ outcome.conf.addr[k] = Default(Copied(addr, AddrSize), DefaultAddr[k])
                   /\ outcome.conf.port[k] = Default(Copied(port, PortSize), DefaultPort(k))
===============================================================================
