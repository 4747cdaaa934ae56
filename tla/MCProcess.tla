------------------------------- MODULE MCProcess -------------------------------
(***************************************************************************)
(* A small instance of Process: files of every text of up to four symbols   *)
(* and of up to three of the lines below, and some command lines.           *)
(***************************************************************************)
EXTENDS Process

Letters == {"user", "listen", "=", ":", "a", "#", " ", NEWLINE}
Short == UNION {[1 .. n -> Letters] : n \in 0 .. 4}

SomeLines == {<<"user", "=", "a">>, <<"user", "=", "b", " ">>, <<"user", " ", "=", "a">>,
              <<" ", "listen", "=", "a", ":", "b", " ">>, <<"listen", "=", "a">>,
              <<"listen", "=", ":", ":", "a">>, <<"listen", "=", ":", "a">>,
              <<"server", "=", "a", ":", "b", ":", "=">>, <<"#", "user">>,
              <<"#", " ", "a", " ", "a", " ", "a", "user", "=", "b">>, << >>}
Written == {FlattenSeq([i \in 1 .. n |-> Append(ls[i], NEWLINE)]) : ls \in [1 .. 3 -> SomeLines],
                                                                    n \in 0 .. 3}
        \cup {ls[1] \o <<NEWLINE>> \o ls[2] : ls \in [1 .. 2 -> SomeLines]}

File(text) == [f \in {"f"} |-> text]
FromFile(text, more) == [argv |-> <<"-c", "f">> \o more, files |-> File(text)]

Arguments == {"-c", "-d", "-u", "-v", "-h", "--pidfile", "--logfile", "g"}
CommandLines == UNION {[1 .. n -> Arguments \ {"-c"}] : n \in 0 .. 3}
              \cup {<<"-d", "-c">>, <<"-d", "-c", "f">>, <<"-d", "-c", "g">>}

MCInputs == {FromFile(text, << >>) : text \in Short}
       \cup {FromFile(text, << >>) : text \in Written}
       \cup {FromFile(text, <<"-d", "-u">>) : text \in SomeLines}
       \cup {[argv |-> a, files |-> File(<<"user", "=", "a">>)] : a \in CommandLines}

NoFile == {[argv |-> <<"-d">>, files |-> File(<< >>)]}

TwoSteps == {-5, 5}
===============================================================================
