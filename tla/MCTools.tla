------------------------------ MODULE MCTools ------------------------------
(***************************************************************************)
(* Argument lists with each option in and out of place, a servers.txt of   *)
(* each kind, values of at most two characters, and two server processes.  *)
(***************************************************************************)
EXTENDS Commands

MCRequired == [t \in Tool |-> CASE t = "put" -> 2 [] t = "find" -> 2 [] t = "substr" -> 4
                                [] t = "get" -> 1 [] t = "scenario" -> 1
                                [] t = "list" -> 0 [] t = "cat" -> SIZE_MAX]
MCSupported == [t \in Tool |-> CASE t = "put" -> {"-n", "-w"} [] t = "get" -> {"-n", "-r"}
                                 [] t = "list" -> {} [] OTHER -> Option]

Beginnings == {<<>>, <<"--">>, <<"-n", "2">>, <<"-r", "3">>, <<"-n", "1", "-w", "1", "--">>,
             <<"-n", "1", "-n", "2">>, <<"-w", "a">>, <<"-n", "--">>, <<"-r", "4", "-r", "1">>}

Rest == [t \in Tool |->
           CASE t = "put" -> {<<"0", "1">>, <<"0">>, <<"0", "-n">>}
             [] t = "get" -> {<<"0">>, <<>>}
             [] t = "cat" -> {<<"0", "1", "1">>, <<"0">>}
             [] t = "find" -> {<<"0", "1">>}
             [] t = "scenario" -> {<<"1">>, <<"2">>, <<"a">>}
             [] t = "substr" -> {<<"0", p, l, "1">> : p \in {"0", "1", "-1", "-2", "-3", "a"},
                                                      l \in {"0", "1", "2", "-1"}}]

MCArgv == [t \in Tool |->
             IF t = "list" THEN {<<"--">>, <<"a">>, <<"-n", "1">>}
             ELSE {p \o r : p \in Beginnings, r \in Rest[t]}
                    \cup {<<"-n">>, <<"-r", "2", "-n">>}]

Words == {"a", "-n", "-r", "-w", "--", "0", "1", "2", "3", "4", "-1", "-2", "-3"}

MCNumber == [s \in Words |-> CASE s = "0" -> 0 [] s = "1" -> 1 [] s = "2" -> 2
                               [] s = "3" -> 3 [] s = "4" -> 4 [] s = "-1" -> -1
                               [] s = "-2" -> -2 [] s = "-3" -> -3 [] OTHER -> NaN]
MCStrtol == [s \in Words |-> IF MCNumber[s] = NaN THEN 0 ELSE MCNumber[s]]
MCText   == [s \in Words |-> <<"x">>]

MCChar   == {"x", "y", "?"}
MCValues == {<<"x", "y">>, <<"y">>}
MCBefore == [k \in {"0", "1"} |-> IF k = "0" THEN <<<<"x", "y">>, <<"y">>>> ELSE <<>>]
MCJunk   == {<<"?">>}

At(n) == [ip |-> "127.0.0.1", port |-> n]
Server(n, m) == [addr |-> At(n), nodes |-> m]

MCAddress == {At(8000), At(4464)}
MCFiles   == {<<Server(8000, 2), Server(4464, 1)>>, <<Server(8000, 1)>>, <<>>,
              <<Server(8000, 2), Bad>>, <<Server(4464, 1), Unended>>, NoFile}

(* 70000 is 4464 in 16 bits and 65536 is 0, for which bind takes 4464 too;  *)
(* "127.0.0.1" in the place of a port is 127.                              *)
MCTyped == {[words |-> <<"127.0.0.1", "8000", "127.0.0.1", "70000">>, end |-> "word"],
            [words |-> <<"localhost", "8000", "127.0.0.1", "65536">>, end |-> "blocks"],
            [words |-> <<"127.0.0.1", "eighty", "127.0.0.1", "8000">>, end |-> "blocks"],
            [words |-> <<"127.0.0.1", "127.0.0.1", "70000">>, end |-> "blank"]}
MCDecimal == [w \in {"127.0.0.1", "8000", "70000", "65536", "eighty", "localhost", ".0.0.1"} |->
                CASE w = "8000" -> 8000 [] w = "70000" -> 70000 [] w = "65536" -> 65536
                  [] w = "127.0.0.1" -> 127 [] OTHER -> NotDecimal]
MCRemainder == [w \in {"127.0.0.1", "8000", "70000", "65536"} |->
                  IF w = "127.0.0.1" THEN <<".0.0.1">> ELSE <<>>]
MCGarbage   == {[ip |-> "junk", port |-> 4464]}
MCEphemeral == {4464}

=============================================================================
