---------------------------- MODULE ClientStart ----------------------------
(***************************************************************************)
(* The start of a client tool: client_init with parse_opt_args (args.c),   *)
(* get_nodes (node_list.c) and the cap on N (client.c).  argv holds the    *)
(* arguments that are left; at its end there is a NULL pointer.            *)
(***************************************************************************)
EXTENDS Integers, Sequences, FiniteSets, FiniteSetsExt

CONSTANTS
  Tool,         \* the programs
  Required,     \* Required[t]: mandatory arguments, or SIZE_MAX for any
  Supported,    \* Supported[t]: the options of t
  SIZE_MAX,
  Argv,         \* Argv[t]: the argument lists t may be started with
  Strtol,       \* Strtol[s]: what strtol reads at the start of s, or 0
  ServersFiles, \* the contents of servers.txt, or NoFile
  NoFile,
  Address,      \* IP addresses with a port: [ip, port]
  Bad, Unended  \* lines that are no good or have no newline at the end

Option == {"-n", "-r", "-w"}

(* A line names a server and the number of its virtual nodes. *)
Line == [addr : Address, nodes : Nat \ {0}] \cup {Bad, Unended}

ASSUME StartAssumption ==
  /\ Required \in [Tool -> Nat \cup {SIZE_MAX}] /\ SIZE_MAX \notin Nat
  /\ Supported \in [Tool -> SUBSET Option]
  /\ \A s \in DOMAIN Strtol : Strtol[s] \in Int
  /\ \A t \in Tool : Argv[t] \subseteq Seq(DOMAIN Strtol)
  /\ ServersFiles \subseteq Seq(Line) \cup {NoFile}

VARIABLES
  tool, argv,
  given,   \* the arguments it was started with, a history
  pc,      \* "start", "parse", "nodes", "cap", then the tool's own, "exit"
  args,    \* [N, R, W]
  lines,   \* what get_nodes has not read yet
  nodes,   \* the address of each node it has added
  ring,    \* the address of each node of the client's ring
  status   \* "none", "OK", "FAIL" or "crash"

startVars == <<tool, argv, given, pc, args, lines, nodes, ring, status>>

Defaults == [N |-> 3, R |-> 2, W |-> 2]

StartInit ==
  /\ tool \in Tool
  /\ given \in Argv[tool] /\ argv = given
  /\ pc = "start" /\ status = "none"
  /\ args = Defaults
  /\ lines \in ServersFiles /\ nodes = <<>> /\ ring = <<>>

Exit(s) ==
  /\ pc' = "exit" /\ status' = s
  /\ UNCHANGED <<tool, argv, given, args, lines, nodes, ring>>

TooFew == Required[tool] # SIZE_MAX /\ Len(argv) < Required[tool]

(* The first check on the number of arguments. *)
CheckArgc ==
  /\ pc = "start"
  /\ \/ TooFew /\ Exit("FAIL")
     \/ /\ ~TooFew
        /\ pc' = "parse"
        /\ UNCHANGED <<tool, argv, given, args, lines, nodes, ring, status>>

AtOption == argv # <<>> /\ Head(argv) \in Option

Field(o) == CASE o = "-n" -> "N" [] o = "-r" -> "R" [] o = "-w" -> "W"

(* Variant with a bug: a value of 0 or a negative one is taken. *)
ParseOptionAnyNumber ==
  /\ pc = "parse" /\ AtOption
  /\ \/ Head(argv) \notin Supported[tool] /\ Exit("FAIL")
     \/ /\ Head(argv) \in Supported[tool] /\ Len(argv) > 1
        /\ args' = [args EXCEPT ![Field(Head(argv))] = Strtol[argv[2]]]
        /\ argv' = SubSeq(argv, 3, Len(argv))
        /\ UNCHANGED <<tool, given, pc, lines, nodes, ring, status>>

(***************************************************************************)
(* One option.  The test for a missing value looks at the wrong pointer,   *)
(* so strcmp meets the NULL at the end of argv; a value that is no         *)
(* positive number, "--" for one, is an error.                             *)
(***************************************************************************)
ParseOption ==
  /\ pc = "parse" /\ AtOption
  /\ \/ /\ Head(argv) \in Supported[tool] /\ Len(argv) = 1
        /\ Exit("crash")
     \/ /\ Head(argv) \in Supported[tool] => Len(argv) > 1 /\ Strtol[argv[2]] <= 0
        /\ Exit("FAIL")
     \/ /\ Head(argv) \in Supported[tool] /\ Len(argv) > 1 /\ Strtol[argv[2]] > 0
        /\ args' = [args EXCEPT ![Field(Head(argv))] = Strtol[argv[2]]]
        /\ argv' = SubSeq(argv, 3, Len(argv))
        /\ UNCHANGED <<tool, given, pc, lines, nodes, ring, status>>

(***************************************************************************)
(* check_bounds.  PUT_NEEDED & GET_NEEDED is 0, so the case of a tool with *)
(* both quorums is never taken and R is left unchecked.                    *)
(***************************************************************************)
CheckBounds ==
  IF "-w" \in Supported[tool] THEN args.N >= args.W
  ELSE IF "-r" \in Supported[tool] THEN args.N >= args.R
  ELSE TRUE

Mandatory == IF argv # <<>> /\ Head(argv) = "--" THEN Tail(argv) ELSE argv

CountFits == Required[tool] # SIZE_MAX => Len(Mandatory) = Required[tool]

(* The end of the options, and the check for exactly the arguments wanted. *)
ParseEnd ==
  /\ pc = "parse" /\ ~AtOption
  /\ \/ ~(CheckBounds /\ CountFits) /\ Exit("FAIL")
     \/ /\ CheckBounds /\ CountFits
        /\ argv' = Mandatory
        /\ pc' = "nodes"
        /\ UNCHANGED <<tool, given, args, lines, nodes, ring, status>>

-----------------------------------------------------------------------------
(* get_nodes, line by line.  A line it cannot read makes it return NULL,   *)
(* ring_init then returns an error that client_init ignores, and the ring  *)
(* stays empty.  After Unended it reads on behind the end for ever.        *)
Unreadable == lines = NoFile \/ (lines # <<>> /\ Head(lines) = Bad)

NodesFail ==
  /\ pc = "nodes"
  /\ Unreadable = TRUE
  /\ pc' = "cap"
  /\ UNCHANGED <<tool, argv, given, args, lines, nodes, ring, status>>

NodesLine ==
  /\ pc = "nodes"
  /\ lines # NoFile /\ lines # <<>>
  /\ Head(lines) # Bad /\ Head(lines) # Unended
  /\ nodes' = nodes \o [i \in 1 .. Head(lines).nodes |-> Head(lines).addr]
  /\ lines' = Tail(lines)
  /\ UNCHANGED <<tool, argv, given, pc, args, ring, status>>

NodesEnd ==
  /\ pc = "nodes"
  /\ lines = <<>>
  /\ ring' = nodes
  /\ pc' = "cap"
  /\ UNCHANGED <<tool, argv, given, args, lines, nodes, status>>

(* Variant with a bug: N is not cut down. *)
NoCap(next) ==
  /\ pc = "cap"
  /\ pc' = next
  /\ UNCHANGED <<tool, argv, given, args, lines, nodes, ring, status>>

(* N is cut down to the ring; W and R stay.  The tool goes on with its own *)
(* part, unless there is no socket to be had.                              *)
Cap(next) ==
  /\ pc = "cap"
  /\ \/ /\ args' = [args EXCEPT !.N = Min({@, Len(ring)})]
        /\ pc' = next
        /\ UNCHANGED <<tool, argv, given, lines, nodes, ring, status>>
     \/ Exit("FAIL")

Parsing == CheckArgc \/ ParseOption \/ ParseEnd \/ NodesFail \/ NodesLine \/ NodesEnd

-----------------------------------------------------------------------------
StartTypeOK ==
  /\ args \in [N : Nat, R : Nat \ {0}, W : Nat \ {0}]
  /\ nodes \in Seq(Address) /\ ring \in {<<>>, nodes}
  /\ status \in {"none", "OK", "FAIL", "crash"}

(* The options before the first mandatory argument: option, value, ...     *)
Options == Max({n \in 0 .. Len(given) \div 2 :
                  \A i \in 1 .. n : given[2 * i - 1] \in Option})

(* What the last o among them asks for, or the default. *)
Asked(o) ==
  LET all == {i \in 1 .. Options : given[2 * i - 1] = o}
  IN  IF all = {} THEN Defaults[Field(o)] ELSE Strtol[given[2 * Max(all)]]

Started == pc \notin {"start", "parse", "nodes", "cap", "exit"}

(***************************************************************************)
(* A tool that starts works with the options as the user gave them, the    *)
(* last of each, and with N no larger than its ring (args.c:58-106,        *)
(* client.c:63-64).                                                        *)
(***************************************************************************)
OptionsAsGiven ==
  Started => /\ args.R = Asked("-r") /\ args.W = Asked("-w")
             /\ args.N = Min({Asked("-n"), Len(ring)})

=============================================================================
