-------------------------- MODULE CommandsProofs --------------------------
(***************************************************************************)
(* Proofs about the command line tools: one that gets to its own part      *)
(* works with the options its user gave, and what cat and substr put and   *)
(* find prints is right for values the keys had while the tool ran.        *)
(***************************************************************************)
EXTENDS Commands, FiniteSetTheorems, SequenceTheorems, TLAPS

Arg == DOMAIN Strtol

(* What the last o among the first m options asks for, or the default. *)
LastAsked(m, o) ==
  LET all == {i \in 1 .. m : given[2 * i - 1] = o}
  IN  IF all = {} THEN Defaults[Field(o)] ELSE Strtol[given[2 * Max(all)]]

(* The first m pairs of arguments are options and have been read.          *)
ReadOptions(m) ==
  /\ 2 * m <= Len(given)
  /\ Len(argv) = Len(given) - 2 * m
  /\ \A i \in 1 .. Len(argv) : argv[i] = given[2 * m + i]
  /\ \A i \in 1 .. m : given[2 * i - 1] \in Option
  /\ \A o \in Option : args[Field(o)] = LastAsked(m, o)

StartTypes ==
  /\ tool \in Tool
  /\ given \in Seq(Arg) /\ argv \in Seq(Arg)
  /\ pc \in {"start", "parse", "nodes", "cap", "work", "recv", "print", "exit"}
  /\ args \in [N : Nat, R : Nat \ {0}, W : Nat \ {0}]
  /\ lines \in Seq(Line) \cup {NoFile}
  /\ nodes \in Seq(Address) /\ ring \in {<<>>, nodes}
  /\ pc \in {"start", "parse", "nodes"} => ring = <<>>
  /\ status \in {"none", "OK", "FAIL", "crash"}

OptionsInv ==
  /\ pc = "start" => ReadOptions(0)
  /\ pc = "parse" => \E m \in Nat : ReadOptions(m)
  /\ pc \in {"nodes", "cap"} => \A o \in Option : args[Field(o)] = Asked(o)
  /\ OptionsAsGiven

-----------------------------------------------------------------------------
LEMMA FieldIs ==
  /\ Field("-n") = "N" /\ Field("-r") = "R" /\ Field("-w") = "W"
  /\ \A o \in Option : Field(o) \in {"N", "R", "W"}
  /\ \A o, q \in Option : Field(o) = Field(q) => o = q
  <1>1. Field("-n") = "N" /\ Field("-r") = "R" /\ Field("-w") = "W"
    BY DEF Field
  <1>2. \A o \in Option : o = "-n" \/ o = "-r" \/ o = "-w"
    BY DEF Option
  <1>3. \A o \in Option : Field(o) \in {"N", "R", "W"}
    BY <1>1, <1>2
  <1>4. \A o, q \in Option : Field(o) = Field(q) => o = q
    <2>. SUFFICES ASSUME NEW o \in Option, NEW q \in Option, Field(o) = Field(q)
                  PROVE  o = q
      OBVIOUS
    <2>1. CASE o = "-n"
      BY <1>1, <1>2, <2>1
    <2>2. CASE o = "-r"
      BY <1>1, <1>2, <2>2
    <2>3. CASE o = "-w"
      BY <1>1, <1>2, <2>3
    <2>. QED BY <1>2, <2>1, <2>2, <2>3
  <1>. QED BY <1>1, <1>3, <1>4

LEMMA LargestOf ==
  ASSUME NEW S, NEW m \in S, S \subseteq Int, \A y \in S : m >= y
  PROVE  Max(S) = m
  <1>1. \E x \in S : \A y \in S : x >= y
    OBVIOUS
  <1>2. Max(S) \in S /\ \A y \in S : Max(S) >= y
    BY <1>1 DEF Max
  <1>3. Max(S) >= m /\ m >= Max(S) /\ Max(S) \in Int /\ m \in Int
    BY <1>2
  <1>. QED BY <1>3

LEMMA SmallestOf ==
  ASSUME NEW a \in Int, NEW b \in Int
  PROVE  Min({a, b}) = IF a <= b THEN a ELSE b
  <1>1. \E x \in {a, b} : \A y \in {a, b} : x <= y
    OBVIOUS
  <1>2. Min({a, b}) \in {a, b} /\ \A y \in {a, b} : Min({a, b}) <= y
    BY <1>1 DEF Min
  <1>. QED BY <1>2

(***************************************************************************)
(* The options: the last one read is the last of its kind.                 *)
(***************************************************************************)
LEMMA NextOption ==
  ASSUME StartTypes, NEW m \in Nat, ReadOptions(m), AtOption, Len(argv) > 1,
         Strtol[argv[2]] > 0,
         args' = [args EXCEPT ![Field(Head(argv))] = Strtol[argv[2]]],
         argv' = SubSeq(argv, 3, Len(argv)),
         given' = given
  PROVE  ReadOptions(m + 1)'
  <1>. DEFINE h == Head(argv)
  <1>1. /\ given \in Seq(Arg) /\ argv \in Seq(Arg) /\ Len(argv) \in Nat /\ Len(given) \in Nat
        /\ 2 * m <= Len(given) /\ Len(argv) = Len(given) - 2 * m
        /\ \A i \in 1 .. Len(argv) : argv[i] = given[2 * m + i]
        /\ \A i \in 1 .. m : given[2 * i - 1] \in Option
        /\ \A o \in Option : args[Field(o)] = LastAsked(m, o)
    BY DEF StartTypes, ReadOptions
  <1>2. h \in Option /\ h = given[2 * m + 1] /\ argv[2] = given[2 * m + 2]
    <2>1. 1 \in 1 .. Len(argv) /\ 2 \in 1 .. Len(argv)
      BY <1>1
    <2>2. h = argv[1] /\ h \in Option
      BY <1>1, <2>1 DEF AtOption
    <2>3. argv[1] = given[2 * m + 1] /\ argv[2] = given[2 * m + 2]
      BY <1>1, <2>1
    <2>. QED BY <2>2, <2>3
  <1>3. 2 * (m + 1) <= Len(given)
    BY <1>1
  <1>4. /\ Len(argv') = Len(argv) - 2
        /\ \A i \in 1 .. Len(argv') : argv'[i] = argv[i + 2]
    <2>1. \A i \in 3 .. Len(argv) : argv[i] \in Arg
      BY <1>1
    <2>2. LET s == SubSeq(argv, 3, Len(argv))
          IN  /\ Len(s) = IF 3 <= Len(argv) THEN Len(argv) - 3 + 1 ELSE 0
              /\ \A i \in 1 .. Len(argv) - 3 + 1 : s[i] = argv[3 + i - 1]
      BY <1>1, <2>1, SubSeqProperties
    <2>3. Len(argv') = Len(argv) - 2
      <3>1. Len(argv') = IF 3 <= Len(argv) THEN Len(argv) - 3 + 1 ELSE 0
        BY <2>2
      <3>2. Len(argv) \in Nat /\ Len(argv) > 1
        BY <1>1
      <3>3. \A a \in Nat : a > 1 => (IF 3 <= a THEN a - 3 + 1 ELSE 0) = a - 2
        OBVIOUS
      <3>. QED BY <3>1, <3>2, <3>3
    <2>4. \A i \in 1 .. Len(argv') : i \in 1 .. Len(argv) - 3 + 1 /\ 3 + i - 1 = i + 2
      BY <1>1, <2>3
    <2>. QED BY <2>2, <2>3, <2>4
  <1>5. \A i \in 1 .. Len(argv') : argv'[i] = given[2 * (m + 1) + i]
    <2>. SUFFICES ASSUME NEW i \in 1 .. Len(argv')
                  PROVE  argv'[i] = given[2 * (m + 1) + i]
      OBVIOUS
    <2>1. i + 2 \in 1 .. Len(argv) /\ 2 * m + (i + 2) = 2 * (m + 1) + i
      BY <1>1, <1>4
    <2>. QED BY <1>1, <1>4, <2>1
  <1>6. \A i \in 1 .. m + 1 : given[2 * i - 1] \in Option
    <2>1. \A i \in 1 .. m + 1 : i \in 1 .. m \/ (i = m + 1 /\ 2 * i - 1 = 2 * m + 1)
      OBVIOUS
    <2>. QED BY <1>1, <1>2, <2>1
  <1>7. \A o \in Option : args'[Field(o)] = LastAsked(m + 1, o)
    <2>. SUFFICES ASSUME NEW o \in Option
                  PROVE  args'[Field(o)] = LastAsked(m + 1, o)
      OBVIOUS
    <2>. DEFINE old == {i \in 1 .. m : given[2 * i - 1] = o}
                new == {i \in 1 .. m + 1 : given[2 * i - 1] = o}
    <2>1. 2 * (m + 1) - 1 = 2 * m + 1 /\ 2 * (m + 1) = 2 * m + 2
      OBVIOUS
    <2>2. CASE o = h
      <3>1. m + 1 \in new /\ \A y \in new : m + 1 >= y
        BY <1>2, <2>1, <2>2
      <3>2. Max(new) = m + 1
        <4>1. new \subseteq Int
          OBVIOUS
        <4>. HIDE DEF new
        <4>. QED BY <3>1, <4>1, LargestOf
      <3>3. LastAsked(m + 1, o) = Strtol[given[2 * (m + 1)]]
        BY <3>1, <3>2 DEF LastAsked
      <3>4. args'[Field(o)] = Strtol[argv[2]]
        BY <2>2, FieldIs DEF StartTypes
      <3>. QED BY <1>2, <2>1, <3>3, <3>4
    <2>3. CASE o # h
      <3>1. given[2 * (m + 1) - 1] # o
        BY <1>2, <2>1, <2>3
      <3>2. new = old
        <4>1. \A i \in 1 .. m + 1 : i \in 1 .. m \/ i = m + 1
          OBVIOUS
        <4>2. 1 .. m \subseteq 1 .. m + 1
          OBVIOUS
        <4>. QED BY <3>1, <4>1, <4>2
      <3>3. LastAsked(m + 1, o) = LastAsked(m, o)
        BY <3>2 DEF LastAsked
      <3>4. args'[Field(o)] = args[Field(o)]
        BY <1>2, <2>3, FieldIs DEF StartTypes
      <3>. QED BY <1>1, <3>3, <3>4
    <2>. QED BY <2>2, <2>3
  <1>8. Len(argv') = Len(given) - 2 * (m + 1)
    BY <1>1, <1>4
  <1>9. \A o : LastAsked(m + 1, o)' = LastAsked(m + 1, o)
    BY DEF LastAsked
  <1>. QED BY <1>3, <1>5, <1>6, <1>7, <1>8, <1>9 DEF ReadOptions

(* No option is left unread. *)
LEMMA AllOptionsRead ==
  ASSUME StartTypes, NEW m \in Nat, ReadOptions(m), ~AtOption
  PROVE  Options = m /\ \A o \in Option : args[Field(o)] = Asked(o)
  <1>. DEFINE S == {n \in 0 .. Len(given) \div 2 :
                      \A i \in 1 .. n : given[2 * i - 1] \in Option}
  <1>1. /\ given \in Seq(Arg) /\ argv \in Seq(Arg) /\ Len(argv) \in Nat /\ Len(given) \in Nat
        /\ 2 * m <= Len(given) /\ Len(argv) = Len(given) - 2 * m
        /\ \A i \in 1 .. Len(argv) : argv[i] = given[2 * m + i]
        /\ \A i \in 1 .. m : given[2 * i - 1] \in Option
    BY DEF StartTypes, ReadOptions
  <1>2. /\ Len(given) \div 2 \in Nat /\ m <= Len(given) \div 2
        /\ \A n \in 0 .. Len(given) \div 2 : 2 * n <= Len(given)
    <2>1. \A k \in Nat : /\ k \div 2 \in Nat /\ k % 2 \in {0, 1}
                         /\ k = 2 * (k \div 2) + (k % 2)
      OBVIOUS
    <2>. QED BY <1>1, <2>1
  <1>3. m \in S
    BY <1>1, <1>2
  <1>4. \A y \in S : m >= y
    <2>. SUFFICES ASSUME NEW y \in S, m < y
                  PROVE  FALSE
      BY <1>2
    <2>1. y \in Nat /\ 2 * y <= Len(given) /\ m + 1 \in 1 .. y
      BY <1>2
    <2>2. 1 \in 1 .. Len(argv) /\ 2 * (m + 1) - 1 = 2 * m + 1
      BY <1>1, <2>1
    <2>3. given[2 * m + 1] \in Option
      BY <2>1, <2>2
    <2>4. argv # <<>> /\ Head(argv) = given[2 * m + 1]
      BY <1>1, <2>2
    <2>. QED BY <2>3, <2>4 DEF AtOption
  <1>5. Options = m
    <2>1. S \subseteq Int
      BY <1>2
    <2>2. Options = Max(S)
      BY DEF Options
    <2>. HIDE DEF S
    <2>. QED BY <1>3, <1>4, <2>1, <2>2, LargestOf
  <1>6. \A o : Asked(o) = LastAsked(m, o)
    BY <1>5 DEF Asked, LastAsked
  <1>. QED BY <1>5, <1>6 DEF ReadOptions

-----------------------------------------------------------------------------
(* Everything after the start leaves its results alone.                    *)
StartKept == UNCHANGED <<tool, argv, given, args, lines, nodes, ring>>

Ending == pc' \in {"recv", "print", "exit"} /\ status' \in {"none", "OK", "FAIL", "crash"}

LEMMA ExitEnds ==
  ASSUME NEW s \in {"OK", "FAIL", "crash"}, Exit(s)
  PROVE  StartKept /\ pc' = "exit" /\ status' \in {"OK", "FAIL", "crash"}
  BY DEF Exit, StartKept

LEMMA PutEnds ==
  ASSUME NEW k, NEW v, NEW wild \in SUBSET {"crash"}, Put(k, v, wild)
  PROVE  StartKept /\ pc' = "exit" /\ status' \in {"OK", "FAIL", "crash"}
  <1>1. \E s \in {"OK", "FAIL", "crash"} : Exit(s)
    BY DEF Put
  <1>. QED BY <1>1, ExitEnds

LEMMA KeyToolSteps ==
  ASSUME KeyToolStep
  PROVE  /\ StartKept /\ pc = "work"
         /\ \/ UNCHANGED <<pc, status>>
            \/ pc' = "exit" /\ status' \in {"OK", "FAIL", "crash"}
  <1>. DEFINE Goal == /\ StartKept /\ pc = "work"
                      /\ \/ UNCHANGED <<pc, status>>
                         \/ pc' = "exit" /\ status' \in {"OK", "FAIL", "crash"}
  <1>1. \A b : Wild(b) \in SUBSET {"crash"}
    BY DEF Wild
  <1>2. CASE Refuse
    BY <1>2, ExitEnds DEF Refuse
  <1>3. CASE NoNodes
    BY <1>3, ExitEnds DEF NoNodes, Working
  <1>4. CASE ScenarioPut
    BY <1>4 DEF ScenarioPut, Working, startVars, StartKept
  <1>5. CASE Get
    <2>1. pc = "work"
      BY <1>5 DEF Get, Working
    <2>2. UNCHANGED startVars \/ Exit("FAIL") \/ Exit("crash")
      BY <1>5 DEF Get
    <2>. QED BY <2>1, <2>2, ExitEnds DEF startVars, StartKept
  <1>6. CASE ScenarioEnd
    BY <1>6, ExitEnds DEF ScenarioEnd, AllRead, Working
  <1>7. CASE PutArgument
    BY <1>7, PutEnds DEF PutArgument, AllRead, Working
  <1>8. CASE PrintValue
    BY <1>8, ExitEnds DEF PrintValue, AllRead, Working
  <1>9. CASE Cat
    BY <1>1, <1>9, PutEnds DEF Cat, AllRead, Working
  <1>10. CASE Find
    BY <1>10, ExitEnds DEF Find, AllRead, Working
  <1>11. CASE Substr
    <2>1. pc = "work" /\ \E v, p, l : Substring(v, p, l)
      BY <1>11 DEF Substr, AllRead, Working
    <2>2. PICK v, p, l : Substring(v, p, l)
      BY <2>1
    <2>3. \/ Exit("FAIL")
          \/ \E s : \E b : Put(argv[4], s, Wild(b))
      BY <2>2 DEF Substring
    <2>4. Exit("FAIL") => Goal
      BY <2>1, ExitEnds
    <2>5. ASSUME NEW s, NEW b, Put(argv[4], s, Wild(b))
          PROVE  Goal
      BY <1>1, <2>1, <2>5, PutEnds
    <2>. QED BY <2>3, <2>4, <2>5
  <1>. QED BY <1>2, <1>3, <1>4, <1>5, <1>6, <1>7, <1>8, <1>9, <1>10, <1>11 DEF KeyToolStep

LEMMA ListSteps ==
  ASSUME ListStep
  PROVE  /\ StartKept /\ pc \in {"work", "recv", "print"}
         /\ \/ pc' \in {"recv", "print"} /\ status' = status
            \/ pc' = "exit" /\ status' = "OK"
  <1>1. CASE Ping
    BY <1>1 DEF Ping, StartKept
  <1>2. CASE Recv
    BY <1>2 DEF Recv, StartKept
  <1>3. CASE RecvTimeout
    BY <1>3 DEF RecvTimeout, StartKept
  <1>4. CASE PrintNodes
    BY <1>4 DEF PrintNodes, Exit, StartKept
  <1>. QED BY <1>1, <1>2, <1>3, <1>4 DEF ListStep

LEMMA AroundSteps == Around => UNCHANGED startVars
  BY DEF Around, OtherPut, Answer, Pong, Duplicate, ServerStep

(* The steps that are not of the start, in one formula.                    *)
Later ==
  /\ StartKept
  /\ \/ UNCHANGED <<pc, status>>
     \/ /\ pc \in {"work", "recv", "print"}
        /\ \/ pc' \in {"recv", "print"} /\ status' = status
           \/ pc' = "exit" /\ status' \in {"OK", "FAIL", "crash"}

LEMMA StepKinds ==
  ASSUME [Next]_vars
  PROVE  Parsing \/ Cap("work") \/ Later
  <1>1. CASE KeyToolStep
    BY <1>1, KeyToolSteps DEF Later
  <1>2. CASE ListStep
    BY <1>2, ListSteps DEF Later
  <1>3. CASE Around
    BY <1>3, AroundSteps DEF startVars, Later, StartKept
  <1>4. CASE UNCHANGED vars
    BY <1>4 DEF vars, startVars, Later, StartKept
  <1>. QED BY <1>1, <1>2, <1>3, <1>4 DEF Next, Run

LEMMA NodesTypes ==
  ASSUME StartTypes, NodesLine
  PROVE  nodes' \in Seq(Address) /\ lines' \in Seq(Line)
  <1>. DEFINE l == Head(lines)
  <1>1. lines \in Seq(Line) /\ lines # <<>> /\ l \notin {Bad, Unended}
    BY DEF StartTypes, NodesLine
  <1>2. l \in Line /\ Tail(lines) \in Seq(Line)
    BY <1>1
  <1>. HIDE DEF l
  <1>3. l \in [addr : Address, nodes : Nat \ {0}]
    BY <1>1, <1>2 DEF Line
  <1>4. l.addr \in Address /\ l.nodes \in Nat
    BY <1>3
  <1>5. [i \in 1 .. l.nodes |-> l.addr] \in Seq(Address)
    BY <1>4
  <1>6. nodes' = nodes \o [i \in 1 .. l.nodes |-> l.addr] /\ lines' = Tail(lines)
    BY DEF NodesLine, l
  <1>. QED BY <1>2, <1>5, <1>6 DEF StartTypes

LEMMA InitStart == Init => StartTypes /\ OptionsInv
  <1>. SUFFICES ASSUME Init
                PROVE  StartTypes /\ OptionsInv
    OBVIOUS
  <1>1. /\ tool \in Tool /\ given \in Argv[tool] /\ argv = given /\ pc = "start"
        /\ status = "none" /\ args = Defaults /\ lines \in ServersFiles /\ nodes = <<>> /\ ring = <<>>
    BY DEF Init, StartInit
  <1>2. given \in Seq(Arg) /\ lines \in Seq(Line) \cup {NoFile}
    BY <1>1, StartAssumption DEF Arg
  <1>3. args \in [N : Nat, R : Nat \ {0}, W : Nat \ {0}]
    BY <1>1 DEF Defaults
  <1>4. StartTypes
    BY <1>1, <1>2, <1>3 DEF StartTypes
  <1>5. ReadOptions(0)
    <2>1. 1 .. 0 = {} /\ 2 * 0 = 0 /\ \A i \in Nat : 0 + i = i
      OBVIOUS
    <2>2. \A o : LastAsked(0, o) = Defaults[Field(o)]
      BY <2>1 DEF LastAsked
    <2>3. Len(given) \in Nat /\ Len(given) - 0 = Len(given)
      BY <1>2
    <2>. QED BY <1>1, <2>1, <2>2, <2>3 DEF ReadOptions
  <1>. QED BY <1>1, <1>4, <1>5 DEF OptionsInv, OptionsAsGiven, Started

LEMMA StartTypesKept == StartTypes /\ [Next]_vars => StartTypes'
  <1>. SUFFICES ASSUME StartTypes, [Next]_vars
                PROVE  StartTypes'
    OBVIOUS
  <1>1. CASE Later
    BY <1>1 DEF Later, StartKept, StartTypes
  <1>2. ASSUME NEW s \in {"OK", "FAIL", "crash"}, Exit(s)
        PROVE  StartTypes'
    BY <1>2 DEF Exit, StartTypes
  <1>3. CASE Cap("work")
    <2>1. Len(ring) \in Nat /\ args.N \in Nat
      BY DEF StartTypes
    <2>2. Min({args.N, Len(ring)}) \in Nat
      BY <2>1, SmallestOf
    <2>3. CASE args' = [args EXCEPT !.N = Min({@, Len(ring)})] /\ pc' = "work"
               /\ UNCHANGED <<tool, argv, given, lines, nodes, ring, status>>
      BY <2>2, <2>3 DEF StartTypes
    <2>. QED BY <1>2, <1>3, <2>3 DEF Cap
  <1>4. CASE CheckArgc
    <2>1. CASE Exit("FAIL")
      BY <1>2, <2>1
    <2>2. CASE pc = "start" /\ pc' = "parse" /\ UNCHANGED <<tool, argv, given, args, lines, nodes, ring, status>>
      BY <2>2 DEF StartTypes
    <2>. QED BY <1>4, <2>1, <2>2 DEF CheckArgc
  <1>5. CASE ParseOption
    <2>1. CASE Exit("FAIL") \/ Exit("crash")
      BY <1>2, <2>1
    <2>2. CASE /\ AtOption /\ Len(argv) > 1 /\ Strtol[argv[2]] > 0
               /\ args' = [args EXCEPT ![Field(Head(argv))] = Strtol[argv[2]]]
               /\ argv' = SubSeq(argv, 3, Len(argv))
               /\ UNCHANGED <<tool, given, pc, lines, nodes, ring, status>>
      <3>1. argv[2] \in Arg /\ Field(Head(argv)) \in {"N", "R", "W"}
        <4>1. 2 \in 1 .. Len(argv)
          BY <2>2 DEF StartTypes
        <4>. QED BY <2>2, <4>1, FieldIs DEF AtOption, StartTypes
      <3>2. Strtol[argv[2]] \in Nat \ {0}
        BY <2>2, <3>1, StartAssumption DEF Arg
      <3>3. args' \in [N : Nat, R : Nat \ {0}, W : Nat \ {0}]
        BY <2>2, <3>1, <3>2 DEF StartTypes
      <3>4. argv' \in Seq(Arg)
        <4>1. argv \in Seq(Arg) /\ \A i \in 3 .. Len(argv) : argv[i] \in Arg
          BY DEF StartTypes
        <4>. QED BY <2>2, <4>1, SubSeqProperties
      <3>. QED BY <2>2, <3>3, <3>4 DEF StartTypes
    <2>. QED BY <1>5, <2>1, <2>2 DEF ParseOption
  <1>6. CASE ParseEnd
    <2>1. CASE Exit("FAIL")
      BY <1>2, <2>1
    <2>2. CASE /\ argv' = Mandatory /\ pc = "parse" /\ pc' = "nodes"
               /\ UNCHANGED <<tool, given, args, lines, nodes, ring, status>>
      <3>1. Mandatory \in Seq(Arg)
        BY DEF Mandatory, StartTypes
      <3>. QED BY <2>2, <3>1 DEF StartTypes
    <2>. QED BY <1>6, <2>1, <2>2 DEF ParseEnd
  <1>7. CASE NodesFail
    BY <1>7 DEF NodesFail, StartTypes
  <1>8. CASE NodesLine
    BY <1>8, NodesTypes DEF NodesLine, StartTypes
  <1>9. CASE NodesEnd
    BY <1>9 DEF NodesEnd, StartTypes
  <1>. QED BY <1>1, <1>3, <1>4, <1>5, <1>6, <1>7, <1>8, <1>9, StepKinds DEF Parsing

LEMMA OptionsKept == StartTypes /\ OptionsInv /\ [Next]_vars => OptionsInv'
  <1>. SUFFICES ASSUME StartTypes, OptionsInv, [Next]_vars
                PROVE  OptionsInv'
    OBVIOUS
  <1>1. \A o : given' = given => Asked(o)' = Asked(o)
    BY DEF Asked, Options
  <1>2. CASE Later
    <2>1. CASE UNCHANGED <<given, args, argv, ring, pc>>
      <3>1. \A m, o : LastAsked(m, o)' = LastAsked(m, o)
        BY <2>1 DEF LastAsked
      <3>2. \A m : ReadOptions(m)' = ReadOptions(m)
        BY <2>1, <3>1 DEF ReadOptions
      <3>. QED BY <1>1, <2>1, <3>2 DEF OptionsInv, OptionsAsGiven, Started
    <2>2. CASE pc' = pc
      BY <1>2, <2>1, <2>2 DEF Later, StartKept
    <2>3. CASE pc \in {"work", "recv", "print"} /\ pc' \in {"recv", "print", "exit"}
      BY <1>1, <1>2, <2>3 DEF Later, StartKept, OptionsInv, OptionsAsGiven, Started
    <2>. QED BY <1>2, <2>2, <2>3 DEF Later
  <1>3. ASSUME NEW s, Exit(s)
        PROVE  OptionsInv'
    BY <1>3 DEF Exit, OptionsInv, OptionsAsGiven, Started
  <1>4. CASE Cap("work")
    <2>1. CASE /\ pc = "cap" /\ args' = [args EXCEPT !.N = Min({@, Len(ring)})] /\ pc' = "work"
               /\ UNCHANGED <<given, ring>>
      <3>1. args["N"] = Asked("-n") /\ args["R"] = Asked("-r") /\ args["W"] = Asked("-w")
        BY <2>1, FieldIs DEF OptionsInv, Option
      <3>2. /\ args'.N = Min({args.N, Len(ring)}) /\ args'.R = args.R /\ args'.W = args.W
            /\ args["N"] = args.N /\ args["R"] = args.R /\ args["W"] = args.W
        BY <2>1 DEF StartTypes
      <3>. QED BY <1>1, <2>1, <3>1, <3>2 DEF OptionsInv, OptionsAsGiven
    <2>. QED BY <1>3, <1>4, <2>1 DEF Cap
  <1>5. CASE CheckArgc
    <2>1. CASE pc = "start" /\ pc' = "parse" /\ UNCHANGED <<argv, given, args>>
      <3>1. ReadOptions(0)' = ReadOptions(0)
        BY <2>1 DEF ReadOptions, LastAsked
      <3>. QED BY <2>1, <3>1 DEF OptionsInv, OptionsAsGiven, Started
    <2>. QED BY <1>3, <1>5, <2>1 DEF CheckArgc
  <1>6. CASE ParseOption
    <2>1. CASE /\ pc = "parse" /\ AtOption /\ Len(argv) > 1 /\ Strtol[argv[2]] > 0
               /\ args' = [args EXCEPT ![Field(Head(argv))] = Strtol[argv[2]]]
               /\ argv' = SubSeq(argv, 3, Len(argv))
               /\ UNCHANGED <<given, pc>>
      <3>1. PICK m \in Nat : ReadOptions(m)
        BY <2>1 DEF OptionsInv
      <3>2. ReadOptions(m + 1)'
        BY <2>1, <3>1, NextOption
      <3>3. m + 1 \in Nat
        OBVIOUS
      <3>4. (\E n \in Nat : ReadOptions(n))'
        BY <3>2, <3>3
      <3>. QED BY <2>1, <3>4 DEF OptionsInv, OptionsAsGiven, Started
    <2>. QED BY <1>3, <1>6, <2>1 DEF ParseOption
  <1>7. CASE ParseEnd
    <2>1. CASE pc = "parse" /\ ~AtOption /\ pc' = "nodes" /\ UNCHANGED <<given, args>>
      <3>1. PICK m \in Nat : ReadOptions(m)
        BY <2>1 DEF OptionsInv
      <3>2. \A o \in Option : args[Field(o)] = Asked(o)
        BY <2>1, <3>1, AllOptionsRead
      <3>. QED BY <1>1, <2>1, <3>2 DEF OptionsInv, OptionsAsGiven, Started
    <2>. QED BY <1>3, <1>7, <2>1 DEF ParseEnd
  <1>8. CASE NodesFail \/ NodesLine \/ NodesEnd
    <2>1. pc = "nodes" /\ pc' \in {"nodes", "cap"} /\ UNCHANGED <<given, args>>
      BY <1>8 DEF NodesFail, NodesLine, NodesEnd
    <2>. QED BY <1>1, <2>1 DEF OptionsInv, OptionsAsGiven, Started
  <1>. QED BY <1>2, <1>4, <1>5, <1>6, <1>7, <1>8, StepKinds DEF Parsing

(***************************************************************************)
(* A tool that starts works with the options as the user gave them, the    *)
(* last of each, and with N no larger than its ring (args.c:58-106,        *)
(* client.c:63-64), however many options there are.                        *)
(***************************************************************************)
THEOREM OptionsCorrect == Spec => []OptionsAsGiven
  <1>1. Spec => [](StartTypes /\ OptionsInv)
    <2>1. StartTypes /\ OptionsInv /\ [Next]_vars => (StartTypes /\ OptionsInv)'
      BY StartTypesKept, OptionsKept
    <2>. QED BY <2>1, InitStart, PTL DEF Spec
  <1>2. StartTypes /\ OptionsInv => OptionsAsGiven
    BY DEF OptionsInv
  <1>. QED BY <1>1, <1>2, PTL

-----------------------------------------------------------------------------
(* What the tools do with the values they get. *)

(* The start of the tool has ended well. *)
Settled == pc \in {"nodes", "cap", "work", "recv", "print"} \/ status = "OK"

EnoughArguments == Required[tool] # SIZE_MAX => Len(argv) = Required[tool]

ArgsInv ==
  /\ pc # "exit" => status = "none"
  /\ Settled => argv = Given /\ EnoughArguments

(* Between the first argument behind the options and the check of their    *)
(* number only "--" is dropped.                                            *)
LEMMA ArgumentsLeft ==
  ASSUME StartTypes, NEW m \in Nat, ReadOptions(m), ~AtOption
  PROVE  Mandatory = Given
  <1>1. Options = m
    BY AllOptionsRead
  <1>2. /\ given \in Seq(Arg) /\ argv \in Seq(Arg) /\ Len(argv) \in Nat /\ Len(given) \in Nat
        /\ 2 * m <= Len(given) /\ Len(argv) = Len(given) - 2 * m
        /\ \A i \in 1 .. Len(argv) : argv[i] = given[2 * m + i]
    BY DEF StartTypes, ReadOptions
  <1>. DEFINE rest == SubSeq(given, 2 * m + 1, Len(given))
  <1>3. /\ rest \in Seq(Arg) /\ Len(rest) = Len(argv)
        /\ \A i \in 1 .. Len(argv) : rest[i] = given[2 * m + i]
    <2>1. 2 * m + 1 \in Int /\ \A i \in 2 * m + 1 .. Len(given) : i \in 1 .. Len(given)
      BY <1>2
    <2>2. /\ rest \in Seq(Arg)
          /\ Len(rest) = IF 2 * m + 1 <= Len(given) THEN Len(given) - (2 * m + 1) + 1 ELSE 0
          /\ \A i \in 1 .. Len(given) - (2 * m + 1) + 1 : rest[i] = given[(2 * m + 1) + i - 1]
      BY <1>2, <2>1, SubSeqProperties
    <2>3. \A g, d \in Nat : d <= g =>
            /\ (IF d + 1 <= g THEN g - (d + 1) + 1 ELSE 0) = g - d
            /\ g - (d + 1) + 1 = g - d
            /\ \A i \in Nat : (d + 1) + i - 1 = d + i
      OBVIOUS
    <2>4. 2 * m \in Nat /\ \A i \in 1 .. Len(argv) : i \in Nat
      BY <1>2
    <2>. HIDE DEF rest
    <2>. QED BY <1>2, <2>2, <2>3, <2>4
  <1>. HIDE DEF rest
  <1>4. rest = argv
    BY <1>2, <1>3, SeqEqual
  <1>. QED BY <1>1, <1>4 DEF Given, Mandatory, rest

LEMMA ArgsInit == Init => ArgsInv
  BY DEF Init, StartInit, ArgsInv, Settled

LEMMA ArgsKept == StartTypes /\ OptionsInv /\ ArgsInv /\ [Next]_vars => ArgsInv'
  <1>. SUFFICES ASSUME StartTypes, OptionsInv, ArgsInv, [Next]_vars
                PROVE  ArgsInv'
    OBVIOUS
  <1>1. given' = given => Given' = Given
    BY DEF Given, Options
  <1>2. /\ UNCHANGED <<tool, argv>> => EnoughArguments' = EnoughArguments
        /\ pc' = "exit" /\ status' # "OK" => ArgsInv'
    BY DEF EnoughArguments, ArgsInv, Settled
  <1>3. ASSUME NEW s \in {"FAIL", "crash"}, Exit(s)
        PROVE  ArgsInv'
    BY <1>2, <1>3 DEF Exit
  <1>4. CASE CheckArgc
    <2>1. CASE pc = "start" /\ pc' = "parse" /\ status' = status
      BY <2>1 DEF ArgsInv, Settled
    <2>. QED BY <1>3, <1>4, <2>1 DEF CheckArgc
  <1>5. CASE ParseOption
    <2>1. CASE pc = "parse" /\ UNCHANGED <<pc, status>>
      BY <2>1 DEF ArgsInv, Settled
    <2>. QED BY <1>3, <1>5, <2>1 DEF ParseOption
  <1>6. CASE ParseEnd
    <2>1. CASE /\ pc = "parse" /\ ~AtOption /\ CountFits /\ argv' = Mandatory /\ pc' = "nodes"
               /\ UNCHANGED <<tool, given, status>>
      <3>1. PICK m \in Nat : ReadOptions(m)
        BY <2>1 DEF OptionsInv
      <3>2. argv' = Given'
        BY <1>1, <2>1, <3>1, ArgumentsLeft
      <3>3. EnoughArguments'
        BY <2>1 DEF CountFits, EnoughArguments
      <3>. QED BY <2>1, <3>2, <3>3 DEF ArgsInv
    <2>. QED BY <1>3, <1>6, <2>1 DEF ParseEnd
  <1>7. CASE NodesFail \/ NodesLine \/ NodesEnd
    <2>1. pc = "nodes" /\ pc' \in {"nodes", "cap"} /\ UNCHANGED <<tool, given, argv, status>>
      BY <1>7 DEF NodesFail, NodesLine, NodesEnd
    <2>. QED BY <1>1, <1>2, <2>1 DEF ArgsInv, Settled
  <1>8. CASE Cap("work")
    <2>1. CASE pc = "cap" /\ pc' = "work" /\ UNCHANGED <<tool, given, argv, status>>
      BY <1>1, <1>2, <2>1 DEF ArgsInv, Settled
    <2>. QED BY <1>3, <1>8, <2>1 DEF Cap
  <1>9. CASE Later
    BY <1>1, <1>2, <1>9 DEF Later, StartKept, ArgsInv, Settled
  <1>. QED BY <1>4, <1>5, <1>6, <1>7, <1>8, <1>9, StepKinds DEF Parsing

-----------------------------------------------------------------------------
(* The values of the keys, and those a tool has got. *)
StoreTypes ==
  /\ DOMAIN store = Key /\ DOMAIN seen = Key
  /\ \A k \in Key : store[k] # NULL => store[k] \in seen[k]
  /\ puts \in Nat

Got == (UNION {Readable(k) : k \in Key}) \cup {NULL}

(* The i-th value was one of the i-th key; scenario_1 may have got none.   *)
OfItsKey(i) ==
  IF tool = "scenario" THEN reads[i] = NULL \/ \E k \in Key : reads[i] \in Readable(k)
  ELSE Inputs[i] \in Key /\ reads[i] \in Readable(Inputs[i])

Joining == tool \in {"cat", "find", "substr"}

ReadsInv ==
  /\ StoreTypes
  /\ reads \in Seq(Got)
  /\ tool \notin KeyTools \/ pc \in {"start", "parse", "nodes", "cap"} => reads = <<>>
  /\ \A i \in DOMAIN reads : OfItsKey(i)
  /\ Joining => reads \in Seq(Seq(Char))
  /\ Joining /\ pc # "exit" => \A k \in Key : seen[k] \subseteq Seq(Char)

(* Values are put, none is forgotten. *)
Grown == UNCHANGED <<store, seen>> \/ \E k, v : Current(k, v)

LEMMA GrownKeeps ==
  ASSUME StoreTypes, Grown, puts' \in Nat
  PROVE  StoreTypes' /\ \A k \in Key : seen[k] \subseteq seen'[k]
  <1>1. CASE UNCHANGED <<store, seen>>
    BY <1>1 DEF StoreTypes
  <1>2. ASSUME NEW k, NEW v, Current(k, v)
        PROVE  StoreTypes' /\ \A j \in Key : seen[j] \subseteq seen'[j]
    <2>1. /\ store' = [store EXCEPT ![k] = v] /\ seen' = [seen EXCEPT ![k] = @ \cup {v}]
          /\ DOMAIN store = Key /\ DOMAIN seen = Key
      BY <1>2 DEF Current, StoreTypes
    <2>2. DOMAIN store' = Key /\ DOMAIN seen' = Key
      BY <2>1
    <2>3. \A j \in Key : /\ store'[j] = IF j = k THEN v ELSE store[j]
                         /\ seen'[j] = IF j = k THEN seen[j] \cup {v} ELSE seen[j]
      BY <2>1
    <2>4. \A j \in Key : seen[j] \subseteq seen'[j]
      BY <2>3
    <2>5. \A j \in Key : store'[j] # NULL => store'[j] \in seen'[j]
      BY <2>3 DEF StoreTypes
    <2>. QED BY <2>2, <2>4, <2>5 DEF StoreTypes
  <1>. QED BY <1>1, <1>2 DEF Grown

(* What can be got can still be got once more has been put.                *)
LEMMA ReadableGrows ==
  ASSUME UNCHANGED <<tool, args>>
  PROVE  /\ Meet' = Meet
         /\ \A k \in Key : seen[k] \subseteq seen'[k] => Readable(k) \subseteq Readable(k)'
         /\ \A k \in Key : seen'[k] = seen[k] => Readable(k)' = Readable(k)
  <1>1. Meet' = Meet
    BY DEF Meet
  <1>. QED BY <1>1 DEF Readable

(* A get returns a value that can be read, and cat, find and substr read   *)
(* characters.                                                             *)
LEMMA ObtainableReads ==
  ASSUME StoreTypes, NEW k \in Key
  PROVE  /\ Obtainable(k) \subseteq Readable(k)
         /\ seen[k] \subseteq Seq(Char) => Readable(k) \subseteq Seq(Char)
  <1>1. {store[k]} \ {NULL} \subseteq seen[k]
    BY DEF StoreTypes
  <1>2. ToSet(Before[k]) \subseteq Seq(Char)
    <2>1. Before[k] \in Seq(Seq(Char))
      BY ToolsAssumption
    <2>. QED BY <2>1 DEF ToSet
  <1>. QED BY <1>1, <1>2 DEF Obtainable, Readable

LEMMA ReadsOfGrown ==
  ASSUME ReadsInv, Grown, puts' \in Nat, UNCHANGED <<tool, argv, args, reads>>,
         pc' \in {"start", "parse", "nodes", "cap"} => pc \in {"start", "parse", "nodes", "cap"},
         Joining /\ pc' # "exit" => \A k \in Key : seen'[k] \subseteq Seq(Char)
  PROVE  ReadsInv'
  <1>1. StoreTypes' /\ \A k \in Key : seen[k] \subseteq seen'[k]
    BY GrownKeeps DEF ReadsInv
  <1>2. reads' \in Seq(Got)'
    <2>1. Got \subseteq Got'
      BY <1>1, ReadableGrows DEF Got
    <2>2. reads \in Seq(Got)
      BY DEF ReadsInv
    <2>. HIDE DEF Got
    <2>3. reads \in Seq(Got')
      BY <2>1, <2>2, SeqMonotonic
    <2>. QED BY <2>3
  <1>3. Inputs' = Inputs /\ Joining' = Joining
    BY DEF Inputs, Joining
  <1>4. \A i \in DOMAIN reads' : OfItsKey(i)'
    <2>. SUFFICES ASSUME NEW i \in DOMAIN reads
                  PROVE  OfItsKey(i)'
      OBVIOUS
    <2>1. OfItsKey(i)
      BY DEF ReadsInv
    <2>2. reads'[i] = reads[i] /\ tool' = tool
      OBVIOUS
    <2>. QED BY <1>1, <1>3, <2>1, <2>2, ReadableGrows DEF OfItsKey
  <1>. QED BY <1>1, <1>2, <1>3, <1>4 DEF ReadsInv

LEMMA ReadsInit == Init => ReadsInv
  <1>. SUFFICES ASSUME Init
                PROVE  ReadsInv
    OBVIOUS
  <1>1. /\ store = [k \in Key |-> IF Before[k] = <<>> THEN NULL ELSE Last(Before[k])]
        /\ seen = [k \in Key |-> {store[k]} \ {NULL}] /\ puts = 0 /\ reads = <<>>
    BY DEF Init, ToolsInit
  <1>2. DOMAIN reads = {} /\ \A S : reads \in Seq(S)
    BY <1>1
  <1>3. \A k \in Key : store[k] # NULL => store[k] \in seen[k]
    BY <1>1
  <1>4. ASSUME NEW k \in Key
        PROVE  seen[k] \subseteq Seq(Char)
    <2>1. /\ Before[k] \in Seq(Seq(Char))
          /\ seen[k] = {IF Before[k] = <<>> THEN NULL ELSE Last(Before[k])} \ {NULL}
      BY <1>1, ToolsAssumption
    <2>2. Before[k] # <<>> => Last(Before[k]) \in Seq(Char)
      <3>1. Before[k] # <<>> => Len(Before[k]) \in 1 .. Len(Before[k])
        BY <2>1
      <3>. QED BY <2>1, <3>1, ElementOfSeq DEF Last
    <2>. QED BY <2>1, <2>2
  <1>. QED BY <1>1, <1>2, <1>3, <1>4 DEF ReadsInv, StoreTypes

(* One more value. *)
LEMMA OneMore ==
  ASSUME ReadsInv, NEW v \in Got, reads' = Append(reads, v),
         UNCHANGED <<tool, argv, args, pc, store, seen, puts>>,
         IF tool = "scenario" THEN v = NULL \/ \E k \in Key : v \in Readable(k)
         ELSE /\ Inputs[Len(reads) + 1] \in Key /\ v \in Readable(Inputs[Len(reads) + 1]),
         tool \in KeyTools, pc = "work"
  PROVE  ReadsInv'
  <1>0. reads \in Seq(Got)
    BY DEF ReadsInv
  <1>len. PICK n \in Nat : n = Len(reads) + 1
    BY <1>0
  <1>1. /\ reads \in Seq(Got) /\ n \in Nat /\ DOMAIN reads' = 1 .. n /\ DOMAIN reads = 1 .. n - 1
        /\ \A i \in 1 .. n - 1 : reads'[i] = reads[i]
        /\ reads'[n] = v /\ reads' \in Seq(Got)
    BY <1>0, <1>len
  <1>R. \A k \in Key : Readable(k)' = Readable(k)
    BY ReadableGrows
  <1>2. Got' = Got /\ Inputs' = Inputs /\ Joining' = Joining /\ StoreTypes'
    BY <1>R DEF Got, Inputs, Joining, ReadsInv, StoreTypes
  <1>3. \A i \in 1 .. n - 1 : OfItsKey(i)'
    <2>1. \A i \in 1 .. n - 1 : OfItsKey(i)
      BY <1>1 DEF ReadsInv
    <2>. QED BY <1>R, <1>1, <1>2, <2>1 DEF OfItsKey
  <1>4. OfItsKey(n)'
    BY <1>R, <1>len, <1>1, <1>2 DEF OfItsKey
  <1>5. \A i \in 1 .. n : i \in 1 .. n - 1 \/ i = n
    BY <1>1
  <1>6. \A i \in DOMAIN reads' : OfItsKey(i)'
    BY <1>1, <1>3, <1>4, <1>5
  <1>7. Joining' => reads' \in Seq(Seq(Char))
    <2>. SUFFICES ASSUME Joining
                  PROVE  reads' \in Seq(Seq(Char))
      BY <1>2
    <2>1. reads \in Seq(Seq(Char)) /\ tool # "scenario" /\ \A k \in Key : seen[k] \subseteq Seq(Char)
      BY DEF ReadsInv, Joining
    <2>2. v \in Seq(Char)
      BY <2>1, ObtainableReads DEF Joining, ReadsInv
    <2>. QED BY <2>1, <2>2
  <1>. QED BY <1>1, <1>2, <1>6, <1>7 DEF ReadsInv

LEMMA GetKeeps ==
  ASSUME ReadsInv, Get
  PROVE  ReadsInv'
  <1>. DEFINE k == Inputs[Len(reads) + 1]
  <1>1. tool \in KeyTools /\ pc = "work" /\ UNCHANGED <<store, puts, seen>>
    BY DEF Get, Working
  <1>2. CASE /\ k \in Key /\ UNCHANGED startVars
             /\ \E v \in Obtainable(k) : reads' = Append(reads, v)
    <2>. PICK v \in Obtainable(k) : reads' = Append(reads, v)
      BY <1>2
    <2>1. v \in Readable(k)
      BY <1>2, ObtainableReads DEF ReadsInv
    <2>2. v \in Got
      BY <1>2, <2>1 DEF Got
    <2>3. UNCHANGED <<tool, argv, args, pc>>
      BY <1>2 DEF startVars
    <2>. HIDE DEF Got
    <2>. QED BY <1>1, <1>2, <2>1, <2>2, <2>3, OneMore
  <1>3. CASE tool = "scenario" /\ reads' = Append(reads, NULL) /\ UNCHANGED startVars
    <2>1. NULL \in Got
      BY DEF Got
    <2>2. UNCHANGED <<tool, argv, args, pc>>
      BY <1>3 DEF startVars
    <2>. QED BY <1>1, <1>3, <2>1, <2>2, OneMore
  <1>4. CASE UNCHANGED reads /\ \E s : Exit(s)
    <2>1. Grown /\ UNCHANGED <<tool, argv, args>> /\ pc' = "exit"
      BY <1>1, <1>4 DEF Grown, Exit
    <2>2. puts' \in Nat
      BY <1>1 DEF ReadsInv, StoreTypes
    <2>. QED BY <1>4, <2>1, <2>2, ReadsOfGrown
  <1>. QED BY <1>2, <1>3, <1>4 DEF Get

LEMMA OtherSteps ==
  ASSUME KeyToolStep, ~Get
  PROVE  /\ UNCHANGED <<tool, argv, args, reads>> /\ Grown /\ puts' \in {puts, puts + 1}
         /\ pc' = "exit" \/ (pc' = pc /\ tool = "scenario")
  <1>. DEFINE Goal == /\ UNCHANGED <<tool, argv, args, reads>> /\ Grown /\ puts' \in {puts, puts + 1}
                      /\ pc' = "exit" \/ (pc' = pc /\ tool = "scenario")
  <1>1. ASSUME NEW s, Exit(s), UNCHANGED <<store, reads, puts, seen>>
        PROVE  Goal
    BY <1>1 DEF Exit, Grown
  <1>2. ASSUME NEW k, NEW v, NEW wild, Put(k, v, wild)
        PROVE  Goal
    <2>1. \E s : Exit(s)
      BY <1>2 DEF Put
    <2>2. Grown /\ UNCHANGED <<reads, puts>>
      BY <1>2 DEF Put, Grown
    <2>. QED BY <2>1, <2>2 DEF Exit
  <1>3. CASE Refuse \/ NoNodes \/ ScenarioEnd
    BY <1>1, <1>3 DEF Refuse, NoNodes, ScenarioEnd, toolsVars
  <1>4. CASE PrintValue \/ Find
    BY <1>1, <1>4 DEF PrintValue, Find
  <1>5. CASE PutArgument \/ Cat
    BY <1>2, <1>5 DEF PutArgument, Cat
  <1>6. CASE Substr
    <2>1. PICK v, p, l : Substring(v, p, l)
      BY <1>6 DEF Substr
    <2>. QED BY <2>1, <1>1, <1>2 DEF Substring, toolsVars
  <1>7. CASE ScenarioPut
    <2>1. Grown
      BY <1>7 DEF ScenarioPut, Grown
    <2>. QED BY <1>7, <2>1 DEF ScenarioPut, startVars
  <1>. QED BY <1>3, <1>4, <1>5, <1>6, <1>7 DEF KeyToolStep

(* The steps as the tools' values see them. *)
ToolKinds ==
  \/ (Parsing \/ Cap("work")) /\ UNCHANGED toolsVars
  \/ KeyToolStep
  \/ (\E k \in Key, v \in Values : OtherPut(k, v))
  \/ ListStep /\ UNCHANGED toolsVars
  \/ UNCHANGED <<startVars, toolsVars>>

LEMMA NextOfTools == [Next]_vars => ToolKinds
  <1>1. Answer \/ ServerStep => UNCHANGED startVars
    BY DEF Answer, Pong, Duplicate, ServerStep
  <1>. QED BY <1>1 DEF Next, Run, Around, vars, ToolKinds

LEMMA ReadsKept == ReadsInv /\ [Next]_vars => ReadsInv'
  <1>. SUFFICES ASSUME ReadsInv, [Next]_vars
                PROVE  ReadsInv'
    OBVIOUS
  <1>1. puts \in Nat /\ puts + 1 \in Nat
    BY DEF ReadsInv, StoreTypes
  <1>2. CASE (Parsing \/ Cap("work")) /\ UNCHANGED toolsVars
    <2>1. pc \in {"start", "parse", "nodes", "cap"} /\ tool' = tool
      BY <1>2 DEF Parsing, CheckArgc, ParseOption, ParseEnd, NodesFail, NodesLine, NodesEnd, Cap, Exit
    <2>2. reads = <<>> /\ UNCHANGED <<store, reads, puts, seen>>
      BY <1>2, <2>1 DEF ReadsInv, toolsVars
    <2>3. DOMAIN reads' = {} /\ \A S : reads' \in Seq(S)
      BY <2>2
    <2>4. Joining' = Joining /\ StoreTypes' = StoreTypes
      BY <2>1, <2>2 DEF Joining, StoreTypes
    <2>. QED BY <2>1, <2>2, <2>3, <2>4 DEF ReadsInv
  <1>3. CASE KeyToolStep
    <2>1. CASE Get
      BY <2>1, GetKeeps
    <2>2. CASE ~Get
      <3>1. /\ UNCHANGED <<tool, argv, args, reads>> /\ Grown /\ puts' \in {puts, puts + 1}
            /\ pc' = "exit" \/ (pc' = pc /\ tool = "scenario")
        BY <1>3, <2>2, OtherSteps
      <3>. QED BY <1>1, <3>1, ReadsOfGrown DEF Joining
    <2>. QED BY <2>1, <2>2
  <1>4. ASSUME NEW k \in Key, NEW v \in Values, OtherPut(k, v)
        PROVE  ReadsInv'
    <2>1. Grown /\ pc # "exit" /\ UNCHANGED <<tool, argv, args, pc, reads, puts>>
      BY <1>4 DEF OtherPut, Grown, startVars
    <2>2. Joining => \A j \in Key : seen'[j] \subseteq Seq(Char)
      <3>1. v \in Seq(Char)
        BY ToolsAssumption
      <3>2. Joining => \A j \in Key : seen[j] \subseteq Seq(Char)
        BY <2>1 DEF ReadsInv
      <3>3. \A j \in Key : seen'[j] \subseteq seen[j] \cup {v}
        BY <1>4 DEF OtherPut, Current, ReadsInv, StoreTypes
      <3>. QED BY <3>1, <3>2, <3>3
    <2>. QED BY <1>1, <2>1, <2>2, ReadsOfGrown
  <1>5. CASE ListStep /\ UNCHANGED toolsVars
    <2>1. /\ UNCHANGED <<tool, argv, args, reads, store, seen, puts>>
          /\ tool = "list" /\ pc' \in {"recv", "print", "exit"}
      BY <1>5, ListSteps DEF StartKept, toolsVars, ListStep, Ping, Recv, RecvTimeout, PrintNodes, Listing
    <2>. QED BY <1>1, <2>1, ReadsOfGrown DEF Grown, Joining
  <1>6. CASE UNCHANGED <<startVars, toolsVars>>
    <2>1. UNCHANGED <<tool, argv, args, pc, reads, store, seen, puts>>
      BY <1>6 DEF startVars, toolsVars
    <2>. QED BY <1>1, <2>1, ReadsOfGrown DEF Grown, ReadsInv
  <1>. QED BY <1>2, <1>3, <1>4, <1>5, <1>6, NextOfTools DEF ToolKinds

-----------------------------------------------------------------------------
(* How a tool on keys ends well. *)
LEMMA EndsWell ==
  ASSUME ArgsInv, [Next]_vars, status' = "OK", tool' \in {"cat", "find", "substr"}
  PROVE  \/ UNCHANGED <<startVars, toolsVars>>
         \/ /\ UNCHANGED <<tool, given, argv>> /\ pc = "work" /\ Settled
            /\ \/ tool = "cat" /\ Cat
               \/ tool = "find" /\ Find
               \/ tool = "substr" /\ Substr
  <1>1. pc # "exit" => status = "none"
    BY DEF ArgsInv
  <1>2. CASE (Parsing \/ Cap("work")) /\ UNCHANGED toolsVars
    <2>1. pc # "exit" /\ (status' = status \/ status' \in {"FAIL", "crash"})
      BY <1>2 DEF Parsing, CheckArgc, ParseOption, ParseEnd, NodesFail, NodesLine, NodesEnd, Cap, Exit
    <2>. QED BY <1>1, <2>1
  <1>3. CASE KeyToolStep
    <2>1. StartKept /\ pc = "work"
      BY <1>3, KeyToolSteps
    <2>2. tool' = tool /\ UNCHANGED <<given, argv>> /\ Settled /\ status = "none"
      BY <1>1, <2>1 DEF StartKept, Settled
    <2>3. ~Refuse /\ ~NoNodes /\ ~ScenarioPut /\ ~Get /\ ~ScenarioEnd /\ ~PutArgument /\ ~PrintValue
      BY <2>2 DEF Refuse, NoNodes, ScenarioPut, Get, ScenarioEnd, PutArgument, PrintValue,
                  Exit, startVars
    <2>4. \/ tool = "cat" /\ Cat
          \/ tool = "find" /\ Find
          \/ tool = "substr" /\ Substr
      BY <1>3, <2>3 DEF KeyToolStep, Cat, Find, Substr
    <2>. QED BY <2>1, <2>2, <2>4
  <1>4. ASSUME NEW k, NEW v, OtherPut(k, v)
        PROVE  FALSE
    BY <1>1, <1>4 DEF OtherPut, startVars
  <1>5. CASE ListStep
    <2>1. tool = "list" /\ tool' = tool
      BY <1>5, ListSteps DEF ListStep, Ping, Recv, RecvTimeout, PrintNodes, Listing, StartKept
    <2>. QED BY <2>1
  <1>. QED BY <1>2, <1>3, <1>4, <1>5, NextOfTools DEF ToolKinds

LEMMA PutWell ==
  ASSUME NEW k, NEW v, NEW wild \in SUBSET {"crash"}, Put(k, v, wild), status' = "OK", StoreTypes
  PROVE  /\ output' = [key |-> k, val |-> v] /\ reads' = reads
         /\ \A j \in Key : Readable(j) \subseteq Readable(j)'
  <1>1. output' = [key |-> k, val |-> v] /\ UNCHANGED <<reads, puts>>
    BY DEF Put
  <1>2. Grown /\ puts' \in Nat
    BY <1>1 DEF Put, Grown, StoreTypes
  <1>3. UNCHANGED <<tool, args>>
    BY DEF Put, Exit
  <1>. QED BY <1>1, <1>2, <1>3, GrownKeeps, ReadableGrows

LEMMA CatEnds ==
  ASSUME StartTypes, ArgsInv, ReadsInv, Cat, Settled, status' = "OK", UNCHANGED <<given, argv>>
  PROVE  CatJoinsValues'
  <1>. DEFINE n == Len(argv) - 1
  <1>1. tool = "cat" /\ Len(reads) = Len(Inputs) /\ Len(argv) >= 2
    BY DEF Cat, AllRead, Working, ArgumentsFit
  <1>2. argv \in Seq(Arg) /\ argv = Given /\ Len(argv) \in Nat /\ n \in Nat
    BY <1>1 DEF ArgsInv, StartTypes
  <1>3. Len(Inputs) = n /\ \A i \in 1 .. n : Inputs[i] = argv[i]
    <2>1. Inputs = SubSeq(argv, 1, n)
      BY <1>1 DEF Inputs
    <2>2. \A i \in 1 .. n : argv[i] \in Arg
      BY <1>2
    <2>3. /\ Len(SubSeq(argv, 1, n)) = IF 1 <= n THEN n - 1 + 1 ELSE 0
          /\ \A i \in 1 .. n - 1 + 1 : SubSeq(argv, 1, n)[i] = argv[1 + i - 1]
      BY <1>2, <2>2, SubSeqProperties
    <2>4. \A m \in Nat : /\ (IF 1 <= m THEN m - 1 + 1 ELSE 0) = m
                         /\ m - 1 + 1 = m /\ \A i \in 1 .. m : 1 + i - 1 = i
      OBVIOUS
    <2>. HIDE DEF n
    <2>. QED BY <1>2, <2>1, <2>3, <2>4
  <1>4. /\ output' = [key |-> Last(argv), val |-> FlattenSeq(reads)] /\ reads' = reads
        /\ \A k \in Key : Readable(k) \subseteq Readable(k)'
    <2>1. \A b : Wild(b) \in SUBSET {"crash"}
      BY DEF Wild
    <2>2. StoreTypes
      BY DEF ReadsInv
    <2>3. Put(Last(argv), FlattenSeq(reads), Wild(Len(reads) > 1))
      BY DEF Cat
    <2>. QED BY <2>1, <2>2, <2>3, PutWell
  <1>5. /\ Len(reads) = n /\ DOMAIN reads = 1 .. n /\ reads = [i \in 1 .. n |-> reads[i]]
        /\ \A i \in 1 .. n : argv[i] \in Key /\ reads[i] \in Readable(argv[i])
    <2>1. reads \in Seq(Got) /\ \A i \in DOMAIN reads : OfItsKey(i)
      BY DEF ReadsInv
    <2>2. Len(reads) = n /\ DOMAIN reads = 1 .. n /\ reads = [i \in 1 .. n |-> reads[i]]
      BY <1>1, <1>3, <2>1
    <2>. QED BY <1>1, <1>3, <2>1, <2>2 DEF OfItsKey
  <1>6. Given' = argv
    BY <1>2 DEF Given, Options
  <1>7. Last(argv) = argv[n + 1] /\ Len(argv) - 1 = n
    BY <1>2 DEF Last
  <1>. HIDE DEF n
  <1>8. reads \in [1 .. n -> UNION {Readable(k)' : k \in Key}]
    <2>1. \A i \in 1 .. n : reads[i] \in UNION {Readable(k)' : k \in Key}
      BY <1>4, <1>5
    <2>. QED BY <1>5, <2>1
  <1>9. \A i \in 1 .. n : reads[i] \in Readable(argv[i])'
    BY <1>4, <1>5
  <1>10. output'.key = argv[n + 1] /\ output'.val = FlattenSeq(reads)
    BY <1>4, <1>7
  <1>11. \E f \in [1 .. n -> UNION {Readable(k)' : k \in Key}] :
           /\ \A i \in 1 .. n : f[i] \in Readable(argv[i])'
           /\ output'.val = FlattenSeq(f)
    BY <1>8, <1>9, <1>10
  <1>. QED BY <1>6, <1>7, <1>10, <1>11 DEF CatJoinsValues

(* A part of v, put together again with what is around it. *)
PartAt(v, p, l, part) ==
  \E i, j \in 0 .. Len(v) :
    /\ SubSeq(v, 1, i) \o part \o SubSeq(v, Len(v) - j + 1, Len(v)) = v
    /\ i + l + j = Len(v)
    /\ Len(part) = l
    /\ i = p

LEMMA PartOf ==
  ASSUME NEW v \in Seq(Char), NEW p \in Nat, NEW l \in Nat, l + p <= Len(v),
         NEW part, part = IF l = 0 THEN <<>> ELSE SubSeq(v, p + 1, p + l)
  PROVE  PartAt(v, p, l, part)
  <1>. DEFINE n == Len(v)
              j == (n - p) - l
  <1>1. /\ n \in Nat /\ p \in 0 .. n /\ j \in 0 .. n /\ p + l + j = n
        /\ n - j + 1 = (p + l) + 1 /\ p + l \in p .. n /\ p + l \in 0 .. n
    OBVIOUS
  <1>2. part = SubSeq(v, p + 1, p + l)
    <2>1. CASE l = 0
      <3>1. p + 1 \in Int /\ p + l \in Int /\ p + l < p + 1
        BY <2>1
      <3>. QED BY <2>1, <3>1, SubSeqEmpty
    <2>2. CASE l # 0
      BY <2>2
    <2>. QED BY <2>1, <2>2
  <1>3. Len(part) = l
    <2>1. \A i \in p + 1 .. p + l : i \in 1 .. n
      BY <1>1
    <2>2. Len(SubSeq(v, p + 1, p + l)) = IF p + 1 <= p + l THEN (p + l) - (p + 1) + 1 ELSE 0
      BY <2>1, SubSeqProperties
    <2>3. (IF p + 1 <= p + l THEN (p + l) - (p + 1) + 1 ELSE 0) = l
      OBVIOUS
    <2>. QED BY <1>2, <2>2, <2>3
  <1>4. SubSeq(v, 1, p) \o SubSeq(v, p + 1, p + l) = SubSeq(v, 1, p + l)
    <2>1. 1 \in 1 .. n + 1 /\ p \in 1 - 1 .. n /\ p + l \in p .. n
      BY <1>1
    <2>. QED BY <2>1, ConcatAdjacentSubSeq
  <1>5. SubSeq(v, 1, p + l) \o SubSeq(v, (p + l) + 1, n) = SubSeq(v, 1, n)
    <2>1. 1 \in 1 .. n + 1 /\ p + l \in 1 - 1 .. n /\ n \in p + l .. n
      BY <1>1
    <2>. QED BY <2>1, ConcatAdjacentSubSeq
  <1>6. SubSeq(v, 1, n) = v
    BY SubSeqFull
  <1>7. SubSeq(v, 1, p) \o part \o SubSeq(v, n - j + 1, n) = v
    <2>1. SubSeq(v, n - j + 1, n) = SubSeq(v, (p + l) + 1, n)
      BY <1>1
    <2>. HIDE DEF n, j
    <2>. QED BY <1>2, <1>4, <1>5, <1>6, <2>1
  <1>. QED BY <1>1, <1>3, <1>7 DEF PartAt

LEMMA SubstrEnds ==
  ASSUME StartTypes, ArgsInv, ReadsInv, Substr, Settled, status' = "OK", pc = "work",
         UNCHANGED <<given, argv>>
  PROVE  SubstrIsPart'
  <1>. DEFINE v == reads[1]
              p == Position(v)
              l == Number[argv[3]]
  <1>1. /\ tool = "substr" /\ tool \in KeyTools /\ Len(reads) = Len(Inputs)
        /\ NaN \notin {Number[argv[2]], l}
    BY DEF Substr, AllRead, Working, ArgumentsFit
  <1>2. /\ argv \in Seq(Arg) /\ argv = Given /\ Len(argv) = 4
    <2>1. Required["substr"] = 4 /\ 4 # SIZE_MAX
      BY <1>1, ToolsAssumption, StartAssumption
    <2>. QED BY <1>1, <2>1 DEF ArgsInv, EnoughArguments, StartTypes
  <1>3. Number[argv[2]] \in Int /\ l \in Int
    <2>1. argv[2] \in Arg /\ argv[3] \in Arg
      <3>1. argv \in Seq(Arg) /\ 2 \in 1 .. Len(argv) /\ 3 \in 1 .. Len(argv)
        BY <1>2
      <3>. QED BY <3>1, ElementOfSeq
    <2>2. Number \in [Arg -> Int \cup {NaN}]
      BY ToolsAssumption DEF Arg
    <2>. QED BY <1>1, <2>1, <2>2
  <1>4. v \in Seq(Char) /\ argv[1] \in Key /\ v \in Readable(argv[1])
    <2>1. Inputs = <<argv[1]>>
      BY <1>1 DEF Inputs
    <2>2. reads \in Seq(Seq(Char)) /\ Len(reads) = 1 /\ \A i \in DOMAIN reads : OfItsKey(i)
      BY <1>1, <2>1 DEF ReadsInv, Joining
    <2>3. 1 \in DOMAIN reads
      BY <2>2
    <2>4. OfItsKey(1)
      BY <2>2, <2>3
    <2>5. Inputs[1] = argv[1] /\ v \in Seq(Char)
      BY <2>1, <2>2
    <2>. QED BY <1>1, <2>4, <2>5 DEF OfItsKey
  <1>5. /\ p \in Int /\ (Number[argv[2]] >= 0 => p = Number[argv[2]])
        /\ (Number[argv[2]] < 0 => p = Len(v) + Number[argv[2]])
    BY <1>3, <1>4 DEF Position
  <1>6. /\ l + p <= Len(v)
        /\ \E s \in IF l = 0 THEN {<<>>} ELSE IF l > 0 /\ p >= 0 THEN {SubSeq(v, p + 1, p + l)} ELSE Junk :
             Put(argv[4], s, Wild(l <= 0 \/ p < 0 \/ l = Len(v)))
    <2>1. Substring(v, p, l)
      BY DEF Substr
    <2>2. ~Exit("FAIL")
      BY DEF Exit
    <2>. HIDE DEF v, p, l
    <2>. QED BY <2>1, <2>2 DEF Substring
  <1>. HIDE DEF v, p, l
  <1>7. PICK s \in IF l = 0 THEN {<<>>} ELSE IF l > 0 /\ p >= 0 THEN {SubSeq(v, p + 1, p + l)} ELSE Junk :
          Put(argv[4], s, Wild(l <= 0 \/ p < 0 \/ l = Len(v)))
    BY <1>6
  <1>8. /\ output' = [key |-> argv[4], val |-> s] /\ reads' = reads
        /\ \A k \in Key : Readable(k) \subseteq Readable(k)'
    <2>1. \A b : Wild(b) \in SUBSET {"crash"}
      BY DEF Wild
    <2>2. StoreTypes
      BY DEF ReadsInv
    <2>. QED BY <1>7, <2>1, <2>2, PutWell
  <1>9. Given' = argv
    BY <1>2 DEF Given, Options
  <1>10. ASSUME l >= 0, Len(v) + Number[argv[2]] >= 0
         PROVE  \E i, j \in 0 .. Len(v) :
                  /\ SubSeq(v, 1, i) \o s \o SubSeq(v, Len(v) - j + 1, Len(v)) = v
                  /\ i + l + j = Len(v)
                  /\ Len(s) = l
                  /\ i = IF Number[argv[2]] < 0 THEN Len(v) + Number[argv[2]] ELSE Number[argv[2]]
    <2>1. p \in Nat /\ l \in Nat
      BY <1>3, <1>4, <1>5, <1>10
    <2>2. s = IF l = 0 THEN <<>> ELSE SubSeq(v, p + 1, p + l)
      BY <1>7, <2>1
    <2>3. PartAt(v, p, l, s)
      BY <1>4, <1>6, <2>1, <2>2, PartOf
    <2>4. p = IF Number[argv[2]] < 0 THEN Len(v) + Number[argv[2]] ELSE Number[argv[2]]
      BY <1>3, <1>5
    <2>. QED BY <2>3, <2>4 DEF PartAt
  <1>11. reads'[1] = v /\ v \in Readable(argv[1])' /\ output'.key = argv[4] /\ output'.val = s
    BY <1>4, <1>8 DEF v
  <1>. QED BY <1>9, <1>10, <1>11 DEF SubstrIsPart, l
-----------------------------------------------------------------------------
(* Some number of a set is the least. *)
LEMMA LeastNatural ==
  ASSUME NEW T \in SUBSET Nat, T # {}
  PROVE  \E m \in T : \A k \in T : m <= k
<1> DEFINE F == {0 .. n : n \in T}
           R == StrictSubsetOrdering(Nat)
           S == FiniteSubsetsOf(Nat)
<1>1. \A n \in T : IsFiniteSet(0 .. n)
  <2> SUFFICES ASSUME NEW n \in T PROVE IsFiniteSet(0 .. n)
    OBVIOUS
  <2>1. 0 \in Int /\ n \in Int
    OBVIOUS
  <2> QED
    BY <2>1, FS_Interval
<1>2. F \subseteq S /\ F # {}
  <2>1. \A n \in T : 0 .. n \in SUBSET Nat
    OBVIOUS
  <2>2. \A n \in T : 0 .. n \in S
    BY <2>1, <1>1 DEF FiniteSubsetsOf
  <2> HIDE DEF S
  <2> QED
    BY <2>2
<1>3. IsWellFoundedOn(R, S)
  BY FS_StrictSubsetOrderingWellFounded
<1>4. \E x \in F : \A y \in F : ~(<<y, x>> \in R)
  <2> HIDE DEF R, S, F
  <2> QED
    BY <1>2, <1>3, WFMin
<1>5. PICK m \in T : \A n \in T : ~(<<0 .. n, 0 .. m>> \in R)
  BY <1>4
<1>6. ASSUME NEW k \in T, k < m PROVE FALSE
  <2>1. 0 .. k \subseteq 0 .. m /\ m \in 0 .. m /\ m \notin 0 .. k
    BY <1>6
  <2>2. 0 .. k # 0 .. m
    BY <2>1
  <2>3. 0 .. k \in SUBSET Nat /\ 0 .. m \in SUBSET Nat
    OBVIOUS
  <2>4. <<0 .. k, 0 .. m>> \in R
    BY <2>1, <2>2, <2>3, <1>1 DEF StrictSubsetOrdering
  <2> QED
    BY <2>4, <1>5
<1> QED
  BY <1>6


(* A part starts at i when the characters from i on are its own. *)
LEMMA StartsAt ==
  ASSUME NEW v \in Seq(Char), NEW part \in Seq(Char), NEW i \in 0 .. Len(v)
  PROVE  IsPrefix(part, SubSeq(v, i + 1, Len(v))) <=>
           i \in 0 .. Len(v) - Len(part) /\ SubSeq(v, i + 1, i + Len(part)) = part
  <1>. DEFINE n == Len(part)
              m == Len(v)
              w == SubSeq(v, i + 1, m)
  <1>1. n \in Nat /\ m \in Nat /\ i \in Nat /\ i <= m
    OBVIOUS
  <1>2. w \in Seq(Char) /\ Len(w) = m - i /\ \A j \in 1 .. m - i : w[j] = v[i + j]
    <2>. HIDE DEF m
    <2>0. \A j \in i + 1 .. m : v[j] \in Char
      <3>1. \A j \in i + 1 .. m : j \in 1 .. m
        BY <1>1
      <3>. QED BY <3>1, ElementOfSeq DEF m
    <2>1. /\ i + 1 \in Int /\ m \in Int
          /\ m - (i + 1) + 1 = m - i
          /\ (IF i + 1 <= m THEN m - i ELSE 0) = m - i
          /\ \A j \in 1 .. m - i : (i + 1) + j - 1 = i + j
      BY <1>1
    <2>2. /\ w \in Seq(Char)
          /\ Len(w) = IF i + 1 <= m THEN m - (i + 1) + 1 ELSE 0
          /\ \A j \in 1 .. m - (i + 1) + 1 : w[j] = v[(i + 1) + j - 1]
      BY <2>0, <2>1, SubSeqProperties
    <2>. HIDE DEF w, m
    <2>. QED BY <2>1, <2>2
  <1>3. SubSeq(part, 1, n) = part
    BY SubSeqFull
  <1>4. ASSUME n <= m - i
        PROVE  SubSeq(w, 1, n) = SubSeq(v, i + 1, i + n)
    <2>. DEFINE a == SubSeq(w, 1, n)
                b == SubSeq(v, i + 1, i + n)
    <2>1. \A j \in 1 .. n : j \in 1 .. m - i /\ w[j] \in Char
      BY <1>1, <1>2, <1>4
    <2>2. a \in Seq(Char) /\ Len(a) = n /\ \A j \in 1 .. n : a[j] = w[j]
      <3>1. /\ a \in Seq(Char)
            /\ Len(a) = IF 1 <= n THEN n - 1 + 1 ELSE 0
            /\ \A j \in 1 .. n - 1 + 1 : a[j] = w[1 + j - 1]
        BY <1>1, <2>1, SubSeqProperties
      <3>2. /\ (IF 1 <= n THEN n - 1 + 1 ELSE 0) = n
            /\ n - 1 + 1 = n /\ \A j \in 1 .. n : 1 + j - 1 = j
        BY <1>1
      <3>. HIDE DEF a, n
      <3>. QED BY <3>1, <3>2
    <2>3. b \in Seq(Char) /\ Len(b) = n /\ \A j \in 1 .. n : b[j] = v[i + j]
      <3>1. /\ i + 1 \in Int /\ i + n \in Int /\ \A j \in i + 1 .. i + n : v[j] \in Char
            /\ (i + n) - (i + 1) + 1 = n
            /\ (IF i + 1 <= i + n THEN n ELSE 0) = n
            /\ \A j \in 1 .. n : (i + 1) + j - 1 = i + j
        BY <1>1, <1>4
      <3>2. /\ b \in Seq(Char)
            /\ Len(b) = IF i + 1 <= i + n THEN (i + n) - (i + 1) + 1 ELSE 0
            /\ \A j \in 1 .. (i + n) - (i + 1) + 1 : b[j] = v[(i + 1) + j - 1]
        BY <3>1, SubSeqProperties
      <3>. HIDE DEF b, n
      <3>. QED BY <3>1, <3>2
    <2>4. \A j \in 1 .. n : a[j] = b[j]
      BY <1>2, <2>1, <2>2, <2>3
    <2>. HIDE DEF a, b
    <2>5. a = b
      BY <2>2, <2>3, <2>4, SeqEqual
    <2>. QED BY <2>5 DEF a, b
  <1>5. n <= m - i <=> i \in 0 .. m - n
    BY <1>1
  <1>6. IsPrefix(part, w) <=> n <= m - i /\ SubSeq(w, 1, n) = part
    BY <1>2, <1>3 DEF IsPrefix
  <1>. HIDE DEF n, m, w
  <1>7. IsPrefix(part, w) <=> i \in 0 .. m - n /\ SubSeq(v, i + 1, i + n) = part
    BY <1>4, <1>5, <1>6
  <1>. QED BY <1>7 DEF n, m, w

(* o is the first place of a part in v, or -1. *)
FirstPlace(v, part, o) ==
  LET Starts(i) == IsPrefix(part, SubSeq(v, i + 1, Len(v)))
  IN  /\ o = -1 \/ Starts(o)
      /\ \A i \in 0 .. Len(v) : Starts(i) => o \in 0 .. i

LEMMA StrstrFinds ==
  ASSUME NEW v \in Seq(Char), NEW part \in Seq(Char)
  PROVE  FirstPlace(v, part, Strstr(v, part))
  <1>. DEFINE places == {i \in 0 .. Len(v) - Len(part) : SubSeq(v, i + 1, i + Len(part)) = part}
              o == Strstr(v, part)
  <1>1. Len(v) \in Nat /\ Len(part) \in Nat /\ places \in SUBSET Nat
    OBVIOUS
  <1>2. \A i \in 0 .. Len(v) : IsPrefix(part, SubSeq(v, i + 1, Len(v))) <=> i \in places
    BY StartsAt
  <1>3. \A i \in places : i \in 0 .. Len(v)
    BY <1>1
  <1>4. CASE places = {}
    <2>1. o = -1
      BY <1>4 DEF Strstr
    <2>. QED BY <1>2, <1>4, <2>1 DEF FirstPlace
  <1>5. CASE places # {}
    <2>1. o = CHOOSE i \in places : \A j \in places : i <= j
      BY <1>5 DEF Strstr, Min
    <2>2. \E i \in places : \A j \in places : i <= j
      BY <1>1, <1>5, LeastNatural
    <2>. HIDE DEF places, o
    <2>3. o \in places /\ \A j \in places : o <= j
      BY <2>1, <2>2
    <2>4. IsPrefix(part, SubSeq(v, o + 1, Len(v)))
      BY <1>2, <1>3, <2>3
    <2>5. \A i \in 0 .. Len(v) : IsPrefix(part, SubSeq(v, i + 1, Len(v))) => o \in 0 .. i
      BY <1>1, <1>2, <2>3
    <2>. QED BY <2>4, <2>5 DEF FirstPlace, o
  <1>. QED BY <1>4, <1>5

LEMMA FindEnds ==
  ASSUME StartTypes, ArgsInv, ReadsInv, Find, Settled, status' = "OK", pc = "work",
         UNCHANGED <<given, argv>>
  PROVE  FindLocates'
  <1>. DEFINE v == reads[1]
              part == reads[2]
  <1>1. /\ tool = "find" /\ tool \in KeyTools /\ Len(reads) = Len(Inputs)
        /\ output' = Strstr(v, part) /\ UNCHANGED <<reads, seen, tool, args>>
    BY DEF Find, AllRead, Working, Exit
  <1>2. argv \in Seq(Arg) /\ argv = Given /\ Len(argv) = 2 /\ Inputs = argv
    <2>1. Required["find"] = 2 /\ 2 # SIZE_MAX
      BY <1>1, ToolsAssumption, StartAssumption
    <2>2. Inputs = argv
      BY <1>1 DEF Inputs
    <2>. QED BY <1>1, <2>1, <2>2 DEF ArgsInv, EnoughArguments, StartTypes
  <1>3. /\ v \in Seq(Char) /\ part \in Seq(Char)
        /\ argv[1] \in Key /\ argv[2] \in Key
        /\ v \in Readable(argv[1]) /\ part \in Readable(argv[2])
    <2>1. reads \in Seq(Seq(Char)) /\ Len(reads) = 2 /\ \A i \in DOMAIN reads : OfItsKey(i)
      BY <1>1, <1>2 DEF ReadsInv, Joining
    <2>2. 1 \in DOMAIN reads /\ 2 \in DOMAIN reads
      BY <2>1
    <2>3. OfItsKey(1) /\ OfItsKey(2)
      BY <2>1, <2>2
    <2>4. v \in Seq(Char) /\ part \in Seq(Char)
      BY <2>1
    <2>. QED BY <1>1, <1>2, <2>3, <2>4 DEF OfItsKey
  <1>4. Given' = argv
    BY <1>2 DEF Given, Options
  <1>. HIDE DEF v, part
  <1>5. FirstPlace(v, part, output')
    BY <1>1, <1>3, StrstrFinds
  <1>6. v \in Readable(argv[1])' /\ part \in Readable(argv[2])'
    BY <1>1, <1>3, ReadableGrows
  <1>. QED BY <1>4, <1>5, <1>6 DEF FindLocates, FirstPlace

-----------------------------------------------------------------------------
ToolsInv == StartTypes /\ OptionsInv /\ ArgsInv /\ ReadsInv

LEMMA ToolsInvariant == Spec => []ToolsInv
  <1>1. Init => ToolsInv
    BY InitStart, ArgsInit, ReadsInit DEF ToolsInv
  <1>2. ToolsInv /\ [Next]_vars => ToolsInv'
    BY StartTypesKept, OptionsKept, ArgsKept, ReadsKept DEF ToolsInv
  <1>. QED BY <1>1, <1>2, PTL DEF Spec

EndProperties == CatJoinsValues /\ SubstrIsPart /\ FindLocates

LEMMA EndsKept == ToolsInv /\ EndProperties /\ [Next]_vars => EndProperties'
  <1>. SUFFICES ASSUME ToolsInv, EndProperties, [Next]_vars
                PROVE  EndProperties'
    OBVIOUS
  <1>1. StartTypes /\ ArgsInv /\ ReadsInv
    BY DEF ToolsInv
  <1>2. CASE ~(status' = "OK" /\ tool' \in {"cat", "find", "substr"})
    BY <1>2 DEF EndProperties, CatJoinsValues, SubstrIsPart, FindLocates
  <1>3. CASE UNCHANGED <<startVars, toolsVars>>
    <2>1. UNCHANGED <<tool, given, args, status, reads, output, seen>>
      BY <1>3 DEF startVars, toolsVars
    <2>R. \A k : Readable(k)' = Readable(k)
      BY <2>1 DEF Readable, Meet
    <2>2. Given' = Given
      BY <2>1 DEF Given, Options
    <2>3. CatJoinsValues' = CatJoinsValues
      BY <2>R, <2>1, <2>2 DEF CatJoinsValues
    <2>4. SubstrIsPart' = SubstrIsPart
      BY <2>R, <2>1, <2>2 DEF SubstrIsPart
    <2>5. FindLocates' = FindLocates
      BY <2>R, <2>1, <2>2 DEF FindLocates
    <2>. QED BY <2>3, <2>4, <2>5 DEF EndProperties
  <1>4. ASSUME UNCHANGED <<tool, given, argv>>, pc = "work", Settled, status' = "OK",
               \/ tool = "cat" /\ Cat
               \/ tool = "find" /\ Find
               \/ tool = "substr" /\ Substr
        PROVE  EndProperties'
    <2>1. CASE tool = "cat" /\ Cat
      <3>1. CatJoinsValues'
        BY <1>1, <1>4, <2>1, CatEnds
      <3>. QED BY <1>4, <2>1, <3>1 DEF EndProperties, SubstrIsPart, FindLocates
    <2>2. CASE tool = "find" /\ Find
      <3>1. FindLocates'
        BY <1>1, <1>4, <2>2, FindEnds
      <3>. QED BY <1>4, <2>2, <3>1 DEF EndProperties, SubstrIsPart, CatJoinsValues
    <2>3. CASE tool = "substr" /\ Substr
      <3>1. SubstrIsPart'
        BY <1>1, <1>4, <2>3, SubstrEnds
      <3>. QED BY <1>4, <2>3, <3>1 DEF EndProperties, FindLocates, CatJoinsValues
    <2>. QED BY <1>4, <2>1, <2>2, <2>3
  <1>. QED BY <1>1, <1>2, <1>3, <1>4, EndsWell

LEMMA EndsInvariant == Spec => []EndProperties
  <1>1. Init => EndProperties
    BY DEF Init, StartInit, EndProperties, CatJoinsValues, SubstrIsPart, FindLocates
  <1>. QED BY <1>1, EndsKept, ToolsInvariant, PTL DEF Spec

(***************************************************************************)
(* What cat puts is one value of each key the user gave, in the order      *)
(* given, each of which the key had while cat ran (or earlier, when R and  *)
(* W are too small for a get to see the last put; pps-client-cat.c),       *)
(* whatever other clients put in between and however many keys there are.  *)
(***************************************************************************)
THEOREM CatIsRight == Spec => []CatJoinsValues
  <1>1. EndProperties => CatJoinsValues
    BY DEF EndProperties
  <1>. QED BY <1>1, EndsInvariant, PTL

(***************************************************************************)
(* What substr puts is the part the user asked for of a value it could     *)
(* read of the key, for lengths that are not negative and positions inside *)
(* the value (pps-client-substr.c).                                        *)
(***************************************************************************)
THEOREM SubstrIsRight == Spec => []SubstrIsPart
  <1>1. EndProperties => SubstrIsPart
    BY DEF EndProperties
  <1>. QED BY <1>1, EndsInvariant, PTL

(***************************************************************************)
(* The place find prints is the first one of the second value in the first *)
(* one, or -1 when there is none (pps-client-find.c).                      *)
(***************************************************************************)
THEOREM FindIsRight == Spec => []FindLocates
  <1>1. EndProperties => FindLocates
    BY DEF EndProperties
  <1>. QED BY <1>1, EndsInvariant, PTL

=============================================================================
