------------------------------- MODULE Tools -------------------------------
(***************************************************************************)
(* The command line tools put, get, cat, find, substr and scenario_1 after *)
(* their start: the gets and puts they make one after the other, while     *)
(* other clients put values of the same keys.  A get or a put is one step  *)
(* on a table of current values, and may fail.  A get whose servers need   *)
(* not meet those of the last put may return an older value; QuorumStore   *)
(* says when it fails, RegularRegister what overlapping puts may do.       *)
(***************************************************************************)
EXTENDS ClientStart, SequencesExt

CONSTANTS
  Key,      \* the keys that may have values
  Text,     \* Text[s]: the characters of an argument
  Number,   \* Number[s]: the integer an argument stands for, or NaN
  NaN,
  KeyTools, \* the programs of this module
  Char,     \* the characters of values
  Values,   \* what other clients put: sequences of characters
  OthersN,  \* the number of nodes they put to,
  OthersW,  \* and how many of these must answer
  Before,   \* Before[k]: the values of k before the start, the last current
  Junk,     \* characters of memory that was never written or is not ours
  NULL

ASSUME ToolsAssumption ==
  /\ KeyTools \subseteq Tool \cap {"put", "get", "cat", "find", "substr", "scenario"}
  /\ \A t \in KeyTools : /\ t = "find" => Required[t] = 2
                         /\ t = "substr" => Required[t] = 4
  /\ Number \in [DOMAIN Strtol -> Int \cup {NaN}]
  /\ Values \cup Junk \subseteq Seq(Char)
  /\ Before \in [Key -> Seq(Seq(Char))]
  /\ OthersN \in Nat /\ OthersW \in Nat \ {0}

VARIABLES
  store,    \* the current value of each key, or NULL
  reads,    \* the values the tool has got, NULL where scenario_1 failed
  puts,     \* the puts scenario_1 has made
  output,   \* what it has put or printed, or NULL
  seen      \* the values each key has had since the tool started, a history

toolsVars == <<store, reads, puts, output, seen>>

ToolsInit ==
  /\ store = [k \in Key |-> IF Before[k] = <<>> THEN NULL ELSE Last(Before[k])]
  /\ reads = <<>> /\ puts = 0 /\ output = NULL
  /\ seen = [k \in Key |-> {store[k]} \ {NULL}]

Current(k, v) ==
  /\ store' = [store EXCEPT ![k] = v]
  /\ seen' = [seen EXCEPT ![k] = @ \cup {v}]

(* Another client puts a value, or a late datagram of its put arrives. *)
OtherPut(k, v) ==
  /\ tool \in KeyTools /\ pc # "exit"
  /\ Current(k, v)
  /\ UNCHANGED <<startVars, reads, puts, output>>

-----------------------------------------------------------------------------
(* The keys a tool gets, in order. *)
Inputs ==
  CASE tool = "put"    -> <<>>
    [] tool = "get"    -> <<argv[1]>>
    [] tool = "cat"    -> SubSeq(argv, 1, Len(argv) - 1)
    [] tool = "find"   -> argv
    [] tool = "substr" -> <<argv[1]>>
    [] tool = "scenario" -> [i \in 1 .. Strtol[argv[1]] |-> ToString(i - 1)]

(* cat wants two arguments at least, substr two numbers. *)
ArgumentsFit ==
  /\ tool = "cat" => Len(argv) >= 2
  /\ tool = "substr" => NaN \notin {Number[argv[2]], Number[argv[3]]}

Refuse ==
  /\ tool \in KeyTools /\ pc = "work"
  /\ ~ArgumentsFit
  /\ Exit("FAIL")
  /\ UNCHANGED toolsVars

Working == tool \in KeyTools /\ pc = "work" /\ ArgumentsFit

Idle == tool = "scenario" /\ Inputs = <<>>

(* With N = 0 an operation ends in node_list_free(NULL). *)
NoNodes ==
  /\ Working
  /\ args.N = 0 /\ ~Idle
  /\ Exit("crash")
  /\ UNCHANGED toolsVars

(* The puts of scenario_1, of each key with its own name; a failure of one *)
(* is only printed.                                                        *)
ScenarioPut ==
  /\ Working /\ tool = "scenario"
  /\ args.N > 0
  /\ puts < Len(Inputs)
  /\ LET k == Inputs[puts + 1]
     IN  Current(k, Text[k]) \/ UNCHANGED <<store, seen>>
  /\ puts' = puts + 1
  /\ UNCHANGED <<startVars, reads, output>>

(* R answers with one value, of the N nodes asked, cannot all be older     *)
(* than an acknowledged put: its own, or one of other clients that read    *)
(* the same servers.txt.                                                   *)
Meet ==
  /\ tool = "scenario" => args.R + args.W > args.N
  /\ args.R + OthersW > Max({args.N, OthersN})

Readable(k) == IF Meet THEN seen[k] ELSE seen[k] \cup ToSet(Before[k])

(* The values a get of k may return now. *)
Obtainable(k) == IF Meet THEN {store[k]} \ {NULL} ELSE Readable(k)

(* Variant with a bug: a get that fails is made again. *)
GetRetries ==
  /\ Working
  /\ args.N > 0
  /\ Len(reads) < Len(Inputs)
  /\ \E v \in Obtainable(Inputs[Len(reads) + 1]) : reads' = Append(reads, v)
  /\ UNCHANGED <<startVars, store, puts, output, seen>>

(* network_get of the next key.  When it fails, find frees two pointers of *)
(* which one is not set, and scenario_1 prints such a one and goes on.     *)
Get ==
  /\ Working
  /\ args.N > 0
  /\ Len(reads) < Len(Inputs) /\ (tool = "scenario" => puts = Len(Inputs))
  /\ LET k == Inputs[Len(reads) + 1]
     IN  \/ /\ k \in Key
            /\ \E v \in Obtainable(k) : reads' = Append(reads, v)
            /\ UNCHANGED startVars
         \/ /\ tool = "scenario"
            /\ reads' = Append(reads, NULL)
            /\ UNCHANGED startVars
         \/ /\ \/ tool # "scenario" /\ Exit("FAIL")
               \/ tool \in {"find", "scenario"} /\ Exit("crash")
            /\ UNCHANGED reads
  /\ UNCHANGED <<store, puts, output, seen>>

AllRead == Working /\ (args.N > 0 \/ Idle) /\ Len(reads) = Len(Inputs)

ScenarioEnd ==
  /\ AllRead /\ tool = "scenario"
  /\ Exit("OK")
  /\ UNCHANGED toolsVars

(* network_put of v; when it fails it may have had its effect, and after a *)
(* wild write to memory the tool may crash on either side of it.           *)
Put(k, v, wild) ==
  /\ output' = [key |-> k, val |-> v]
  /\ \/ /\ Current(k, v)
        /\ \E s \in {"OK", "FAIL"} \cup wild : Exit(s)
     \/ /\ UNCHANGED <<store, seen>>
        /\ \E s \in {"FAIL"} \cup wild : Exit(s)
  /\ UNCHANGED <<reads, puts>>

Wild(condition) == IF condition THEN {"crash"} ELSE {}

PutArgument ==
  /\ AllRead /\ tool = "put"
  /\ Put(argv[1], Text[argv[2]], {})

PrintValue ==
  /\ AllRead /\ tool = "get"
  /\ output' = reads[1]
  /\ Exit("OK")
  /\ UNCHANGED <<store, reads, puts, seen>>

(* Variant with a bug: the last value is put first. *)
CatReversed ==
  /\ AllRead /\ tool = "cat"
  /\ Put(Last(argv), FlattenSeq(Reverse(reads)), Wild(Len(reads) > 1))

(* The buffer is reallocated without room for the NUL of strcat. *)
Cat ==
  /\ AllRead /\ tool = "cat"
  /\ Put(Last(argv), FlattenSeq(reads), Wild(Len(reads) > 1))

(* strstr: the first place of a part in a value, or -1. *)
Strstr(v, part) ==
  LET n == Len(part)
      places == {i \in 0 .. Len(v) - n : SubSeq(v, i + 1, i + n) = part}
  IN  IF places = {} THEN -1 ELSE Min(places)

(* Variant with a bug: the values change places. *)
FindSwapped ==
  /\ AllRead /\ tool = "find"
  /\ output' = Strstr(reads[2], reads[1])
  /\ Exit("OK")
  /\ UNCHANGED <<store, reads, puts, seen>>

Find ==
  /\ AllRead /\ tool = "find"
  /\ output' = Strstr(reads[1], reads[2])
  /\ Exit("OK")
  /\ UNCHANGED <<store, reads, puts, seen>>

(* Only the end of the substring is checked: with a negative length an     *)
(* array is put that was never written, a position before the value reads  *)
(* memory in front of it, and the NUL after the whole value, or the memset *)
(* for no length, may write outside the array.                             *)
Substring(v, p, l) ==
  \/ /\ l + p > Len(v)
     /\ Exit("FAIL")
     /\ UNCHANGED toolsVars
  \/ /\ l + p <= Len(v)
     /\ \E s \in IF l = 0 THEN {<<>>}
                 ELSE IF l > 0 /\ p >= 0 THEN {SubSeq(v, p + 1, p + l)}
                 ELSE Junk :
          Put(argv[4], s, Wild(l <= 0 \/ p < 0 \/ l = Len(v)))

Position(v) == LET p == Number[argv[2]] IN IF p < 0 THEN Len(v) + p ELSE p

(* Variant with a bug: the length is taken for the end. *)
SubstrToEnd ==
  /\ AllRead /\ tool = "substr"
  /\ LET p == Position(reads[1])
     IN  Substring(reads[1], p, Number[argv[3]] - p)

Substr ==
  /\ AllRead /\ tool = "substr"
  /\ Substring(reads[1], Position(reads[1]), Number[argv[3]])

-----------------------------------------------------------------------------
KeyToolStep ==
  \/ Refuse \/ NoNodes \/ ScenarioPut \/ Get \/ ScenarioEnd \/ PutArgument
  \/ PrintValue \/ Cat \/ Find \/ Substr

-----------------------------------------------------------------------------
ToolsTypeOK ==
  /\ DOMAIN store = Key /\ DOMAIN seen = Key
  /\ \A k \in Key : store[k] # NULL => store[k] \in seen[k]
  /\ puts \in Nat
  /\ \A i \in DOMAIN reads :
       \/ reads[i] = NULL /\ tool = "scenario"
       \/ \E k \in Key : reads[i] \in Readable(k)

(* The mandatory arguments, as the user wrote them. *)
Given == LET rest == SubSeq(given, 2 * Options + 1, Len(given))
         IN  IF rest # <<>> /\ Head(rest) = "--" THEN Tail(rest) ELSE rest

(***************************************************************************)
(* "concatenate the n-1 associated values into a single string, then       *)
(* stores it as value at n_th key" (pps-client-cat.c:10): what cat has put *)
(* is made of one value of each key, in the order given, that the key had  *)
(* while cat ran, or earlier when R and W are too small for a get to see   *)
(* the last put.  They need not have been there at the same time.          *)
(***************************************************************************)
CatJoinsValues ==
  (tool = "cat" /\ status = "OK") =>
    LET n == Len(Given) - 1
    IN  /\ output.key = Given[n + 1]
        /\ \E f \in [1 .. n -> UNION {Readable(k) : k \in Key}] :
             /\ \A i \in 1 .. n : f[i] \in Readable(Given[i])
             /\ output.val = FlattenSeq(f)

(***************************************************************************)
(* "Compute a substring of given position and length of a value"           *)
(* (pps-client-substr.c:40), for lengths that are not negative and         *)
(* positions inside the value; negative ones count from its end.           *)
(***************************************************************************)
SubstrIsPart ==
  (tool = "substr" /\ status = "OK") =>
    LET v == reads[1]
        p == Number[Given[2]]
        l == Number[Given[3]]
    IN  /\ v \in Readable(Given[1])
        /\ output.key = Given[4]
        /\ l >= 0 /\ Len(v) + p >= 0 =>
             \E i, j \in 0 .. Len(v) :
               /\ SubSeq(v, 1, i) \o output.val \o SubSeq(v, Len(v) - j + 1, Len(v)) = v
               /\ i + l + j = Len(v)
               /\ Len(output.val) = l
               /\ i = IF p < 0 THEN Len(v) + p ELSE p

(***************************************************************************)
(* "Find the first occurence of a given substr in the value associated of  *)
(* a given key" (pps-client-find.c:16): the place printed is right for a   *)
(* value of each key that the key had while find ran (or earlier, when R   *)
(* and W are too small), not always at the same time.                      *)
(***************************************************************************)
FindLocates ==
  (tool = "find" /\ status = "OK") =>
    \E v \in Readable(Given[1]), part \in Readable(Given[2]) :
      LET Starts(i) == IsPrefix(part, SubSeq(v, i + 1, Len(v)))
      IN  /\ output = -1 \/ Starts(output)
          /\ \A i \in 0 .. Len(v) : Starts(i) => output \in 0 .. i

=============================================================================
