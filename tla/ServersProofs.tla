--------------------------- MODULE ServersProofs ---------------------------
(***************************************************************************)
(* Proofs about the start of the servers and the list of nodes: servers    *)
(* serve where they were told to, and the list says who has answered; and  *)
(* with them the types of the whole.                                       *)
(***************************************************************************)
EXTENDS CommandsProofs

(* The words left to p are what was typed behind the first d words, but    *)
(* for the first of them, which may be the rest of a number.               *)
LeftFrom(p, d) ==
  /\ Len(words[p]) = Len(typed[p].words) - d
  /\ \A i \in 2 .. Len(words[p]) : words[p][i] = typed[p].words[d + i]
  /\ words[p] # <<>> => words[p][1] = typed[p].words[d + 1] \/ NoIp(words[p][1])

ServerTypes ==
  /\ typed \in [Process -> Typed]
  /\ words \in [Process -> Seq(Word)]
  /\ at \in [Process -> {"prompt", "serve", "exit"}]
  /\ last \in [Process -> [ip : STRING, port : Int]]
  /\ bound \in [Process -> Bindable \cup {Unbound}]

(* The address p has is made of two words typed one after the other. *)
AsTyped(p) ==
  \E i \in 1 .. Len(typed[p].words) - 1 :
    LET port == Decimal[typed[p].words[i + 1]]
    IN  /\ bound[p].ip = typed[p].words[i]
        /\ port # NotDecimal /\ bound[p].port \in Ports(port)

ServersInv ==
  /\ tool # "list" => NoServers
  /\ tool = "list" =>
       /\ ServerTypes
       /\ \A p \in Process : \E d \in Nat : LeftFrom(p, d)
       /\ \A p \in Process : at[p] = "serve" => AsTyped(p) /\ bound[p] \in Bindable

Served(a) == \E p \in Process : bound[p] = a /\ at[p] # "prompt"

(***************************************************************************)
(* D are the nodes of the ring whose pings are still under way: answers    *)
(* that have come belong to others, but for those that were duplicated.    *)
(***************************************************************************)
UnderWay(D) ==
  /\ pings = [a \in Address |-> Cardinality({i \in D : ring[i] = a})]
  /\ count + Len(inbox) + Cardinality(D) <= Len(ring) + extra

NotYetPinged == tool # "list" \/ pc \in {"start", "parse", "nodes", "cap", "work"}

ListTypes ==
  /\ inbox \in Seq(Address) /\ ok \subseteq Address
  /\ extra \in 0 .. MaxDuplicates /\ count \in Nat

Answered ==
  \A a \in ok \cup ToSet(inbox) : a \in ToSet(ring) /\ Served(a)

Printed == [i \in DOMAIN ring |->
              [node |-> ring[i], says |-> IF ring[i] \in ok THEN "OK" ELSE "FAIL"]]

ListInv ==
  /\ ListTypes
  /\ NotYetPinged => ListInit
  /\ \E D \in SUBSET (1 .. Len(ring)) : UnderWay(D)
  /\ Answered
  /\ tool = "list" =>
       /\ pc # "exit" => status = "none"
       /\ pc = "print" \/ status = "OK" => Len(inbox) <= extra
       /\ status = "OK" => printed = Printed

-----------------------------------------------------------------------------
(***************************************************************************)
(* What scanf leaves is again the end of what was typed, the first word    *)
(* excepted.                                                               *)
(***************************************************************************)
LEMMA WordsTypes ==
  \A t \in Typed : t.words \in Seq(Word)
  BY ServerAssumption

LEMMA PortRead ==
  \A r, a, n, m : r = [ip |-> a, port |-> n] => [r EXCEPT !.port = m] = [ip |-> a, port |-> m]
  OBVIOUS

LEMMA ScanCases ==
  ASSUME NEW ws \in Seq(Word), NEW old \in [ip : STRING, port : Int]
  PROVE  LET s == Scan(ws, old)
         IN  \/ /\ ws = <<>> /\ s.count = -1 /\ s.now = old /\ s.left = ws
             \/ /\ ws # <<>> /\ s.count = 1
                /\ s.now = [ip |-> ws[1], port |-> old.port] /\ s.left = Tail(ws)
             \/ /\ Len(ws) > 1 /\ Decimal[ws[2]] # NotDecimal /\ s.count = 2
                /\ s.now = [ip |-> ws[1], port |-> Decimal[ws[2]]]
                /\ s.left = BehindAnswer(ws)
  <1>1. CASE ws = <<>>
    BY <1>1 DEF Scan
  <1>2. CASE ws # <<>> /\ (Len(ws) = 1 \/ Decimal[ws[2]] = NotDecimal)
    <2>1. Scan(ws, old) = [count |-> 1, now |-> [old EXCEPT !.ip = ws[1]], left |-> Tail(ws)]
      BY <1>2 DEF Scan
    <2>. QED BY <1>2, <2>1
  <1>3. CASE ws # <<>> /\ ~(Len(ws) = 1 \/ Decimal[ws[2]] = NotDecimal)
    <2>1. Scan(ws, old) = [count |-> 2,
                           now |-> [[old EXCEPT !.ip = ws[1]] EXCEPT !.port = Decimal[ws[2]]],
                           left |-> BehindAnswer(ws)]
      BY <1>3 DEF Scan
    <2>2. Len(ws) \in Nat /\ Len(ws) # 0 /\ Len(ws) # 1
      BY <1>3
    <2>3. \A n \in Nat : n # 0 /\ n # 1 => n > 1
      OBVIOUS
    <2>4. [old EXCEPT !.ip = ws[1]] = [ip |-> ws[1], port |-> old.port]
      OBVIOUS
    <2>5. Scan(ws, old) = [count |-> 2, now |-> [ip |-> ws[1], port |-> Decimal[ws[2]]],
                           left |-> BehindAnswer(ws)]
      <3>. DEFINE q == [old EXCEPT !.ip = ws[1]]
      <3>1. q = [ip |-> ws[1], port |-> old.port]
        BY <2>4
      <3>. HIDE DEF q
      <3>2. [q EXCEPT !.port = Decimal[ws[2]]] = [ip |-> ws[1], port |-> Decimal[ws[2]]]
        BY <3>1, PortRead
      <3>. QED BY <2>1, <3>2 DEF q
    <2>6. Len(ws) > 1
      BY <2>2, <2>3
    <2>. QED BY <1>3, <2>5, <2>6
  <1>. QED BY <1>1, <1>2, <1>3

LEMMA BehindAnswerIs ==
  ASSUME NEW ws \in Seq(Word), Len(ws) > 1, Decimal[ws[2]] # NotDecimal
  PROVE  /\ BehindAnswer(ws) \in Seq(Word)
         /\ \/ /\ Len(BehindAnswer(ws)) = Len(ws) - 2
               /\ \A i \in 1 .. Len(ws) - 2 : BehindAnswer(ws)[i] = ws[i + 2]
            \/ /\ Len(BehindAnswer(ws)) = Len(ws) - 1
               /\ NoIp(BehindAnswer(ws)[1])
               /\ \A i \in 2 .. Len(ws) - 1 : BehindAnswer(ws)[i] = ws[i + 1]
  <1>. DEFINE rest == SubSeq(ws, 3, Len(ws))
  <1>1. ws[2] \in Word
    OBVIOUS
  <1>2. /\ rest \in Seq(Word) /\ Len(rest) = Len(ws) - 2
        /\ \A i \in 1 .. Len(ws) - 2 : rest[i] = ws[i + 2]
    <2>1. \A i \in 3 .. Len(ws) : ws[i] \in Word
      OBVIOUS
    <2>2. /\ rest \in Seq(Word)
          /\ Len(rest) = IF 3 <= Len(ws) THEN Len(ws) - 3 + 1 ELSE 0
          /\ \A i \in 1 .. Len(ws) - 3 + 1 : rest[i] = ws[3 + i - 1]
      BY <2>1, SubSeqProperties
    <2>3. Len(ws) \in Nat /\ \A n \in Nat : n > 1 =>
            /\ (IF 3 <= n THEN n - 3 + 1 ELSE 0) = n - 2
            /\ n - 3 + 1 = n - 2 /\ \A i \in 1 .. n - 2 : 3 + i - 1 = i + 2
      OBVIOUS
    <2>. QED BY <2>2, <2>3
  <1>. HIDE DEF rest
  <1>3. CASE Remainder[ws[2]] = <<>>
    <2>1. BehindAnswer(ws) = rest
      BY <1>2, <1>3 DEF BehindAnswer, rest
    <2>. QED BY <1>2, <2>1
  <1>4. ASSUME NEW r \in Word, Remainder[ws[2]] = <<r>>, NoIp(r)
        PROVE  /\ BehindAnswer(ws) \in Seq(Word)
               /\ Len(BehindAnswer(ws)) = Len(ws) - 1
               /\ NoIp(BehindAnswer(ws)[1])
               /\ \A i \in 2 .. Len(ws) - 1 : BehindAnswer(ws)[i] = ws[i + 1]
    <2>1. BehindAnswer(ws) = <<r>> \o rest
      BY <1>4 DEF BehindAnswer, rest
    <2>2. /\ Len(<<r>> \o rest) = Len(rest) + 1 /\ (<<r>> \o rest)[1] = r
          /\ \A i \in 2 .. Len(rest) + 1 : (<<r>> \o rest)[i] = rest[i - 1]
      BY <1>2
    <2>3. \A i \in 2 .. Len(ws) - 1 : i - 1 \in 1 .. Len(ws) - 2 /\ (i - 1) + 2 = i + 1
      OBVIOUS
    <2>4. \A i \in 2 .. Len(ws) - 1 : i \in 2 .. Len(rest) + 1
      BY <1>2
    <2>. QED BY <1>2, <1>4, <2>1, <2>2, <2>3, <2>4
  <1>5. Remainder[ws[2]] = <<>> \/ \E r \in Word : Remainder[ws[2]] = <<r>> /\ NoIp(r)
    BY <1>1, ServerAssumption DEF RestOfNumber
  <1>. QED BY <1>3, <1>4, <1>5

(* Where the words left to p start, after one turn of its prompt. *)
LEMMA PromptLeaves ==
  ASSUME ServerTypes, NEW p \in Process, NEW d \in Nat, LeftFrom(p, d),
         Prompt(p)
  PROVE  \E e \in Nat : LeftFrom(p, e)'
  <1>. DEFINE ws == words[p]
              T  == typed[p].words
              s  == Scan(words[p], last[p])
  <1>1. ws \in Seq(Word) /\ T \in Seq(Word) /\ last[p] \in [ip : STRING, port : Int]
    BY WordsTypes DEF ServerTypes
  <1>2. words'[p] = s.left /\ typed' = typed
    <2>1. words' = [words EXCEPT ![p] = s.left] /\ typed' = typed
      BY DEF Prompt
    <2>2. DOMAIN words = Process
      BY DEF ServerTypes
    <2>. HIDE DEF s
    <2>. QED BY <2>1, <2>2
  <1>3. /\ Len(ws) \in Nat /\ Len(T) \in Nat /\ Len(ws) = Len(T) - d
        /\ \A i \in 2 .. Len(ws) : ws[i] = T[d + i]
    <2>1. Len(ws) \in Nat /\ Len(T) \in Nat
      BY <1>1
    <2>. QED BY <2>1 DEF LeftFrom
  <1>4. CASE s.left = ws
    BY <1>2, <1>4 DEF LeftFrom
  <1>5. CASE ws # <<>> /\ s.left = Tail(ws)
    <2>. DEFINE l == Tail(ws)
    <2>1. Len(l) = Len(ws) - 1 /\ \A i \in 1 .. Len(ws) - 1 : l[i] = ws[i + 1]
      BY <1>1, <1>5
    <2>. HIDE DEF l
    <2>2. \A i \in 1 .. Len(ws) - 1 : i + 1 \in 2 .. Len(ws) /\ d + (i + 1) = (d + 1) + i
      BY <1>3
    <2>3. \A i \in 1 .. Len(l) : l[i] = T[(d + 1) + i]
      BY <1>3, <2>1, <2>2
    <2>4. Len(l) = Len(T) - (d + 1) /\ d + 1 \in Nat
      BY <1>3, <2>1
    <2>5. l # <<>> => 1 \in 1 .. Len(l)
      BY <1>1, <2>1 DEF l
    <2>6. /\ \A i \in 2 .. Len(l) : l[i] = T[(d + 1) + i]
          /\ l # <<>> => l[1] = T[(d + 1) + 1]
      BY <2>3, <2>5, <2>1, <1>3
    <2>7. words'[p] = l /\ typed'[p].words = T
      BY <1>2, <1>5 DEF l
    <2>8. LeftFrom(p, d + 1)'
      BY <2>4, <2>6, <2>7 DEF LeftFrom
    <2>. QED BY <2>4, <2>8
  <1>6. CASE Len(ws) > 1 /\ Decimal[ws[2]] # NotDecimal /\ s.left = BehindAnswer(ws)
    <2>. DEFINE l == BehindAnswer(ws)
    <2>1. /\ l \in Seq(Word)
          /\ \/ /\ Len(l) = Len(ws) - 2
                /\ \A i \in 1 .. Len(ws) - 2 : l[i] = ws[i + 2]
             \/ /\ Len(l) = Len(ws) - 1
                /\ NoIp(l[1])
                /\ \A i \in 2 .. Len(ws) - 1 : l[i] = ws[i + 1]
      BY <1>1, <1>6, BehindAnswerIs
    <2>. HIDE DEF l
    <2>2. words'[p] = l /\ typed'[p].words = T
      BY <1>2, <1>6 DEF l
    <2>3. CASE Len(l) = Len(ws) - 2 /\ \A i \in 1 .. Len(ws) - 2 : l[i] = ws[i + 2]
      <3>1. \A i \in 1 .. Len(ws) - 2 : i + 2 \in 2 .. Len(ws) /\ d + (i + 2) = (d + 2) + i
        BY <1>3
      <3>2. \A i \in 1 .. Len(l) : l[i] = T[(d + 2) + i]
        BY <1>3, <2>3, <3>1
      <3>3. Len(l) = Len(T) - (d + 2) /\ d + 2 \in Nat
        BY <1>3, <2>3
      <3>4. l # <<>> => 1 \in 1 .. Len(l)
        BY <2>1
      <3>5. \A i \in 2 .. Len(l) : i \in 1 .. Len(l)
        OBVIOUS
      <3>6. \A i \in 2 .. Len(l) : l[i] = T[(d + 2) + i]
        BY <3>2, <3>5
      <3>7. l # <<>> => l[1] = T[(d + 2) + 1]
        BY <3>2, <3>4
      <3>8. LeftFrom(p, d + 2)'
        BY <2>2, <3>3, <3>6, <3>7 DEF LeftFrom
      <3>. QED BY <3>3, <3>8
    <2>4. CASE Len(l) = Len(ws) - 1 /\ NoIp(l[1]) /\ \A i \in 2 .. Len(ws) - 1 : l[i] = ws[i + 1]
      <3>1. \A i \in 2 .. Len(ws) - 1 : i + 1 \in 2 .. Len(ws) /\ d + (i + 1) = (d + 1) + i
        BY <1>3
      <3>2. \A i \in 2 .. Len(l) : l[i] = T[(d + 1) + i]
        BY <1>3, <2>4, <3>1
      <3>3. Len(l) = Len(T) - (d + 1) /\ d + 1 \in Nat
        BY <1>3, <2>4
      <3>4. NoIp(words'[p][1])
        BY <2>2, <2>4
      <3>5. LeftFrom(p, d + 1)'
        <4>1. NoIp(words[p][1])'
          BY <3>4 DEF NoIp
        <4>. QED BY <2>2, <3>2, <3>3, <4>1 DEF LeftFrom
      <3>. QED BY <3>3, <3>5
    <2>. QED BY <2>1, <2>3, <2>4
  <1>. QED BY <1>1, <1>4, <1>5, <1>6, ScanCases

(* A server that has left its prompt serves where it was told to. *)
LEMMA PromptServes ==
  ASSUME ServerTypes, NEW p \in Process, NEW d \in Nat, LeftFrom(p, d),
         Prompt(p), at'[p] = "serve"
  PROVE  AsTyped(p)' /\ bound'[p] \in Bindable
  <1>. DEFINE ws == words[p]
              T  == typed[p].words
              s  == Scan(words[p], last[p])
              port == Decimal[ws[2]]
  <1>1. ws \in Seq(Word) /\ T \in Seq(Word) /\ last[p] \in [ip : STRING, port : Int]
    BY WordsTypes DEF ServerTypes
  <1>2. at[p] = "prompt" /\ typed' = typed
    BY DEF Prompt
  <1>3. Taken(s.count, Binds(p, s.now))
    BY DEF Prompt, ServerTypes
  <1>4. PICK b \in Binds(p, s.now) : bound' = [bound EXCEPT ![p] = b]
    BY <1>3 DEF Prompt, Taken
  <1>5. /\ Len(ws) > 1 /\ port # NotDecimal /\ s.count = 2
        /\ s.now = [ip |-> ws[1], port |-> port]
    <2>1. s.count = 2
      BY <1>3 DEF Taken
    <2>2. \/ /\ ws = <<>> /\ s.count = -1 /\ s.now = last[p] /\ s.left = ws
          \/ /\ ws # <<>> /\ s.count = 1
             /\ s.now = [ip |-> ws[1], port |-> last[p].port] /\ s.left = Tail(ws)
          \/ /\ Len(ws) > 1 /\ Decimal[ws[2]] # NotDecimal /\ s.count = 2
             /\ s.now = [ip |-> ws[1], port |-> Decimal[ws[2]]]
             /\ s.left = BehindAnswer(ws)
      BY <1>1, ScanCases
    <2>. HIDE DEF s
    <2>. QED BY <2>1, <2>2
  <1>. HIDE DEF s, port
  <1>6. PICK n \in Ports(port) : b = [ip |-> ws[1], port |-> n] /\ b \in Bindable
    BY <1>4, <1>5 DEF Binds
  <1>7. bound'[p] = b
    BY <1>4 DEF ServerTypes
  <1>8. b.ip = ws[1] /\ b.port = n
    BY <1>6
  <1>9. ws[1] = T[d + 1]
    <2>1. ws # <<>>
      BY <1>5, <1>1
    <2>2. ~NoIp(ws[1])
      BY <1>6, <1>8 DEF NoIp
    <2>. QED BY <2>1, <2>2 DEF LeftFrom
  <1>10. ws[2] = T[(d + 1) + 1]
    <2>1. 2 \in 2 .. Len(ws) /\ d + 2 = (d + 1) + 1
      BY <1>1, <1>5
    <2>. QED BY <2>1 DEF LeftFrom
  <1>11. d + 1 \in 1 .. Len(T) - 1
    <2>1. Len(ws) = Len(T) - d /\ Len(T) \in Nat
      BY <1>1 DEF LeftFrom
    <2>. QED BY <1>5, <2>1
  <1>12. port = Decimal[T[(d + 1) + 1]]
    BY <1>10 DEF port
  <1>13. AsTyped(p)'
    BY <1>2, <1>5, <1>6, <1>7, <1>8, <1>9, <1>11, <1>12 DEF AsTyped, Ports
  <1>. QED BY <1>6, <1>7, <1>13

-----------------------------------------------------------------------------
(* The steps as the servers and the list see them. *)
Elsewhere ==
  /\ UNCHANGED <<listVars, serverVars>>
  /\ tool = "list" => Parsing \/ Cap("work") \/ UNCHANGED startVars

LEMMA ListKinds ==
  ASSUME [Next]_vars
  PROVE  /\ tool' = tool
         /\ \/ Elsewhere \/ ListStep
            \/ (\E p \in Process : Pong(p)) \/ (\E a \in Address : Duplicate(a))
            \/ ServerStep
  <1>1. tool' = tool
    BY StepKinds DEF Parsing, CheckArgc, ParseOption, ParseEnd, NodesFail, NodesLine, NodesEnd,
                     Cap, Exit, Later, StartKept
  <1>2. CASE KeyToolStep /\ UNCHANGED <<listVars, serverVars>>
    <2>1. tool \in KeyTools
      BY <1>2 DEF KeyToolStep, Refuse, NoNodes, ScenarioPut, Get, ScenarioEnd, PutArgument,
                  PrintValue, Cat, Find, Substr, AllRead, Working
    <2>2. tool # "list"
      BY <2>1, ToolsAssumption
    <2>. QED BY <1>1, <1>2, <2>2 DEF Elsewhere
  <1>3. CASE (\E k \in Key, v \in Values : OtherPut(k, v)) /\ UNCHANGED <<listVars, serverVars>>
    BY <1>1, <1>3 DEF OtherPut, Elsewhere
  <1>4. CASE UNCHANGED vars
    BY <1>1, <1>4 DEF vars, Elsewhere
  <1>5. CASE (Parsing \/ Cap("work")) /\ UNCHANGED <<toolsVars, listVars, serverVars>>
    BY <1>1, <1>5 DEF Elsewhere
  <1>. QED BY <1>1, <1>2, <1>3, <1>4, <1>5 DEF Next, Run, Around, Answer

(* Only the prompt and the end of a server change what the servers hold. *)
LEMMA ServersKept == UNCHANGED <<tool, serverVars>> /\ ServersInv => ServersInv'
  <1>. SUFFICES ASSUME UNCHANGED <<tool, serverVars>>, ServersInv
                PROVE  ServersInv'
    OBVIOUS
  <1>1. UNCHANGED <<tool, at, typed, words, last, bound>>
    BY DEF serverVars
  <1>2. NoServers' = NoServers
    BY <1>1 DEF NoServers
  <1>3. ServerTypes' = ServerTypes
    BY <1>1 DEF ServerTypes
  <1>4. \A p, d : LeftFrom(p, d)' = LeftFrom(p, d)
    BY <1>1 DEF LeftFrom
  <1>5. \A p : AsTyped(p)' = AsTyped(p)
    BY <1>1 DEF AsTyped, Ports
  <1>. QED BY <1>1, <1>2, <1>3, <1>4, <1>5 DEF ServersInv

LEMMA PromptTypes ==
  ASSUME ServerTypes, NEW p \in Process, Prompt(p)
  PROVE  ServerTypes'
  <1>. DEFINE s == Scan(words[p], last[p])
  <1>1. words[p] \in Seq(Word) /\ last[p] \in [ip : STRING, port : Int]
    BY DEF ServerTypes
  <1>2. s.left \in Seq(Word) /\ s.now \in [ip : STRING, port : Int]
    <2>1. Word \subseteq STRING /\ \A w \in Word : Decimal[w] # NotDecimal => Decimal[w] \in Int
      BY ServerAssumption
    <2>2. words[p] # <<>> => words[p][1] \in Word
      BY <1>1
    <2>3. Len(words[p]) > 1 => words[p][2] \in Word
      BY <1>1
    <2>4. words[p] # <<>> => Tail(words[p]) \in Seq(Word)
      BY <1>1
    <2>5. Len(words[p]) > 1 => words[p] # <<>>
      BY <1>1
    <2>6. \/ s.now = last[p] /\ s.left = words[p]
          \/ /\ words[p] # <<>>
             /\ s.now = [ip |-> words[p][1], port |-> last[p].port] /\ s.left = Tail(words[p])
          \/ /\ Len(words[p]) > 1 /\ Decimal[words[p][2]] # NotDecimal
             /\ s.now = [ip |-> words[p][1], port |-> Decimal[words[p][2]]]
             /\ s.left = BehindAnswer(words[p])
      BY <1>1, ScanCases
    <2>7. Len(words[p]) > 1 /\ Decimal[words[p][2]] # NotDecimal
            => BehindAnswer(words[p]) \in Seq(Word)
      BY <1>1, BehindAnswerIs
    <2>8. last[p].port \in Int
      BY <1>1
    <2>. HIDE DEF s
    <2>9. \A a \in Word, n \in Int : [ip |-> a, port |-> n] \in [ip : STRING, port : Int]
      BY <2>1
    <2>10. Decimal[words[p][2]] # NotDecimal /\ Len(words[p]) > 1 => Decimal[words[p][2]] \in Int
      BY <2>1, <2>3
    <2>11. s.left \in Seq(Word)
      BY <1>1, <2>4, <2>6, <2>7
    <2>12. s.now \in [ip : STRING, port : Int]
      BY <1>1, <2>2, <2>5, <2>6, <2>8, <2>9, <2>10
    <2>. QED BY <2>11, <2>12
  <1>. HIDE DEF s
  <1>3. words' = [words EXCEPT ![p] = s.left] /\ last' = [last EXCEPT ![p] = s.now]
    BY DEF Prompt, s
  <1>4. \/ UNCHANGED bound
        \/ \E b \in Binds(p, s.now) : bound' = [bound EXCEPT ![p] = b]
    BY DEF Prompt, s
  <1>5. \A b \in Binds(p, s.now) : b \in Bindable
    BY DEF Binds
  <1>6. \E v \in {"prompt", "serve", "exit"} : at' = [at EXCEPT ![p] = v]
    BY DEF Prompt
  <1>7. typed' = typed
    BY DEF Prompt
  <1>8. bound' \in [Process -> Bindable \cup {Unbound}]
    BY <1>4, <1>5 DEF ServerTypes
  <1>9. at' \in [Process -> {"prompt", "serve", "exit"}]
    BY <1>6 DEF ServerTypes
  <1>10. words' \in [Process -> Seq(Word)] /\ last' \in [Process -> [ip : STRING, port : Int]]
    BY <1>2, <1>3 DEF ServerTypes
  <1>. QED BY <1>7, <1>8, <1>9, <1>10 DEF ServerTypes

LEMMA ServerStepKeeps ==
  ASSUME ServersInv, ServerStep, tool' = tool
  PROVE  ServersInv'
  <1>1. /\ tool = "list" /\ ServerTypes
        /\ \A p \in Process : \E d \in Nat : LeftFrom(p, d)
        /\ \A p \in Process : at[p] = "serve" => AsTyped(p) /\ bound[p] \in Bindable
    BY DEF ServerStep, ServersInv
  <1>2. PICK p \in Process : Prompt(p) \/ Kill(p)
    BY DEF ServerStep
  <1>3. CASE Prompt(p)
    <2>1. ServerTypes'
      BY <1>1, <1>3, PromptTypes
    <2>2. \A q \in Process : q # p =>
            /\ words'[q] = words[q] /\ at'[q] = at[q] /\ bound'[q] = bound[q]
      BY <1>1, <1>3 DEF Prompt, ServerTypes
    <2>3. typed' = typed
      BY <1>3 DEF Prompt
    <2>4. ASSUME NEW q \in Process
          PROVE  (\E d \in Nat : LeftFrom(q, d))'
      <3>1. CASE q = p
        BY <1>1, <1>3, <3>1, PromptLeaves
      <3>2. CASE q # p
        <4>1. words'[q] = words[q]
          BY <2>2, <3>2
        <4>2. \A d : LeftFrom(q, d)' = LeftFrom(q, d)
          BY <2>3, <4>1 DEF LeftFrom
        <4>. QED BY <1>1, <4>2
      <3>. QED BY <3>1, <3>2
    <2>5. ASSUME NEW q \in Process, at'[q] = "serve"
          PROVE  AsTyped(q)' /\ bound'[q] \in Bindable
      <3>1. CASE q = p
        BY <1>1, <1>3, <2>5, <3>1, PromptServes
      <3>2. CASE q # p
        <4>1. AsTyped(q) /\ bound[q] \in Bindable
          BY <1>1, <2>2, <2>5, <3>2
        <4>2. bound'[q] = bound[q]
          BY <2>2, <3>2
        <4>. QED BY <4>1, <4>2, <2>3 DEF AsTyped, Ports
      <3>. QED BY <3>1, <3>2
    <2>. QED BY <1>1, <2>1, <2>4, <2>5 DEF ServersInv
  <1>4. CASE Kill(p)
    <2>1. ServerTypes'
      BY <1>1, <1>4 DEF Kill, ServerTypes
    <2>2. UNCHANGED <<typed, words, last, bound>>
      BY <1>4 DEF Kill
    <2>3. \A q \in Process : at'[q] = "serve" => at[q] = "serve"
      BY <1>1, <1>4 DEF Kill, ServerTypes
    <2>4. \A q \in Process : \A d : LeftFrom(q, d)' = LeftFrom(q, d)
      BY <2>2 DEF LeftFrom
    <2>5. \A q \in Process : AsTyped(q)' = AsTyped(q)
      BY <2>2 DEF AsTyped, Ports
    <2>. QED BY <1>1, <2>1, <2>2, <2>3, <2>4, <2>5 DEF ServersInv
  <1>. QED BY <1>2, <1>3, <1>4

LEMMA InitServers == Init => ServersInv
  <1>. SUFFICES ASSUME Init
                PROVE  ServersInv
    OBVIOUS
  <1>1. tool # "list" => NoServers
    BY DEF Init
  <1>2. ASSUME tool = "list"
        PROVE  /\ ServerTypes
               /\ \A p \in Process : LeftFrom(p, 0)
               /\ \A p \in Process : at[p] = "prompt"
    <2>1. ServerInit
      BY <1>2 DEF Init
    <2>2. Garbage \subseteq [ip : STRING, port : Int]
      BY ServerAssumption
    <2>3. ServerTypes
      BY <2>1, <2>2, WordsTypes DEF ServerInit, ServerTypes
    <2>4. ASSUME NEW p \in Process
          PROVE  LeftFrom(p, 0)
      <3>1. words[p] = typed[p].words /\ words[p] \in Seq(Word)
        BY <2>1, <2>3 DEF ServerInit, ServerTypes
      <3>2. Len(words[p]) \in Nat /\ \A n \in Nat : n - 0 = n /\ 0 + n = n
        BY <3>1
      <3>. QED BY <3>1, <3>2 DEF LeftFrom
    <2>. QED BY <2>1, <2>3, <2>4 DEF ServerInit
  <1>3. 0 \in Nat
    OBVIOUS
  <1>. QED BY <1>1, <1>2, <1>3 DEF ServersInv

LEMMA ServersStayTrue == ServersInv /\ [Next]_vars => ServersInv'
  <1>. SUFFICES ASSUME ServersInv, [Next]_vars
                PROVE  ServersInv'
    OBVIOUS
  <1>1. tool' = tool
    BY ListKinds
  <1>2. UNCHANGED serverVars \/ ServerStep
    BY ListKinds DEF Elsewhere, ListStep, Ping, Recv, RecvTimeout, PrintNodes, Pong, Duplicate
  <1>. QED BY <1>1, <1>2, ServersKept, ServerStepKeeps

(* No pings under way, no answers: the list at its start. *)
LEMMA NothingPinged ==
  ASSUME ListInit, StartTypes
  PROVE  ListTypes /\ UnderWay({}) /\ Answered
  <1>1. Cardinality({}) = 0
    BY FS_EmptySet
  <1>2. \A a : {i \in {} : ring[i] = a} = {}
    OBVIOUS
  <1>3. ToSet(inbox) = {}
    BY DEF ListInit, ToSet
  <1>4. Len(ring) \in Nat
    BY DEF StartTypes
  <1>5. Len(inbox) = 0 /\ inbox \in Seq(Address)
    BY DEF ListInit
  <1>6. extra = 0 /\ count = 0 /\ ok = {} /\ pings = [a \in Address |-> 0]
    BY DEF ListInit
  <1>7. 0 \in 0 .. MaxDuplicates
    BY ListAssumption
  <1>8. count + Len(inbox) + Cardinality({}) <= Len(ring) + extra
    BY <1>1, <1>4, <1>5, <1>6
  <1>. QED BY <1>1, <1>2, <1>3, <1>5, <1>6, <1>7, <1>8 DEF ListTypes, UnderWay, Answered

LEMMA BeforePings ==
  ASSUME ListInit', StartTypes', tool' = "list" => status' # "OK" /\ pc' # "print",
         tool' = "list" => (pc' # "exit" => status' = "none")
  PROVE  ListInv'
  <1>1. (ListInit /\ StartTypes => ListTypes /\ UnderWay({}) /\ Answered)'
    BY NothingPinged, PTL
  <1>2. ListTypes' /\ UnderWay({})' /\ Answered'
    BY <1>1
  <1>3. (\E D \in SUBSET (1 .. Len(ring)) : UnderWay(D))'
    BY <1>2
  <1>. QED BY <1>2, <1>3 DEF ListInv

LEMMA InitList == Init => ListInv
  <1>. SUFFICES ASSUME Init
                PROVE  ListInv
    OBVIOUS
  <1>1. ListInit /\ StartTypes
    BY InitStart DEF Init
  <1>2. pc = "start" /\ status = "none"
    BY DEF Init, StartInit
  <1>3. ListTypes /\ UnderWay({}) /\ Answered
    BY <1>1, NothingPinged
  <1>. QED BY <1>1, <1>2, <1>3 DEF ListInv

(* What the start of the tool leaves of the list. *)
LEMMA StartOfList ==
  ASSUME StartTypes, StartTypes', ListInv, Parsing \/ Cap("work"), UNCHANGED listVars,
         tool' = tool, tool = "list"
  PROVE  ListInv'
  <1>1. pc \in {"start", "parse", "nodes", "cap"}
    BY DEF Parsing, CheckArgc, ParseOption, ParseEnd, NodesFail, NodesLine, NodesEnd, Cap
  <1>2. \/ pc' \in {"parse", "nodes", "cap", "work"} /\ status' = status
        \/ pc' = "exit" /\ status' \in {"FAIL", "crash"}
    BY <1>1 DEF Parsing, CheckArgc, ParseOption, ParseEnd, NodesFail, NodesLine, NodesEnd, Cap, Exit
  <1>3. ListInit /\ status = "none"
    BY <1>1 DEF ListInv, NotYetPinged
  <1>4. ListInit'
    BY <1>3 DEF ListInit, listVars
  <1>. QED BY <1>2, <1>3, <1>4, BeforePings

(* A step that leaves the list alone keeps what has served its answers. *)
LEMMA ServedKept ==
  ASSUME NEW a, ServersInv, Served(a), UNCHANGED serverVars \/ ServerStep
  PROVE  Served(a)'
  <1>1. PICK p \in Process : bound[p] = a /\ at[p] # "prompt"
    BY DEF Served
  <1>2. CASE UNCHANGED serverVars
    BY <1>1, <1>2 DEF serverVars, Served
  <1>3. CASE ServerStep
    <2>1. ServerTypes
      BY <1>3 DEF ServerStep, ServersInv
    <2>2. PICK q \in Process : Prompt(q) \/ Kill(q)
      BY <1>3 DEF ServerStep
    <2>3. bound'[p] = bound[p] /\ at'[p] # "prompt"
      <3>1. CASE Prompt(q)
        <4>1. p # q
          BY <1>1, <3>1 DEF Prompt
        <4>. QED BY <1>1, <2>1, <3>1, <4>1 DEF Prompt, ServerTypes
      <3>2. CASE Kill(q)
        BY <1>1, <2>1, <3>2 DEF Kill, ServerTypes
      <3>. QED BY <2>2, <3>1, <3>2
    <2>. QED BY <1>1, <2>3 DEF Served
  <1>. QED BY <1>2, <1>3

LEMMA ListAlone ==
  ASSUME ServersInv, ListInv, UNCHANGED <<startVars, listVars>>,
         UNCHANGED serverVars \/ ServerStep
  PROVE  ListInv'
  <1>1. UNCHANGED <<tool, pc, ring, status, pings, inbox, extra, ok, count, printed>>
    BY DEF startVars, listVars
  <1>2. Answered'
    BY <1>1, ServedKept DEF ListInv, Answered, ToSet
  <1>3. ListTypes' = ListTypes /\ NotYetPinged' = NotYetPinged /\ ListInit' = ListInit
    BY <1>1 DEF ListTypes, NotYetPinged, ListInit
  <1>4. \A D : UnderWay(D)' = UnderWay(D)
    BY <1>1 DEF UnderWay
  <1>5. Printed' = Printed
    BY <1>1 DEF Printed, ToSet
  <1>. QED BY <1>1, <1>2, <1>3, <1>4, <1>5 DEF ListInv

LEMMA OneTo ==
  ASSUME NEW n \in Nat
  PROVE  IsFiniteSet(1 .. n) /\ Cardinality(1 .. n) = n
  <1>1. Cardinality(1 .. n) = IF 1 > n THEN 0 ELSE n - 1 + 1
    BY FS_Interval
  <1>. QED BY <1>1, FS_Interval

LEMMA PingKeeps ==
  ASSUME StartTypes, ListInv, Ping
  PROVE  ListInv'
  <1>1. ListInit /\ tool = "list" /\ pc = "work" /\ status = "none"
    BY DEF Ping, Listing, ListInv, NotYetPinged
  <1>2. /\ UNCHANGED <<tool, ring, status, inbox, extra, ok, count, printed>>
        /\ pc' = "recv"
    BY DEF Ping
  <1>3. inbox = <<>> /\ extra = 0 /\ count = 0 /\ ok = {}
    BY <1>1 DEF ListInit
  <1>. DEFINE D == 1 .. Len(ring)
  <1>4. D = DOMAIN ring /\ Len(ring) \in Nat /\ Cardinality(D) = Len(ring)
    <2>1. Len(ring) \in Nat /\ DOMAIN ring = D
      BY DEF StartTypes
    <2>. QED BY <2>1, OneTo
  <1>5. UnderWay(D)'
    <2>1. pings' = [a \in Address |-> Cardinality({i \in D : ring[i] = a})]
      BY <1>4 DEF Ping
    <2>2. count' + Len(inbox') + Cardinality(D) <= Len(ring') + extra'
      BY <1>2, <1>3, <1>4
    <2>. QED BY <1>2, <2>1, <2>2 DEF UnderWay
  <1>6. (\E X \in SUBSET (1 .. Len(ring)) : UnderWay(X))'
    BY <1>2, <1>5
  <1>7. ListTypes' /\ Answered'
    <2>1. ToSet(inbox') = {}
      BY <1>2, <1>3 DEF ToSet
    <2>2. ListTypes
      BY DEF ListInv
    <2>. QED BY <1>2, <1>3, <2>1, <2>2 DEF ListTypes, Answered
  <1>. QED BY <1>1, <1>2, <1>6, <1>7 DEF ListInv, NotYetPinged

(* A ping is answered: one of the nodes waited for is not any more. *)
LEMMA OneLess ==
  ASSUME StartTypes, ListTypes, NEW D \in SUBSET (1 .. Len(ring)), UnderWay(D),
         NEW a \in Address, pings[a] > 0
  PROVE  /\ a \in ToSet(ring)
         /\ \E E \in SUBSET (1 .. Len(ring)) :
              /\ Cardinality(E) = Cardinality(D) - 1
              /\ [pings EXCEPT ![a] = @ - 1] = [b \in Address |-> Cardinality({i \in E : ring[i] = b})]
  <1>. DEFINE Of(X, b) == {i \in X : ring[i] = b}
  <1>1. Len(ring) \in Nat /\ DOMAIN ring = 1 .. Len(ring)
    BY DEF StartTypes
  <1>2. IsFiniteSet(1 .. Len(ring))
    BY <1>1, FS_Interval
  <1>3. IsFiniteSet(D) /\ \A b : IsFiniteSet(Of(D, b)) /\ Cardinality(Of(D, b)) \in Nat
    BY <1>2, FS_Subset, FS_CardinalityType
  <1>4. pings = [b \in Address |-> Cardinality(Of(D, b))]
    BY DEF UnderWay
  <1>5. PICK j \in D : ring[j] = a
    <2>1. Cardinality(Of(D, a)) > 0
      BY <1>4
    <2>2. Of(D, a) # {}
      BY <2>1, FS_EmptySet
    <2>. QED BY <2>2
  <1>. DEFINE E == D \ {j}
  <1>6. Cardinality(E) = Cardinality(D) - 1
    BY <1>3, <1>5, FS_RemoveElement
  <1>7. Cardinality(Of(E, a)) = Cardinality(Of(D, a)) - 1
    <2>1. Of(E, a) = Of(D, a) \ {j} /\ j \in Of(D, a)
      BY <1>5
    <2>. HIDE DEF E, Of
    <2>. QED BY <1>3, <2>1, FS_RemoveElement
  <1>8. \A b : b # a => Of(E, b) = Of(D, b)
    BY <1>5
  <1>9. [pings EXCEPT ![a] = @ - 1] = [b \in Address |-> Cardinality(Of(E, b))]
    <2>. HIDE DEF E, Of
    <2>. QED BY <1>4, <1>7, <1>8
  <1>10. a \in ToSet(ring)
    BY <1>1, <1>5 DEF ToSet
  <1>11. E \in SUBSET (1 .. Len(ring))
    OBVIOUS
  <1>. QED BY <1>6, <1>9, <1>10, <1>11

LEMMA AppendedSet ==
  ASSUME NEW S, NEW s \in Seq(S), NEW a \in S
  PROVE  /\ Append(s, a) \in Seq(S) /\ Len(Append(s, a)) = Len(s) + 1
         /\ ToSet(Append(s, a)) = ToSet(s) \cup {a}
  <1>1. /\ Append(s, a) \in Seq(S) /\ Len(Append(s, a)) = Len(s) + 1 /\ Len(s) \in Nat
        /\ DOMAIN Append(s, a) = 1 .. Len(s) + 1 /\ DOMAIN s = 1 .. Len(s)
        /\ \A i \in 1 .. Len(s) : Append(s, a)[i] = s[i]
        /\ Append(s, a)[Len(s) + 1] = a
    OBVIOUS
  <1>2. 1 .. Len(s) + 1 = (1 .. Len(s)) \cup {Len(s) + 1}
    BY <1>1
  <1>. DEFINE t == Append(s, a)
  <1>. HIDE DEF t
  <1>3. \A i \in DOMAIN t : t[i] \in ToSet(s) \cup {a}
    BY <1>1, <1>2 DEF ToSet, t
  <1>4. \A x \in ToSet(s) \cup {a} : \E i \in DOMAIN t : t[i] = x
    BY <1>1, <1>2 DEF ToSet, t
  <1>5. ToSet(t) = ToSet(s) \cup {a}
    BY <1>3, <1>4 DEF ToSet
  <1>. QED BY <1>1, <1>5 DEF t

LEMMA HeadTakenSet ==
  ASSUME NEW S, NEW s \in Seq(S), s # <<>>
  PROVE  /\ Tail(s) \in Seq(S) /\ Len(Tail(s)) = Len(s) - 1 /\ Head(s) \in S
         /\ ToSet(Tail(s)) \subseteq ToSet(s) /\ Head(s) \in ToSet(s)
  <1>1. /\ Tail(s) \in Seq(S) /\ Len(Tail(s)) = Len(s) - 1 /\ Head(s) \in S
        /\ Head(s) = s[1] /\ 1 \in DOMAIN s /\ Len(s) \in Nat
        /\ \A i \in DOMAIN Tail(s) : Tail(s)[i] = s[i + 1] /\ i + 1 \in DOMAIN s
    OBVIOUS
  <1>. QED BY <1>1 DEF ToSet

LEMMA SetOfSeq ==
  ASSUME NEW S, NEW s \in Seq(S)
  PROVE  IsFiniteSet(ToSet(s)) /\ Cardinality(ToSet(s)) <= Len(s)
  <1>1. Len(s) \in Nat /\ DOMAIN s = 1 .. Len(s) /\ s = [i \in 1 .. Len(s) |-> s[i]]
    OBVIOUS
  <1>2. s \in Surjection(1 .. Len(s), ToSet(s))
    BY <1>1 DEF ToSet, Surjection
  <1>3. IsFiniteSet(1 .. Len(s)) /\ Cardinality(1 .. Len(s)) = Len(s)
    BY <1>1, OneTo
  <1>4. /\ IsFiniteSet(ToSet(s))
        /\ Cardinality(ToSet(s)) <= Cardinality(1 .. Len(s))
    BY <1>2, <1>3, FS_Surjection
  <1>. QED BY <1>3, <1>4

LEMMA PongKeeps ==
  ASSUME StartTypes, ServersInv, ListInv, NEW p \in Process, Pong(p)
  PROVE  ListInv'
  <1>. DEFINE a == bound[p]
  <1>1. /\ tool = "list" /\ pc = "recv" /\ a \in Address /\ pings[a] > 0 /\ at[p] = "serve"
        /\ pings' = [pings EXCEPT ![a] = @ - 1]
        /\ inbox' = inbox \/ inbox' = Append(inbox, a)
        /\ UNCHANGED <<tool, pc, ring, status, extra, ok, count, printed, at, bound>>
    BY DEF Pong, Listing, startVars, serverVars
  <1>2. ListTypes /\ Answered /\ status = "none"
    BY <1>1 DEF ListInv
  <1>3. PICK D \in SUBSET (1 .. Len(ring)) : UnderWay(D)
    BY DEF ListInv
  <1>. HIDE DEF a
  <1>4. PICK E \in SUBSET (1 .. Len(ring)) :
          /\ Cardinality(E) = Cardinality(D) - 1
          /\ pings' = [b \in Address |-> Cardinality({i \in E : ring[i] = b})]
    <2>1. a \in Address /\ pings[a] > 0 /\ pings' = [pings EXCEPT ![a] = @ - 1]
      BY <1>1
    <2>2. \E E \in SUBSET (1 .. Len(ring)) :
            /\ Cardinality(E) = Cardinality(D) - 1
            /\ [pings EXCEPT ![a] = @ - 1] = [b \in Address |-> Cardinality({i \in E : ring[i] = b})]
      BY <1>2, <1>3, <2>1, OneLess
    <2>. QED BY <2>1, <2>2
  <1>5. a \in ToSet(ring) /\ Served(a)
    BY <1>1, <1>2, <1>3, OneLess DEF Served, a
  <1>6. /\ inbox' \in Seq(Address) /\ Len(inbox') \in {Len(inbox), Len(inbox) + 1}
        /\ ToSet(inbox') \subseteq ToSet(inbox) \cup {a}
    <2>1. inbox \in Seq(Address)
      BY <1>2 DEF ListTypes
    <2>2. a \in Address /\ (inbox' = inbox \/ inbox' = Append(inbox, a))
      BY <1>1
    <2>3. /\ Append(inbox, a) \in Seq(Address) /\ Len(Append(inbox, a)) = Len(inbox) + 1
          /\ ToSet(Append(inbox, a)) = ToSet(inbox) \cup {a}
      BY <2>1, <2>2, AppendedSet
    <2>4. CASE inbox' = inbox
      BY <2>1, <2>4
    <2>5. CASE inbox' = Append(inbox, a)
      BY <2>3, <2>5
    <2>. QED BY <2>2, <2>4, <2>5
  <1>7. UnderWay(E)'
    <2>1. count + Len(inbox) + Cardinality(D) <= Len(ring) + extra
      BY <1>3 DEF UnderWay
    <2>2. /\ count \in Nat /\ Len(inbox) \in Nat /\ Len(ring) \in Nat /\ extra \in Nat
      BY <1>2 DEF StartTypes, ListTypes
    <2>3. Cardinality(D) \in Nat
      <3>1. IsFiniteSet(1 .. Len(ring))
        BY <2>2, OneTo
      <3>. QED BY <3>1, FS_Subset, FS_CardinalityType
    <2>4. count + Len(inbox') + Cardinality(E) <= Len(ring) + extra
      BY <1>4, <1>6, <2>1, <2>2, <2>3
    <2>. QED BY <1>1, <1>4, <2>4 DEF UnderWay
  <1>8. (\E X \in SUBSET (1 .. Len(ring)) : UnderWay(X))'
    BY <1>1, <1>7
  <1>9. Answered'
    <2>1. \A b : Served(b)' = Served(b)
      BY <1>1 DEF Served
    <2>2. ToSet(ring') = ToSet(ring)
      BY <1>1
    <2>. QED BY <1>1, <1>2, <1>5, <1>6, <2>1, <2>2 DEF Answered
  <1>10. ListTypes'
    BY <1>1, <1>2, <1>6 DEF ListTypes
  <1>. QED BY <1>1, <1>2, <1>8, <1>9, <1>10 DEF ListInv, NotYetPinged

LEMMA DuplicateKeeps ==
  ASSUME StartTypes, ListInv, NEW a \in Address, Duplicate(a)
  PROVE  ListInv'
  <1>1. /\ tool = "list" /\ pc = "recv" /\ extra < MaxDuplicates /\ a \in ok \cup ToSet(inbox)
        /\ inbox' = Append(inbox, a) /\ extra' = extra + 1
        /\ UNCHANGED <<tool, pc, ring, status, pings, ok, count, printed, at, bound>>
    BY DEF Duplicate, Listing, startVars, serverVars
  <1>2. ListTypes /\ Answered /\ status = "none"
    BY <1>1 DEF ListInv
  <1>3. PICK D \in SUBSET (1 .. Len(ring)) : UnderWay(D)
    BY DEF ListInv
  <1>4. /\ inbox' \in Seq(Address) /\ Len(inbox') = Len(inbox) + 1
        /\ ToSet(inbox') = ToSet(inbox) \cup {a}
    <2>1. inbox \in Seq(Address)
      BY <1>2 DEF ListTypes
    <2>. QED BY <1>1, <2>1, AppendedSet
  <1>5. UnderWay(D)'
    <2>1. count + Len(inbox) + Cardinality(D) <= Len(ring) + extra
      BY <1>3 DEF UnderWay
    <2>2. /\ count \in Nat /\ Len(inbox) \in Nat /\ Len(ring) \in Nat /\ extra \in Nat
      BY <1>2 DEF StartTypes, ListTypes
    <2>3. Cardinality(D) \in Nat
      <3>1. IsFiniteSet(1 .. Len(ring))
        BY <2>2, OneTo
      <3>. QED BY <3>1, FS_Subset, FS_CardinalityType
    <2>4. count + Len(inbox') + Cardinality(D) <= Len(ring) + extra'
      BY <1>1, <1>4, <2>1, <2>2, <2>3
    <2>. QED BY <1>1, <1>3, <2>4 DEF UnderWay
  <1>6. (\E X \in SUBSET (1 .. Len(ring)) : UnderWay(X))'
    BY <1>1, <1>5
  <1>7. Answered'
    <2>1. \A b : Served(b)' = Served(b)
      BY <1>1 DEF Served
    <2>2. ToSet(ring') = ToSet(ring)
      BY <1>1
    <2>. QED BY <1>1, <1>2, <1>4, <2>1, <2>2 DEF Answered
  <1>8. ListTypes'
    BY <1>1, <1>2, <1>4, ListAssumption DEF ListTypes
  <1>. QED BY <1>1, <1>2, <1>6, <1>7, <1>8 DEF ListInv, NotYetPinged

LEMMA RecvKeeps ==
  ASSUME StartTypes, ListInv, Recv
  PROVE  ListInv'
  <1>1. /\ tool = "list" /\ pc = "recv" /\ inbox # <<>> /\ inbox' = Tail(inbox)
        /\ ok' = ok \cup {Head(inbox)} /\ count' = count + 1
        /\ pc' = IF count' >= Len(ring) THEN "print" ELSE "recv"
        /\ UNCHANGED <<tool, ring, status, pings, extra, printed, at, bound>>
    BY DEF Recv, Listing, serverVars, Enough
  <1>2. ListTypes /\ Answered /\ status = "none"
    BY <1>1 DEF ListInv
  <1>3. PICK D \in SUBSET (1 .. Len(ring)) : UnderWay(D)
    BY DEF ListInv
  <1>4. /\ inbox' \in Seq(Address) /\ Len(inbox') = Len(inbox) - 1 /\ Head(inbox) \in Address
        /\ ToSet(inbox') \subseteq ToSet(inbox) /\ Head(inbox) \in ToSet(inbox)
    <2>1. inbox \in Seq(Address)
      BY <1>2 DEF ListTypes
    <2>. QED BY <1>1, <2>1, HeadTakenSet
  <1>5. /\ count \in Nat /\ Len(inbox) \in Nat /\ Len(ring) \in Nat /\ extra \in Nat
    BY <1>2 DEF StartTypes, ListTypes
  <1>6. Cardinality(D) \in Nat
    <2>1. IsFiniteSet(1 .. Len(ring))
      BY <1>5, OneTo
    <2>. QED BY <2>1, FS_Subset, FS_CardinalityType
  <1>7. count' + Len(inbox') + Cardinality(D) <= Len(ring) + extra
    <2>1. count + Len(inbox) + Cardinality(D) <= Len(ring) + extra
      BY <1>3 DEF UnderWay
    <2>. QED BY <1>1, <1>4, <1>5, <1>6, <2>1
  <1>8. (\E X \in SUBSET (1 .. Len(ring)) : UnderWay(X))'
    <2>1. UnderWay(D)'
      BY <1>1, <1>3, <1>7 DEF UnderWay
    <2>. QED BY <1>1, <2>1
  <1>9. pc' = "print" => Len(inbox') <= extra'
    <2>1. pc' = "print" => count' >= Len(ring)
      BY <1>1
    <2>2. count' \in Nat /\ Len(inbox') \in Nat
      BY <1>1, <1>4, <1>5
    <2>. QED BY <1>1, <1>5, <1>6, <1>7, <2>1, <2>2
  <1>10. Answered'
    <2>1. \A b : Served(b)' = Served(b)
      BY <1>1 DEF Served
    <2>2. ToSet(ring') = ToSet(ring)
      BY <1>1
    <2>. QED BY <1>1, <1>2, <1>4, <2>1, <2>2 DEF Answered
  <1>11. ListTypes'
    BY <1>1, <1>2, <1>4 DEF ListTypes
  <1>. QED BY <1>1, <1>2, <1>8, <1>9, <1>10, <1>11 DEF ListInv, NotYetPinged

LEMMA RecvEndKeeps ==
  ASSUME ListInv, RecvTimeout \/ PrintNodes
  PROVE  ListInv'
  <1>1. /\ tool = "list" /\ pc \in {"recv", "print"} /\ pc' # pc /\ pc' \in {"print", "exit"}
        /\ UNCHANGED <<tool, ring, pings, inbox, extra, ok, count, at, bound>>
    BY DEF RecvTimeout, PrintNodes, Listing, Exit, listVars, serverVars
  <1>2. ListTypes' = ListTypes
    BY <1>1 DEF ListTypes
  <1>3. \A D : UnderWay(D)' = UnderWay(D)
    BY <1>1 DEF UnderWay
  <1>4. Answered' = Answered
    BY <1>1 DEF Answered, Served
  <1>5. Printed' = Printed
    BY <1>1 DEF Printed
  <1>6. CASE RecvTimeout
    <2>1. inbox = <<>> /\ pc = "recv" /\ pc' = "print" /\ status' = status
      BY <1>6 DEF RecvTimeout
    <2>2. Len(inbox') <= extra'
      BY <1>1, <2>1 DEF ListInv, ListTypes
    <2>3. status' = "none"
      BY <1>1, <2>1 DEF ListInv
    <2>. QED BY <1>1, <1>2, <1>3, <1>4, <2>1, <2>2, <2>3 DEF ListInv, NotYetPinged
  <1>7. CASE PrintNodes
    <2>1. pc = "print" /\ pc' = "exit" /\ status' = "OK" /\ printed' = Printed
      BY <1>7 DEF PrintNodes, Exit, Printed
    <2>. QED BY <1>1, <1>2, <1>3, <1>4, <1>5, <2>1 DEF ListInv, NotYetPinged
  <1>. QED BY <1>6, <1>7

LEMMA ListStaysTrue ==
  StartTypes /\ StartTypes' /\ ServersInv /\ ListInv /\ [Next]_vars => ListInv'
  <1>. SUFFICES ASSUME StartTypes, StartTypes', ServersInv, ListInv, [Next]_vars
                PROVE  ListInv'
    OBVIOUS
  <1>1. /\ tool' = tool
        /\ \/ Elsewhere \/ ListStep
           \/ (\E p \in Process : Pong(p)) \/ (\E a \in Address : Duplicate(a))
           \/ ServerStep
    BY ListKinds
  <1>2. CASE Elsewhere
    <2>1. UNCHANGED <<listVars, serverVars>>
      BY <1>2 DEF Elsewhere
    <2>2. CASE tool # "list"
      <3>1. ListInit
        BY <2>2 DEF ListInv, NotYetPinged
      <3>2. ListInit'
        BY <2>1, <3>1 DEF ListInit, listVars
      <3>. QED BY <1>1, <2>2, <3>2, BeforePings
    <2>3. CASE tool = "list" /\ (Parsing \/ Cap("work"))
      BY <1>1, <2>1, <2>3, StartOfList
    <2>4. CASE UNCHANGED startVars
      BY <2>1, <2>4, ListAlone
    <2>. QED BY <1>2, <2>2, <2>3, <2>4 DEF Elsewhere
  <1>3. CASE ListStep
    BY <1>3, PingKeeps, RecvKeeps, RecvEndKeeps DEF ListStep
  <1>4. CASE ServerStep
    BY <1>4, ListAlone DEF ServerStep
  <1>5. ASSUME NEW p \in Process, Pong(p)
        PROVE  ListInv'
    BY <1>5, PongKeeps
  <1>6. ASSUME NEW a \in Address, Duplicate(a)
        PROVE  ListInv'
    BY <1>6, DuplicateKeeps
  <1>. QED BY <1>1, <1>2, <1>3, <1>4, <1>5, <1>6

LEMMA AllHold == Spec => [](StartTypes /\ ServersInv /\ ListInv)
  <1>. DEFINE I == StartTypes /\ ServersInv /\ ListInv
  <1>1. Init => I
    BY InitStart, InitServers, InitList
  <1>2. I /\ [Next]_vars => I'
    BY StartTypesKept, ServersStayTrue, ListStaysTrue
  <1>. QED BY <1>1, <1>2, PTL DEF Spec

-----------------------------------------------------------------------------
(***************************************************************************)
(* A server that has left the prompt serves at an IP and a port that       *)
(* followed each other in what was typed, never at an address made of two  *)
(* answers (pps-launch-server.c:33-40), whatever is typed.                 *)
(***************************************************************************)
THEOREM ServersServeAsTold == Spec => []ServesWhatWasGiven
  <1>1. ServersInv => ServesWhatWasGiven
    <2>. SUFFICES ASSUME ServersInv, NEW p \in Process, at[p] = "serve"
                  PROVE  AsTyped(p)
      BY DEF ServesWhatWasGiven, AsTyped
    <2>1. tool = "list"
      BY DEF ServersInv, NoServers
    <2>. QED BY <2>1 DEF ServersInv
  <1>. QED BY <1>1, AllHold, PTL

(***************************************************************************)
(* The list of nodes prints each server of the ring the same in all of its *)
(* lines, as "OK" only if a process has served at its address, and as      *)
(* "FAIL" although its answer had arrived for no more servers than answers *)
(* were duplicated (pps-list-nodes.c:44), for every servers.txt and number *)
(* of servers.                                                             *)
(***************************************************************************)
THEOREM ListTellsWhoAnswered == Spec => []ListedAsAnswered
  <1>1. ListInv => ListedAsAnswered
    <2>. SUFFICES ASSUME ListInv, tool = "list", status = "OK"
                  PROVE  /\ PrintedAs("OK") = ToSet(ring) \ PrintedAs("FAIL")
                         /\ \A a \in PrintedAs("OK") : Served(a)
                         /\ Cardinality(PrintedAs("FAIL") \cap ToSet(inbox)) <= extra
      BY DEF ListedAsAnswered, Served
    <2>1. printed = Printed /\ Len(inbox) <= extra /\ ListTypes /\ Answered
      BY DEF ListInv
    <2>2. PrintedAs("OK") = ToSet(ring) \cap ok /\ PrintedAs("FAIL") = ToSet(ring) \ ok
      BY <2>1 DEF Printed, PrintedAs, ToSet
    <2>3. \A a \in PrintedAs("OK") : Served(a)
      BY <2>1, <2>2 DEF Answered
    <2>4. inbox \in Seq(Address) /\ extra \in Nat
      BY <2>1 DEF ListTypes
    <2>5. /\ IsFiniteSet(ToSet(inbox)) /\ Cardinality(ToSet(inbox)) <= Len(inbox)
      BY <2>4, SetOfSeq
    <2>6. /\ Cardinality(PrintedAs("FAIL") \cap ToSet(inbox)) <= Cardinality(ToSet(inbox))
          /\ Cardinality(PrintedAs("FAIL") \cap ToSet(inbox)) \in Nat
          /\ Cardinality(ToSet(inbox)) \in Nat
      BY <2>5, FS_Subset, FS_CardinalityType
    <2>7. Len(inbox) \in Nat
      BY <2>4
    <2>. QED BY <2>1, <2>2, <2>3, <2>4, <2>5, <2>6, <2>7
  <1>. QED BY <1>1, AllHold, PTL

(***************************************************************************)
(* The state of the tools, the servers and the network keeps its types: a  *)
(* server never has more words left than were typed, no more pings are     *)
(* under way than nodes were pinged, and what a tool has got a key has had.*)
(***************************************************************************)
THEOREM CommandTypes == Spec => []TypeOK
  <1>1. StartTypes => StartTypeOK
    BY DEF StartTypes, StartTypeOK
  <1>2. ReadsInv => ToolsTypeOK
    <2>. SUFFICES ASSUME ReadsInv
                  PROVE  ToolsTypeOK
      OBVIOUS
    <2>1. ASSUME NEW i \in DOMAIN reads
          PROVE  \/ reads[i] = NULL /\ tool = "scenario"
                 \/ \E k \in Key : reads[i] \in Readable(k)
      BY <2>1 DEF ReadsInv, OfItsKey
    <2>. QED BY <2>1 DEF ToolsTypeOK, ReadsInv, StoreTypes
  <1>3. ServersInv => ServerTypeOK
    <2>. SUFFICES ASSUME ServersInv
                  PROVE  ServerTypeOK
      OBVIOUS
    <2>1. CASE tool # "list"
      <3>1. NoServers
        BY <2>1 DEF ServersInv
      <3>2. PICK g \in Garbage : last = [p \in Process |-> g]
        BY <3>1, ServerAssumption DEF NoServers
      <3>3. g.ip \in STRING /\ g.port \in Int
        BY <3>2, ServerAssumption
      <3>4. \A p \in Process : last[p].ip \in STRING /\ last[p].port \in Int
        BY <3>2, <3>3
      <3>5. \A p \in Process : Len(words[p]) <= Len(typed[p].words)
        <4>1. \A p \in Process : words[p] = <<>> /\ typed[p].words = <<>>
          BY <3>1 DEF NoServers
        <4>2. Len(<<>>) <= Len(<<>>)
          OBVIOUS
        <4>. QED BY <4>1, <4>2
      <3>6. /\ bound \in [Process -> Bindable \cup {Unbound}]
            /\ at \in [Process -> {"prompt", "serve", "exit"}]
        BY <3>1 DEF NoServers
      <3>. QED BY <3>4, <3>5, <3>6 DEF ServerTypeOK
    <2>2. CASE tool = "list"
      <3>1. ServerTypes /\ \A p \in Process : \E d \in Nat : LeftFrom(p, d)
        BY <2>2 DEF ServersInv
      <3>2. ASSUME NEW p \in Process
            PROVE  Len(words[p]) <= Len(typed[p].words)
        <4>1. PICK d \in Nat : Len(words[p]) = Len(typed[p].words) - d
          BY <3>1 DEF LeftFrom
        <4>2. Len(typed[p].words) \in Nat
          BY <3>1, WordsTypes DEF ServerTypes
        <4>. QED BY <4>1, <4>2
      <3>3. ASSUME NEW p \in Process
            PROVE  last[p].ip \in STRING /\ last[p].port \in Int
        BY <3>1 DEF ServerTypes
      <3>. QED BY <3>1, <3>2, <3>3 DEF ServerTypes, ServerTypeOK
    <2>. QED BY <2>1, <2>2
  <1>4. StartTypes /\ ListInv => ListTypeOK
    <2>. SUFFICES ASSUME StartTypes, ListInv
                  PROVE  ListTypeOK
      OBVIOUS
    <2>1. PICK D \in SUBSET (1 .. Len(ring)) : UnderWay(D)
      BY DEF ListInv
    <2>2. /\ ListTypes /\ Len(ring) \in Nat /\ Len(inbox) \in Nat
      <3>1. ring \in Seq(Address)
        <4>1. nodes \in Seq(Address) /\ ring \in {<<>>, nodes}
          BY DEF StartTypes
        <4>2. <<>> \in Seq(Address)
          OBVIOUS
        <4>. QED BY <4>1, <4>2
      <3>2. ListTypes
        BY DEF ListInv
      <3>3. inbox \in Seq(Address)
        BY <3>2 DEF ListTypes
      <3>. QED BY <3>1, <3>2, <3>3
    <2>3. IsFiniteSet(1 .. Len(ring)) /\ Cardinality(1 .. Len(ring)) = Len(ring)
      BY <2>2, OneTo
    <2>4. \A S \in SUBSET (1 .. Len(ring)) : Cardinality(S) \in 0 .. Len(ring)
      <3>. SUFFICES ASSUME NEW S \in SUBSET (1 .. Len(ring))
                    PROVE  Cardinality(S) \in 0 .. Len(ring)
        OBVIOUS
      <3>1. IsFiniteSet(S) /\ Cardinality(S) <= Cardinality(1 .. Len(ring))
        BY <2>3, FS_Subset
      <3>2. Cardinality(S) \in Nat
        BY <3>1, FS_CardinalityType
      <3>. QED BY <2>2, <2>3, <3>1, <3>2
    <2>5. pings \in [Address -> 0 .. Len(ring)]
      BY <2>1, <2>4 DEF UnderWay
    <2>6. ToSet(inbox) \cup ok \subseteq ToSet(ring)
      BY DEF ListInv, Answered
    <2>7. count <= Len(ring) + MaxDuplicates
      <3>1. count + Len(inbox) + Cardinality(D) <= Len(ring) + extra /\ Cardinality(D) \in Nat
        BY <2>1, <2>4 DEF UnderWay
      <3>2. count \in Nat /\ extra \in Nat /\ extra <= MaxDuplicates /\ MaxDuplicates \in Nat
        BY <2>2, ListAssumption DEF ListTypes
      <3>. QED BY <2>2, <3>1, <3>2
    <2>. QED BY <2>2, <2>5, <2>6, <2>7 DEF ListTypes, ListTypeOK
  <1>5. ToolsInv /\ ServersInv /\ ListInv => TypeOK
    BY <1>1, <1>2, <1>3, <1>4 DEF TypeOK, ToolsInv
  <1>. QED BY <1>5, AllHold, ToolsInvariant, PTL

=============================================================================
