----------------------- MODULE QuorumAccountsProofs -----------------------
(***************************************************************************)
(* What loss, copies and crashes can cost an operation: thin air, the      *)
(* durability of puts and the accounts of datagrams, for all instances of  *)
(* QuorumAccounts.                                                         *)
(***************************************************************************)
EXTENDS QuorumAccounts, QuorumStoreProofs

(* Nothing is counted for an operation that is over. *)
HistoryTypes ==
  /\ lost \in [Client -> Nat] /\ extra \in [Client -> Nat]
  /\ written \in [Key -> SUBSET Value]
  /\ \A c \in Client : pc[c] = "idle" => lost[c] = 0 /\ extra[c] = 0

(* Only what was put is under way, in a table or in a reply. *)
NothingFromThinAir ==
  /\ \A s \in Server : \A i \in DOMAIN inbox[s] :
       inbox[s][i].type = "write" => inbox[s][i].val \in written[inbox[s][i].key]
  /\ \A s \in Server, k \in Key : store[s][k] # NULL => store[s][k] \in written[k]
  /\ \A c \in Client :
       /\ pc[c] # "idle" /\ op[c].call = "put" => op[c].val \in written[op[c].key]
       /\ Datagram(op[c]).type = "read" =>
            \A m \in buffer[c] : m.type = "value" => m.val \in written[op[c].key]

Holders(k) == {s \in Server : store[s][k] # NULL}
Waiting(c) == {s \in Server : Asked(c, s) \/ ToAsk(c, s)}
Held(c) == Holders(op[c].key) \ Waiting(c)
CopiesOut(c) == {x \in Outstanding(c) : x[2].copy # 0}

(* Every ack of a put comes of a server that has a value for its key and   *)
(* was asked before, or of a copy, or of a table lost in a crash.          *)
AcksHeld ==
  \A c \in Client :
    (pc[c] # "idle" /\ op[c].call = "put" /\ Datagram(op[c]).type = "write") =>
      acks[c] + Cardinality(buffer[c]) + Cardinality(CopiesOut(c))
        <= Cardinality(Held(c)) + crashes + copies

OutstandingFinite == \A c \in Client : IsFiniteSet(Outstanding(c))

(* The vote counters of these operations cannot overflow.                  *)
Countable(c) ==
  pc[c] # "idle" /\ (op[c].call = "put" \/ op[c].N + extra[c] <= CharMax)

Balanced(c) ==
  /\ IsFiniteSet(Heard(c))
  /\ \A v \in Value \cup {Empty} : votes[c][v] >= 0
  /\ next[c] - 1 + extra[c] = lost[c] + Cardinality(Outstanding(c)) + Cardinality(buffer[c])
                                + acks[c] + missing[c] + Cardinality(Heard(c))

Accounts == \A c \in Client : Countable(c) => Balanced(c)

AccountsInv ==
  /\ StoreInv /\ HistoryTypes
  /\ NothingFromThinAir /\ ReadsOnlyWhatWasPut
  /\ AcksHeld /\ Durable
  /\ OutstandingFinite /\ Accounts

-----------------------------------------------------------------------------
(* The requests of an operation that no server has handled yet. *)

LEMMA OutstandingElements ==
  ASSUME NEW c, NEW x
  PROVE  x \in Outstanding(c) <=>
           \E s \in Server : \E i \in DOMAIN inbox[s] :
             /\ x = <<s, inbox[s][i]>>
             /\ inbox[s][i].client = c /\ inbox[s][i].socket = socket[c]
  BY DEF Outstanding, Range

(* Only the queues and the number of the socket decide. *)
LEMMA OutstandingSame ==
  ASSUME NEW c, UNCHANGED inbox, socket'[c] = socket[c]
  PROVE  Outstanding(c)' = Outstanding(c) /\ CopiesOut(c)' = CopiesOut(c)
  BY DEF Outstanding, CopiesOut

LEMMA OutstandingStart ==
  ASSUME TypeOK, DatagramsInv, NEW c \in Client, PutStart(c) \/ GetStart(c) \/ Refused(c)
  PROVE  Outstanding(c)' = {}
<1>1. UNCHANGED inbox /\ socket'[c] = socket[c] + 1 /\ socket[c] \in Nat
  BY StartEffect, RefusedEffect
<1>2. ASSUME NEW x, x \in Outstanding(c)' PROVE FALSE
  <2>1. PICK s, i :
          /\ s \in Server /\ i \in DOMAIN inbox[s]
          /\ inbox[s][i].client = c /\ inbox[s][i].socket = socket[c] + 1
    BY <1>1, <1>2 DEF Outstanding, Range
  <2>2. inbox[s][i].socket \in Nat /\ inbox[s][i].socket <= socket[c]
    BY <2>1, RequestType DEF DatagramsInv, RequestsTrue, RequestTrue
  <2> QED
    BY <2>1, <2>2, <1>1
<1> QED
  BY <1>2

(* One more request at s. *)
LEMMA OutstandingAppend ==
  ASSUME TypeOK, NEW s \in Server, NEW e \in Request, UNCHANGED socket,
         inbox' = [inbox EXCEPT ![s] = Append(@, e)], NEW c \in Client
  PROVE  Outstanding(c)' = IF e.client = c /\ e.socket = socket[c]
                           THEN Outstanding(c) \cup {<<s, e>>} ELSE Outstanding(c)
<1>1. PICK l : l = Len(inbox[s]) + 1
  OBVIOUS
<1>2. /\ \A t \in Server : \A j \in DOMAIN inbox'[t] :
           \/ j \in DOMAIN inbox[t] /\ inbox'[t][j] = inbox[t][j]
           \/ t = s /\ j = l /\ inbox'[t][j] = e
      /\ \A t \in Server : \A j \in DOMAIN inbox[t] :
           j \in DOMAIN inbox'[t] /\ inbox'[t][j] = inbox[t][j]
  BY <1>1, AppendEffect
<1> DEFINE new == e.client = c /\ e.socket = socket[c]
<1>3. \A x : x \in Outstanding(c)' <=>
        \E t \in Server : \E j \in DOMAIN inbox'[t] :
          /\ x = <<t, inbox'[t][j]>>
          /\ inbox'[t][j].client = c /\ inbox'[t][j].socket = socket[c]
  BY DEF Outstanding, Range
<1>4. ASSUME NEW x, x \in Outstanding(c)'
      PROVE  x \in Outstanding(c) \/ (new /\ x = <<s, e>>)
  <2>1. PICK t, j :
          /\ t \in Server /\ j \in DOMAIN inbox'[t]
          /\ x = <<t, inbox'[t][j]>>
          /\ inbox'[t][j].client = c /\ inbox'[t][j].socket = socket[c]
    BY <1>3, <1>4
  <2>2. CASE j \in DOMAIN inbox[t] /\ inbox'[t][j] = inbox[t][j]
    BY <2>1, <2>2, OutstandingElements
  <2>3. CASE t = s /\ inbox'[t][j] = e
    BY <2>1, <2>3
  <2> QED
    BY <2>1, <2>2, <2>3, <1>2
<1>5. ASSUME NEW x, x \in Outstanding(c)
      PROVE  x \in Outstanding(c)'
  <2>1. PICK t, j :
          /\ t \in Server /\ j \in DOMAIN inbox[t]
          /\ x = <<t, inbox[t][j]>>
          /\ inbox[t][j].client = c /\ inbox[t][j].socket = socket[c]
    BY <1>5, OutstandingElements
  <2>2. j \in DOMAIN inbox'[t] /\ inbox'[t][j] = inbox[t][j]
    BY <2>1, <1>2
  <2> QED
    BY <2>1, <2>2, <1>3
<1>6. new => <<s, e>> \in Outstanding(c)'
  <2>1. Len(inbox[s]) + 1 \in DOMAIN inbox'[s] /\ inbox'[s][Len(inbox[s]) + 1] = e
    BY AppendEffect
  <2> QED
    BY <2>1, <1>1, <1>3
<1> HIDE DEF new
<1>7. Outstanding(c)' = IF new THEN Outstanding(c) \cup {<<s, e>>} ELSE Outstanding(c)
  BY <1>4, <1>5, <1>6
<1> QED
  BY <1>7 DEF new

(* A send adds the request, which was not there, or nothing. *)
LEMMA OutstandingSend ==
  ASSUME TypeOK, DatagramsInv, NEW c \in Client, Send(c)
  PROVE  /\ \A d \in Client : d # c => Outstanding(d)' = Outstanding(d)
         /\ inbox' = inbox => Outstanding(c)' = Outstanding(c)
         /\ inbox' # inbox => \E x : /\ x \notin Outstanding(c) /\ x[2].copy = 0
                                     /\ Outstanding(c)' = Outstanding(c) \cup {x}
<1>1. /\ UNCHANGED socket /\ pc[c] = "sending" /\ next[c] \in Nat \ {0}
      /\ inbox' # inbox =>
           /\ next[c] \in 1 .. Len(Nodes(c)) /\ Nodes(c)[next[c]] \in Server
           /\ inbox' = [inbox EXCEPT ![Nodes(c)[next[c]]] =
                          Append(@, Sent(Datagram(op[c]), c))]
  BY SendEffect
<1>2. CASE inbox' = inbox
  BY <1>1, <1>2, OutstandingSame
<1>3. CASE inbox' # inbox
  <2>1. PICK s \in Server : s = Nodes(c)[next[c]]
    BY <1>1, <1>3
  <2>2. PICK e \in Request : /\ e = Sent(Datagram(op[c]), c)
                             /\ e.client = c /\ e.socket = socket[c] /\ e.copy = 0
    BY <1>1, SentFacts
  <2>3. inbox' = [inbox EXCEPT ![s] = Append(@, e)]
    BY <1>1, <1>3, <2>1, <2>2
  <2>4. /\ \A d \in Client : d # c => Outstanding(d)' = Outstanding(d)
        /\ Outstanding(c)' = Outstanding(c) \cup {<<s, e>>}
    <3>1. \A d \in Client :
            Outstanding(d)' = IF e.client = d /\ e.socket = socket[d]
                              THEN Outstanding(d) \cup {<<s, e>>} ELSE Outstanding(d)
      BY <1>1, <2>3, OutstandingAppend, Zenon
    <3> QED
      BY <3>1, <2>2
  <2>5. ToAsk(c, s)
    BY <1>1, <1>3, <2>1, NodesFacts DEF ToAsk
  <2>6. <<s, e>> \notin Outstanding(c)
    <3> SUFFICES ASSUME <<s, e>> \in Outstanding(c) PROVE FALSE
      OBVIOUS
    <3>1. Asked(c, s)
      BY <2>2, OutstandingElements DEF Asked
    <3> QED
      BY <3>1, <2>5 DEF DatagramsInv, AskedOnce
  <2>7. <<s, e>>[2].copy = 0
    BY <2>2
  <2> QED
    BY <1>3, <2>4, <2>6, <2>7
<1> QED
  BY <1>2, <1>3

(* A request that is handled leaves the operation's set for good. *)
LEMMA OutstandingHandle ==
  ASSUME TypeOK, DatagramsInv, NEW s \in Server, NEW i \in DOMAIN inbox[s], HandleAt(s, i),
         NEW c \in Client
  PROVE  LET x == <<s, inbox[s][i]>>
         IN  IF x[2].client = c /\ x[2].socket = socket[c]
             THEN x \in Outstanding(c) /\ Outstanding(c)' = Outstanding(c) \ {x}
             ELSE Outstanding(c)' = Outstanding(c)
<1> DEFINE old(t, j) == IF t = s /\ j >= i THEN j + 1 ELSE j
<1>1. /\ \A t \in Server : \A j \in DOMAIN inbox'[t] :
           /\ old(t, j) \in DOMAIN inbox[t]
           /\ inbox'[t][j] = inbox[t][old(t, j)]
           /\ t = s => old(t, j) # i
      /\ \A t \in Server : \A j \in DOMAIN inbox[t] : (t # s \/ j # i) =>
           \E k \in DOMAIN inbox'[t] : old(t, k) = j
  BY HandleEffect
<1> HIDE DEF old
<1>2. PICK m : m = inbox[s][i]
  OBVIOUS
<1> DEFINE mine == m.client = c /\ m.socket = socket[c]
<1>3. UNCHANGED socket
  BY DEF HandleAt
<1>4. \A x : x \in Outstanding(c)' <=>
        \E t \in Server : \E j \in DOMAIN inbox'[t] :
          /\ x = <<t, inbox'[t][j]>>
          /\ inbox'[t][j].client = c /\ inbox'[t][j].socket = socket[c]
  BY <1>3 DEF Outstanding, Range
<1>5. mine => <<s, m>> \in Outstanding(c)
  BY <1>2, OutstandingElements
<1>6. ASSUME NEW x, x \in Outstanding(c)'
      PROVE  x \in Outstanding(c) /\ (mine => x # <<s, m>>)
  <2>1. PICK t, j :
          /\ t \in Server /\ j \in DOMAIN inbox'[t]
          /\ x = <<t, inbox'[t][j]>>
          /\ inbox'[t][j].client = c /\ inbox'[t][j].socket = socket[c]
    BY <1>4, <1>6
  <2>2. /\ old(t, j) \in DOMAIN inbox[t] /\ inbox'[t][j] = inbox[t][old(t, j)]
        /\ t = s => old(t, j) # i
    BY <1>1, <2>1
  <2>3. x \in Outstanding(c)
    BY <2>1, <2>2, OutstandingElements
  <2>4. ASSUME x = <<s, m>> PROVE FALSE
    <3>1. t = s /\ inbox[s][old(t, j)] = m /\ old(t, j) # i /\ old(t, j) \in DOMAIN inbox[s]
      BY <2>1, <2>2, <2>4
    <3>2. CASE m.copy = 0
      BY <3>1, <3>2, <1>2 DEF DatagramsInv, AskedOnce
    <3>3. CASE m.copy # 0
      BY <3>1, <3>3, <1>2 DEF DatagramsInv, CopiesDiffer
    <3> QED
      BY <3>2, <3>3
  <2> QED
    BY <2>3, <2>4
<1>7. ASSUME NEW x, x \in Outstanding(c), mine => x # <<s, m>>
      PROVE  x \in Outstanding(c)'
  <2>1. PICK t, j :
          /\ t \in Server /\ j \in DOMAIN inbox[t]
          /\ x = <<t, inbox[t][j]>>
          /\ inbox[t][j].client = c /\ inbox[t][j].socket = socket[c]
    BY <1>7, OutstandingElements
  <2>2. t # s \/ j # i
    BY <1>2, <1>7, <2>1
  <2>3. PICK k \in DOMAIN inbox'[t] : old(t, k) = j
    BY <1>1, <2>1, <2>2
  <2>4. inbox'[t][k] = inbox[t][j]
    BY <1>1, <2>1, <2>3
  <2> QED
    BY <2>1, <2>4, <1>4
<1>8. CASE mine
  <2>1. Outstanding(c)' = Outstanding(c) \ {<<s, m>>}
    BY <1>6, <1>7, <1>8
  <2>2. <<s, m>>[2] = m
    OBVIOUS
  <2> QED
    BY <2>1, <2>2, <1>2, <1>5, <1>8
<1>9. CASE ~mine
  <2>1. Outstanding(c)' = Outstanding(c)
    BY <1>6, <1>7, <1>9
  <2> QED
    BY <2>1, <1>2, <1>9
<1> QED
  BY <1>8, <1>9

(* A copy adds one element to the set of the operation it belongs to. *)
LEMMA OutstandingCopy ==
  ASSUME TypeOK, DatagramsInv, NEW s \in Server, CopyRequest(s), NEW c \in Client
  PROVE  \/ Outstanding(c)' = Outstanding(c)
         \/ \E x : x \notin Outstanding(c) /\ Outstanding(c)' = Outstanding(c) \cup {x}
<1>1. copies' = copies + 1 /\ copies \in Nat /\ UNCHANGED socket
  BY CopyRequestEffect
<1>2. PICK e \in Request : /\ inbox' = [inbox EXCEPT ![s] = Append(@, e)]
                           /\ e.copy = copies + 1
  BY CopyRequestEffect
<1>3. Outstanding(c)' = IF e.client = c /\ e.socket = socket[c]
                        THEN Outstanding(c) \cup {<<s, e>>} ELSE Outstanding(c)
  BY <1>1, <1>2, OutstandingAppend
<1>4. ASSUME <<s, e>> \in Outstanding(c) PROVE FALSE
  <2>1. PICK j \in DOMAIN inbox[s] : inbox[s][j] = e
    BY <1>4, OutstandingElements
  <2>2. inbox[s][j].copy \in Nat /\ inbox[s][j].copy <= copies
    BY RequestType DEF DatagramsInv, RequestsTrue, RequestTrue
  <2> QED
    BY <2>1, <2>2, <1>1, <1>2
<1> QED
  BY <1>3, <1>4

LEMMA OutstandingCrash ==
  ASSUME TypeOK, NEW s \in Server, CrashRestart(s), NEW c \in Client
  PROVE  Outstanding(c)' \subseteq Outstanding(c)
<1>1. /\ UNCHANGED socket
      /\ DOMAIN inbox'[s] = {} /\ \A t \in Server : t # s => inbox'[t] = inbox[t]
  BY CrashEffect
<1> SUFFICES ASSUME NEW x, x \in Outstanding(c)'
             PROVE  x \in Outstanding(c)
  OBVIOUS
<1>2. PICK t, j :
        /\ t \in Server /\ j \in DOMAIN inbox'[t]
        /\ x = <<t, inbox'[t][j]>>
        /\ inbox'[t][j].client = c /\ inbox'[t][j].socket = socket[c]
  BY <1>1 DEF Outstanding, Range
<1>3. t # s /\ inbox'[t] = inbox[t]
  BY <1>1, <1>2
<1> QED
  BY <1>2, <1>3, OutstandingElements

(* One or no request more, or less. *)
LEMMA OneMoreOrLess ==
  ASSUME NEW S, IsFiniteSet(S), NEW T, \E x : T = S \/ T = S \cup {x} \/ T = S \ {x}
  PROVE  IsFiniteSet(T)
  BY FS_AddElement, FS_RemoveElement

LEMMA OutstandingFiniteStep ==
  ASSUME TypeOK, DatagramsInv, OutstandingFinite, [ANext]_avars
  PROVE  OutstandingFinite'
<1> SUFFICES ASSUME NEW c \in Client PROVE IsFiniteSet(Outstanding(c)')
  BY DEF OutstandingFinite
<1>0. IsFiniteSet(Outstanding(c))
  BY DEF OutstandingFinite
<1>1. ASSUME NEW d \in Client, AStart(d) PROVE IsFiniteSet(Outstanding(c)')
  <2>1. UNCHANGED inbox /\ \A e \in Client : e # d => socket'[e] = socket[e]
    BY <1>1, StartEffect DEF AStart
  <2>2. CASE c = d
    BY <1>1, <2>2, OutstandingStart, FS_EmptySet DEF AStart
  <2>3. CASE c # d
    BY <1>0, <2>1, <2>3, OutstandingSame
  <2> QED
    BY <2>2, <2>3
<1>2. ASSUME NEW d \in Client, ASend(d) PROVE IsFiniteSet(Outstanding(c)')
  <2>1. \/ Outstanding(c)' = Outstanding(c)
        \/ \E x : Outstanding(c)' = Outstanding(c) \cup {x}
    BY <1>2, OutstandingSend DEF ASend
  <2> QED
    BY <1>0, <2>1, OneMoreOrLess
<1>3. ASSUME NEW d \in Client, AReceive(d) PROVE IsFiniteSet(Outstanding(c)')
  <2>1. UNCHANGED <<inbox, socket>>
    BY <1>3, ReceiveEffect DEF AReceive
  <2> QED
    BY <1>0, <2>1, OutstandingSame
<1>9. ASSUME NEW d \in Client, ARefused(d) PROVE IsFiniteSet(Outstanding(c)')
  <2>1. UNCHANGED inbox /\ \A e \in Client : e # d => socket'[e] = socket[e]
    BY <1>9, RefusedEffect DEF ARefused
  <2>2. CASE c = d
    BY <1>9, <2>2, OutstandingStart, FS_EmptySet DEF ARefused
  <2>3. CASE c # d
    BY <1>0, <2>1, <2>3, OutstandingSame
  <2> QED
    BY <2>2, <2>3
<1>10. ASSUME NEW s \in Server, ADumpPacket(s) PROVE IsFiniteSet(Outstanding(c)')
  <2>1. UNCHANGED <<inbox, socket>>
    BY <1>10, DumpPacketEffect DEF ADumpPacket
  <2> QED
    BY <1>0, <2>1, OutstandingSame
<1>4. ASSUME NEW s \in Server, AHandle(s) PROVE IsFiniteSet(Outstanding(c)')
  <2>1. PICK i \in DOMAIN inbox[s] : HandleAt(s, i)
    BY <1>4, HandleFacts DEF AHandle
  <2>2. \/ Outstanding(c)' = Outstanding(c)
        \/ \E x : Outstanding(c)' = Outstanding(c) \ {x}
    BY <2>1, OutstandingHandle
  <2> QED
    BY <1>0, <2>2, OneMoreOrLess
<1>5. ASSUME NEW s \in Server, ACrashRestart(s) PROVE IsFiniteSet(Outstanding(c)')
  BY <1>0, <1>5, OutstandingCrash, FS_Subset DEF ACrashRestart
<1>6. ASSUME NEW s \in Server, CopyRequest(s) PROVE IsFiniteSet(Outstanding(c)')
  <2>1. \/ Outstanding(c)' = Outstanding(c)
        \/ \E x : Outstanding(c)' = Outstanding(c) \cup {x}
    BY <1>6, OutstandingCopy
  <2> QED
    BY <1>0, <2>1, OneMoreOrLess
<1>7. ASSUME NEW d \in Client, CopyReply(d) PROVE IsFiniteSet(Outstanding(c)')
  <2>1. UNCHANGED <<inbox, socket>>
    BY <1>7, CopyReplyEffect
  <2> QED
    BY <1>0, <2>1, OutstandingSame
<1>8. CASE UNCHANGED avars
  <2>1. UNCHANGED <<inbox, socket>>
    BY <1>8 DEF avars, vars, serverVars, clientVars
  <2> QED
    BY <1>0, <2>1, OutstandingSame
<1> QED
  BY <1>1, <1>2, <1>3, <1>4, <1>5, <1>6, <1>7, <1>8, <1>9, <1>10 DEF ANext, AClient, ACopy

(* Every step of the accounts is one of the clients and servers. *)
LEMMA StepOfStore ==
  ASSUME [ANext]_avars
  PROVE  [Next]_vars
  BY DEF ANext, ARefused, AStart, AClient, ASend, AReceive, AHandle, ADumpPacket, ACrashRestart,
         ACopy, avars, Next, Step

-----------------------------------------------------------------------------
(* The types of the history. *)

(* Copies only add to what is under way and to what waits. *)
LEMMA CopiesAdd ==
  ASSUME TypeOK, DatagramsInv, DatagramsInv', OutstandingFinite, OutstandingFinite',
         ACopy, NEW c \in Client
  PROVE  /\ Cardinality(Outstanding(c)) \in Nat /\ Cardinality(Outstanding(c)') \in Nat
         /\ Cardinality(Outstanding(c)) <= Cardinality(Outstanding(c)')
         /\ Cardinality(buffer[c]) \in Nat /\ Cardinality(buffer'[c]) \in Nat
         /\ Cardinality(buffer[c]) <= Cardinality(buffer'[c])
<1>1. IsFiniteSet(buffer[c]) /\ IsFiniteSet(buffer'[c])
  BY DEF DatagramsInv, RepliesTrue
<1>2. IsFiniteSet(Outstanding(c)) /\ IsFiniteSet(Outstanding(c)')
  BY DEF OutstandingFinite
<1>3. Outstanding(c) \subseteq Outstanding(c)' /\ buffer[c] \subseteq buffer'[c]
  <2>1. ASSUME NEW s \in Server, CopyRequest(s)
        PROVE  Outstanding(c) \subseteq Outstanding(c)' /\ buffer[c] \subseteq buffer'[c]
    BY <2>1, OutstandingCopy, CopyRequestEffect
  <2>2. ASSUME NEW d \in Client, CopyReply(d)
        PROVE  Outstanding(c) \subseteq Outstanding(c)' /\ buffer[c] \subseteq buffer'[c]
    <3>1. UNCHANGED <<inbox, socket>> /\ buffer[c] \subseteq buffer'[c]
      BY <2>2, CopyReplyEffect
    <3> QED
      BY <3>1, OutstandingSame
  <2> QED
    BY <2>1, <2>2 DEF ACopy
<1> QED
  BY <1>1, <1>2, <1>3, FS_Subset, FS_CardinalityType

(* A further datagram of a dump is one extra for the put that asks, and     *)
(* another datagram than those that wait, or lost.                         *)
LEMMA DumpPacketCounts ==
  ASSUME TypeOK, DumpsTrue, HistoryTypes, NEW s \in Server, ADumpPacket(s), NEW c \in Client
  PROVE  \/ buffer'[c] = buffer[c] /\ lost'[c] = lost[c] /\ extra'[c] = extra[c]
         \/ /\ pc[c] # "idle" /\ op[c].call = "put" /\ Datagram(op[c]).type = "dump"
            /\ extra'[c] = extra[c] + 1
            /\ \/ buffer'[c] = buffer[c] /\ lost'[c] = lost[c] + 1
               \/ /\ lost'[c] = lost[c]
                  /\ \E r : r \notin buffer[c] /\ buffer'[c] = buffer[c] \cup {r}
<1>0. DumpPacket(s)
  BY DEF ADumpPacket
<1>1. PICK p \in dumping[s], r \in Reply :
        /\ p \in Dump /\ dumping[s] = {p}
        /\ r.from = s /\ r.copy = p.copy /\ r.packet = p.sent + 1
        /\ \A d \in Client : d # p.client => buffer'[d] = buffer[d]
        /\ \/ buffer' = buffer
           \/ /\ p.socket = socket[p.client] /\ pc[p.client] # "idle"
              /\ buffer'[p.client] = buffer[p.client] \cup {r}
  BY <1>0, DumpPacketEffect
<1>2. p.client \in Client /\ p.sent \in Nat /\ DumpTrue(s, p)
  BY <1>1 DEF Dump, DumpsTrue
<1> DEFINE asks == pc[c] # "idle" /\ p.client = c /\ p.socket = socket[c]
<1>3. /\ extra'[c] = IF asks THEN extra[c] + 1 ELSE extra[c]
      /\ lost'[c] = IF asks /\ buffer' = buffer THEN lost[c] + 1 ELSE lost[c]
  BY <1>1 DEF ADumpPacket, Running
<1>4. CASE ~asks
  <2>1. buffer'[c] = buffer[c]
    BY <1>1, <1>4
  <2> QED
    BY <1>3, <1>4, <2>1
<1>5. CASE asks
  <2>1. Datagram(op[c]).type = "dump"
    BY <1>2, <1>5 DEF DumpTrue
  <2>2. op[c].call = "put"
    BY <2>1 DEF Datagram, GetDatagram
  <2>3. CASE buffer' = buffer
    BY <1>3, <1>5, <2>1, <2>2, <2>3
  <2>4. CASE buffer' # buffer
    <3>1. r \notin buffer[c]
      <4> SUFFICES ASSUME r \in buffer[c] PROVE FALSE
        OBVIOUS
      <4>1. r.packet <= p.sent
        BY <1>1, <1>2, <1>5 DEF DumpTrue
      <4> QED
        BY <1>1, <1>2, <4>1
    <3>2. buffer'[c] = buffer[c] \cup {r}
      BY <1>1, <1>5, <2>4
    <3> QED
      BY <1>3, <1>5, <2>1, <2>2, <2>4, <3>1, <3>2
  <2> QED
    BY <2>3, <2>4
<1> QED
  BY <1>4, <1>5

LEMMA HistoryTypesStep ==
  ASSUME TypeOK, DatagramsInv, DatagramsInv', DumpsTrue, OutstandingFinite, OutstandingFinite',
         HistoryTypes, [ANext]_avars
  PROVE  HistoryTypes'
<1>0. \A c \in Client :
        /\ lost[c] \in Nat /\ extra[c] \in Nat
        /\ pc[c] = "idle" => lost[c] = 0 /\ extra[c] = 0
  BY DEF HistoryTypes
<1>1. ASSUME NEW c \in Client, AStart(c) PROVE HistoryTypes'
  <2>1. /\ op'[c] \in Op /\ (op'[c].call = "put" => op'[c].val \in Value)
        /\ pc'[c] # "idle" /\ \A d \in Client : d # c => pc'[d] = pc[d]
    BY <1>1, StartEffect DEF AStart
  <2>2. op'[c].key \in Key
    BY <2>1 DEF Op
  <2>3. written' \in [Key -> SUBSET Value]
    BY <1>1, <2>1, <2>2 DEF AStart, HistoryTypes
  <2> QED
    BY <1>1, <2>1, <2>3 DEF AStart, HistoryTypes
<1>9. ASSUME NEW c \in Client, ARefused(c) PROVE HistoryTypes'
  <2>1. UNCHANGED <<pc, lost, extra, written>>
    BY <1>9, RefusedEffect DEF ARefused
  <2> QED
    BY <2>1 DEF HistoryTypes
<1>2. ASSUME NEW c \in Client, ASend(c) PROVE HistoryTypes'
  <2>1. pc'[c] # "idle" /\ \A d \in Client : d # c => pc'[d] = pc[d]
    BY <1>2, SendEffect DEF ASend
  <2> QED
    BY <1>2, <2>1 DEF ASend, HistoryTypes
<1>3. ASSUME NEW c \in Client, AReceive(c) PROVE HistoryTypes'
  <2>1. \A d \in Client : d # c => pc'[d] = pc[d]
    BY <1>3, ReceiveEffect DEF AReceive
  <2> QED
    BY <1>3, <2>1 DEF AReceive, HistoryTypes
<1>4. ASSUME NEW s \in Server, AHandle(s) PROVE HistoryTypes'
  <2>1. UNCHANGED <<pc, extra, written>>
    BY <1>4 DEF AHandle, Handle
  <2>2. \A c \in Client : lost'[c] \in Nat /\ (pc[c] = "idle" => lost'[c] = 0)
    BY <1>0, <1>4 DEF AHandle, Running
  <2>3. lost' \in [Client -> Nat]
    BY <1>4, <2>2 DEF AHandle
  <2> QED
    BY <2>1, <2>2, <2>3 DEF HistoryTypes
<1>10. ASSUME NEW s \in Server, ADumpPacket(s) PROVE HistoryTypes'
  <2>1. UNCHANGED <<pc, written>>
    BY <1>10, DumpPacketEffect DEF ADumpPacket
  <2>2. \A c \in Client : /\ lost'[c] \in Nat /\ extra'[c] \in Nat
                          /\ pc[c] = "idle" => lost'[c] = 0 /\ extra'[c] = 0
    BY <1>0, <1>10, DumpPacketCounts
  <2>3. lost' \in [Client -> Nat] /\ extra' \in [Client -> Nat]
    BY <1>10, <2>2 DEF ADumpPacket
  <2> QED
    BY <2>1, <2>2, <2>3 DEF HistoryTypes
<1>5. ASSUME NEW s \in Server, ACrashRestart(s) PROVE HistoryTypes'
  <2>1. ASSUME NEW c \in Client
        PROVE  lost[c] + Cardinality(Outstanding(c)) - Cardinality(Outstanding(c)') \in Nat
    <3>1. /\ IsFiniteSet(Outstanding(c)) /\ IsFiniteSet(Outstanding(c)')
          /\ Outstanding(c)' \subseteq Outstanding(c)
      BY <1>5, OutstandingCrash DEF OutstandingFinite, ACrashRestart
    <3>2. /\ Cardinality(Outstanding(c)) \in Nat /\ Cardinality(Outstanding(c)') \in Nat
          /\ Cardinality(Outstanding(c)') <= Cardinality(Outstanding(c))
      BY <3>1, FS_Subset, FS_CardinalityType
    <3> QED
      BY <1>0, <3>2
  <2>2. \A c \in Client : lost'[c] \in Nat /\ (pc[c] = "idle" => lost'[c] = 0)
    BY <1>0, <1>5, <2>1 DEF ACrashRestart, Running
  <2>3. lost' \in [Client -> Nat]
    BY <1>5, <2>2 DEF ACrashRestart
  <2>4. UNCHANGED <<pc, extra, written>>
    BY <1>5, CrashEffect DEF ACrashRestart
  <2> QED
    BY <2>2, <2>3, <2>4 DEF HistoryTypes
<1>6. ASSUME ACopy PROVE HistoryTypes'
  <2>1. ASSUME NEW c \in Client
        PROVE  extra[c] + Cardinality(Outstanding(c)') - Cardinality(Outstanding(c))
                        + Cardinality(buffer'[c]) - Cardinality(buffer[c]) \in Nat
    <3>1. /\ Cardinality(Outstanding(c)) \in Nat /\ Cardinality(Outstanding(c)') \in Nat
          /\ Cardinality(Outstanding(c)) <= Cardinality(Outstanding(c)')
          /\ Cardinality(buffer[c]) \in Nat /\ Cardinality(buffer'[c]) \in Nat
          /\ Cardinality(buffer[c]) <= Cardinality(buffer'[c])
      BY <1>6, CopiesAdd
    <3> QED
      BY <1>0, <3>1
  <2>2. \A c \in Client : extra'[c] \in Nat /\ (pc[c] = "idle" => extra'[c] = 0)
    BY <1>0, <1>6, <2>1 DEF ACopy, Running
  <2>3. extra' \in [Client -> Nat]
    BY <1>6, <2>2 DEF ACopy
  <2>4. UNCHANGED <<pc, lost, written>>
    BY <1>6, CopyRequestEffect, CopyReplyEffect DEF ACopy
  <2> QED
    BY <2>2, <2>3, <2>4 DEF HistoryTypes
<1>7. CASE UNCHANGED avars
  BY <1>7 DEF avars, vars, clientVars, HistoryTypes
<1> QED
  BY <1>1, <1>2, <1>3, <1>4, <1>5, <1>6, <1>7, <1>9, <1>10 DEF ANext, AClient

-----------------------------------------------------------------------------
(* Only what was put is read. *)

LEMMA ThinAirStart ==
  ASSUME TypeOK, Phases, HistoryTypes, NothingFromThinAir, ReadsOnlyWhatWasPut,
         NEW c \in Client, AStart(c)
  PROVE  NothingFromThinAir' /\ ReadsOnlyWhatWasPut'
<1>1. /\ UNCHANGED <<store, inbox>> /\ pc'[c] = "sending" /\ buffer'[c] = {}
      /\ op'[c] \in Op
      /\ \A d \in Client : d # c =>
           /\ pc'[d] = pc[d] /\ op'[d] = op[d] /\ buffer'[d] = buffer[d]
           /\ result'[d] = result[d]
  BY StartEffect DEF AStart
<1>2. op'[c].key \in Key
  BY <1>1 DEF Op
<1>3. /\ \A k \in Key : written[k] \subseteq written'[k]
      /\ op'[c].call = "put" => op'[c].val \in written'[op'[c].key]
  BY <1>2 DEF AStart, HistoryTypes
<1>4. \A s \in Server : \A i \in DOMAIN inbox[s] : inbox[s][i].key \in Key
  BY RequestType
<1>5. /\ \A s \in Server : \A i \in DOMAIN inbox'[s] :
           inbox'[s][i].type = "write" => inbox'[s][i].val \in written'[inbox'[s][i].key]
      /\ \A s \in Server, k \in Key : store'[s][k] # NULL => store'[s][k] \in written'[k]
  BY <1>1, <1>3, <1>4 DEF NothingFromThinAir
<1>6. ASSUME NEW d \in Client
      PROVE  /\ pc'[d] # "idle" /\ op'[d].call = "put" => op'[d].val \in written'[op'[d].key]
             /\ Datagram(op'[d]).type = "read" =>
                  \A m \in buffer'[d] : m.type = "value" => m.val \in written'[op'[d].key]
             /\ (pc'[d] = "idle" /\ op'[d].call = "get" /\ result'[d].err = "ERR_NONE"
                   /\ op'[d].key # Empty) => result'[d].val \in written'[op'[d].key]
  <2>1. CASE d = c
    BY <1>1, <1>3, <2>1
  <2>2. CASE d # c /\ op[d] = NoOp
    <3>1. pc[d] = "idle" /\ op[d].call = "none"
      BY <2>2 DEF TypeOK, NoOp
    <3>2. buffer[d] = {}
      BY <3>1 DEF Phases
    <3> QED
      BY <1>1, <2>2, <3>1, <3>2
  <2>3. CASE d # c /\ op[d] # NoOp
    <3>1. op[d].key \in Key
      BY <2>3 DEF TypeOK, Op
    <3> QED
      BY <1>1, <1>3, <2>3, <3>1 DEF NothingFromThinAir, ReadsOnlyWhatWasPut
  <2> QED
    BY <2>1, <2>2, <2>3
<1> QED
  BY <1>5, <1>6 DEF NothingFromThinAir, ReadsOnlyWhatWasPut, Datagram, PutDatagram, GetDatagram

LEMMA ThinAirRefused ==
  ASSUME TypeOK, Phases, NothingFromThinAir, ReadsOnlyWhatWasPut, NEW c \in Client, ARefused(c)
  PROVE  NothingFromThinAir' /\ ReadsOnlyWhatWasPut'
<1>1. /\ UNCHANGED <<store, inbox, pc, buffer, written>> /\ pc[c] = "idle"
      /\ result'[c].err = "ERR_BAD_PARAMETER"
      /\ \A d \in Client : d # c => op'[d] = op[d] /\ result'[d] = result[d]
  BY RefusedEffect DEF ARefused
<1>2. buffer[c] = {}
  BY <1>1 DEF Phases
<1>4. NothingFromThinAir'
  <2>1. /\ \A s \in Server : \A i \in DOMAIN inbox'[s] :
             inbox'[s][i].type = "write" => inbox'[s][i].val \in written'[inbox'[s][i].key]
        /\ \A s \in Server, k \in Key : store'[s][k] # NULL => store'[s][k] \in written'[k]
    BY <1>1 DEF NothingFromThinAir
  <2>2. ASSUME NEW d \in Client
        PROVE  /\ pc'[d] # "idle" /\ op'[d].call = "put" => op'[d].val \in written'[op'[d].key]
               /\ Datagram(op'[d]).type = "read" =>
                    \A m \in buffer'[d] : m.type = "value" => m.val \in written'[op'[d].key]
    <3>1. CASE d = c
      BY <1>1, <1>2, <3>1
    <3>2. CASE d # c
      BY <1>1, <3>2 DEF NothingFromThinAir
    <3> QED
      BY <3>1, <3>2
  <2> QED
    BY <2>1, <2>2 DEF NothingFromThinAir, Datagram, PutDatagram, GetDatagram
<1>5. ReadsOnlyWhatWasPut'
  BY <1>1 DEF ReadsOnlyWhatWasPut
<1> QED
  BY <1>4, <1>5

LEMMA ThinAirSend ==
  ASSUME TypeOK, NothingFromThinAir, ReadsOnlyWhatWasPut, NEW c \in Client, ASend(c)
  PROVE  NothingFromThinAir' /\ ReadsOnlyWhatWasPut'
<1>1. /\ UNCHANGED <<store, op, buffer, result, written>> /\ pc[c] = "sending"
      /\ pc'[c] # "idle" /\ \A d \in Client : d # c => pc'[d] = pc[d]
      /\ \/ inbox' = inbox
         \/ /\ Nodes(c)[next[c]] \in Server
            /\ inbox' = [inbox EXCEPT ![Nodes(c)[next[c]]] =
                           Append(@, Sent(Datagram(op[c]), c))]
  BY SendEffect DEF ASend
<1>2. PICK e : e = Sent(Datagram(op[c]), c)
  OBVIOUS
<1>3. e \in Request /\ (e.type = "write" => e.val \in written[e.key])
  <2>1. e \in Request
    BY <1>1, <1>2, SentFacts
  <2>2. e.type = Datagram(op[c]).type /\ e.key = Datagram(op[c]).key /\ e.val = Datagram(op[c]).val
    BY <1>2 DEF Sent
  <2>3. Datagram(op[c]).type = "write" =>
          op[c].call = "put" /\ Datagram(op[c]).key = op[c].key /\ Datagram(op[c]).val = op[c].val
    BY DEF Datagram, PutDatagram, GetDatagram
  <2> QED
    BY <1>1, <2>1, <2>2, <2>3 DEF NothingFromThinAir
<1>4. \A s \in Server : \A i \in DOMAIN inbox'[s] :
        inbox'[s][i].type = "write" => inbox'[s][i].val \in written[inbox'[s][i].key]
  <2>1. CASE inbox' = inbox
    BY <2>1 DEF NothingFromThinAir
  <2>2. CASE inbox' # inbox
    <3>1. PICK t \in Server : t = Nodes(c)[next[c]]
      BY <1>1, <2>2
    <3>2. inbox' = [inbox EXCEPT ![t] = Append(@, e)]
      BY <1>1, <1>2, <2>2, <3>1
    <3>3. \A s \in Server : \A i \in DOMAIN inbox'[s] :
            (i \in DOMAIN inbox[s] /\ inbox'[s][i] = inbox[s][i]) \/ inbox'[s][i] = e
      BY <1>3, <3>2, AppendEffect
    <3> QED
      BY <1>3, <3>3 DEF NothingFromThinAir
  <2> QED
    BY <2>1, <2>2
<1>5. NothingFromThinAir'
  BY <1>1, <1>4 DEF NothingFromThinAir, Datagram, PutDatagram, GetDatagram
<1>6. ReadsOnlyWhatWasPut'
  BY <1>1 DEF ReadsOnlyWhatWasPut
<1> QED
  BY <1>5, <1>6

LEMMA ThinAirReceive ==
  ASSUME TypeOK, Phases, RepliesTrue, NothingFromThinAir, ReadsOnlyWhatWasPut,
         NEW c \in Client, AReceive(c)
  PROVE  NothingFromThinAir' /\ ReadsOnlyWhatWasPut'
<1>1. /\ UNCHANGED <<store, inbox, op, written>> /\ pc[c] = "receiving" /\ op[c] \in Op
      /\ buffer'[c] \subseteq buffer[c]
      /\ \A d \in Client : d # c =>
           pc'[d] = pc[d] /\ buffer'[d] = buffer[d] /\ result'[d] = result[d]
  BY ReceiveEffect DEF AReceive
<1>2. NothingFromThinAir'
  BY <1>1 DEF NothingFromThinAir, Datagram, PutDatagram, GetDatagram
<1>3. ASSUME pc'[c] = "idle", op[c].call = "get", result'[c].err = "ERR_NONE", op[c].key # Empty
      PROVE  result'[c].val \in written[op[c].key]
  <2>1. \A err, v : Return(c, err, v) => result'[c].err = err /\ result'[c].val = v
    BY DEF Return, TypeOK
  <2>2. ~GoOn
    BY <1>1, <1>3 DEF GoOn
  <2>3. RecvGet(c)
    <3>1. ~RecvPut(c)
      BY <1>3 DEF RecvPut
    <3>2. ~Timeout(c)
      <4>1. ~Return(c, "ERR_NOT_FOUND", NULL) /\ ~Return(c, "ERR_NETWORK", NULL)
        BY <1>3, <2>1
      <4> QED
        BY <4>1 DEF Timeout
    <3> QED
      BY <3>1, <3>2 DEF AReceive
  <2>4. PICK m \in buffer[c] : m.type # "missing" /\ Return(c, "ERR_NONE", Vote(m))
    BY <2>2, <2>3 DEF RecvGet
  <2>5. Datagram(op[c]).type = "read"
    BY <1>3 DEF Datagram, GetDatagram
  <2>6. m.type = "value"
    BY <2>4, <2>5 DEF RepliesTrue
  <2>7. m.val \in written[op[c].key]
    BY <2>5, <2>6 DEF NothingFromThinAir
  <2>8. result'[c].val = Vote(m)
    BY <2>1, <2>4, Zenon
  <2> QED
    BY <2>6, <2>7, <2>8 DEF Vote
<1>4. ReadsOnlyWhatWasPut'
  BY <1>1, <1>3 DEF ReadsOnlyWhatWasPut
<1> QED
  BY <1>2, <1>4

LEMMA ThinAirHandle ==
  ASSUME TypeOK, RequestsTrue, NothingFromThinAir, ReadsOnlyWhatWasPut,
         NEW s \in Server, AHandle(s)
  PROVE  NothingFromThinAir' /\ ReadsOnlyWhatWasPut'
<1>1. PICK i \in DOMAIN inbox[s] : HandleAt(s, i)
  BY HandleFacts DEF AHandle
<1>2. PICK m : m = inbox[s][i]
  OBVIOUS
<1>3. PICK r : r = Replied(Answer(store[s], m), s, m.copy)
  OBVIOUS
<1>4. /\ m \in Request
      /\ r.type = Answer(store[s], m).type /\ r.val = Answer(store[s], m).val
      /\ \/ buffer' = buffer
         \/ /\ m.socket = socket[m.client]
            /\ buffer'[m.client] = buffer[m.client] \cup {r}
            /\ \A c \in Client : c # m.client => buffer'[c] = buffer[c]
      /\ UNCHANGED <<pc, op, socket, result>>
  BY <1>1, <1>2, <1>3, HandleReplies
<1>5. m.client \in Client /\ m.key \in Key /\ UNCHANGED written
  BY <1>4 DEF Request, AHandle
<1>6. m.type = "write" => m.val \in written[m.key]
  BY <1>2 DEF NothingFromThinAir
<1>7. \A t \in Server : \A j \in DOMAIN inbox'[t] :
        \E k \in DOMAIN inbox[t] : inbox'[t][j] = inbox[t][k]
  <2> DEFINE old(t, j) == IF t = s /\ j >= i THEN j + 1 ELSE j
  <2>1. \A t \in Server : \A j \in DOMAIN inbox'[t] :
          old(t, j) \in DOMAIN inbox[t] /\ inbox'[t][j] = inbox[t][old(t, j)]
    BY <1>1, HandleEffect
  <2> HIDE DEF old
  <2> QED
    BY <2>1
<1>8. \A t \in Server : \A j \in DOMAIN inbox'[t] :
        inbox'[t][j].type = "write" => inbox'[t][j].val \in written[inbox'[t][j].key]
  BY <1>7 DEF NothingFromThinAir
<1>9. \A t \in Server, k \in Key : store'[t][k] # NULL => store'[t][k] \in written[k]
  BY <1>1, <1>2, <1>5, <1>6 DEF HandleAt, NothingFromThinAir, TypeOK
<1>10. ASSUME NEW c \in Client, Datagram(op[c]).type = "read", NEW x \in buffer'[c],
              x.type = "value"
       PROVE  x.val \in written[op[c].key]
  <2>1. CASE x \in buffer[c]
    BY <1>10, <2>1 DEF NothingFromThinAir
  <2>2. CASE x \notin buffer[c]
    <3>1. x = r /\ c = m.client /\ m.socket = socket[c]
      BY <1>4, <1>5, <1>10, <2>2
    <3>2. r.val \in Value /\ r.val = store[s][m.key]
      BY <1>4, <1>10, <3>1, AnswerFacts
    <3>3. m.key = op[c].key
      <4>1. m.key = Datagram(op[c]).key
        BY <1>2, <3>1 DEF RequestsTrue, RequestTrue
      <4> QED
        BY <4>1 DEF Datagram, PutDatagram, GetDatagram
    <3> QED
      BY <1>5, <3>1, <3>2, <3>3, StoreAssumption DEF NothingFromThinAir
  <2> QED
    BY <2>1, <2>2
<1>11. NothingFromThinAir'
  BY <1>4, <1>5, <1>8, <1>9, <1>10 DEF NothingFromThinAir, Datagram, PutDatagram, GetDatagram
<1>12. ReadsOnlyWhatWasPut'
  BY <1>4, <1>5 DEF ReadsOnlyWhatWasPut
<1> QED
  BY <1>11, <1>12

(* Nobody who reads is sent a dump. *)
LEMMA DumpsAreForPuts ==
  ASSUME TypeOK, DumpsTrue, HistoryTypes, NEW s \in Server, ADumpPacket(s), NEW c \in Client,
         op[c].call = "get" \/ Datagram(op[c]).type # "dump"
  PROVE  buffer'[c] = buffer[c]
<1>1. Datagram(op[c]).type # "dump"
  BY DEF Datagram, GetDatagram
<1> QED
  BY <1>1, DumpPacketCounts

LEMMA ThinAirDump ==
  ASSUME TypeOK, DumpsTrue, HistoryTypes, NothingFromThinAir, ReadsOnlyWhatWasPut,
         NEW s \in Server, ADumpPacket(s)
  PROVE  NothingFromThinAir' /\ ReadsOnlyWhatWasPut'
<1>1. UNCHANGED <<store, inbox, pc, op, result, written>>
  BY DumpPacketEffect DEF ADumpPacket
<1>2. \A c \in Client : Datagram(op[c]).type = "read" => buffer'[c] = buffer[c]
  BY DumpsAreForPuts
<1> QED
  BY <1>1, <1>2 DEF NothingFromThinAir, ReadsOnlyWhatWasPut, Datagram, PutDatagram, GetDatagram

LEMMA ThinAirCrash ==
  ASSUME TypeOK, NothingFromThinAir, ReadsOnlyWhatWasPut, NEW s \in Server, ACrashRestart(s)
  PROVE  NothingFromThinAir' /\ ReadsOnlyWhatWasPut'
<1>1. /\ UNCHANGED <<pc, op, buffer, result, written>> /\ DOMAIN inbox'[s] = {}
      /\ \A t \in Server : t # s => inbox'[t] = inbox[t] /\ store'[t] = store[t]
  BY CrashEffect DEF ACrashRestart
<1>2. \A k \in Key : store'[s][k] = NULL
  BY DEF ACrashRestart, CrashRestart, TypeOK
<1>3. /\ \A t \in Server : \A j \in DOMAIN inbox'[t] :
           inbox'[t][j].type = "write" => inbox'[t][j].val \in written[inbox'[t][j].key]
      /\ \A t \in Server, k \in Key : store'[t][k] # NULL => store'[t][k] \in written[k]
  BY <1>1, <1>2 DEF NothingFromThinAir
<1> QED
  BY <1>1, <1>3 DEF NothingFromThinAir, ReadsOnlyWhatWasPut, Datagram, PutDatagram, GetDatagram

LEMMA ThinAirCopy ==
  ASSUME TypeOK, NothingFromThinAir, ReadsOnlyWhatWasPut, ACopy
  PROVE  NothingFromThinAir' /\ ReadsOnlyWhatWasPut'
<1>1. ASSUME NEW s \in Server, CopyRequest(s)
      PROVE  NothingFromThinAir' /\ ReadsOnlyWhatWasPut'
  <2>1. UNCHANGED <<store, pc, op, buffer, result, written>>
    BY <1>1, CopyRequestEffect DEF ACopy
  <2>2. PICK i \in DOMAIN inbox[s], e \in Request :
          /\ inbox' = [inbox EXCEPT ![s] = Append(@, e)]
          /\ e.type = inbox[s][i].type /\ e.key = inbox[s][i].key /\ e.val = inbox[s][i].val
    BY <1>1, CopyRequestEffect
  <2>3. \A t \in Server : \A j \in DOMAIN inbox'[t] :
          (j \in DOMAIN inbox[t] /\ inbox'[t][j] = inbox[t][j]) \/ inbox'[t][j] = e
    BY <2>2, AppendEffect
  <2>4. \A t \in Server : \A j \in DOMAIN inbox'[t] :
          inbox'[t][j].type = "write" => inbox'[t][j].val \in written[inbox'[t][j].key]
    BY <2>2, <2>3 DEF NothingFromThinAir
  <2> QED
    BY <2>1, <2>4
       DEF NothingFromThinAir, ReadsOnlyWhatWasPut, Datagram, PutDatagram, GetDatagram
<1>2. ASSUME NEW c \in Client, CopyReply(c)
      PROVE  NothingFromThinAir' /\ ReadsOnlyWhatWasPut'
  <2>1. /\ UNCHANGED <<store, inbox, pc, op, result, written>>
        /\ \A d \in Client : d # c => buffer'[d] = buffer[d]
    BY <1>2, CopyReplyEffect DEF ACopy
  <2>2. PICK m \in buffer[c], r \in Reply :
          buffer'[c] = buffer[c] \cup {r} /\ r.type = m.type /\ r.val = m.val
    BY <1>2, CopyReplyEffect
  <2> QED
    BY <2>1, <2>2
       DEF NothingFromThinAir, ReadsOnlyWhatWasPut, Datagram, PutDatagram, GetDatagram
<1> QED
  BY <1>1, <1>2 DEF ACopy

-----------------------------------------------------------------------------
(* The acks of a put, and the servers that have its key. *)

LEMMA HeldSizes ==
  ASSUME NEW c
  PROVE  /\ IsFiniteSet(Held(c)) /\ IsFiniteSet(Held(c)')
         /\ Cardinality(Held(c)) \in Nat /\ Cardinality(Held(c)') \in Nat
<1>1. Held(c) \subseteq Server /\ Held(c)' \subseteq Server
  BY DEF Held, Holders
<1> QED
  BY <1>1, StoreAssumption, FS_Subset, FS_CardinalityType

LEMMA HoldersSizes ==
  ASSUME NEW k
  PROVE  /\ IsFiniteSet(Holders(k)) /\ IsFiniteSet(Holders(k)')
         /\ Cardinality(Holders(k)) \in Nat /\ Cardinality(Holders(k)') \in Nat
<1>1. Holders(k) \subseteq Server /\ Holders(k)' \subseteq Server
  BY DEF Holders
<1> QED
  BY <1>1, StoreAssumption, FS_Subset, FS_CardinalityType

LEMMA CopiesOutSizes ==
  ASSUME OutstandingFinite, OutstandingFinite', NEW c \in Client
  PROVE  /\ IsFiniteSet(CopiesOut(c)) /\ IsFiniteSet(CopiesOut(c)')
         /\ Cardinality(CopiesOut(c)) \in Nat /\ Cardinality(CopiesOut(c)') \in Nat
<1>1. /\ CopiesOut(c) \subseteq Outstanding(c) /\ CopiesOut(c)' \subseteq Outstanding(c)'
      /\ IsFiniteSet(Outstanding(c)) /\ IsFiniteSet(Outstanding(c)')
  BY DEF CopiesOut, OutstandingFinite
<1> QED
  BY <1>1, FS_Subset, FS_CardinalityType

LEMMA BufferSizes ==
  ASSUME RepliesTrue, RepliesTrue', NEW c \in Client
  PROVE  /\ IsFiniteSet(buffer[c]) /\ IsFiniteSet(buffer'[c])
         /\ Cardinality(buffer[c]) \in Nat /\ Cardinality(buffer'[c]) \in Nat
  BY FS_CardinalityType DEF RepliesTrue

(* Nothing but less to wait for. *)
LEMMA HeldGrows ==
  ASSUME NEW c \in Client, UNCHANGED op, \A k : Holders(k) \subseteq Holders(k)',
         \A s \in Server : Asked(c, s)' => Asked(c, s) \/ ToAsk(c, s),
         \A s \in Server : ToAsk(c, s)' => ToAsk(c, s)
  PROVE  Held(c) \subseteq Held(c)' /\ Cardinality(Held(c)) <= Cardinality(Held(c)')
<1>1. Waiting(c)' \subseteq Waiting(c)
  BY DEF Waiting
<1>2. Held(c) \subseteq Held(c)'
  BY <1>1 DEF Held, Holders
<1> QED
  BY <1>2, HeldSizes, FS_Subset

LEMMA HoldersSame ==
  ASSUME UNCHANGED store
  PROVE  \A k : Holders(k) \subseteq Holders(k)'
  BY DEF Holders

(* What a receive that goes on does. *)
LEMMA ReceiveCases ==
  ASSUME TypeOK, RepliesTrue, NEW c \in Client, RecvPut(c) \/ RecvGet(c) \/ Timeout(c),
         pc'[c] # "idle"
  PROVE  \E m \in buffer[c] :
           /\ buffer'[c] = buffer[c] \ {m}
           /\ \/ /\ op[c].call = "put" /\ acks'[c] = acks[c] + 1
                 /\ votes'[c] = votes[c] /\ missing'[c] = missing[c]
              \/ /\ op[c].call = "get" /\ missing'[c] = missing[c] + 1
                 /\ votes'[c] = votes[c] /\ acks'[c] = acks[c]
              \/ /\ op[c].call = "get" /\ Vote(m) \in Value \cup {Empty}
                 /\ votes'[c] = [votes[c] EXCEPT ![Vote(m)] = Increment(@)]
                 /\ acks'[c] = acks[c] /\ missing'[c] = missing[c]
<1>0. /\ buffer \in [Client -> SUBSET Reply] /\ acks \in [Client -> Nat]
      /\ votes \in [Client -> [Value \cup {Empty} -> -CharMax - 1 .. CharMax]]
      /\ missing \in [Client -> Nat]
  BY DEF TypeOK
<1>1. \A err, v : ~Return(c, err, v)
  BY DEF Return, TypeOK
<1>2. CASE RecvPut(c)
  <2>1. PICK m \in buffer[c] : /\ buffer' = [buffer EXCEPT ![c] = @ \ {m}]
                              /\ acks' = [acks EXCEPT ![c] = @ + 1]
                              /\ UNCHANGED <<votes, missing>>
    BY <1>1, <1>2 DEF RecvPut
  <2>2. op[c].call = "put"
    BY <1>2 DEF RecvPut
  <2> QED
    BY <1>0, <2>1, <2>2
<1>3. CASE RecvGet(c)
  <2>1. PICK m \in buffer[c] :
          \/ /\ buffer' = [buffer EXCEPT ![c] = @ \ {m}]
             /\ missing' = [missing EXCEPT ![c] = @ + 1]
             /\ UNCHANGED <<acks, votes>>
          \/ /\ m.type # "missing"
             /\ buffer' = [buffer EXCEPT ![c] = @ \ {m}]
             /\ votes' = [votes EXCEPT ![c][Vote(m)] = Increment(@)]
             /\ UNCHANGED <<acks, missing>>
    BY <1>1, <1>3 DEF RecvGet
  <2>2. Vote(m) \in Value \cup {Empty}
    BY DEF Vote, RepliesTrue
  <2>3. op[c].call = "get"
    BY <1>3 DEF RecvGet
  <2>4. \/ /\ buffer'[c] = buffer[c] \ {m}
           /\ missing'[c] = missing[c] + 1
           /\ UNCHANGED <<acks, votes>>
        \/ /\ buffer'[c] = buffer[c] \ {m}
           /\ votes'[c] = [votes[c] EXCEPT ![Vote(m)] = Increment(@)]
           /\ UNCHANGED <<acks, missing>>
    BY <1>0, <2>1
  <2> QED
    BY <2>2, <2>3, <2>4
<1>4. ~Timeout(c)
  BY <1>1 DEF Timeout
<1> QED
  BY <1>2, <1>3, <1>4

LEMMA AcksStart ==
  ASSUME TypeOK, TypeOK', DatagramsInv, OutstandingFinite, OutstandingFinite', AcksHeld, Durable,
         NEW c \in Client, AStart(c)
  PROVE  AcksHeld' /\ Durable'
<1>1. /\ UNCHANGED <<walk, store, inbox, crashes, copies>> /\ pc'[c] = "sending"
      /\ acks'[c] = 0 /\ buffer'[c] = {}
      /\ \A d \in Client : d # c =>
           /\ pc'[d] = pc[d] /\ op'[d] = op[d] /\ socket'[d] = socket[d] /\ next'[d] = next[d]
           /\ buffer'[d] = buffer[d] /\ acks'[d] = acks[d] /\ result'[d] = result[d]
  BY StartEffect DEF AStart
<1>2. 0 <= Cardinality(Held(c)') + crashes' + copies'
  <2>1. crashes' \in Nat /\ copies' \in Nat
    BY StoreAssumption DEF TypeOK
  <2>2. Cardinality(Held(c)') \in Nat
    BY HeldSizes
  <2> QED
    BY <2>1, <2>2
<1>3. Cardinality(CopiesOut(c)') = 0
  BY OutstandingStart, FS_EmptySet DEF CopiesOut, AStart
<1>4. ASSUME NEW d \in Client, d # c
      PROVE  Held(d)' = Held(d) /\ CopiesOut(d)' = CopiesOut(d)
  <2>1. \A s \in Server : Asked(d, s)' = Asked(d, s) /\ ToAsk(d, s)' = ToAsk(d, s)
    BY <1>1, <1>4, SameNodes DEF Asked, ToAsk
  <2> QED
    BY <1>1, <1>4, <2>1, OutstandingSame DEF Held, Holders, Waiting
<1>5. AcksHeld'
  <2> SUFFICES ASSUME NEW d \in Client, pc'[d] # "idle" /\ op'[d].call = "put"
                                          /\ Datagram(op'[d]).type = "write"
               PROVE  acks'[d] + Cardinality(buffer'[d]) + Cardinality(CopiesOut(d)')
                        <= Cardinality(Held(d)') + crashes' + copies'
    BY DEF AcksHeld, Datagram, PutDatagram, GetDatagram
  <2>1. CASE d = c
    <3>1. Cardinality(CopiesOut(d)') = 0
      BY <1>3, <2>1
    <3>2. Held(d)' = Held(c)'
      BY <2>1
    <3>3. acks'[d] = 0 /\ buffer'[d] = {} /\ Cardinality({}) = 0
      BY <1>1, <2>1, FS_EmptySet
    <3> QED
      BY <1>2, <3>1, <3>2, <3>3
  <2>2. CASE d # c
    BY <1>1, <1>4, <2>2 DEF AcksHeld
  <2> QED
    BY <2>1, <2>2
<1>6. Durable'
  <2>1. \A d \in Client : pc'[d] = "idle" =>
          d # c /\ pc'[d] = pc[d] /\ op'[d] = op[d] /\ result'[d] = result[d]
    BY <1>1
  <2> QED
    BY <1>1, <2>1 DEF Durable, Datagram, PutDatagram, GetDatagram
<1> QED
  BY <1>5, <1>6

LEMMA AcksRefused ==
  ASSUME TypeOK, DatagramsInv, AcksHeld, Durable, NEW c \in Client, ARefused(c)
  PROVE  AcksHeld' /\ Durable'
<1>1. /\ UNCHANGED <<walk, store, inbox, crashes, copies, pc, next, buffer, acks>>
      /\ pc[c] = "idle" /\ result'[c].err = "ERR_BAD_PARAMETER"
      /\ \A d \in Client : d # c =>
           op'[d] = op[d] /\ socket'[d] = socket[d] /\ result'[d] = result[d]
  BY RefusedEffect DEF ARefused
<1>2. ASSUME NEW d \in Client, d # c
      PROVE  Held(d)' = Held(d) /\ CopiesOut(d)' = CopiesOut(d)
  <2>1. \A s \in Server : Asked(d, s)' = Asked(d, s) /\ ToAsk(d, s)' = ToAsk(d, s)
    BY <1>1, <1>2, SameNodes DEF Asked, ToAsk
  <2> QED
    BY <1>1, <1>2, <2>1, OutstandingSame DEF Held, Holders, Waiting
<1>3. AcksHeld'
  <2> SUFFICES ASSUME NEW d \in Client, pc'[d] # "idle" /\ op'[d].call = "put"
                                          /\ Datagram(op'[d]).type = "write"
               PROVE  acks'[d] + Cardinality(buffer'[d]) + Cardinality(CopiesOut(d)')
                        <= Cardinality(Held(d)') + crashes' + copies'
    BY DEF AcksHeld, Datagram, PutDatagram, GetDatagram
  <2>1. d # c
    BY <1>1
  <2> QED
    BY <1>1, <1>2, <2>1 DEF AcksHeld
<1>4. Durable'
  BY <1>1 DEF Durable, Datagram, PutDatagram, GetDatagram
<1> QED
  BY <1>3, <1>4

LEMMA AcksSend ==
  ASSUME TypeOK, TypeOK', DatagramsInv, DatagramsInv', OutstandingFinite, OutstandingFinite',
         AcksHeld, Durable, NEW c \in Client, ASend(c)
  PROVE  AcksHeld' /\ Durable'
<1>1. /\ UNCHANGED <<store, crashes, copies, op, buffer, acks, result>>
      /\ pc[c] = "sending" /\ pc'[c] # "idle"
      /\ \A d \in Client : d # c => pc'[d] = pc[d]
  BY SendEffect DEF ASend, tallyVars
<1>2. crashes \in Nat /\ copies \in Nat
  BY StoreAssumption DEF TypeOK
<1>3. ASSUME NEW d \in Client, pc'[d] # "idle", op[d].call = "put", Datagram(op[d]).type = "write"
      PROVE  acks[d] + Cardinality(buffer[d]) + Cardinality(CopiesOut(d)')
               <= Cardinality(Held(d)') + crashes + copies
  <2>1. Cardinality(Held(d)) <= Cardinality(Held(d)')
    BY <1>1, SendAsked, HoldersSame, HeldGrows DEF ASend
  <2>2. CopiesOut(d)' = CopiesOut(d)
    BY OutstandingSend DEF CopiesOut, ASend
  <2>3. acks[d] + Cardinality(buffer[d]) + Cardinality(CopiesOut(d))
          <= Cardinality(Held(d)) + crashes + copies
    BY <1>1, <1>3 DEF AcksHeld
  <2>4. /\ Cardinality(Held(d)) \in Nat /\ Cardinality(Held(d)') \in Nat
        /\ acks[d] + Cardinality(buffer[d]) + Cardinality(CopiesOut(d)) \in Nat
    <3>1. Cardinality(buffer[d]) \in Nat /\ Cardinality(CopiesOut(d)) \in Nat /\ acks[d] \in Nat
      BY BufferSizes, CopiesOutSizes DEF DatagramsInv, TypeOK
    <3> QED
      BY <3>1, HeldSizes
  <2> QED
    BY <1>2, <2>1, <2>2, <2>3, <2>4
<1>4. AcksHeld'
  BY <1>1, <1>3 DEF AcksHeld, Datagram, PutDatagram, GetDatagram
<1>5. Durable'
  BY <1>1 DEF Durable, Datagram, PutDatagram, GetDatagram
<1> QED
  BY <1>4, <1>5

LEMMA AcksReceive ==
  ASSUME TypeOK, TypeOK', DatagramsInv, DatagramsInv', OutstandingFinite, OutstandingFinite',
         AcksHeld, Durable, NEW c \in Client, AReceive(c)
  PROVE  AcksHeld' /\ Durable'
<1>1. /\ UNCHANGED <<store, inbox, crashes, copies, op, socket>> /\ pc[c] = "receiving"
      /\ pc'[c] # "receiving" => pc'[c] = "idle"
      /\ \A d \in Client : d # c =>
           /\ pc'[d] = pc[d] /\ buffer'[d] = buffer[d] /\ acks'[d] = acks[d]
           /\ result'[d] = result[d]
  BY ReceiveEffect DEF AReceive
<1>2. crashes \in Nat /\ copies \in Nat
  BY StoreAssumption DEF TypeOK
<1>3. \A d \in Client : /\ Cardinality(buffer[d]) \in Nat /\ Cardinality(buffer'[d]) \in Nat
                        /\ IsFiniteSet(buffer[d]) /\ acks[d] \in Nat
  BY BufferSizes DEF DatagramsInv, TypeOK
<1>4. ASSUME NEW d \in Client, pc'[d] # "idle", op[d].call = "put", Datagram(op[d]).type = "write"
      PROVE  acks'[d] + Cardinality(buffer'[d]) + Cardinality(CopiesOut(d)')
               <= Cardinality(Held(d)') + crashes + copies
  <2>1. Cardinality(Held(d)) <= Cardinality(Held(d)')
    BY <1>1, ReceiveAsked, HoldersSame, HeldGrows DEF AReceive
  <2>2. CopiesOut(d)' = CopiesOut(d)
    BY <1>1, OutstandingSame
  <2>3. acks[d] + Cardinality(buffer[d]) + Cardinality(CopiesOut(d))
          <= Cardinality(Held(d)) + crashes + copies
    BY <1>1, <1>4 DEF AcksHeld
  <2>4. acks'[d] + Cardinality(buffer'[d]) = acks[d] + Cardinality(buffer[d])
    <3>1. CASE d = c
      <4>1. PICK m \in buffer[c] : buffer'[c] = buffer[c] \ {m} /\ acks'[c] = acks[c] + 1
        BY <1>4, <3>1, ReceiveCases DEF DatagramsInv, AReceive
      <4>2. Cardinality(buffer'[c]) = Cardinality(buffer[c]) - 1
        BY <1>3, <4>1, FS_RemoveElement
      <4> QED
        BY <1>3, <3>1, <4>1, <4>2
    <3>2. CASE d # c
      BY <1>1, <3>2
    <3> QED
      BY <3>1, <3>2
  <2>5. /\ Cardinality(Held(d)) \in Nat /\ Cardinality(Held(d)') \in Nat
        /\ Cardinality(CopiesOut(d)) \in Nat
    BY HeldSizes, CopiesOutSizes
  <2>6. acks[d] + Cardinality(buffer[d]) \in Nat
    BY <1>3
  <2> QED
    BY <1>2, <2>1, <2>2, <2>3, <2>4, <2>5, <2>6
<1>5. AcksHeld'
  BY <1>1, <1>4 DEF AcksHeld, Datagram, PutDatagram, GetDatagram
<1>6. ASSUME pc'[c] = "idle", op[c].call = "put", result'[c].err = "ERR_NONE",
             Datagram(op[c]).type = "write"
      PROVE  Cardinality(Holders(op[c].key)) + crashes + copies >= op[c].W
  <2>1. PICK m \in buffer[c] : acks[c] + 1 >= op[c].W
    <3>1. \A err, v : Return(c, err, v) => result'[c].err = err
      BY DEF Return, TypeOK
    <3>2. ~Return(c, "ERR_NETWORK", NULL)
      BY <1>6, <3>1
    <3>3. ~Timeout(c)
      BY <1>6, <3>2 DEF Timeout
    <3>4. RecvPut(c)
      BY <1>6, <3>3 DEF AReceive, RecvGet
    <3>5. ~GoOn
      BY <1>1, <1>6 DEF GoOn
    <3> QED
      BY <3>4, <3>5 DEF RecvPut
  <2>2. Cardinality(buffer[c]) >= 1
    BY <1>3, <2>1, FS_EmptySet
  <2>3. acks[c] + Cardinality(buffer[c]) + Cardinality(CopiesOut(c))
          <= Cardinality(Held(c)) + crashes + copies
    BY <1>1, <1>6 DEF AcksHeld
  <2>4. Cardinality(Held(c)) <= Cardinality(Holders(op[c].key))
    BY HoldersSizes, FS_Subset DEF Held
  <2>5. /\ Cardinality(Held(c)) \in Nat /\ Cardinality(Holders(op[c].key)) \in Nat
        /\ Cardinality(CopiesOut(c)) \in Nat /\ op[c].W \in Nat
    <3>1. op[c].W \in Nat
      BY <1>1 DEF TypeOK, Op
    <3> QED
      BY <3>1, HeldSizes, HoldersSizes, CopiesOutSizes
  <2> QED
    BY <1>2, <1>3, <2>1, <2>2, <2>3, <2>4, <2>5
<1>7. Durable'
  BY <1>1, <1>6 DEF Durable, Datagram, PutDatagram, GetDatagram, Holders
<1> QED
  BY <1>5, <1>7

LEMMA AcksHandle ==
  ASSUME TypeOK, TypeOK', DatagramsInv, DatagramsInv', OutstandingFinite, OutstandingFinite',
         AcksHeld, Durable, NEW s \in Server, AHandle(s)
  PROVE  AcksHeld' /\ Durable'
<1>1. PICK i \in DOMAIN inbox[s] : HandleAt(s, i)
  BY HandleFacts DEF AHandle
<1>2. PICK m : m = inbox[s][i]
  OBVIOUS
<1>3. PICK r : r = Replied(Answer(store[s], m), s, m.copy)
  OBVIOUS
<1>4. /\ m \in Request
      /\ \/ buffer' = buffer
         \/ /\ m.socket = socket[m.client]
            /\ buffer'[m.client] = buffer[m.client] \cup {r}
            /\ \A c \in Client : c # m.client => buffer'[c] = buffer[c]
      /\ UNCHANGED <<crashes, copies, pc, op, socket, acks, result>>
  BY <1>1, <1>2, <1>3, HandleReplies
<1>5. m.client \in Client /\ m.key \in Key /\ (m.type = "write" => m.val \in Value)
  BY <1>2, <1>4 DEF Request, DatagramsInv, RequestsTrue, RequestTrue
<1>6. /\ \A k : Holders(k) \subseteq Holders(k)'
      /\ m.type = "write" => s \in Holders(m.key)'
  <2>1. store' = IF m.type = "write" THEN [store EXCEPT ![s][m.key] = m.val] ELSE store
    BY <1>1, <1>2 DEF HandleAt
  <2>2. m.type = "write" => m.val # NULL
    BY <1>5, StoreAssumption
  <2>3. m.type = "write" => store'[s][m.key] # NULL
    BY <1>5, <2>1, <2>2 DEF TypeOK
  <2>4. \A t \in Server : \A k : store[t][k] # NULL => store'[t][k] # NULL
    BY <1>5, <2>1, <2>2 DEF TypeOK
  <2> QED
    BY <2>3, <2>4 DEF Holders
<1>7. crashes \in Nat /\ copies \in Nat
  BY StoreAssumption DEF TypeOK
<1>8. ASSUME NEW d \in Client, pc[d] # "idle", op[d].call = "put", Datagram(op[d]).type = "write"
      PROVE  acks[d] + Cardinality(buffer'[d]) + Cardinality(CopiesOut(d)')
               <= Cardinality(Held(d)') + crashes + copies
  <2>1. /\ Held(d) \subseteq Held(d)' /\ Cardinality(Held(d)) <= Cardinality(Held(d)')
        /\ \A t \in Server : /\ Asked(d, t)' => Asked(d, t)
                             /\ ToAsk(d, t)' = ToAsk(d, t)
    BY <1>1, <1>4, <1>6, HandleAsked, HeldGrows
  <2>2. acks[d] + Cardinality(buffer[d]) + Cardinality(CopiesOut(d))
          <= Cardinality(Held(d)) + crashes + copies
    BY <1>8 DEF AcksHeld
  <2>3. /\ Cardinality(Held(d)) \in Nat /\ Cardinality(Held(d)') \in Nat
        /\ IsFiniteSet(Held(d)) /\ IsFiniteSet(Held(d)')
        /\ Cardinality(CopiesOut(d)) \in Nat /\ Cardinality(CopiesOut(d)') \in Nat
        /\ IsFiniteSet(CopiesOut(d))
        /\ Cardinality(buffer[d]) \in Nat /\ Cardinality(buffer'[d]) \in Nat
        /\ IsFiniteSet(buffer[d]) /\ acks[d] \in Nat
    BY HeldSizes, CopiesOutSizes, BufferSizes DEF DatagramsInv, TypeOK
  <2>4. CASE ~(m.client = d /\ m.socket = socket[d])
    <3>1. buffer'[d] = buffer[d]
      BY <1>4, <2>4
    <3>2. CopiesOut(d)' = CopiesOut(d)
      BY <1>1, <1>2, <2>4, OutstandingHandle DEF CopiesOut
    <3> QED
      BY <1>7, <2>1, <2>2, <2>3, <3>1, <3>2
  <2>5. CASE m.client = d /\ m.socket = socket[d]
    <3>1. Cardinality(buffer'[d]) <= Cardinality(buffer[d]) + 1
      <4>1. buffer'[d] = buffer[d] \/ buffer'[d] = buffer[d] \cup {r}
        BY <1>4, <2>5
      <4>2. Cardinality(buffer[d] \cup {r}) =
              IF r \in buffer[d] THEN Cardinality(buffer[d]) ELSE Cardinality(buffer[d]) + 1
        BY <2>3, FS_AddElement, Zenon
      <4> QED
        BY <2>3, <4>1, <4>2
    <3>2. /\ <<s, m>> \in Outstanding(d)
          /\ Outstanding(d)' = Outstanding(d) \ {<<s, m>>}
      BY <1>1, <1>2, <2>5, OutstandingHandle
    <3>3. CASE m.copy = 0
      <4>1. CopiesOut(d)' = CopiesOut(d)
        BY <3>2, <3>3 DEF CopiesOut
      <4>2. Asked(d, s) /\ ~Asked(d, s)'
        BY <1>1, <1>2, <2>5, <3>3, HandleAsked
      <4>3. ~ToAsk(d, s)'
        BY <2>1, <4>2 DEF DatagramsInv, AskedOnce
      <4>4. m.type = "write" /\ m.key = op[d].key
        <5>1. m.type = Datagram(op[d]).type /\ m.key = Datagram(op[d]).key
          BY <1>2, <2>5 DEF DatagramsInv, RequestsTrue, RequestTrue
        <5> QED
          BY <1>8, <5>1 DEF Datagram, PutDatagram
      <4>5. s \in Held(d)' /\ s \notin Held(d)
        BY <1>4, <1>6, <4>2, <4>3, <4>4 DEF Held, Waiting, Holders
      <4>6. Cardinality(Held(d)) + 1 <= Cardinality(Held(d)')
        <5>1. Held(d) \cup {s} \subseteq Held(d)'
          BY <2>1, <4>5
        <5>2. Cardinality(Held(d) \cup {s}) = Cardinality(Held(d)) + 1
          BY <2>3, <4>5, FS_AddElement
        <5> QED
          BY <2>3, <5>1, <5>2, FS_Subset
      <4> QED
        BY <1>7, <2>2, <2>3, <3>1, <4>1, <4>6
    <3>4. CASE m.copy # 0
      <4>1. <<s, m>> \in CopiesOut(d) /\ CopiesOut(d)' = CopiesOut(d) \ {<<s, m>>}
        BY <3>2, <3>4 DEF CopiesOut
      <4>2. Cardinality(CopiesOut(d)') = Cardinality(CopiesOut(d)) - 1
        <5>1. Cardinality(CopiesOut(d) \ {<<s, m>>}) =
                IF <<s, m>> \in CopiesOut(d)
                THEN Cardinality(CopiesOut(d)) - 1 ELSE Cardinality(CopiesOut(d))
          BY <2>3, FS_RemoveElement, Zenon
        <5> QED
          BY <4>1, <5>1
      <4> QED
        BY <1>7, <2>1, <2>2, <2>3, <3>1, <4>2
    <3> QED
      BY <3>3, <3>4
  <2> QED
    BY <2>4, <2>5
<1>9. AcksHeld'
  BY <1>4, <1>8 DEF AcksHeld, Datagram, PutDatagram, GetDatagram
<1>10. Durable'
  <2>1. \A k : Cardinality(Holders(k)) <= Cardinality(Holders(k)')
               /\ Cardinality(Holders(k)) \in Nat /\ Cardinality(Holders(k)') \in Nat
    BY <1>6, HoldersSizes, FS_Subset
  <2> SUFFICES ASSUME NEW d \in Client,
                      pc[d] = "idle" /\ op[d].call = "put" /\ result[d].err = "ERR_NONE"
                        /\ Datagram(op[d]).type = "write"
               PROVE  Cardinality(Holders(op[d].key)') + crashes + copies >= op[d].W
    BY <1>4 DEF Durable, Holders, Datagram, PutDatagram, GetDatagram
  <2>2. Cardinality(Holders(op[d].key)) + crashes + copies >= op[d].W
    BY DEF Durable, Holders
  <2>3. op[d].W \in Nat
    BY DEF TypeOK, Op, NoOp
  <2>4. PICK k : k = op[d].key
    OBVIOUS
  <2>5. Cardinality(Holders(k)') + crashes + copies >= op[d].W
    BY <1>7, <2>1, <2>2, <2>3, <2>4
  <2> QED
    BY <1>4, <2>4, <2>5
<1> QED
  BY <1>9, <1>10

(* The acks of a put that writes are none of a dump. *)
LEMMA AcksDump ==
  ASSUME TypeOK, DumpsTrue, HistoryTypes, AcksHeld, Durable, NEW s \in Server, ADumpPacket(s)
  PROVE  AcksHeld' /\ Durable'
<1>1. UNCHANGED <<walk, store, inbox, crashes, copies, pc, op, socket, next, acks, result>>
  BY DumpPacketEffect DEF ADumpPacket
<1>2. \A c \in Client : Datagram(op[c]).type = "write" => buffer'[c] = buffer[c]
  BY DumpsAreForPuts
<1>3. ASSUME NEW d \in Client
      PROVE  Held(d)' = Held(d) /\ CopiesOut(d)' = CopiesOut(d)
  <2>1. \A t \in Server : Asked(d, t)' = Asked(d, t) /\ ToAsk(d, t)' = ToAsk(d, t)
    BY <1>1, SameNodes DEF Asked, ToAsk
  <2> QED
    BY <1>1, <2>1, OutstandingSame DEF Held, Holders, Waiting
<1>4. AcksHeld'
  BY <1>1, <1>2, <1>3 DEF AcksHeld, Datagram, PutDatagram, GetDatagram
<1>5. Durable'
  BY <1>1 DEF Durable, Datagram, PutDatagram, GetDatagram
<1> QED
  BY <1>4, <1>5

LEMMA AcksCrash ==
  ASSUME TypeOK, TypeOK', DatagramsInv, DatagramsInv', OutstandingFinite, OutstandingFinite',
         AcksHeld, Durable, NEW s \in Server, ACrashRestart(s)
  PROVE  AcksHeld' /\ Durable'
<1>1. /\ UNCHANGED <<copies, pc, op, buffer, acks, result>> /\ crashes' = crashes + 1
      /\ \A t \in Server : t # s => store'[t] = store[t]
  BY CrashEffect DEF ACrashRestart
<1>2. crashes \in Nat /\ copies \in Nat
  BY StoreAssumption DEF TypeOK
<1>3. ASSUME NEW d \in Client, pc[d] # "idle", op[d].call = "put", Datagram(op[d]).type = "write"
      PROVE  acks[d] + Cardinality(buffer[d]) + Cardinality(CopiesOut(d)')
               <= Cardinality(Held(d)') + (crashes + 1) + copies
  <2>1. Held(d) \ {s} \subseteq Held(d)'
    <3>1. Waiting(d)' \subseteq Waiting(d)
      BY CrashAsked DEF Waiting, ACrashRestart
    <3> QED
      BY <1>1, <3>1 DEF Held, Holders
  <2>2. Cardinality(Held(d)) - 1 <= Cardinality(Held(d) \ {s})
    <3>1. /\ IsFiniteSet(Held(d) \ {s})
          /\ Cardinality(Held(d) \ {s}) =
              IF s \in Held(d) THEN Cardinality(Held(d)) - 1 ELSE Cardinality(Held(d))
      BY HeldSizes, FS_RemoveElement, Zenon
    <3> QED
      BY <3>1, HeldSizes
  <2>3. Cardinality(Held(d) \ {s}) <= Cardinality(Held(d)') /\ Cardinality(Held(d) \ {s}) \in Nat
    BY <2>1, HeldSizes, FS_Subset, FS_CardinalityType
  <2>4. Cardinality(CopiesOut(d)') <= Cardinality(CopiesOut(d))
    <3>1. CopiesOut(d)' \subseteq CopiesOut(d)
      BY OutstandingCrash DEF CopiesOut, ACrashRestart
    <3> QED
      BY <3>1, CopiesOutSizes, FS_Subset
  <2>5. acks[d] + Cardinality(buffer[d]) + Cardinality(CopiesOut(d))
          <= Cardinality(Held(d)) + crashes + copies
    BY <1>3 DEF AcksHeld
  <2>6. /\ Cardinality(Held(d)) \in Nat /\ Cardinality(Held(d)') \in Nat
        /\ Cardinality(CopiesOut(d)) \in Nat /\ Cardinality(CopiesOut(d)') \in Nat
        /\ Cardinality(buffer[d]) \in Nat /\ acks[d] \in Nat
    BY HeldSizes, CopiesOutSizes, BufferSizes DEF DatagramsInv, TypeOK
  <2> QED
    BY <1>2, <2>2, <2>3, <2>4, <2>5, <2>6
<1>4. AcksHeld'
  BY <1>1, <1>3 DEF AcksHeld, Datagram, PutDatagram, GetDatagram
<1>5. Durable'
  <2>1. ASSUME NEW k
        PROVE  Cardinality(Holders(k)) <= Cardinality(Holders(k)') + 1
    <3>1. Holders(k) \ {s} \subseteq Holders(k)'
      BY <1>1 DEF Holders
    <3>2. /\ IsFiniteSet(Holders(k) \ {s})
          /\ Cardinality(Holders(k) \ {s}) =
              IF s \in Holders(k) THEN Cardinality(Holders(k)) - 1 ELSE Cardinality(Holders(k))
      BY HoldersSizes, FS_RemoveElement, Zenon
    <3>3. Cardinality(Holders(k) \ {s}) <= Cardinality(Holders(k)')
      BY <3>1, HoldersSizes, FS_Subset
    <3> QED
      BY <3>2, <3>3, HoldersSizes
  <2> SUFFICES ASSUME NEW d \in Client,
                      pc[d] = "idle" /\ op[d].call = "put" /\ result[d].err = "ERR_NONE"
                        /\ Datagram(op[d]).type = "write"
               PROVE  Cardinality(Holders(op[d].key)') + (crashes + 1) + copies >= op[d].W
    BY <1>1 DEF Durable, Holders, Datagram, PutDatagram, GetDatagram
  <2>2. Cardinality(Holders(op[d].key)) + crashes + copies >= op[d].W
    BY DEF Durable, Holders
  <2>3. op[d].W \in Nat
    BY DEF TypeOK, Op, NoOp
  <2>4. PICK k : k = op[d].key
    OBVIOUS
  <2>5. Cardinality(Holders(k)) \in Nat /\ Cardinality(Holders(k)') \in Nat
    BY HoldersSizes
  <2>6. Cardinality(Holders(k)') + (crashes + 1) + copies >= op[d].W
    BY <1>2, <2>1, <2>2, <2>3, <2>4, <2>5
  <2> QED
    BY <1>1, <2>4, <2>6
<1> QED
  BY <1>4, <1>5

LEMMA AcksCopy ==
  ASSUME TypeOK, TypeOK', DatagramsInv, DatagramsInv', OutstandingFinite, OutstandingFinite',
         AcksHeld, Durable, ACopy
  PROVE  AcksHeld' /\ Durable'
<1>1. /\ UNCHANGED <<store, crashes, pc, op, acks, result>> /\ copies' = copies + 1
  BY CopyRequestEffect, CopyReplyEffect DEF ACopy
<1>2. crashes \in Nat /\ copies \in Nat
  BY StoreAssumption DEF TypeOK
<1>3. ASSUME NEW d \in Client, pc[d] # "idle", op[d].call = "put", Datagram(op[d]).type = "write"
      PROVE  acks[d] + Cardinality(buffer'[d]) + Cardinality(CopiesOut(d)')
               <= Cardinality(Held(d)') + crashes + (copies + 1)
  <2>1. Cardinality(Held(d)) <= Cardinality(Held(d)')
    <3>1. \A s \in Server : /\ Asked(d, s)' => Asked(d, s)
                            /\ ToAsk(d, s)' => ToAsk(d, s)
      BY CopyRequestAsked, CopyReplyAsked DEF ACopy
    <3> QED
      BY <1>1, <3>1, HoldersSame, HeldGrows
  <2>2. acks[d] + Cardinality(buffer[d]) + Cardinality(CopiesOut(d))
          <= Cardinality(Held(d)) + crashes + copies
    BY <1>3 DEF AcksHeld
  <2>3. /\ Cardinality(Held(d)) \in Nat /\ Cardinality(Held(d)') \in Nat
        /\ Cardinality(CopiesOut(d)) \in Nat /\ Cardinality(CopiesOut(d)') \in Nat
        /\ IsFiniteSet(CopiesOut(d))
        /\ Cardinality(buffer[d]) \in Nat /\ Cardinality(buffer'[d]) \in Nat
        /\ IsFiniteSet(buffer[d]) /\ acks[d] \in Nat
    BY HeldSizes, CopiesOutSizes, BufferSizes DEF DatagramsInv, TypeOK
  <2>4. \A S, x : IsFiniteSet(S) =>
          /\ IsFiniteSet(S \cup {x})
          /\ Cardinality(S \cup {x}) = IF x \in S THEN Cardinality(S) ELSE Cardinality(S) + 1
    BY FS_AddElement, Zenon
  <2>5. ASSUME NEW s \in Server, CopyRequest(s)
        PROVE  Cardinality(buffer'[d]) + Cardinality(CopiesOut(d)')
                 <= Cardinality(buffer[d]) + Cardinality(CopiesOut(d)) + 1
    <3>1. buffer'[d] = buffer[d]
      BY <2>5, CopyRequestEffect
    <3>2. \/ Outstanding(d)' = Outstanding(d)
          \/ \E x : Outstanding(d)' = Outstanding(d) \cup {x}
      BY <2>5, OutstandingCopy
    <3>3. \E x : CopiesOut(d)' \subseteq CopiesOut(d) \cup {x}
      BY <3>2 DEF CopiesOut
    <3>4. Cardinality(CopiesOut(d)') <= Cardinality(CopiesOut(d)) + 1
      <4>1. PICK x : CopiesOut(d)' \subseteq CopiesOut(d) \cup {x}
        BY <3>3
      <4>2. /\ IsFiniteSet(CopiesOut(d) \cup {x})
            /\ Cardinality(CopiesOut(d) \cup {x}) <= Cardinality(CopiesOut(d)) + 1
        BY <2>3, <2>4
      <4>3. Cardinality(CopiesOut(d)') <= Cardinality(CopiesOut(d) \cup {x})
        BY <4>1, <4>2, FS_Subset
      <4>4. Cardinality(CopiesOut(d) \cup {x}) \in Nat
        BY <4>2, FS_CardinalityType
      <4> QED
        BY <2>3, <4>2, <4>3, <4>4
    <3> QED
      BY <2>3, <3>1, <3>4
  <2>6. ASSUME NEW c \in Client, CopyReply(c)
        PROVE  Cardinality(buffer'[d]) + Cardinality(CopiesOut(d)')
                 <= Cardinality(buffer[d]) + Cardinality(CopiesOut(d)) + 1
    <3>1. UNCHANGED <<inbox, socket>> /\ \E r : buffer'[d] = buffer[d] \/ buffer'[d] = buffer[d] \cup {r}
      BY <2>6, CopyReplyEffect
    <3>2. CopiesOut(d)' = CopiesOut(d)
      BY <3>1, OutstandingSame
    <3>3. PICK r : buffer'[d] = buffer[d] \/ buffer'[d] = buffer[d] \cup {r}
      BY <3>1
    <3>4. Cardinality(buffer'[d]) <= Cardinality(buffer[d]) + 1
      <4>1. Cardinality(buffer[d] \cup {r}) =
              IF r \in buffer[d] THEN Cardinality(buffer[d]) ELSE Cardinality(buffer[d]) + 1
        BY <2>3, <2>4, Zenon
      <4> QED
        BY <2>3, <3>3, <4>1
    <3> QED
      BY <2>3, <3>2, <3>4
  <2>7. Cardinality(buffer'[d]) + Cardinality(CopiesOut(d)')
          <= Cardinality(buffer[d]) + Cardinality(CopiesOut(d)) + 1
    BY <2>5, <2>6 DEF ACopy
  <2> QED
    BY <1>2, <2>1, <2>2, <2>3, <2>7
<1>4. AcksHeld'
  BY <1>1, <1>3 DEF AcksHeld, Datagram, PutDatagram, GetDatagram
<1>5. Durable'
  <2> SUFFICES ASSUME NEW d \in Client,
                      pc[d] = "idle" /\ op[d].call = "put" /\ result[d].err = "ERR_NONE"
                        /\ Datagram(op[d]).type = "write"
               PROVE  Cardinality({s \in Server : store[s][op[d].key] # NULL})
                        + crashes + (copies + 1) >= op[d].W
    BY <1>1 DEF Durable, Datagram, PutDatagram, GetDatagram
  <2>1. Cardinality({s \in Server : store[s][op[d].key] # NULL}) + crashes + copies >= op[d].W
    BY DEF Durable
  <2>2. Cardinality({s \in Server : store[s][op[d].key] # NULL}) \in Nat
    BY HoldersSizes DEF Holders
  <2>3. op[d].W \in Nat
    BY DEF TypeOK, Op, NoOp
  <2> QED
    BY <1>2, <2>1, <2>2, <2>3
<1> QED
  BY <1>4, <1>5

-----------------------------------------------------------------------------
(* The accounts. *)

LEMMA HeardElements ==
  ASSUME NEW c
  PROVE  \A x : x \in Heard(c) <=>
           \E v \in Value \cup {Empty} : \E j \in 1 .. votes[c][v] : x = <<v, j>>
  BY DEF Heard

LEMMA HeardSame ==
  ASSUME NEW c, votes'[c] = votes[c]
  PROVE  Heard(c)' = Heard(c)
  BY DEF Heard

(* A vote that is counted is one more, as long as the counter has room. *)
LEMMA HeardMore ==
  ASSUME TypeOK, NEW c \in Client, NEW u \in Value \cup {Empty},
         IsFiniteSet(Heard(c)), Cardinality(Heard(c)) < CharMax,
         \A v \in Value \cup {Empty} : votes[c][v] >= 0,
         votes'[c] = [votes[c] EXCEPT ![u] = Increment(@)]
  PROVE  /\ IsFiniteSet(Heard(c)')
         /\ \A v \in Value \cup {Empty} : votes'[c][v] >= 0
         /\ Cardinality(Heard(c)') = Cardinality(Heard(c)) + 1
<1>1. PICK n : n = votes[c][u]
  OBVIOUS
<1>2. n \in Nat /\ votes[c] \in [Value \cup {Empty} -> -CharMax - 1 .. CharMax]
  <2>1. votes[c] \in [Value \cup {Empty} -> -CharMax - 1 .. CharMax]
    BY DEF TypeOK
  <2>2. n \in -CharMax - 1 .. CharMax /\ n >= 0
    BY <1>1, <2>1
  <2> QED
    BY <2>1, <2>2, StoreAssumption
<1>3. n <= Cardinality(Heard(c))
  <2>1. {u} \X (1 .. n) \subseteq Heard(c)
    BY <1>1, HeardElements
  <2>2. IsFiniteSet(1 .. n) /\ Cardinality(1 .. n) = n
    BY <1>2, FS_Interval
  <2>3. Cardinality({u} \X (1 .. n)) = n
    <3>1. IsFiniteSet({u}) /\ Cardinality({u}) = 1
      BY FS_Singleton
    <3>2. Cardinality({u} \X (1 .. n)) = Cardinality({u}) * Cardinality(1 .. n)
      BY <2>2, <3>1, FS_Product
    <3> QED
      BY <1>2, <2>2, <3>1, <3>2
  <2> QED
    BY <2>1, <2>3, FS_Subset
<1>4. Increment(n) = n + 1 /\ Cardinality(Heard(c)) \in Nat
  <2>1. Cardinality(Heard(c)) \in Nat
    BY FS_CardinalityType
  <2> QED
    BY <1>2, <1>3, <2>1, StoreAssumption DEF Increment
<1>5. \A v \in Value \cup {Empty} : votes'[c][v] = IF v = u THEN n + 1 ELSE votes[c][v]
  BY <1>1, <1>2, <1>4
<1>6. \A x : x \in Heard(c)' <=>
        \E v \in Value \cup {Empty} : \E j \in 1 .. votes'[c][v] : x = <<v, j>>
  BY DEF Heard
<1>7. Heard(c)' = Heard(c) \cup {<<u, n + 1>>}
  <2>1. ASSUME NEW x, x \in Heard(c)'
        PROVE  x \in Heard(c) \cup {<<u, n + 1>>}
    <3>1. PICK v, j : v \in Value \cup {Empty} /\ j \in 1 .. votes'[c][v] /\ x = <<v, j>>
      BY <1>6, <2>1
    <3>2. CASE v = u /\ j = n + 1
      BY <3>1, <3>2
    <3>3. CASE ~(v = u /\ j = n + 1)
      <4>1. j \in 1 .. votes[c][v]
        BY <1>1, <1>2, <1>5, <3>1, <3>3
      <4> QED
        BY <3>1, <4>1, HeardElements
    <3> QED
      BY <3>2, <3>3
  <2>2. ASSUME NEW x, x \in Heard(c)
        PROVE  x \in Heard(c)'
    <3>1. PICK v, j : v \in Value \cup {Empty} /\ j \in 1 .. votes[c][v] /\ x = <<v, j>>
      BY <2>2, HeardElements
    <3>2. j \in 1 .. votes'[c][v]
      BY <1>1, <1>2, <1>5, <3>1
    <3> QED
      BY <1>6, <3>1, <3>2
  <2>3. <<u, n + 1>> \in Heard(c)'
    <3>1. n + 1 \in 1 .. votes'[c][u]
      BY <1>2, <1>5
    <3> QED
      BY <1>6, <3>1
  <2> QED
    BY <2>1, <2>2, <2>3
<1>8. <<u, n + 1>> \notin Heard(c)
  <2> SUFFICES ASSUME <<u, n + 1>> \in Heard(c) PROVE FALSE
    OBVIOUS
  <2>1. PICK v, j : v \in Value \cup {Empty} /\ j \in 1 .. votes[c][v] /\ <<u, n + 1>> = <<v, j>>
    BY HeardElements
  <2>2. n + 1 \in 1 .. n
    BY <1>1, <2>1
  <2> QED
    BY <1>2, <2>2
<1>9. IsFiniteSet(Heard(c)') /\ Cardinality(Heard(c)') = Cardinality(Heard(c)) + 1
  BY <1>7, <1>8, FS_AddElement
<1>10. \A v \in Value \cup {Empty} : votes'[c][v] >= 0
  BY <1>2, <1>5
<1> QED
  BY <1>9, <1>10

(* The counters are numbers. *)
LEMMA BalanceTypes ==
  ASSUME TypeOK, HistoryTypes, RepliesTrue, OutstandingFinite, NEW c \in Client
  PROVE  /\ next[c] \in Nat /\ extra[c] \in Nat /\ lost[c] \in Nat
         /\ acks[c] \in Nat /\ missing[c] \in Nat
         /\ IsFiniteSet(buffer[c]) /\ Cardinality(buffer[c]) \in Nat
         /\ IsFiniteSet(Outstanding(c)) /\ Cardinality(Outstanding(c)) \in Nat
         /\ Balanced(c) => Cardinality(Heard(c)) \in Nat
  BY FS_CardinalityType DEF TypeOK, HistoryTypes, RepliesTrue, OutstandingFinite, Balanced

LEMMA AccountsStart ==
  ASSUME TypeOK, DatagramsInv, HistoryTypes, Accounts, NEW c \in Client, AStart(c)
  PROVE  Accounts'
<1>1. /\ UNCHANGED inbox /\ next'[c] = 1 /\ buffer'[c] = {} /\ acks'[c] = 0
      /\ votes'[c] = NoVotes /\ missing'[c] = 0
      /\ \A d \in Client : d # c =>
           /\ pc'[d] = pc[d] /\ op'[d] = op[d] /\ socket'[d] = socket[d] /\ next'[d] = next[d]
           /\ buffer'[d] = buffer[d] /\ acks'[d] = acks[d]
           /\ votes'[d] = votes[d] /\ missing'[d] = missing[d]
  BY StartEffect DEF AStart
<1>2. /\ lost'[c] = 0 /\ extra'[c] = 0
      /\ \A d \in Client : d # c => lost'[d] = lost[d] /\ extra'[d] = extra[d]
  <2>1. pc[c] = "idle"
    BY StartEffect DEF AStart
  <2> QED
    BY <2>1 DEF AStart, HistoryTypes
<1>3. Outstanding(c)' = {}
  BY OutstandingStart DEF AStart
<1>4. Balanced(c)'
  <2>1. \A v \in Value \cup {Empty} : votes'[c][v] = 0
    BY <1>1 DEF NoVotes
  <2>2. Heard(c)' = {}
    BY <2>1 DEF Heard
  <2> QED
    BY <1>1, <1>2, <1>3, <2>1, <2>2, FS_EmptySet DEF Balanced
<1>5. ASSUME NEW d \in Client, d # c, Countable(d)'
      PROVE  Balanced(d)'
  <2>1. Outstanding(d)' = Outstanding(d) /\ Heard(d)' = Heard(d)
    BY <1>1, <1>5, OutstandingSame, HeardSame
  <2>2. Countable(d)
    BY <1>1, <1>2, <1>5 DEF Countable
  <2> QED
    BY <1>1, <1>2, <1>5, <2>1, <2>2 DEF Accounts, Balanced
<1> QED
  BY <1>4, <1>5, Zenon DEF Accounts

LEMMA AccountsRefused ==
  ASSUME TypeOK, Accounts, NEW c \in Client, ARefused(c)
  PROVE  Accounts'
<1>1. /\ UNCHANGED <<inbox, pc, next, buffer, acks, votes, missing, lost, extra>>
      /\ pc[c] = "idle"
      /\ \A d \in Client : d # c => op'[d] = op[d] /\ socket'[d] = socket[d]
  BY RefusedEffect DEF ARefused
<1> SUFFICES ASSUME NEW d \in Client, Countable(d)'
             PROVE  Balanced(d)'
  BY DEF Accounts
<1>2. d # c
  BY <1>1 DEF Countable
<1>3. Balanced(d)
  BY <1>1, <1>2 DEF Accounts, Countable
<1>4. Outstanding(d)' = Outstanding(d) /\ Heard(d)' = Heard(d)
  BY <1>1, <1>2, OutstandingSame, HeardSame
<1> QED
  BY <1>1, <1>3, <1>4 DEF Balanced

LEMMA AccountsSend ==
  ASSUME TypeOK, DatagramsInv, OutstandingFinite, HistoryTypes, Accounts, NEW c \in Client, ASend(c)
  PROVE  Accounts'
<1>1. /\ UNCHANGED <<op, buffer, acks, votes, missing, extra>> /\ pc[c] = "sending"
      /\ next'[c] = next[c] + 1
      /\ \A d \in Client : d # c => pc'[d] = pc[d] /\ next'[d] = next[d]
  BY SendEffect DEF ASend, tallyVars
<1>2. /\ lost'[c] = IF inbox' = inbox THEN lost[c] + 1 ELSE lost[c]
      /\ \A d \in Client : d # c => lost'[d] = lost[d]
  BY DEF ASend, HistoryTypes
<1> SUFFICES ASSUME NEW d \in Client, Countable(d)'
             PROVE  Balanced(d)'
  BY DEF Accounts
<1>3. Countable(d)
  BY <1>1 DEF Countable
<1>4. Balanced(d) /\ Heard(d)' = Heard(d)
  BY <1>1, <1>3, HeardSame DEF Accounts
<1>5. CASE d # c
  <2>1. Outstanding(d)' = Outstanding(d)
    BY <1>5, OutstandingSend DEF ASend
  <2> QED
    BY <1>1, <1>2, <1>4, <1>5, <2>1 DEF Balanced
<1>6. CASE d = c
  <2>1. next[d] \in Nat /\ extra[d] \in Nat /\ lost[d] \in Nat
        /\ acks[d] \in Nat /\ missing[d] \in Nat
        /\ Cardinality(buffer[d]) \in Nat /\ Cardinality(Heard(d)) \in Nat
        /\ IsFiniteSet(Outstanding(d)) /\ Cardinality(Outstanding(d)) \in Nat
    BY <1>4, BalanceTypes DEF DatagramsInv
  <2>2. lost'[d] + Cardinality(Outstanding(d)') = lost[d] + Cardinality(Outstanding(d)) + 1
    <3>1. CASE inbox' = inbox
      <4>1. Outstanding(d)' = Outstanding(d) /\ lost'[d] = lost[d] + 1
        BY <1>2, <1>6, <3>1, OutstandingSend DEF ASend
      <4> QED
        BY <2>1, <4>1
    <3>2. CASE inbox' # inbox
      <4>1. PICK x : x \notin Outstanding(d) /\ Outstanding(d)' = Outstanding(d) \cup {x}
        BY <1>6, <3>2, OutstandingSend DEF ASend
      <4>2. Cardinality(Outstanding(d)') = Cardinality(Outstanding(d)) + 1
        BY <2>1, <4>1, FS_AddElement
      <4> QED
        BY <1>2, <1>6, <2>1, <3>2, <4>2
    <3> QED
      BY <3>1, <3>2
  <2>3. lost'[d] \in Nat /\ Cardinality(Outstanding(d)') \in Nat
    <3>1. IsFiniteSet(Outstanding(d)')
      BY <1>6, <2>1, OutstandingSend, FS_AddElement DEF ASend
    <3> QED
      BY <1>2, <1>6, <2>1, <3>1, FS_CardinalityType
  <2>4. next'[d] - 1 + extra'[d] = lost'[d] + Cardinality(Outstanding(d)') + Cardinality(buffer'[d])
                                   + acks'[d] + missing'[d] + Cardinality(Heard(d)')
    <3>1. next[d] - 1 + extra[d] = lost[d] + Cardinality(Outstanding(d)) + Cardinality(buffer[d])
                                     + acks[d] + missing[d] + Cardinality(Heard(d))
      BY <1>4 DEF Balanced
    <3>2. /\ next'[d] = next[d] + 1 /\ extra'[d] = extra[d] /\ buffer'[d] = buffer[d]
          /\ acks'[d] = acks[d] /\ missing'[d] = missing[d]
      BY <1>1, <1>6
    <3> QED
      BY <1>4, <2>1, <2>2, <2>3, <3>1, <3>2
  <2> QED
    BY <1>1, <1>4, <2>4 DEF Balanced
<1> QED
  BY <1>5, <1>6

LEMMA AccountsReceive ==
  ASSUME TypeOK, Phases, DatagramsInv, DatagramsInv', OutstandingFinite, HistoryTypes, Accounts,
         NEW c \in Client, AReceive(c)
  PROVE  Accounts'
<1>1. /\ UNCHANGED <<inbox, op, socket>> /\ pc[c] = "receiving"
      /\ pc'[c] = "receiving" => next'[c] = next[c]
      /\ pc'[c] # "receiving" => pc'[c] = "idle"
      /\ \A d \in Client : d # c =>
           /\ pc'[d] = pc[d] /\ next'[d] = next[d] /\ buffer'[d] = buffer[d]
           /\ acks'[d] = acks[d] /\ votes'[d] = votes[d] /\ missing'[d] = missing[d]
  BY ReceiveEffect DEF AReceive
<1> SUFFICES ASSUME NEW d \in Client, Countable(d)'
             PROVE  Balanced(d)'
  BY DEF Accounts
<1>6. lost'[d] = lost[d] /\ extra'[d] = extra[d]
  <2>1. pc'[d] # "idle"
    BY DEF Countable
  <2> QED
    BY <2>1 DEF AReceive, HistoryTypes
<1>2. Countable(d)
  BY <1>1, <1>6 DEF Countable
<1>3. Balanced(d) /\ Outstanding(d)' = Outstanding(d)
  BY <1>1, <1>2, OutstandingSame DEF Accounts
<1>4. CASE d # c
  <2>1. Heard(d)' = Heard(d)
    BY <1>1, <1>4, HeardSame
  <2> QED
    BY <1>1, <1>3, <1>4, <1>6, <2>1 DEF Balanced
<1>5. CASE d = c
  <2>1. /\ next[d] \in Nat /\ extra[d] \in Nat /\ lost[d] \in Nat
        /\ acks[d] \in Nat /\ missing[d] \in Nat
        /\ IsFiniteSet(buffer[d]) /\ Cardinality(buffer[d]) \in Nat
        /\ Cardinality(Heard(d)) \in Nat /\ Cardinality(Outstanding(d)) \in Nat
    BY <1>3, BalanceTypes DEF DatagramsInv
  <2>2. /\ pc'[d] # "idle"
        /\ next'[d] = next[d] /\ next[d] = op[d].N + 1 /\ op[d].N \in Nat
        /\ op[d].call \in {"put", "get"}
    <3>1. op[d].N \in Nat /\ op[d].call \in {"put", "get"}
      BY <1>1, <1>5 DEF TypeOK, Op
    <3> QED
      BY <1>1, <1>5, <3>1 DEF Countable, Phases
  <2>3. PICK m \in buffer[d] :
          /\ buffer'[d] = buffer[d] \ {m}
          /\ \/ /\ op[d].call = "put" /\ acks'[d] = acks[d] + 1
                /\ votes'[d] = votes[d] /\ missing'[d] = missing[d]
             \/ /\ op[d].call = "get" /\ missing'[d] = missing[d] + 1
                /\ votes'[d] = votes[d] /\ acks'[d] = acks[d]
             \/ /\ op[d].call = "get" /\ Vote(m) \in Value \cup {Empty}
                /\ votes'[d] = [votes[d] EXCEPT ![Vote(m)] = Increment(@)]
                /\ acks'[d] = acks[d] /\ missing'[d] = missing[d]
    BY <1>5, <2>2, ReceiveCases DEF DatagramsInv, AReceive
  <2>4. Cardinality(buffer'[d]) = Cardinality(buffer[d]) - 1 /\ Cardinality(buffer[d]) >= 1
    <3>1. Cardinality(buffer[d]) # 0
      BY <2>1, <2>3, FS_EmptySet
    <3>2. Cardinality(buffer[d] \ {m}) = Cardinality(buffer[d]) - 1
      BY <2>1, FS_RemoveElement
    <3> QED
      BY <2>1, <2>3, <3>1, <3>2
  <2>5. CASE votes'[d] = votes[d] /\ (\/ acks'[d] = acks[d] + 1 /\ missing'[d] = missing[d]
                                      \/ acks'[d] = acks[d] /\ missing'[d] = missing[d] + 1)
    <3>1. Heard(d)' = Heard(d)
      BY <2>5, HeardSame
    <3>2. next'[d] - 1 + extra'[d] = lost'[d] + Cardinality(Outstanding(d)') + Cardinality(buffer'[d])
                                     + acks'[d] + missing'[d] + Cardinality(Heard(d)')
      <4>1. next[d] - 1 + extra[d] = lost[d] + Cardinality(Outstanding(d)) + Cardinality(buffer[d])
                                       + acks[d] + missing[d] + Cardinality(Heard(d))
        BY <1>3 DEF Balanced
      <4>2. /\ acks'[d] + missing'[d] = acks[d] + missing[d] + 1
            /\ acks'[d] \in Nat /\ missing'[d] \in Nat
        BY <2>1, <2>5
      <4>3. /\ next'[d] = next[d] /\ extra'[d] = extra[d] /\ lost'[d] = lost[d]
            /\ Cardinality(buffer'[d]) = Cardinality(buffer[d]) - 1
            /\ Cardinality(Outstanding(d)') = Cardinality(Outstanding(d))
            /\ Cardinality(Heard(d)') = Cardinality(Heard(d))
        BY <1>3, <1>6, <2>2, <2>4, <3>1
      <4> QED
        BY <2>1, <4>1, <4>2, <4>3
    <3> QED
      BY <1>3, <2>5, <3>1, <3>2 DEF Balanced
  <2>6. CASE /\ op[d].call = "get" /\ Vote(m) \in Value \cup {Empty}
             /\ votes'[d] = [votes[d] EXCEPT ![Vote(m)] = Increment(@)]
             /\ acks'[d] = acks[d] /\ missing'[d] = missing[d]
    <3>1. Cardinality(Heard(d)) < CharMax
      <4>1. op[d].N + extra[d] <= CharMax
        BY <1>2, <2>6 DEF Countable
      <4>2. next[d] - 1 + extra[d] = lost[d] + Cardinality(Outstanding(d)) + Cardinality(buffer[d])
                                       + acks[d] + missing[d] + Cardinality(Heard(d))
        BY <1>3 DEF Balanced
      <4>3. next[d] = op[d].N + 1 /\ op[d].N \in Nat /\ CharMax \in Nat
        BY <2>2, StoreAssumption
      <4>4. Cardinality(buffer[d]) >= 1
        BY <2>4
      <4>5. op[d].N + extra[d] = lost[d] + Cardinality(Outstanding(d)) + Cardinality(buffer[d])
                                   + acks[d] + missing[d] + Cardinality(Heard(d))
        BY <2>1, <4>2, <4>3
      <4>6. Cardinality(Heard(d)) + 1 <= op[d].N + extra[d]
        BY <2>1, <4>4, <4>5
      <4> QED
        BY <2>1, <4>1, <4>3, <4>6
    <3>2. /\ IsFiniteSet(Heard(d)')
          /\ \A v \in Value \cup {Empty} : votes'[d][v] >= 0
          /\ Cardinality(Heard(d)') = Cardinality(Heard(d)) + 1
      <4>1. IsFiniteSet(Heard(d)) /\ \A v \in Value \cup {Empty} : votes[d][v] >= 0
        BY <1>3 DEF Balanced
      <4> QED
        BY <2>6, <3>1, <4>1, HeardMore
    <3>3. next'[d] - 1 + extra'[d] = lost'[d] + Cardinality(Outstanding(d)') + Cardinality(buffer'[d])
                                     + acks'[d] + missing'[d] + Cardinality(Heard(d)')
      <4>1. next[d] - 1 + extra[d] = lost[d] + Cardinality(Outstanding(d)) + Cardinality(buffer[d])
                                       + acks[d] + missing[d] + Cardinality(Heard(d))
        BY <1>3 DEF Balanced
      <4>2. /\ acks'[d] = acks[d] /\ missing'[d] = missing[d]
            /\ next'[d] = next[d] /\ extra'[d] = extra[d] /\ lost'[d] = lost[d]
            /\ Cardinality(buffer'[d]) = Cardinality(buffer[d]) - 1
            /\ Cardinality(Outstanding(d)') = Cardinality(Outstanding(d))
            /\ Cardinality(Heard(d)') = Cardinality(Heard(d)) + 1
        BY <1>3, <1>6, <2>2, <2>4, <2>6, <3>2
      <4>3. next'[d] - 1 + extra'[d] = next[d] - 1 + extra[d]
        BY <4>2
      <4>4. lost'[d] + Cardinality(Outstanding(d)') + Cardinality(buffer'[d]) + acks'[d]
              + missing'[d] + Cardinality(Heard(d)')
            = lost[d] + Cardinality(Outstanding(d)) + (Cardinality(buffer[d]) - 1) + acks[d]
              + missing[d] + (Cardinality(Heard(d)) + 1)
        BY <4>2
      <4>5. lost[d] + Cardinality(Outstanding(d)) + (Cardinality(buffer[d]) - 1) + acks[d]
              + missing[d] + (Cardinality(Heard(d)) + 1)
            = lost[d] + Cardinality(Outstanding(d)) + Cardinality(buffer[d]) + acks[d]
              + missing[d] + Cardinality(Heard(d))
        BY <2>1
      <4> QED
        BY <4>1, <4>3, <4>4, <4>5
    <3> QED
      BY <3>2, <3>3 DEF Balanced
  <2> QED
    BY <2>3, <2>5, <2>6
<1> QED
  BY <1>4, <1>5

LEMMA AccountsHandle ==
  ASSUME TypeOK, DatagramsInv, OutstandingFinite, HistoryTypes, Accounts,
         NEW s \in Server, AHandle(s)
  PROVE  Accounts'
<1>1. PICK i \in DOMAIN inbox[s] : HandleAt(s, i)
  BY HandleFacts DEF AHandle
<1>2. PICK m : m = inbox[s][i]
  OBVIOUS
<1>3. PICK r : r = Replied(Answer(store[s], m), s, m.copy)
  OBVIOUS
<1>4. /\ m \in Request /\ r.from = s /\ r.copy = m.copy
      /\ \/ buffer' = buffer
         \/ /\ m.socket = socket[m.client]
            /\ buffer'[m.client] = buffer[m.client] \cup {r}
            /\ \A c \in Client : c # m.client => buffer'[c] = buffer[c]
      /\ UNCHANGED <<pc, op, socket, next, acks, votes, missing>>
  BY <1>1, <1>2, <1>3, HandleReplies
<1>5. m.client \in Client /\ UNCHANGED extra
  BY <1>4 DEF Request, AHandle
<1> SUFFICES ASSUME NEW d \in Client, Countable(d)'
             PROVE  Balanced(d)'
  BY DEF Accounts
<1>6. lost'[d] = IF Outstanding(d)' # Outstanding(d) /\ buffer' = buffer
                 THEN lost[d] + 1 ELSE lost[d]
  <2>1. d \in Running
    BY <1>4 DEF Countable, Running
  <2> QED
    BY <2>1 DEF AHandle
<1>7. Countable(d)
  BY <1>4, <1>5 DEF Countable
<1>8. Balanced(d) /\ Heard(d)' = Heard(d)
  BY <1>4, <1>7, HeardSame DEF Accounts
<1>9. CASE ~(m.client = d /\ m.socket = socket[d])
  <2>1. buffer'[d] = buffer[d]
    BY <1>4, <1>9
  <2>2. Outstanding(d)' = Outstanding(d)
    BY <1>1, <1>2, <1>9, OutstandingHandle
  <2> QED
    BY <1>4, <1>5, <1>6, <1>8, <2>1, <2>2 DEF Balanced
<1>10. CASE m.client = d /\ m.socket = socket[d]
  <2>1. <<s, m>> \in Outstanding(d) /\ Outstanding(d)' = Outstanding(d) \ {<<s, m>>}
    BY <1>1, <1>2, <1>10, OutstandingHandle
  <2>2. /\ next[d] \in Nat /\ extra[d] \in Nat /\ lost[d] \in Nat
        /\ acks[d] \in Nat /\ missing[d] \in Nat
        /\ IsFiniteSet(buffer[d]) /\ Cardinality(buffer[d]) \in Nat
        /\ IsFiniteSet(Outstanding(d)) /\ Cardinality(Outstanding(d)) \in Nat
        /\ Cardinality(Heard(d)) \in Nat
    BY <1>8, BalanceTypes DEF DatagramsInv
  <2>3. Cardinality(Outstanding(d)') = Cardinality(Outstanding(d)) - 1
    <3>1. Cardinality(Outstanding(d) \ {<<s, m>>}) =
            IF <<s, m>> \in Outstanding(d)
            THEN Cardinality(Outstanding(d)) - 1 ELSE Cardinality(Outstanding(d))
      BY <2>2, FS_RemoveElement, Zenon
    <3> QED
      BY <2>1, <3>1
  <2>4. r \notin buffer[d]
    <3>1. CASE m.copy = 0
      <4>1. Asked(d, s)
        BY <1>2, <1>10, <3>1 DEF Asked
      <4>2. ~Answered(d, s)
        BY <4>1 DEF DatagramsInv, AskedOnce
      <4> QED
        BY <1>4, <3>1, <4>2 DEF Answered
    <3>2. CASE m.copy # 0
      BY <1>2, <1>4, <3>2 DEF DatagramsInv, CopiesDiffer
    <3> QED
      BY <3>1, <3>2
  <2>5. lost'[d] + Cardinality(buffer'[d]) = lost[d] + Cardinality(buffer[d]) + 1
        /\ lost'[d] \in Nat /\ Cardinality(buffer'[d]) \in Nat
    <3>1. CASE buffer' = buffer
      <4>1. lost'[d] = lost[d] + 1 /\ buffer'[d] = buffer[d]
        BY <1>6, <2>1, <3>1
      <4> QED
        BY <2>2, <4>1
    <3>2. CASE buffer' # buffer
      <4>1. lost'[d] = lost[d] /\ buffer'[d] = buffer[d] \cup {r}
        BY <1>4, <1>6, <1>10, <3>2
      <4>2. Cardinality(buffer'[d]) = Cardinality(buffer[d]) + 1
        BY <2>2, <2>4, <4>1, FS_AddElement
      <4> QED
        BY <2>2, <4>1, <4>2
    <3> QED
      BY <3>1, <3>2
  <2>6. next'[d] - 1 + extra'[d] = lost'[d] + Cardinality(Outstanding(d)') + Cardinality(buffer'[d])
                                   + acks'[d] + missing'[d] + Cardinality(Heard(d)')
    BY <1>4, <1>5, <1>8, <2>2, <2>3, <2>5 DEF Balanced
  <2> QED
    BY <1>4, <1>8, <2>6 DEF Balanced
<1> QED
  BY <1>9, <1>10

LEMMA AccountsDump ==
  ASSUME TypeOK, DatagramsInv, DumpsTrue, OutstandingFinite, HistoryTypes, Accounts,
         NEW s \in Server, ADumpPacket(s)
  PROVE  Accounts'
<1>1. UNCHANGED <<inbox, pc, op, socket, next, acks, votes, missing>>
  BY DumpPacketEffect DEF ADumpPacket
<1> SUFFICES ASSUME NEW d \in Client, Countable(d)'
             PROVE  Balanced(d)'
  BY DEF Accounts
<1>2. Outstanding(d)' = Outstanding(d) /\ Heard(d)' = Heard(d)
  BY <1>1, OutstandingSame, HeardSame
<1>3. CASE buffer'[d] = buffer[d] /\ lost'[d] = lost[d] /\ extra'[d] = extra[d]
  <2>1. Balanced(d)
    BY <1>1, <1>3 DEF Accounts, Countable
  <2> QED
    BY <1>1, <1>2, <1>3, <2>1 DEF Balanced
<1>4. CASE /\ op[d].call = "put" /\ extra'[d] = extra[d] + 1
           /\ \/ buffer'[d] = buffer[d] /\ lost'[d] = lost[d] + 1
              \/ /\ lost'[d] = lost[d]
                 /\ \E r : r \notin buffer[d] /\ buffer'[d] = buffer[d] \cup {r}
  <2>1. Balanced(d)
    BY <1>1, <1>4 DEF Accounts, Countable
  <2>2. /\ next[d] \in Nat /\ extra[d] \in Nat /\ lost[d] \in Nat
        /\ acks[d] \in Nat /\ missing[d] \in Nat
        /\ IsFiniteSet(buffer[d]) /\ Cardinality(buffer[d]) \in Nat
        /\ Cardinality(Outstanding(d)) \in Nat /\ Cardinality(Heard(d)) \in Nat
    BY <2>1, BalanceTypes DEF DatagramsInv
  <2>3. lost'[d] + Cardinality(buffer'[d]) = lost[d] + Cardinality(buffer[d]) + 1
        /\ lost'[d] \in Nat /\ Cardinality(buffer'[d]) \in Nat
    <3>1. CASE buffer'[d] = buffer[d] /\ lost'[d] = lost[d] + 1
      BY <2>2, <3>1
    <3>2. CASE lost'[d] = lost[d] /\ \E r : r \notin buffer[d] /\ buffer'[d] = buffer[d] \cup {r}
      <4>1. Cardinality(buffer'[d]) = Cardinality(buffer[d]) + 1
        BY <2>2, <3>2, FS_AddElement
      <4> QED
        BY <2>2, <3>2, <4>1
    <3> QED
      BY <1>4, <3>1, <3>2
  <2>4. next'[d] - 1 + extra'[d] = lost'[d] + Cardinality(Outstanding(d)') + Cardinality(buffer'[d])
                                   + acks'[d] + missing'[d] + Cardinality(Heard(d)')
    <3>1. next[d] - 1 + extra[d] = lost[d] + Cardinality(Outstanding(d)) + Cardinality(buffer[d])
                                     + acks[d] + missing[d] + Cardinality(Heard(d))
      BY <2>1 DEF Balanced
    <3>2. /\ next'[d] = next[d] /\ extra'[d] = extra[d] + 1
          /\ acks'[d] = acks[d] /\ missing'[d] = missing[d]
      BY <1>1, <1>4
    <3> QED
      BY <1>2, <2>2, <2>3, <3>1, <3>2
  <2> QED
    BY <1>1, <1>2, <2>1, <2>4 DEF Balanced
<1> QED
  BY <1>3, <1>4, DumpPacketCounts

LEMMA AccountsCrash ==
  ASSUME TypeOK, DatagramsInv, OutstandingFinite, OutstandingFinite', HistoryTypes, Accounts,
         NEW s \in Server, ACrashRestart(s)
  PROVE  Accounts'
<1>1. UNCHANGED <<pc, op, socket, next, buffer, acks, votes, missing, extra>>
  BY CrashEffect DEF ACrashRestart
<1> SUFFICES ASSUME NEW d \in Client, Countable(d)'
             PROVE  Balanced(d)'
  BY DEF Accounts
<1>2. Countable(d)
  BY <1>1 DEF Countable
<1>3. Balanced(d) /\ Heard(d)' = Heard(d)
  BY <1>1, <1>2, HeardSame DEF Accounts
<1>4. /\ next[d] \in Nat /\ extra[d] \in Nat /\ lost[d] \in Nat
      /\ acks[d] \in Nat /\ missing[d] \in Nat
      /\ Cardinality(buffer[d]) \in Nat /\ Cardinality(Outstanding(d)) \in Nat
      /\ Cardinality(Heard(d)) \in Nat
  BY <1>3, BalanceTypes DEF DatagramsInv
<1>5. Cardinality(Outstanding(d)') \in Nat
  BY FS_CardinalityType DEF OutstandingFinite
<1>6. lost'[d] = lost[d] + Cardinality(Outstanding(d)) - Cardinality(Outstanding(d)')
  BY <1>1 DEF ACrashRestart, Countable, Running
<1>7. next'[d] - 1 + extra'[d] = lost'[d] + Cardinality(Outstanding(d)') + Cardinality(buffer'[d])
                                 + acks'[d] + missing'[d] + Cardinality(Heard(d)')
  BY <1>1, <1>3, <1>4, <1>5, <1>6 DEF Balanced
<1> QED
  BY <1>1, <1>3, <1>7 DEF Balanced

LEMMA AccountsCopy ==
  ASSUME TypeOK, DatagramsInv, DatagramsInv', OutstandingFinite, OutstandingFinite', HistoryTypes,
         Accounts, ACopy
  PROVE  Accounts'
<1>1. UNCHANGED <<pc, op, next, acks, votes, missing, lost>>
  BY CopyRequestEffect, CopyReplyEffect DEF ACopy
<1> SUFFICES ASSUME NEW d \in Client, Countable(d)'
             PROVE  Balanced(d)'
  BY DEF Accounts
<1>2. /\ Cardinality(Outstanding(d)) \in Nat /\ Cardinality(Outstanding(d)') \in Nat
      /\ Cardinality(Outstanding(d)) <= Cardinality(Outstanding(d)')
      /\ Cardinality(buffer[d]) \in Nat /\ Cardinality(buffer'[d]) \in Nat
      /\ Cardinality(buffer[d]) <= Cardinality(buffer'[d])
      /\ extra[d] \in Nat
      /\ extra'[d] = extra[d] + Cardinality(Outstanding(d)') - Cardinality(Outstanding(d))
                              + Cardinality(buffer'[d]) - Cardinality(buffer[d])
  BY <1>1, CopiesAdd DEF ACopy, HistoryTypes, Countable, Running
<1>3. Countable(d)
  <2>1. op[d].N \in Nat /\ CharMax \in Nat
    BY StoreAssumption DEF TypeOK, Op, NoOp
  <2>2. op[d].N + extra'[d] <= CharMax => op[d].N + extra[d] <= CharMax
    BY <1>2, <2>1
  <2> QED
    BY <1>1, <2>2 DEF Countable
<1>4. Balanced(d) /\ Heard(d)' = Heard(d)
  BY <1>1, <1>3, HeardSame DEF Accounts
<1>5. /\ next[d] \in Nat /\ lost[d] \in Nat /\ acks[d] \in Nat /\ missing[d] \in Nat
      /\ Cardinality(Heard(d)) \in Nat
  BY <1>4, BalanceTypes DEF DatagramsInv
<1>6. next'[d] - 1 + extra'[d] = lost'[d] + Cardinality(Outstanding(d)') + Cardinality(buffer'[d])
                                 + acks'[d] + missing'[d] + Cardinality(Heard(d)')
  BY <1>1, <1>2, <1>4, <1>5 DEF Balanced
<1> QED
  BY <1>1, <1>4, <1>6 DEF Balanced

-----------------------------------------------------------------------------
LEMMA InitAccountsInv == AInit => AccountsInv
<1> SUFFICES ASSUME AInit PROVE AccountsInv
  OBVIOUS
<1>1. StoreInv
  BY InitStoreInv DEF AInit
<1>2. HistoryTypes
  BY DEF AInit, HistoryTypes
<1>3. /\ \A c \in Client : pc[c] = "idle" /\ op[c] = NoOp /\ buffer[c] = {}
                           /\ result[c] = NoResult
      /\ \A s \in Server : inbox[s] = <<>> /\ DOMAIN inbox[s] = {} /\ Range(inbox[s]) = {}
      /\ \A s \in Server, k \in Key : store[s][k] = NULL
  BY DEF AInit, Init, Range
<1>4. NothingFromThinAir
  BY <1>3 DEF NothingFromThinAir, Datagram, PutDatagram, GetDatagram
<1>5. ReadsOnlyWhatWasPut /\ AcksHeld /\ Durable /\ Accounts
  BY <1>3 DEF ReadsOnlyWhatWasPut, AcksHeld, Durable, Accounts, Countable, NoResult
<1>6. \A c \in Client : Outstanding(c) = {}
  BY <1>3 DEF Outstanding
<1>7. OutstandingFinite
  BY <1>6, FS_EmptySet DEF OutstandingFinite
<1> QED
  BY <1>1, <1>2, <1>4, <1>5, <1>7 DEF AccountsInv

LEMMA StutterAccounts ==
  ASSUME AccountsInv, UNCHANGED avars
  PROVE  /\ NothingFromThinAir' /\ ReadsOnlyWhatWasPut'
         /\ AcksHeld' /\ Durable' /\ Accounts'
<1>1. UNCHANGED <<walk, store, inbox, crashes, copies, pc, op, socket, next, buffer,
                  acks, votes, missing, result, lost, extra, written>>
  BY DEF avars, vars, serverVars, clientVars, tallyVars
<1>2. NothingFromThinAir' /\ ReadsOnlyWhatWasPut'
  BY <1>1 DEF AccountsInv, NothingFromThinAir, ReadsOnlyWhatWasPut,
              Datagram, PutDatagram, GetDatagram
<1>3. ASSUME NEW c \in Client
      PROVE  /\ Outstanding(c)' = Outstanding(c) /\ CopiesOut(c)' = CopiesOut(c)
             /\ Held(c)' = Held(c) /\ Heard(c)' = Heard(c)
  <2>1. \A s \in Server : Asked(c, s)' = Asked(c, s) /\ ToAsk(c, s)' = ToAsk(c, s)
    BY <1>1, SameNodes DEF Asked, ToAsk
  <2> QED
    BY <1>1, <2>1, OutstandingSame, HeardSame DEF Held, Holders, Waiting
<1>4. AcksHeld' /\ Durable'
  BY <1>1, <1>3 DEF AccountsInv, AcksHeld, Durable, Datagram, PutDatagram, GetDatagram
<1>5. Accounts'
  <2> SUFFICES ASSUME NEW c \in Client, Countable(c)'
               PROVE  Balanced(c)'
    BY DEF Accounts
  <2>1. Countable(c)
    BY <1>1 DEF Countable
  <2>2. Balanced(c)
    BY <2>1 DEF AccountsInv, Accounts
  <2> QED
    BY <1>1, <1>3, <2>2 DEF Balanced
<1> QED
  BY <1>2, <1>4, <1>5

LEMMA StepAccountsInv ==
  ASSUME AccountsInv, [ANext]_avars
  PROVE  AccountsInv'
<1>1. /\ TypeOK /\ Phases /\ DatagramsInv /\ DumpsTrue /\ HistoryTypes /\ NothingFromThinAir
      /\ ReadsOnlyWhatWasPut /\ AcksHeld /\ Durable /\ OutstandingFinite /\ Accounts
  BY DEF AccountsInv, StoreInv
<1>2. RequestsTrue /\ RepliesTrue
  BY <1>1 DEF DatagramsInv
<1>3. StoreInv' /\ TypeOK' /\ DatagramsInv'
  BY StepOfStore, StepStoreInv DEF AccountsInv, StoreInv
<1>4. OutstandingFinite'
  BY <1>1, OutstandingFiniteStep
<1>5. HistoryTypes'
  BY <1>1, <1>3, <1>4, HistoryTypesStep
<1> SUFFICES /\ NothingFromThinAir' /\ ReadsOnlyWhatWasPut'
             /\ AcksHeld' /\ Durable' /\ Accounts'
  BY <1>3, <1>4, <1>5 DEF AccountsInv
<1>6. CASE \E c \in Client : AStart(c)
  BY <1>1, <1>3, <1>4, <1>6, ThinAirStart, AcksStart, AccountsStart
<1>7. CASE \E c \in Client : ASend(c)
  BY <1>1, <1>3, <1>4, <1>7, ThinAirSend, AcksSend, AccountsSend
<1>8. CASE \E c \in Client : AReceive(c)
  BY <1>1, <1>2, <1>3, <1>4, <1>8, ThinAirReceive, AcksReceive, AccountsReceive
<1>9. CASE \E s \in Server : AHandle(s)
  BY <1>1, <1>2, <1>3, <1>4, <1>9, ThinAirHandle, AcksHandle, AccountsHandle
<1>10. CASE \E s \in Server : ACrashRestart(s)
  BY <1>1, <1>3, <1>4, <1>10, ThinAirCrash, AcksCrash, AccountsCrash
<1>11. CASE ACopy
  BY <1>1, <1>3, <1>4, <1>11, ThinAirCopy, AcksCopy, AccountsCopy
<1>12. CASE UNCHANGED avars
  BY <1>12, StutterAccounts
<1>13. CASE \E c \in Client : ARefused(c)
  BY <1>1, <1>3, <1>4, <1>13, ThinAirRefused, AcksRefused, AccountsRefused
<1>14. CASE \E s \in Server : ADumpPacket(s)
  BY <1>1, <1>3, <1>4, <1>14, ThinAirDump, AcksDump, AccountsDump
<1> QED
  BY <1>6, <1>7, <1>8, <1>9, <1>10, <1>11, <1>12, <1>13, <1>14 DEF ANext, AClient

(* The whole invariant: the types, where every datagram is, what every     *)
(* reply says, who holds what a put wrote, and the balance of each         *)
(* operation (network_put, network_get and the receive loop).              *)
THEOREM AccountsInvariant == ASpec => []AccountsInv
<1>1. AccountsInv /\ [ANext]_avars => AccountsInv'
  BY StepAccountsInv
<1> QED
  BY InitAccountsInv, <1>1, PTL DEF ASpec

(* The types hold in the system with its history too: pps-launch-server.c  *)
(* and network.c keep the declared shape of their state.                   *)
THEOREM AccountsTypes == ASpec => []TypeOK
<1>1. AccountsInv => TypeOK
  BY DEF AccountsInv, StoreInv
<1> QED
  BY AccountsInvariant, <1>1, PTL

(* A get returns only what was put for its key, whatever the network and   *)
(* the servers do (network_get counts votes for strings that it received). *)
THEOREM ReadsWerePut == ASpec => []ReadsOnlyWhatWasPut
<1>1. AccountsInv => ReadsOnlyWhatWasPut
  BY DEF AccountsInv
<1> QED
  BY AccountsInvariant, <1>1, PTL

(* After a put has returned 0, W servers have a value for its key, less    *)
(* the crashes and the copies (network_put's count of successes).          *)
THEOREM PutsAreDurable == ASpec => []Durable
<1>1. AccountsInv => Durable
  BY DEF AccountsInv
<1> QED
  BY AccountsInvariant, <1>1, PTL

(* No datagram of an operation is counted twice or forgotten: sends,       *)
(* copies and further datagrams of a dump (pps-launch-server.c:87-135) add *)
(* up with losses, requests and replies that wait, and the counters of     *)
(* network_put and network_get.                                            *)
THEOREM SendsAreAccounted == ASpec => []EverySendAccounted
<1>1. AccountsInv => EverySendAccounted
  BY DEF AccountsInv, Accounts, Countable, Balanced, EverySendAccounted
<1> QED
  BY AccountsInvariant, <1>1, PTL

(* network_put gives up only when fewer than W of its servers could still  *)
(* have answered: all the other datagrams are lost or not handled yet.     *)
THEOREM PutFailuresAreLosses == ASpec => PutFailsOnlyByLoss
<1> DEFINE Fails(c) == pc[c] = "receiving" /\ op[c].call = "put" /\ result'[c].err = "ERR_NETWORK"
           Few(c) == op[c].N + extra[c] - lost[c] - Cardinality(Outstanding(c)) < op[c].W
<1>1. ASSUME AccountsInv, ANext, NEW c \in Client, Fails(c)
      PROVE  Few(c)
  <2>1. /\ TypeOK /\ Phases /\ DatagramsInv /\ HistoryTypes /\ OutstandingFinite /\ Accounts
    BY <1>1 DEF AccountsInv, StoreInv
  <2>2. /\ result[c].err = "none" /\ next[c] = op[c].N + 1 /\ acks[c] < op[c].W
        /\ votes[c] = NoVotes /\ missing[c] = 0
    BY <1>1, <2>1 DEF Phases, NoResult
  <2>3. \A d \in Client : ~AStart(d) \/ d # c
    BY <1>1, <2>1, StartEffect DEF AStart
  <2>4. AReceive(c)
    <3>1. ASSUME NEW d \in Client, AStart(d) PROVE result'[c] = result[c]
      <4>1. d # c /\ (PutStart(d) \/ GetStart(d))
        BY <2>3, <3>1 DEF AStart
      <4>2. \A b \in Client : b # d => result'[b] = result[b]
        BY <2>1, <4>1, StartEffect
      <4> QED
        BY <4>1, <4>2
    <3>2. ASSUME NEW d \in Client, ASend(d) PROVE result'[c] = result[c]
      BY <2>1, <3>2, SendEffect DEF ASend
    <3>3. ASSUME NEW d \in Client, d # c, AReceive(d) PROVE result'[c] = result[c]
      BY <2>1, <3>3, ReceiveEffect DEF AReceive
    <3>4. ASSUME NEW s \in Server, AHandle(s) PROVE result'[c] = result[c]
      BY <2>1, <3>4 DEF AHandle, Handle
    <3>5. ASSUME NEW s \in Server, ACrashRestart(s) PROVE result'[c] = result[c]
      BY <2>1, <3>5, CrashEffect DEF ACrashRestart
    <3>6. ASSUME ACopy PROVE result'[c] = result[c]
      BY <2>1, <3>6, CopyRequestEffect, CopyReplyEffect DEF ACopy
    <3>7. ASSUME NEW d \in Client, ARefused(d) PROVE result'[c] = result[c]
      <4>1. d # c
        BY <1>1, <2>1, <3>7, RefusedEffect DEF ARefused
      <4> QED
        BY <2>1, <3>7, <4>1, RefusedEffect DEF ARefused
    <3>8. ASSUME NEW s \in Server, ADumpPacket(s) PROVE result'[c] = result[c]
      BY <2>1, <3>8, DumpPacketEffect DEF ADumpPacket
    <3> QED
      BY <1>1, <2>2, <3>1, <3>2, <3>3, <3>4, <3>5, <3>6, <3>7, <3>8 DEF ANext, AClient
  <2>5. buffer[c] = {}
    <3>1. \A err, v : Return(c, err, v) => result'[c].err = err
      BY <2>1 DEF Return, TypeOK
    <3>2. ~Return(c, "ERR_NONE", NULL) /\ ~GoOn
      BY <1>1, <2>2, <3>1 DEF GoOn
    <3>3. ~RecvPut(c)
      BY <3>2 DEF RecvPut
    <3>4. ~RecvGet(c)
      BY <1>1 DEF RecvGet
    <3> QED
      BY <2>4, <3>3, <3>4 DEF AReceive, Timeout
  <2>6. Heard(c) = {}
    <3>1. \A v \in Value \cup {Empty} : votes[c][v] = 0
      BY <2>2 DEF NoVotes
    <3> QED
      BY <3>1 DEF Heard
  <2>7. /\ Balanced(c) /\ op[c].N \in Nat /\ op[c].W \in Nat
    BY <1>1, <2>1 DEF Accounts, Countable, TypeOK, Op, NoOp
  <2>8. next[c] - 1 + extra[c] = lost[c] + Cardinality(Outstanding(c)) + 0 + acks[c] + 0 + 0
    BY <2>2, <2>5, <2>6, <2>7, FS_EmptySet DEF Balanced
  <2>9. /\ extra[c] \in Nat /\ lost[c] \in Nat /\ acks[c] \in Nat
        /\ Cardinality(Outstanding(c)) \in Nat
    BY <2>1, BalanceTypes DEF DatagramsInv
  <2> QED
    BY <2>2, <2>7, <2>8, <2>9
<1>2. AccountsInv /\ [ANext]_avars => [\A c \in Client : Fails(c) => Few(c)]_avars
  BY <1>1
<1>3. ASpec => [][\A c \in Client : Fails(c) => Few(c)]_avars
  BY AccountsInvariant, <1>2, PTL DEF ASpec
<1> QED
  BY <1>3 DEF PutFailsOnlyByLoss

-----------------------------------------------------------------------------
(* What a get does not find. *)

(* A request of a running operation is at one of the servers it asks. *)
AtNode(s, m) ==
  m.socket = socket[m.client] =>
    \E j \in 1 .. Len(Nodes(m.client)) : Nodes(m.client)[j] = s
RequestsAtNodes == \A s \in Server : \A m \in Range(inbox[s]) : AtNode(s, m)

(* A get whose servers have had a value all the time has heard of no miss. *)
HeldGet(c) ==
  (pc[c] # "idle" /\ op[c].call = "get" /\ c \in held) =>
    AllHold(c) /\ missing[c] = 0 /\ \A m \in buffer[c] : m.type # "missing"
NotFoundTrue(c) ==
  (pc[c] = "idle" /\ op[c].call = "get" /\ result[c].err = "ERR_NOT_FOUND") => c \notin held

GetsInv == RequestsAtNodes /\ \A c \in Client : HeldGet(c) /\ NotFoundTrue(c)

LEMMA AtNodeSame ==
  ASSUME NEW s, NEW m, AtNode(s, m), UNCHANGED walk,
         op'[m.client] = op[m.client], socket'[m.client] = socket[m.client]
  PROVE  AtNode(s, m)'
<1>1. Nodes(m.client)' = Nodes(m.client)
  BY SameNodes
<1> QED
  BY <1>1 DEF AtNode

(* What is said of a get stays while its locals and the tables do.         *)
LEMMA AllHoldSame ==
  ASSUME NEW c \in Client, UNCHANGED <<walk, store>>, op'[c] = op[c]
  PROVE  AllHold(c)' = AllHold(c)
<1>1. Nodes(c)' = Nodes(c)
  BY SameNodes
<1> QED
  BY <1>1 DEF AllHold

LEMMA GetsStart ==
  ASSUME TypeOK, DatagramsInv, GetsInv, NEW c \in Client, AStart(c)
  PROVE  GetsInv'
<1>1. /\ UNCHANGED <<walk, store, inbox>> /\ pc'[c] = "sending"
      /\ socket'[c] = socket[c] + 1 /\ socket[c] \in Nat
      /\ buffer'[c] = {} /\ missing'[c] = 0
      /\ \A d \in Client : d # c =>
           /\ pc'[d] = pc[d] /\ op'[d] = op[d] /\ socket'[d] = socket[d]
           /\ buffer'[d] = buffer[d] /\ missing'[d] = missing[d] /\ result'[d] = result[d]
  BY StartEffect DEF AStart
<1>2. /\ c \in held' => AllHold(c)'
      /\ \A d \in Client : d # c => (d \in held' <=> d \in held)
  BY DEF AStart
<1>3. ASSUME NEW s \in Server, NEW m \in Range(inbox[s])
      PROVE  AtNode(s, m)'
  <2>1. m.client \in Client /\ m.socket \in Nat /\ m.socket <= socket[m.client]
    BY RequestType DEF DatagramsInv, RequestsTrue, RequestTrue, Range
  <2>2. AtNode(s, m)
    BY DEF GetsInv, RequestsAtNodes
  <2>3. CASE m.client = c
    BY <1>1, <2>1, <2>3 DEF AtNode
  <2>4. CASE m.client # c
    BY <1>1, <2>1, <2>2, <2>4, AtNodeSame
  <2> QED
    BY <2>3, <2>4
<1>4. RequestsAtNodes'
  BY <1>1, <1>3 DEF RequestsAtNodes
<1>5. HeldGet(c)' /\ NotFoundTrue(c)'
  BY <1>1, <1>2 DEF HeldGet, NotFoundTrue
<1>6. ASSUME NEW d \in Client, d # c PROVE HeldGet(d)' /\ NotFoundTrue(d)'
  <2>1. HeldGet(d) /\ NotFoundTrue(d)
    BY DEF GetsInv
  <2>2. AllHold(d)' = AllHold(d)
    BY <1>1, <1>6, AllHoldSame
  <2> QED
    BY <1>1, <1>2, <1>6, <2>1, <2>2 DEF HeldGet, NotFoundTrue
<1>7. \A d \in Client : HeldGet(d)' /\ NotFoundTrue(d)'
  BY <1>5, <1>6
<1> QED
  BY <1>4, <1>7 DEF GetsInv

(* A refused call is over at once, and says so. *)
LEMMA GetsRefused ==
  ASSUME TypeOK, DatagramsInv, GetsInv, NEW c \in Client, ARefused(c)
  PROVE  GetsInv'
<1>1. /\ UNCHANGED <<walk, store, inbox, pc, buffer, missing, held>> /\ pc[c] = "idle"
      /\ socket'[c] = socket[c] + 1 /\ socket[c] \in Nat
      /\ result'[c].err = "ERR_BAD_PARAMETER"
      /\ \A d \in Client : d # c =>
           op'[d] = op[d] /\ socket'[d] = socket[d] /\ result'[d] = result[d]
  BY RefusedEffect DEF ARefused
<1>2. ASSUME NEW s \in Server, NEW m \in Range(inbox[s])
      PROVE  AtNode(s, m)'
  <2>1. m.client \in Client /\ m.socket \in Nat /\ m.socket <= socket[m.client]
    BY RequestType DEF DatagramsInv, RequestsTrue, RequestTrue, Range
  <2>2. AtNode(s, m)
    BY DEF GetsInv, RequestsAtNodes
  <2>3. CASE m.client = c
    BY <1>1, <2>1, <2>3 DEF AtNode
  <2>4. CASE m.client # c
    BY <1>1, <2>1, <2>2, <2>4, AtNodeSame
  <2> QED
    BY <2>3, <2>4
<1>3. RequestsAtNodes'
  BY <1>1, <1>2 DEF RequestsAtNodes
<1>4. HeldGet(c)' /\ NotFoundTrue(c)'
  BY <1>1 DEF HeldGet, NotFoundTrue
<1>5. ASSUME NEW d \in Client, d # c PROVE HeldGet(d)' /\ NotFoundTrue(d)'
  <2>1. HeldGet(d) /\ NotFoundTrue(d)
    BY DEF GetsInv
  <2>2. AllHold(d)' = AllHold(d)
    BY <1>1, <1>5, AllHoldSame
  <2> QED
    BY <1>1, <1>5, <2>1, <2>2 DEF HeldGet, NotFoundTrue
<1>6. \A d \in Client : HeldGet(d)' /\ NotFoundTrue(d)'
  BY <1>4, <1>5
<1> QED
  BY <1>3, <1>6 DEF GetsInv

(* Steps that leave operations, tables and the history alone: what a get   *)
(* has heard is what counts.                                               *)
LEMMA GetsQuiet ==
  ASSUME GetsInv, NEW c \in Client, UNCHANGED <<walk, store, op, held>>,
         pc'[c] # "idle" => /\ pc[c] # "idle" /\ missing'[c] = missing[c]
                            /\ \A m \in buffer'[c] : \E r \in buffer[c] : m.type = r.type,
         pc'[c] = "idle" => pc[c] = "idle" /\ result'[c] = result[c]
  PROVE  HeldGet(c)' /\ NotFoundTrue(c)'
<1>1. HeldGet(c) /\ NotFoundTrue(c)
  BY DEF GetsInv
<1>2. AllHold(c)' = AllHold(c)
  BY AllHoldSame
<1> QED
  BY <1>1, <1>2 DEF HeldGet, NotFoundTrue

(* One more request at a server asked. *)
LEMMA AtNodesAppend ==
  ASSUME TypeOK, RequestsAtNodes, UNCHANGED <<walk, op, socket>>,
         NEW s \in Server, NEW e \in Request, AtNode(s, e),
         inbox' = [inbox EXCEPT ![s] = Append(@, e)]
  PROVE  RequestsAtNodes'
<1>1. \A t \in Server : \A j \in DOMAIN inbox'[t] :
        \/ j \in DOMAIN inbox[t] /\ inbox'[t][j] = inbox[t][j]
        \/ t = s /\ inbox'[t][j] = e
  BY AppendEffect
<1>2. ASSUME NEW t \in Server, NEW m \in Range(inbox'[t])
      PROVE  AtNode(t, m)
  BY <1>1 DEF Range, RequestsAtNodes
<1>3. ASSUME NEW t \in Server, NEW m \in Range(inbox'[t])
      PROVE  AtNode(t, m)'
  BY <1>2, <1>3, AtNodeSame
<1> QED
  BY <1>3 DEF RequestsAtNodes

LEMMA GetsSend ==
  ASSUME TypeOK, GetsInv, NEW c \in Client, ASend(c)
  PROVE  GetsInv'
<1>1. /\ UNCHANGED <<walk, store, op, socket, buffer, missing, result, held>>
      /\ pc[c] = "sending" /\ pc'[c] # "idle"
      /\ \A d \in Client : d # c => pc'[d] = pc[d]
      /\ \/ inbox' = inbox
         \/ /\ next[c] \in 1 .. Len(Nodes(c)) /\ Nodes(c)[next[c]] \in Server
            /\ inbox' = [inbox EXCEPT ![Nodes(c)[next[c]]] =
                           Append(@, Sent(Datagram(op[c]), c))]
  BY SendEffect DEF ASend, tallyVars
<1>2. ASSUME NEW d \in Client PROVE HeldGet(d)' /\ NotFoundTrue(d)'
  <2>1. pc'[d] = "idle" <=> pc[d] = "idle"
    BY <1>1
  <2> QED
    BY <1>1, <2>1, GetsQuiet
<1>3. RequestsAtNodes'
  <2>1. CASE inbox' = inbox
    BY <1>1, <2>1, AtNodeSame DEF GetsInv, RequestsAtNodes
  <2>2. CASE inbox' # inbox
    <3>1. PICK e : /\ e \in Request /\ e.client = c
                   /\ inbox' = [inbox EXCEPT ![Nodes(c)[next[c]]] = Append(@, e)]
      BY <1>1, <2>2, SentFacts
    <3>2. AtNode(Nodes(c)[next[c]], e)
      BY <1>1, <2>2, <3>1 DEF AtNode
    <3> QED
      BY <1>1, <2>2, <3>1, <3>2, AtNodesAppend DEF GetsInv
  <2> QED
    BY <2>1, <2>2
<1> QED
  BY <1>2, <1>3 DEF GetsInv

(* A reply changes what its client has heard; a miss, only if a server had *)
(* none; and a timeout reports a miss that was heard.                      *)
LEMMA GetsReceive ==
  ASSUME TypeOK, GetsInv, NEW c \in Client, AReceive(c)
  PROVE  GetsInv'
<1>1. /\ UNCHANGED <<walk, store, inbox, op, socket, held>>
      /\ pc[c] = "receiving" /\ buffer'[c] \subseteq buffer[c]
      /\ pc'[c] # "receiving" => pc'[c] = "idle"
      /\ \A d \in Client : d # c =>
           /\ pc'[d] = pc[d] /\ buffer'[d] = buffer[d]
           /\ missing'[d] = missing[d] /\ result'[d] = result[d]
  BY ReceiveEffect DEF AReceive
<1>2. RequestsAtNodes'
  BY <1>1, AtNodeSame DEF GetsInv, RequestsAtNodes
<1>3. ASSUME NEW d \in Client, d # c PROVE HeldGet(d)' /\ NotFoundTrue(d)'
  BY <1>1, <1>3, GetsQuiet
<1>4. ASSUME op[c].call = "get", c \in held
      PROVE  /\ pc'[c] # "idle" => missing'[c] = 0
             /\ pc'[c] = "idle" => result'[c].err # "ERR_NOT_FOUND"
  <2>1. missing[c] = 0 /\ \A m \in buffer[c] : m.type # "missing"
    BY <1>1, <1>4 DEF GetsInv, HeldGet
  <2>2. \A err, v : Return(c, err, v) => pc'[c] = "idle" /\ result'[c].err = err
    BY DEF Return, TypeOK
  <2>3. CASE RecvGet(c)
    <3>1. (UNCHANGED missing /\ GoOn) \/ \E v : Return(c, "ERR_NONE", v)
      BY <2>1, <2>3 DEF RecvGet
    <3>2. GoOn => pc'[c] = "receiving"
      BY <1>1 DEF GoOn
    <3> QED
      BY <2>1, <2>2, <3>1, <3>2
  <2>4. CASE Timeout(c)
    <3>1. Return(c, "ERR_NETWORK", NULL)
      BY <2>1, <2>4 DEF Timeout
    <3> QED
      BY <2>2, <3>1
  <2>5. ~RecvPut(c)
    BY <1>4 DEF RecvPut
  <2> QED
    BY <2>3, <2>4, <2>5 DEF AReceive
<1>5. HeldGet(c)' /\ NotFoundTrue(c)'
  <2>1. HeldGet(c) /\ NotFoundTrue(c)
    BY DEF GetsInv
  <2>2. AllHold(c)' = AllHold(c)
    BY <1>1, AllHoldSame
  <2> QED
    BY <1>1, <1>4, <2>1, <2>2 DEF HeldGet, NotFoundTrue
<1>6. \A d \in Client : HeldGet(d)' /\ NotFoundTrue(d)'
  BY <1>3, <1>5
<1> QED
  BY <1>2, <1>6 DEF GetsInv

(* No server answers a get with a miss while all it asks hold the key.     *)
LEMMA NoMiss ==
  ASSUME TypeOK, DatagramsInv, GetsInv, NEW s \in Server, NEW i \in DOMAIN inbox[s],
         HandleAt(s, i), NEW c \in Client, pc[c] # "idle", op[c].call = "get", c \in held
  PROVE  \A m \in buffer'[c] : m.type # "missing"
<1>1. (\A m \in buffer[c] : m.type # "missing") /\ AllHold(c)
  BY DEF GetsInv, HeldGet
<1> DEFINE d == inbox[s][i]
           r == Replied(Answer(store[s], d), s, d.copy)
<1>2. /\ r.type = Answer(store[s], d).type
      /\ \/ buffer' = buffer
         \/ /\ d.socket = socket[d.client]
            /\ buffer'[d.client] = buffer[d.client] \cup {r}
            /\ \A b \in Client : b # d.client => buffer'[b] = buffer[b]
  BY HandleReplies
<1>3. CASE buffer'[c] = buffer[c]
  BY <1>1, <1>3
<1>4. CASE buffer'[c] # buffer[c]
  <2>1. d.client = c /\ d.socket = socket[c] /\ buffer'[c] = buffer[c] \cup {r}
    BY <1>2, <1>4
  <2>2. d.type = Datagram(op[c]).type /\ d.key = Datagram(op[c]).key
    BY <2>1 DEF DatagramsInv, RequestsTrue, RequestTrue
  <2>3. d.key = op[c].key /\ d.type \in {"ping", "read"}
    BY <2>2 DEF Datagram, GetDatagram
  <2>4. AtNode(s, d)
    BY DEF GetsInv, RequestsAtNodes, Range
  <2>5. store[s][d.key] # NULL
    BY <1>1, <2>1, <2>3, <2>4 DEF AtNode, AllHold
  <2>6. Answer(store[s], d).type # "missing"
    BY <2>3, <2>5 DEF Answer
  <2> QED
    BY <1>1, <1>2, <2>1, <2>6
<1> QED
  BY <1>3, <1>4

LEMMA GetsHandle ==
  ASSUME TypeOK, DatagramsInv, GetsInv, NEW s \in Server, AHandle(s)
  PROVE  GetsInv'
<1>1. PICK i \in DOMAIN inbox[s] : HandleAt(s, i)
  BY HandleFacts DEF AHandle
<1>2. UNCHANGED <<walk, op, socket, pc, missing, result>>
  BY <1>1 DEF HandleAt, tallyVars
<1>3. \A c \in held' : c \in held /\ (pc[c] # "idle" => AllHold(c)')
  BY <1>2 DEF AHandle, StillHeld
<1>4. ASSUME NEW t \in Server, NEW m \in Range(inbox'[t])
      PROVE  AtNode(t, m)'
  <2>1. m \in Range(inbox[t])
    BY <1>1, HandleEffect DEF Range
  <2> QED
    BY <1>2, <2>1, AtNodeSame DEF GetsInv, RequestsAtNodes
<1>5. RequestsAtNodes'
  BY <1>4 DEF RequestsAtNodes
<1>6. ASSUME NEW c \in Client PROVE HeldGet(c)' /\ NotFoundTrue(c)'
  <2>1. HeldGet(c) /\ NotFoundTrue(c)
    BY DEF GetsInv
  <2>2. pc[c] # "idle" /\ op[c].call = "get" /\ c \in held =>
          \A m \in buffer'[c] : m.type # "missing"
    BY <1>1, NoMiss
  <2> QED
    BY <1>2, <1>3, <2>1, <2>2 DEF HeldGet, NotFoundTrue
<1> QED
  BY <1>5, <1>6 DEF GetsInv

LEMMA GetsDump ==
  ASSUME TypeOK, DumpsTrue, HistoryTypes, GetsInv, NEW s \in Server, ADumpPacket(s)
  PROVE  GetsInv'
<1>1. UNCHANGED <<walk, store, inbox, op, socket, pc, missing, result, held>>
  BY DumpPacketEffect DEF ADumpPacket
<1>2. RequestsAtNodes'
  BY <1>1, AtNodeSame DEF GetsInv, RequestsAtNodes
<1>3. ASSUME NEW c \in Client PROVE HeldGet(c)' /\ NotFoundTrue(c)'
  <2>1. HeldGet(c) /\ NotFoundTrue(c)
    BY DEF GetsInv
  <2>2. AllHold(c)' = AllHold(c)
    BY <1>1, AllHoldSame
  <2>3. op[c].call = "get" => buffer'[c] = buffer[c]
    BY DumpsAreForPuts
  <2> QED
    BY <1>1, <2>1, <2>2, <2>3 DEF HeldGet, NotFoundTrue
<1> QED
  BY <1>2, <1>3 DEF GetsInv

LEMMA GetsCrash ==
  ASSUME TypeOK, GetsInv, NEW s \in Server, ACrashRestart(s)
  PROVE  GetsInv'
<1>1. /\ UNCHANGED <<walk, op, socket, pc, missing, result, buffer>>
      /\ DOMAIN inbox'[s] = {} /\ \A t \in Server : t # s => inbox'[t] = inbox[t]
  BY CrashEffect DEF ACrashRestart
<1>2. \A c \in held' : c \in held /\ (pc[c] # "idle" => AllHold(c)')
  BY <1>1 DEF ACrashRestart, StillHeld
<1>3. ASSUME NEW t \in Server, NEW m \in Range(inbox'[t])
      PROVE  AtNode(t, m)'
  <2>1. m \in Range(inbox[t])
    BY <1>1 DEF Range
  <2> QED
    BY <1>1, <2>1, AtNodeSame DEF GetsInv, RequestsAtNodes
<1>4. RequestsAtNodes'
  BY <1>3 DEF RequestsAtNodes
<1>5. ASSUME NEW c \in Client PROVE HeldGet(c)' /\ NotFoundTrue(c)'
  BY <1>1, <1>2 DEF GetsInv, HeldGet, NotFoundTrue
<1> QED
  BY <1>4, <1>5 DEF GetsInv

LEMMA GetsCopy ==
  ASSUME TypeOK, GetsInv, ACopy
  PROVE  GetsInv'
<1>1. ASSUME NEW s \in Server, CopyRequest(s) PROVE GetsInv'
  <2>1. UNCHANGED <<walk, store, op, socket, pc, missing, result, buffer, held>>
    BY <1>1, CopyRequestEffect DEF ACopy
  <2>2. PICK i, e : /\ i \in DOMAIN inbox[s] /\ e \in Request
                    /\ inbox' = [inbox EXCEPT ![s] = Append(@, e)]
                    /\ e.client = inbox[s][i].client /\ e.socket = inbox[s][i].socket
    BY <1>1, CopyRequestEffect
  <2>3. AtNode(s, inbox[s][i])
    BY <2>2 DEF GetsInv, RequestsAtNodes, Range
  <2>4. AtNode(s, e)
    BY <2>2, <2>3 DEF AtNode
  <2>5. RequestsAtNodes'
    BY <2>1, <2>2, <2>4, AtNodesAppend DEF GetsInv
  <2>6. ASSUME NEW c \in Client PROVE HeldGet(c)' /\ NotFoundTrue(c)'
    BY <2>1, GetsQuiet
  <2> QED
    BY <2>5, <2>6 DEF GetsInv
<1>2. ASSUME NEW d \in Client, CopyReply(d) PROVE GetsInv'
  <2>1. /\ UNCHANGED <<walk, store, inbox, op, socket, pc, missing, result, held>>
        /\ \A c \in Client : \A m \in buffer'[c] : \E r \in buffer[c] : m.type = r.type
    BY <1>2, CopyReplyEffect DEF ACopy
  <2>2. RequestsAtNodes'
    BY <2>1, AtNodeSame DEF GetsInv, RequestsAtNodes
  <2>3. ASSUME NEW c \in Client PROVE HeldGet(c)' /\ NotFoundTrue(c)'
    BY <2>1, GetsQuiet
  <2> QED
    BY <2>2, <2>3 DEF GetsInv
<1> QED
  BY <1>1, <1>2 DEF ACopy

LEMMA InitGetsInv == AInit => GetsInv
<1> SUFFICES ASSUME AInit PROVE GetsInv
  OBVIOUS
<1>1. /\ \A s \in Server : Range(inbox[s]) = {}
      /\ \A c \in Client : pc[c] = "idle" /\ op[c].call = "none"
  BY DEF AInit, Init, Range, NoOp
<1> QED
  BY <1>1 DEF GetsInv, RequestsAtNodes, HeldGet, NotFoundTrue

LEMMA StepGetsInv ==
  ASSUME AccountsInv, GetsInv, [ANext]_avars
  PROVE  GetsInv'
<1>1. TypeOK /\ DatagramsInv /\ DumpsTrue /\ HistoryTypes
  BY DEF AccountsInv, StoreInv
<1>2. CASE UNCHANGED avars
  <2>1. UNCHANGED <<walk, store, inbox, op, socket, pc, buffer, missing, result, held>>
    BY <1>2 DEF avars, vars, serverVars, clientVars, tallyVars
  <2>2. RequestsAtNodes'
    BY <2>1, AtNodeSame DEF GetsInv, RequestsAtNodes
  <2>3. ASSUME NEW c \in Client PROVE HeldGet(c)' /\ NotFoundTrue(c)'
    BY <2>1, GetsQuiet
  <2> QED
    BY <2>2, <2>3 DEF GetsInv
<1> QED
  BY <1>1, <1>2, GetsStart, GetsRefused, GetsSend, GetsReceive, GetsHandle, GetsDump, GetsCrash,
     GetsCopy
  DEF ANext, AClient

(* A get says ERR_NOT_FOUND only if some server that it asks had no value  *)
(* at some moment since it began: late, lost or repeated replies make none *)
(* (network_get's error_not_found and its timeout, network.c:45-86).       *)
THEOREM MissesAreTrue == ASpec => []NotFoundIsTrue
<1>1. AccountsInv /\ GetsInv /\ [ANext]_avars => GetsInv'
  BY StepGetsInv
<1>2. ASpec => []GetsInv
  BY InitGetsInv, AccountsInvariant, <1>1, PTL DEF ASpec
<1>3. GetsInv => NotFoundIsTrue
  BY DEF GetsInv, NotFoundTrue, NotFoundIsTrue
<1> QED
  BY <1>2, <1>3, PTL

-----------------------------------------------------------------------------
(* The end of an operation. *)

(* Sizes of sets with one element more or less.                            *)
LEMMA SizeOfMore ==
  ASSUME NEW S, IsFiniteSet(S), NEW x, x \notin S
  PROVE  Cardinality(S \cup {x}) = Cardinality(S) + 1
<1>1. Cardinality(S \cup {x}) = IF x \in S THEN Cardinality(S) ELSE Cardinality(S) + 1
  BY FS_AddElement, Zenon
<1> QED
  BY <1>1

LEMMA SizeOfMost ==
  ASSUME NEW S, IsFiniteSet(S), NEW x
  PROVE  Cardinality(S \cup {x}) \in {Cardinality(S), Cardinality(S) + 1}
<1>1. Cardinality(S \cup {x}) = IF x \in S THEN Cardinality(S) ELSE Cardinality(S) + 1
  BY FS_AddElement, Zenon
<1> QED
  BY <1>1

LEMMA SizeOfLess ==
  ASSUME NEW S, IsFiniteSet(S), NEW x, x \in S
  PROVE  Cardinality(S \ {x}) = Cardinality(S) - 1
<1>1. Cardinality(S \ {x}) = IF x \in S THEN Cardinality(S) - 1 ELSE Cardinality(S)
  BY FS_RemoveElement, Zenon
<1> QED
  BY <1>1

Under(c) == Cardinality(Outstanding(c))
Here(c)  == Cardinality(buffer[c])

(* What is left of a running operation is a natural number.                *)
LEMMA StepsLeftNat ==
  ASSUME TypeOK, Phases, RepliesTrue, OutstandingFinite, NEW c \in Client, pc[c] # "idle"
  PROVE  /\ op[c].N \in Nat /\ next[c] \in Nat /\ next[c] <= op[c].N + 1
         /\ op[c].W \in Nat /\ acks[c] \in Nat
         /\ copies \in Nat /\ MaxCopies \in Nat /\ copies <= MaxCopies
         /\ Under(c) \in Nat /\ Here(c) \in Nat
         /\ op[c].call \in {"put", "get"}
         /\ op[c].call = "put" => StepsLeft(c) = op[c].N + 1 - next[c] + op[c].W - acks[c]
         /\ op[c].call = "get" => StepsLeft(c) = 2 * (op[c].N + 1 - next[c]) + Under(c)
                                                   + Here(c) + MaxCopies - copies
         /\ StepsLeft(c) \in Nat
<1>1. /\ op[c].N \in Nat /\ op[c].W \in Nat /\ next[c] \in Nat /\ acks[c] \in Nat
      /\ op[c].call \in {"put", "get"}
  <2>1. op[c] \in Op
    BY DEF TypeOK
  <2> QED
    BY <2>1 DEF TypeOK, Op
<1>2. next[c] <= op[c].N + 1
  <2>1. pc[c] = "sending" \/ pc[c] = "receiving"
    BY DEF TypeOK
  <2> QED
    BY <1>1, <2>1 DEF Phases
<1>3. copies \in Nat /\ MaxCopies \in Nat /\ copies <= MaxCopies
  BY StoreAssumption DEF TypeOK
<1>4. Under(c) \in Nat /\ Here(c) \in Nat
  BY FS_CardinalityType DEF Under, Here, OutstandingFinite, RepliesTrue
<1>5. /\ op[c].call = "put" => StepsLeft(c) = op[c].N + 1 - next[c] + op[c].W - acks[c]
      /\ op[c].call = "get" => StepsLeft(c) = 2 * (op[c].N + 1 - next[c]) + Under(c)
                                                + Here(c) + MaxCopies - copies
  BY DEF StepsLeft, Under, Here
<1>6. op[c].call = "put" => acks[c] < op[c].W
  BY DEF Phases
<1> HIDE DEF Under, Here
<1>7. StepsLeft(c) \in Nat
  <2>1. CASE op[c].call = "put"
    BY <1>1, <1>2, <1>5, <1>6, <2>1
  <2>2. CASE op[c].call = "get"
    BY <1>1, <1>2, <1>3, <1>4, <1>5, <2>2
  <2> QED
    BY <1>1, <2>1, <2>2
<1> QED
  BY <1>1, <1>2, <1>3, <1>4, <1>5, <1>7

LeftNat == \A c \in Client : pc[c] # "idle" => StepsLeft(c) \in Nat

LEMMA LeftIsNat == AccountsInv => LeftNat
  BY StepsLeftNat DEF AccountsInv, StoreInv, DatagramsInv, LeftNat

Nearer(c) == StepsLeft(c)' < StepsLeft(c)
NotFarther(c) == StepsLeft(c)' <= StepsLeft(c)

LEMMA SendNearer ==
  ASSUME AccountsInv, NEW c \in Client, ASend(c)
  PROVE  Nearer(c) /\ \A d \in Client : d # c => StepsLeft(d)' = StepsLeft(d)
<1>1. TypeOK /\ Phases /\ DatagramsInv /\ RepliesTrue /\ OutstandingFinite
  BY DEF AccountsInv, StoreInv, DatagramsInv
<1>2. /\ UNCHANGED <<copies, op, socket, buffer>>
      /\ acks' = acks
      /\ pc[c] = "sending" /\ pc'[c] # "idle" /\ next'[c] = next[c] + 1
      /\ \A d \in Client : d # c => pc'[d] = pc[d] /\ next'[d] = next[d]
  BY <1>1, SendEffect DEF ASend, tallyVars
<1>3. Under(c)' \in {Under(c), Under(c) + 1}
  <2>1. IsFiniteSet(Outstanding(c))
    BY <1>1 DEF OutstandingFinite
  <2>2. \/ Outstanding(c)' = Outstanding(c)
        \/ \E x : x \notin Outstanding(c) /\ Outstanding(c)' = Outstanding(c) \cup {x}
    BY <1>1, OutstandingSend DEF ASend
  <2> QED
    BY <2>1, <2>2, SizeOfMore DEF Under
<1>4. Here(c)' = Here(c)
  BY <1>2 DEF Here
<1>5. /\ op[c].N \in Nat /\ next[c] \in Nat /\ op[c].W \in Nat /\ acks[c] \in Nat
      /\ copies \in Nat /\ MaxCopies \in Nat
      /\ Under(c) \in Nat /\ Here(c) \in Nat
      /\ op[c].call \in {"put", "get"}
      /\ op[c].call = "put" => StepsLeft(c) = op[c].N + 1 - next[c] + op[c].W - acks[c]
      /\ op[c].call = "get" => StepsLeft(c) = 2 * (op[c].N + 1 - next[c]) + Under(c)
                                                + Here(c) + MaxCopies - copies
  BY <1>1, <1>2, StepsLeftNat
<1>6. /\ op[c].call = "put" => StepsLeft(c)' = op[c].N + 1 - (next[c] + 1) + op[c].W - acks[c]
      /\ op[c].call = "get" => StepsLeft(c)' = 2 * (op[c].N + 1 - (next[c] + 1)) + Under(c)'
                                                 + Here(c) + MaxCopies - copies
  BY <1>2, <1>4 DEF StepsLeft, Under, Here
<1>7. ASSUME NEW d \in Client, d # c PROVE StepsLeft(d)' = StepsLeft(d)
  BY <1>1, <1>2, <1>7, OutstandingSend DEF StepsLeft, ASend
<1>8. Nearer(c)
  <2>1. CASE op[c].call = "put"
    BY <1>5, <1>6, <2>1 DEF Nearer
  <2>2. CASE op[c].call = "get"
    BY <1>3, <1>5, <1>6, <2>2 DEF Nearer
  <2> QED
    BY <1>5, <2>1, <2>2
<1> QED
  BY <1>7, <1>8

LEMMA ReceiveNearer ==
  ASSUME AccountsInv, NEW c \in Client, AReceive(c)
  PROVE  /\ pc'[c] = "idle" \/ Nearer(c)
         /\ \A d \in Client : d # c => StepsLeft(d)' = StepsLeft(d)
<1>1. TypeOK /\ Phases /\ DatagramsInv /\ RepliesTrue /\ OutstandingFinite
  BY DEF AccountsInv, StoreInv, DatagramsInv
<1>2. /\ UNCHANGED <<inbox, copies, op, socket>>
      /\ pc[c] = "receiving"
      /\ pc'[c] = "idle" \/ next'[c] = next[c]
      /\ \A d \in Client : d # c =>
           next'[d] = next[d] /\ buffer'[d] = buffer[d] /\ acks'[d] = acks[d]
  BY <1>1, ReceiveEffect DEF AReceive
<1>3. \A d \in Client : Outstanding(d)' = Outstanding(d)
  BY <1>2, OutstandingSame
<1>4. ASSUME pc'[c] # "idle" PROVE Nearer(c)
  <2>1. PICK m \in buffer[c] :
          buffer'[c] = buffer[c] \ {m} /\ (op[c].call = "put" => acks'[c] = acks[c] + 1)
    BY <1>1, <1>4, ReceiveCases DEF AReceive
  <2>2. Here(c)' = Here(c) - 1
    BY <1>1, <2>1, SizeOfLess DEF Here, RepliesTrue
  <2>3. /\ op[c].N \in Nat /\ next[c] \in Nat /\ op[c].W \in Nat /\ acks[c] \in Nat
        /\ copies \in Nat /\ MaxCopies \in Nat
        /\ Under(c) \in Nat /\ Here(c) \in Nat
        /\ op[c].call \in {"put", "get"}
        /\ op[c].call = "put" => StepsLeft(c) = op[c].N + 1 - next[c] + op[c].W - acks[c]
        /\ op[c].call = "get" => StepsLeft(c) = 2 * (op[c].N + 1 - next[c]) + Under(c)
                                                  + Here(c) + MaxCopies - copies
    BY <1>1, <1>2, StepsLeftNat
  <2>4. /\ op[c].call = "put" => StepsLeft(c)' = op[c].N + 1 - next[c] + op[c].W - (acks[c] + 1)
        /\ op[c].call = "get" => StepsLeft(c)' = 2 * (op[c].N + 1 - next[c]) + Under(c)
                                                   + Here(c)' + MaxCopies - copies
    BY <1>2, <1>3, <1>4, <2>1 DEF StepsLeft, Under, Here
  <2>5. CASE op[c].call = "put"
    BY <2>3, <2>4, <2>5 DEF Nearer
  <2>6. CASE op[c].call = "get"
    BY <2>2, <2>3, <2>4, <2>6 DEF Nearer
  <2> QED
    BY <2>3, <2>5, <2>6
<1>5. ASSUME NEW d \in Client, d # c PROVE StepsLeft(d)' = StepsLeft(d)
  BY <1>2, <1>3, <1>5 DEF StepsLeft
<1> QED
  BY <1>4, <1>5

(* What is left of a put is its own affair. *)
LEMMA PutLeftSame ==
  ASSUME NEW c, op[c].call = "put", op'[c] = op[c], next'[c] = next[c], acks'[c] = acks[c],
         StepsLeft(c) \in Nat
  PROVE  NotFarther(c)
<1>1. StepsLeft(c)' = StepsLeft(c)
  BY DEF StepsLeft
<1> QED
  BY <1>1 DEF NotFarther

(* For a get, a server or the network moves requests to replies, or makes  *)
(* a copy of one and has one copy less to make.                            *)
LEMMA HandleNotFarther ==
  ASSUME AccountsInv, NEW s \in Server, AHandle(s), NEW c \in Client, pc[c] # "idle"
  PROVE  NotFarther(c)
<1>1. TypeOK /\ Phases /\ DatagramsInv /\ RepliesTrue /\ OutstandingFinite
  BY DEF AccountsInv, StoreInv, DatagramsInv
<1>2. PICK i \in DOMAIN inbox[s] : HandleAt(s, i)
  BY <1>1, HandleFacts DEF AHandle
<1>3. /\ op[c].N \in Nat /\ next[c] \in Nat /\ copies \in Nat /\ MaxCopies \in Nat
      /\ Under(c) \in Nat /\ Here(c) \in Nat
      /\ StepsLeft(c) \in Nat /\ op[c].call \in {"put", "get"}
      /\ op[c].call = "get" => StepsLeft(c) = 2 * (op[c].N + 1 - next[c]) + Under(c)
                                                + Here(c) + MaxCopies - copies
  BY <1>1, StepsLeftNat
<1>8. op[c].call = "put" => NotFarther(c)
  BY <1>2, <1>3, PutLeftSame DEF HandleAt, tallyVars
<1> SUFFICES ASSUME op[c].call = "get" PROVE NotFarther(c)
  BY <1>3, <1>8
<1>4. StepsLeft(c)' = 2 * (op[c].N + 1 - next[c]) + Under(c)' + Here(c)' + MaxCopies - copies
  BY <1>2 DEF HandleAt, StepsLeft, Under, Here
<1> DEFINE m == inbox[s][i]
           r == Replied(Answer(store[s], m), s, m.copy)
<1>5. \/ buffer' = buffer
      \/ /\ m.socket = socket[m.client]
         /\ buffer'[m.client] = buffer[m.client] \cup {r}
         /\ \A b \in Client : b # m.client => buffer'[b] = buffer[b]
  BY <1>1, <1>2, HandleReplies
<1>6. CASE m.client = c /\ m.socket = socket[c]
  <2>1. <<s, m>> \in Outstanding(c) /\ Outstanding(c)' = Outstanding(c) \ {<<s, m>>}
    BY <1>1, <1>2, <1>6, OutstandingHandle
  <2>2. Under(c)' = Under(c) - 1
    BY <1>1, <2>1, SizeOfLess DEF Under, OutstandingFinite
  <2>3. buffer'[c] = buffer[c] \/ buffer'[c] = buffer[c] \cup {r}
    BY <1>5, <1>6
  <2>4. Here(c)' \in {Here(c), Here(c) + 1}
    BY <1>1, <2>3, SizeOfMost DEF Here, RepliesTrue
  <2> QED
    BY <1>3, <1>4, <2>2, <2>4 DEF NotFarther
<1>7. CASE ~(m.client = c /\ m.socket = socket[c])
  <2>1. Outstanding(c)' = Outstanding(c)
    BY <1>1, <1>2, <1>7, OutstandingHandle
  <2>2. buffer'[c] = buffer[c]
    BY <1>5, <1>7
  <2>3. Under(c)' = Under(c) /\ Here(c)' = Here(c)
    BY <2>1, <2>2 DEF Under, Here
  <2> QED
    BY <1>3, <1>4, <2>3 DEF NotFarther
<1> QED
  BY <1>6, <1>7

(* A dump is for a put. *)
LEMMA DumpNotFarther ==
  ASSUME AccountsInv, NEW s \in Server, ADumpPacket(s), NEW c \in Client, pc[c] # "idle"
  PROVE  NotFarther(c)
<1>1. /\ TypeOK /\ Phases /\ RepliesTrue /\ DumpsTrue /\ OutstandingFinite /\ HistoryTypes
  BY DEF AccountsInv, StoreInv, DatagramsInv
<1>2. StepsLeft(c) \in Nat /\ op[c].call \in {"put", "get"}
  BY <1>1, StepsLeftNat
<1>3. UNCHANGED <<op, socket, next, inbox, acks, copies>>
  BY <1>1, DumpPacketEffect DEF ADumpPacket
<1>4. CASE op[c].call = "put"
  BY <1>2, <1>3, <1>4, PutLeftSame
<1>5. CASE op[c].call = "get"
  <2>1. buffer'[c] = buffer[c]
    BY <1>1, <1>5, DumpsAreForPuts
  <2>2. Outstanding(c)' = Outstanding(c)
    BY <1>3, OutstandingSame
  <2>3. StepsLeft(c)' = StepsLeft(c)
    BY <1>3, <2>1, <2>2 DEF StepsLeft
  <2> QED
    BY <1>2, <2>3 DEF NotFarther
<1> QED
  BY <1>2, <1>4, <1>5

LEMMA CrashNotFarther ==
  ASSUME AccountsInv, NEW s \in Server, ACrashRestart(s), NEW c \in Client, pc[c] # "idle"
  PROVE  NotFarther(c)
<1>1. TypeOK /\ Phases /\ RepliesTrue /\ OutstandingFinite
  BY DEF AccountsInv, StoreInv, DatagramsInv
<1>2. /\ op[c].N \in Nat /\ next[c] \in Nat /\ copies \in Nat /\ MaxCopies \in Nat
      /\ Under(c) \in Nat /\ Here(c) \in Nat
      /\ StepsLeft(c) \in Nat /\ op[c].call \in {"put", "get"}
      /\ op[c].call = "get" => StepsLeft(c) = 2 * (op[c].N + 1 - next[c]) + Under(c)
                                                + Here(c) + MaxCopies - copies
  BY <1>1, StepsLeftNat
<1>3. UNCHANGED <<op, next, buffer, acks, copies>>
  BY <1>1, CrashEffect DEF ACrashRestart
<1>6. op[c].call = "put" => NotFarther(c)
  BY <1>2, <1>3, PutLeftSame
<1> SUFFICES ASSUME op[c].call = "get" PROVE NotFarther(c)
  BY <1>2, <1>6
<1>4. Under(c)' \in Nat /\ Under(c)' <= Under(c)
  <2>1. IsFiniteSet(Outstanding(c)) /\ Outstanding(c)' \subseteq Outstanding(c)
    BY <1>1, OutstandingCrash DEF OutstandingFinite, ACrashRestart
  <2> QED
    BY <2>1, FS_Subset, FS_CardinalityType DEF Under
<1>5. StepsLeft(c)' = 2 * (op[c].N + 1 - next[c]) + Under(c)' + Here(c) + MaxCopies - copies
  BY <1>3 DEF StepsLeft, Under, Here
<1> QED
  BY <1>2, <1>4, <1>5 DEF NotFarther

LEMMA CopyNotFarther ==
  ASSUME AccountsInv, ACopy, NEW c \in Client, pc[c] # "idle"
  PROVE  NotFarther(c)
<1>1. TypeOK /\ Phases /\ DatagramsInv /\ RepliesTrue /\ OutstandingFinite
  BY DEF AccountsInv, StoreInv, DatagramsInv
<1>2. /\ op[c].N \in Nat /\ next[c] \in Nat /\ copies \in Nat /\ MaxCopies \in Nat
      /\ Under(c) \in Nat /\ Here(c) \in Nat
      /\ StepsLeft(c) \in Nat /\ op[c].call \in {"put", "get"}
      /\ op[c].call = "get" => StepsLeft(c) = 2 * (op[c].N + 1 - next[c]) + Under(c)
                                                + Here(c) + MaxCopies - copies
  BY <1>1, StepsLeftNat
<1>3. UNCHANGED <<op, next, acks>> /\ copies' = copies + 1
  BY <1>1, CopyRequestEffect, CopyReplyEffect DEF ACopy
<1>6. op[c].call = "put" => NotFarther(c)
  BY <1>2, <1>3, PutLeftSame
<1> SUFFICES ASSUME op[c].call = "get" PROVE NotFarther(c)
  BY <1>2, <1>6
<1>4. StepsLeft(c)' = 2 * (op[c].N + 1 - next[c]) + Under(c)' + Here(c)' + MaxCopies - (copies + 1)
  BY <1>3 DEF StepsLeft, Under, Here
<1>5. \/ Under(c)' = Under(c) /\ Here(c)' \in {Here(c), Here(c) + 1}
      \/ Under(c)' = Under(c) + 1 /\ Here(c)' = Here(c)
  <2>1. ASSUME NEW s \in Server, CopyRequest(s)
        PROVE  Under(c)' \in {Under(c), Under(c) + 1} /\ Here(c)' = Here(c)
    <3>1. UNCHANGED buffer
      BY <1>1, <2>1, CopyRequestEffect
    <3>2. \/ Outstanding(c)' = Outstanding(c)
          \/ \E x : x \notin Outstanding(c) /\ Outstanding(c)' = Outstanding(c) \cup {x}
      BY <1>1, <2>1, OutstandingCopy
    <3> QED
      BY <1>1, <3>1, <3>2, SizeOfMore DEF Under, Here, OutstandingFinite
  <2>2. ASSUME NEW d \in Client, CopyReply(d)
        PROVE  Under(c)' = Under(c) /\ Here(c)' \in {Here(c), Here(c) + 1}
    <3>1. /\ UNCHANGED <<inbox, socket>>
          /\ buffer'[c] = buffer[c] \/ \E r : buffer'[c] = buffer[c] \cup {r}
      BY <1>1, <2>2, CopyReplyEffect
    <3>2. Outstanding(c)' = Outstanding(c)
      BY <3>1, OutstandingSame
    <3>3. Here(c)' \in {Here(c), Here(c) + 1}
      BY <1>1, <3>1, SizeOfMost DEF Here, RepliesTrue
    <3> QED
      BY <3>2, <3>3 DEF Under
  <2> QED
    BY <2>1, <2>2 DEF ACopy
<1> QED
  BY <1>2, <1>4, <1>5 DEF NotFarther

(* Whatever happens, a running operation has no more to do than before,    *)
(* and less after a step of its own.                                       *)
LEMMA EveryStepNears ==
  ASSUME AccountsInv, LeftNat', ANext, NEW c \in Client, pc[c] # "idle", pc'[c] # "idle"
  PROVE  NotFarther(c) /\ (AClient(c) => Nearer(c))
<1>1. TypeOK /\ Phases /\ RepliesTrue /\ OutstandingFinite
  BY DEF AccountsInv, StoreInv, DatagramsInv
<1>2. StepsLeft(c)' \in Nat
  BY DEF LeftNat
<1>3. StepsLeft(c) \in Nat
  BY <1>1, StepsLeftNat
<1>4. CASE AClient(c)
  <2>1. Nearer(c)
    BY <1>4, SendNearer, ReceiveNearer DEF AClient
  <2> QED
    BY <1>2, <1>3, <2>1 DEF Nearer, NotFarther
<1>5. CASE ~AClient(c)
  <2>1. ASSUME NEW d \in Client, AStart(d) PROVE StepsLeft(c)' = StepsLeft(c)
    <3>1. /\ pc[d] = "idle" /\ UNCHANGED <<inbox, copies>>
          /\ \A b \in Client : b # d => /\ op'[b] = op[b] /\ socket'[b] = socket[b]
                                        /\ next'[b] = next[b] /\ buffer'[b] = buffer[b]
                                        /\ acks'[b] = acks[b]
      BY <1>1, <2>1, StartEffect DEF AStart
    <3>2. d # c
      BY <3>1
    <3> QED
      BY <3>1, <3>2, OutstandingSame DEF StepsLeft
  <2>2. ASSUME NEW d \in Client, AClient(d) PROVE StepsLeft(c)' = StepsLeft(c)
    <3>1. d # c
      BY <1>5, <2>2
    <3> QED
      BY <2>2, <3>1, SendNearer, ReceiveNearer DEF AClient
  <2>4. ASSUME NEW d \in Client, ARefused(d) PROVE StepsLeft(c)' = StepsLeft(c)
    <3>1. /\ pc[d] = "idle" /\ UNCHANGED <<inbox, copies, next, buffer, acks>>
          /\ \A b \in Client : b # d => op'[b] = op[b] /\ socket'[b] = socket[b]
      BY <1>1, <2>4, RefusedEffect DEF ARefused
    <3>2. d # c
      BY <3>1
    <3> QED
      BY <3>1, <3>2, OutstandingSame DEF StepsLeft
  <2>3. StepsLeft(c)' = StepsLeft(c) => NotFarther(c)
    BY <1>3 DEF NotFarther
  <2> QED
    BY <1>5, <2>1, <2>2, <2>3, <2>4, HandleNotFarther, DumpNotFarther, CrashNotFarther,
       CopyNotFarther DEF ANext
<1> QED
  BY <1>4, <1>5

(* A put has at most N + W - 1 steps of its own before the one it returns  *)
(* with, however many datagrams come back, and a get 2 N + MaxCopies: each *)
(* send and each recv brings an operation nearer to its end, and nobody    *)
(* sends it back (network.c:34-86, 106-135).                               *)
THEOREM OperationsNearTheEnd == ASpec => EachStepNearsTheEnd
<1> DEFINE Nears(c) == pc[c] # "idle" =>
             \/ pc'[c] = "idle"
             \/ /\ StepsLeft(c)' \in 0 .. StepsLeft(c)
                /\ AClient(c) => StepsLeft(c)' # StepsLeft(c)
<1>1. ASSUME AccountsInv, LeftNat', ANext, NEW c \in Client
      PROVE  Nears(c)
  <2> SUFFICES ASSUME pc[c] # "idle", pc'[c] # "idle"
               PROVE  /\ StepsLeft(c)' \in 0 .. StepsLeft(c)
                      /\ AClient(c) => StepsLeft(c)' # StepsLeft(c)
    OBVIOUS
  <2>1. NotFarther(c) /\ (AClient(c) => Nearer(c))
    BY <1>1, EveryStepNears
  <2>2. StepsLeft(c) \in Nat
    BY <1>1, StepsLeftNat DEF AccountsInv, StoreInv, DatagramsInv
  <2>3. StepsLeft(c)' \in Nat
    BY <1>1 DEF LeftNat
  <2> QED
    BY <2>1, <2>2, <2>3 DEF Nearer, NotFarther
<1>2. AccountsInv /\ LeftNat' /\ [ANext]_avars => [\A c \in Client : Nears(c)]_avars
  BY <1>1
<1>3. ASpec => [][\A c \in Client : Nears(c)]_avars
  BY AccountsInvariant, LeftIsNat, <1>2, PTL DEF ASpec
<1> QED
  BY <1>3 DEF EachStepNearsTheEnd

=============================================================================
