------------------------- MODULE QuorumStoreProofs -------------------------
(***************************************************************************)
(* Types of the distributed table, and where a datagram of a running       *)
(* operation can be: for all servers, clients, keys, values, options and   *)
(* networks.                                                               *)
(***************************************************************************)
EXTENDS QuorumStore, FiniteSetTheorems, SequenceTheorems, TLAPS

(* The locals of an operation agree with how far it has come. *)
Phases ==
  \A c \in Client :
    /\ op[c].call = "put" => op[c].val \in Value
    /\ pc[c] = "idle" => buffer[c] = {}
    /\ pc[c] = "sending" => next[c] <= op[c].N
    /\ pc[c] = "receiving" => next[c] = op[c].N + 1
    /\ pc[c] # "idle" => result[c] = NoResult
    /\ (pc[c] # "idle" /\ op[c].call = "put") =>
         votes[c] = NoVotes /\ missing[c] = 0 /\ acks[c] < op[c].W
    /\ (pc[c] # "idle" /\ op[c].call = "get") => acks[c] = 0

(* A request says what its operation asks for, as long as that is the      *)
(* client's last.                                                          *)
RequestTrue(s, i) ==
  LET m == inbox[s][i]
      d == Datagram(op[m.client])
  IN  /\ m.socket <= socket[m.client]
      /\ m.copy <= copies
      /\ m.type = "write" => m.val \in Value
      /\ m.socket = socket[m.client] => m.type = d.type /\ m.key = d.key /\ m.val = d.val
RequestsTrue == \A s \in Server : \A i \in DOMAIN inbox[s] : RequestTrue(s, i)

(* A reply that waits answers the operation that runs. *)
RepliesTrue ==
  \A c \in Client :
    /\ IsFiniteSet(buffer[c])
    /\ \A m \in buffer[c] :
         /\ m.copy <= copies
         /\ m.type = "value" => m.val \in Value
         /\ Datagram(op[c]).type = "read" => m.type \in {"missing", "value"}

(* No two datagrams have the number of one copy. *)
CopiesDiffer ==
  /\ \A s, t \in Server : \A i \in DOMAIN inbox[s], j \in DOMAIN inbox[t] :
       (inbox[s][i].copy = inbox[t][j].copy /\ inbox[s][i].copy # 0) => s = t /\ i = j
  /\ \A s \in Server, c \in Client : \A i \in DOMAIN inbox[s], m \in buffer[c] :
       inbox[s][i].copy = m.copy => m.copy = 0

Asked(c, s) ==
  \E i \in DOMAIN inbox[s] :
    inbox[s][i].copy = 0 /\ inbox[s][i].client = c /\ inbox[s][i].socket = socket[c]
ToAsk(c, s) ==
  pc[c] = "sending" /\ \E k \in next[c] .. Len(Nodes(c)) : Nodes(c)[k] = s
Answered(c, s) == \E m \in buffer[c] : m.copy = 0 /\ m.from = s

(* An operation asks a server once: copies apart, its request there is     *)
(* still to be sent, or under way, or answered.                            *)
AskedOnce ==
  /\ \A s \in Server : \A i, j \in DOMAIN inbox[s] :
       (/\ inbox[s][i].copy = 0 /\ inbox[s][j].copy = 0
        /\ inbox[s][i].client = inbox[s][j].client
        /\ inbox[s][i].socket = inbox[s][j].socket) => i = j
  /\ \A c \in Client, s \in Server :
       ~(Asked(c, s) /\ ToAsk(c, s)) /\ ~(Asked(c, s) /\ Answered(c, s))
         /\ ~(ToAsk(c, s) /\ Answered(c, s))

(* A dump in progress answers a request that is handled; the datagrams of  *)
(* it that wait are some of those that are sent.                           *)
DumpTrue(s, p) ==
  /\ p.socket <= socket[p.client] /\ p.copy <= copies
  /\ \A t \in Server : \A i \in DOMAIN inbox[t] : inbox[t][i].copy = p.copy => p.copy = 0
  /\ p.socket = socket[p.client] =>
       /\ Datagram(op[p.client]).type = "dump"
       /\ p.copy = 0 => ~Asked(p.client, s) /\ ~ToAsk(p.client, s)
       /\ \A m \in buffer[p.client] : m.from = s /\ m.copy = p.copy => m.packet <= p.sent
DumpsTrue == \A s \in Server : \A p \in dumping[s] : DumpTrue(s, p)

-----------------------------------------------------------------------------
(* What is said of the datagrams stays true while they, the operations and *)
(* the number of copies stay.                                              *)
LEMMA RequestMoves ==
  ASSUME RequestsTrue, UNCHANGED <<op, socket>>, NEW s \in Server, NEW i \in DOMAIN inbox[s],
         NEW t, NEW j, inbox'[t][j] = inbox[s][i], inbox[s][i].copy <= copies'
  PROVE  RequestTrue(t, j)'
<1>1. Datagram(op[inbox[t][j].client])' = Datagram(op[inbox[s][i].client])
  BY DEF Datagram, PutDatagram, GetDatagram
<1>2. RequestTrue(s, i)
  BY DEF RequestsTrue
<1> QED
  BY <1>1, <1>2 DEF RequestTrue

LEMMA RequestsTrueSame ==
  ASSUME RequestsTrue, UNCHANGED <<inbox, op, socket, copies>>
  PROVE  RequestsTrue'
<1>1. \A s \in Server : \A i \in DOMAIN inbox[s] : inbox[s][i].copy <= copies'
  BY DEF RequestsTrue, RequestTrue
<1> SUFFICES ASSUME NEW s \in Server, NEW i \in DOMAIN inbox[s]
             PROVE  RequestTrue(s, i)'
  BY DEF RequestsTrue
<1> QED
  BY <1>1, RequestMoves

LEMMA RepliesTrueSame ==
  ASSUME RepliesTrue, UNCHANGED <<buffer, op, copies>>
  PROVE  RepliesTrue'
<1>1. \A c \in Client : Datagram(op[c])' = Datagram(op[c])
  BY DEF Datagram, PutDatagram, GetDatagram
<1> QED
  BY <1>1 DEF RepliesTrue

-----------------------------------------------------------------------------
(* A queue without its i-th element: the later ones move up. *)
LEMMA WithoutFacts ==
  ASSUME NEW S, NEW q \in Seq(S), NEW i \in DOMAIN q
  PROVE  /\ Without(q, i) \in Seq(S)
         /\ DOMAIN q = 1 .. Len(q) /\ Len(q) \in Nat
         /\ DOMAIN Without(q, i) = 1 .. Len(q) - 1
         /\ \A j \in 1 .. Len(q) - 1 :
              Without(q, i)[j] = IF j < i THEN q[j] ELSE q[j + 1]
<1> DEFINE a == SubSeq(q, 1, i - 1)
           b == SubSeq(q, i + 1, Len(q))
<1>1. Len(q) \in Nat /\ i \in 1 .. Len(q) /\ DOMAIN q = 1 .. Len(q)
  OBVIOUS
<1>2. a \in Seq(S) /\ Len(a) = i - 1 /\ \A j \in 1 .. i - 1 : a[j] = q[j]
  BY <1>1
<1>3. b \in Seq(S) /\ Len(b) = Len(q) - i /\ \A j \in 1 .. Len(q) - i : b[j] = q[i + j]
  BY <1>1
<1> HIDE DEF a, b
<1>4. /\ a \o b \in Seq(S)
      /\ Len(a \o b) = Len(q) - 1
      /\ \A j \in 1 .. Len(q) - 1 :
           (a \o b)[j] = IF j <= i - 1 THEN a[j] ELSE b[j - (i - 1)]
  <2>1. /\ a \o b \in Seq(S)
        /\ Len(a \o b) = Len(a) + Len(b)
        /\ \A j \in 1 .. Len(a) + Len(b) :
             (a \o b)[j] = IF j <= Len(a) THEN a[j] ELSE b[j - Len(a)]
    BY <1>2, <1>3, ConcatProperties, Zenon
  <2>2. Len(a) + Len(b) = Len(q) - 1
    BY <1>1, <1>2, <1>3
  <2> QED
    BY <2>1, <2>2, <1>2, Zenon
<1>5. DOMAIN (a \o b) = 1 .. Len(q) - 1
  BY <1>4
<1>6. \A j \in 1 .. Len(q) - 1 : (a \o b)[j] = IF j < i THEN q[j] ELSE q[j + 1]
  <2> SUFFICES ASSUME NEW j \in 1 .. Len(q) - 1
               PROVE  (a \o b)[j] = IF j < i THEN q[j] ELSE q[j + 1]
    OBVIOUS
  <2>1. CASE j < i
    <3>1. j <= i - 1 /\ j \in 1 .. i - 1
      BY <2>1, <1>1
    <3>2. (a \o b)[j] = a[j]
      BY <3>1, <1>4, Zenon
    <3>3. a[j] = q[j]
      BY <3>1, <1>2, Zenon
    <3> QED
      BY <2>1, <3>2, <3>3, Zenon
  <2>2. CASE j >= i
    <3>1. ~(j <= i - 1) /\ j - (i - 1) \in 1 .. Len(q) - i
      BY <2>2, <1>1
    <3>4. (a \o b)[j] = b[j - (i - 1)]
      BY <3>1, <1>4, Zenon
    <3>2. b[j - (i - 1)] = q[i + (j - (i - 1))]
      BY <3>1, <1>3
    <3>3. i + (j - (i - 1)) = j + 1
      BY <1>1
    <3>5. ~(j < i)
      BY <2>2, <1>1
    <3> QED
      BY <3>2, <3>3, <3>4, <3>5, Zenon
  <2>3. j < i \/ j >= i
    BY <1>1
  <2> QED
    BY <2>1, <2>2, <2>3
<1> QED
  BY <1>1, <1>4, <1>5, <1>6 DEF Without, a, b

LEMMA AppendFacts ==
  ASSUME NEW S, NEW q \in Seq(S), NEW e \in S
  PROVE  /\ Append(q, e) \in Seq(S)
         /\ DOMAIN Append(q, e) = 1 .. Len(q) + 1
         /\ DOMAIN q = 1 .. Len(q) /\ Len(q) \in Nat
         /\ \A j \in 1 .. Len(q) : Append(q, e)[j] = q[j]
         /\ Append(q, e)[Len(q) + 1] = e
  OBVIOUS

(* The servers an operation asks are distinct, and at most N. *)
LEMMA NodesFacts ==
  ASSUME TypeOK, NEW c \in Client, pc[c] # "idle"
  PROVE  /\ op[c] \in Op
         /\ Len(Nodes(c)) \in Nat /\ Len(Nodes(c)) <= op[c].N
         /\ \A i \in 1 .. Len(Nodes(c)) : Nodes(c)[i] \in Server
         /\ \A i, j \in 1 .. Len(Nodes(c)) : Nodes(c)[i] = Nodes(c)[j] => i = j
<1>1. op[c] \in Op
  BY DEF TypeOK
<1> DEFINE w == walk[c][op[c].key]
           n == Cardinality(Server)
           l == IF op[c].N <= Len(w) THEN op[c].N ELSE Len(w)
<1>2. op[c].key \in Key /\ op[c].N \in Nat
  BY <1>1 DEF Op
<1>3. n \in Nat
  BY StoreAssumption, FS_CardinalityType
<1>4. walk[c] \in Walks
  BY DEF TypeOK
<1>5. w \in [1 .. n -> Server] /\ \A i, j \in DOMAIN w : w[i] = w[j] => i = j
  BY <1>2, <1>4, StoreAssumption
<1> HIDE DEF w
<1>6. w \in Seq(Server) /\ Len(w) = n /\ DOMAIN w = 1 .. n
  BY <1>3, <1>5
<1>7. l \in Nat /\ l <= n /\ l <= op[c].N
  BY <1>2, <1>3, <1>6
<1> HIDE DEF l, n
<1>8. /\ SubSeq(w, 1, l) \in Seq(Server)
      /\ Len(SubSeq(w, 1, l)) = l
      /\ \A i \in 1 .. l : SubSeq(w, 1, l)[i] = w[i]
  BY <1>3, <1>6, <1>7
<1>9. Nodes(c) = SubSeq(w, 1, l)
  BY DEF Nodes, w, l
<1>10. \A i \in 1 .. l : i \in DOMAIN w /\ w[i] \in Server
  BY <1>3, <1>5, <1>6, <1>7
<1> QED
  BY <1>1, <1>5, <1>7, <1>8, <1>9, <1>10

-----------------------------------------------------------------------------
(* Types. *)

LEMMA InitTypes == Init => TypeOK
<1> SUFFICES ASSUME Init PROVE TypeOK
  OBVIOUS
<1>1. 0 \in 0 .. MaxCrash /\ 0 \in 0 .. MaxCopies /\ 0 \in -CharMax - 1 .. CharMax
  BY StoreAssumption
<1>2. NoVotes \in [Value \cup {Empty} -> -CharMax - 1 .. CharMax]
  BY <1>1 DEF NoVotes
<1>3. inbox \in [Server -> Seq(Request)]
  BY DEF Init
<1> QED
  BY <1>1, <1>2, <1>3 DEF Init, TypeOK, NoResult

(* What an operation is, and its types. *)
LEMMA OpenFacts ==
  ASSUME TypeOK, NEW c \in Client, NEW call, NEW k, NEW v, NEW a \in Args,
         Open(c, call, k, v, a)
  PROVE  /\ UNCHANGED <<walk, store, inbox, dumping, crashes, copies>>
         /\ op' = [op EXCEPT ![c] = op'[c]] /\ op'[c] \in Op
         /\ op' \in [Client -> Op \cup {NoOp}] /\ op'[c] # NoOp
         /\ pc[c] = "idle"
         /\ socket' \in [Client -> Nat] /\ socket[c] \in Nat /\ socket'[c] = socket[c] + 1
         /\ \A d \in Client : d # c => op'[d] = op[d] /\ socket'[d] = socket[d]
         /\ op'[c].N \in Nat \ {0} /\ op'[c].W \in Nat \ {0} /\ op'[c].R \in Nat \ {0}
         /\ op'[c].call = "put" => op'[c].val \in Value
<1>1. socket[c] + 1 \in 1 .. Len(Calls[c])
  <2>1. socket[c] \in Nat /\ socket[c] < Len(Calls[c])
    BY DEF Open, TypeOK
  <2>2. Len(Calls[c]) \in Nat
    BY StoreAssumption
  <2> QED
    BY <2>1, <2>2
<1>2. Calls[c][socket[c] + 1] \in SUBSET ([call : {"put"}, key : Key, val : Value]
                                           \cup [call : {"get"}, key : Key, val : {NULL}])
  BY <1>1, StoreAssumption
<1>3. [call |-> call, key |-> k, val |-> v] \in [call : {"put"}, key : Key, val : Value]
                                           \cup [call : {"get"}, key : Key, val : {NULL}]
  BY <1>2 DEF Open
<1>4. /\ k \in Key
      /\ \/ call = "put" /\ v \in Value
         \/ call = "get" /\ v = NULL
  BY <1>3
<1>5. a.N \in Nat \ {0} /\ a.R \in Nat \ {0} /\ a.W \in Nat \ {0}
  BY StoreAssumption
<1>6. op'[c] = [call |-> call, key |-> k, val |-> v, N |-> a.N, R |-> a.R, W |-> a.W]
  BY DEF Open, TypeOK
<1>7. op' = [op EXCEPT ![c] = op'[c]]
  BY <1>6 DEF Open
<1>8. op'[c] \in Op
  BY <1>4, <1>5, <1>6 DEF Op
<1>9. /\ op'[c].N \in Nat \ {0} /\ op'[c].W \in Nat \ {0} /\ op'[c].R \in Nat \ {0}
      /\ op'[c].call = "put" => op'[c].val \in Value
  BY <1>4, <1>5, <1>6
<1>10. op' \in [Client -> Op \cup {NoOp}] /\ op'[c] # NoOp
  <2>1. op'[c].call \in {"put", "get"} /\ NoOp.call = "none"
    BY <1>8 DEF Op, NoOp
  <2>2. op' \in [Client -> Op \cup {NoOp}]
    BY <1>7, <1>8 DEF TypeOK
  <2> QED
    BY <2>1, <2>2
<1>11. UNCHANGED <<walk, store, inbox, dumping, crashes, copies>>
  BY DEF Open, serverVars
<1>12. /\ pc[c] = "idle"
       /\ socket' \in [Client -> Nat] /\ socket[c] \in Nat /\ socket'[c] = socket[c] + 1
       /\ \A d \in Client : d # c => op'[d] = op[d] /\ socket'[d] = socket[d]
  BY <1>7 DEF Open, TypeOK
<1> QED
  BY <1>7, <1>8, <1>9, <1>10, <1>11, <1>12

LEMMA StartTypes ==
  ASSUME TypeOK, NEW c \in Client, NEW call, NEW k, NEW v, NEW a \in Args,
         Start(c, call, k, v, a)
  PROVE  TypeOK'
<1>1. /\ UNCHANGED <<walk, store, inbox, dumping, crashes, copies>>
      /\ op' \in [Client -> Op \cup {NoOp}] /\ op'[c] # NoOp
      /\ socket' \in [Client -> Nat]
      /\ \A d \in Client : d # c => op'[d] = op[d]
  BY OpenFacts DEF Start
<1>2. NoVotes \in [Value \cup {Empty} -> -CharMax - 1 .. CharMax]
  BY StoreAssumption DEF NoVotes
<1>5. /\ pc' \in [Client -> {"idle", "sending", "receiving"}]
      /\ next' \in [Client -> Nat \ {0}]
      /\ buffer' \in [Client -> SUBSET Reply]
      /\ acks' \in [Client -> Nat]
      /\ missing' \in [Client -> Nat]
  BY DEF TypeOK, Start
<1>6. votes' \in [Client -> [Value \cup {Empty} -> -CharMax - 1 .. CharMax]]
  BY <1>2 DEF TypeOK, Start
<1>7. result' \in [Client -> [err : {"none", "ERR_NONE", "ERR_NETWORK",
                                     "ERR_NOT_FOUND", "ERR_BAD_PARAMETER"},
                              val : Value \cup {Empty, NULL}]]
  BY DEF TypeOK, Start, NoResult
<1>8. \A d \in Client : pc'[d] # "idle" => op'[d] # NoOp
  BY <1>1 DEF TypeOK, Start
<1> QED
  BY <1>1, <1>5, <1>6, <1>7, <1>8 DEF TypeOK

LEMMA RefusedTypes ==
  ASSUME TypeOK, NEW c \in Client, Refused(c)
  PROVE  TypeOK'
<1>1. PICK call, k, v : \E a \in Args : Open(c, call, k, v, a)
  BY DEF Refused
<1>2. /\ UNCHANGED <<walk, store, inbox, dumping, crashes, copies>>
      /\ op' \in [Client -> Op \cup {NoOp}] /\ op'[c] # NoOp
      /\ socket' \in [Client -> Nat]
      /\ \A d \in Client : d # c => op'[d] = op[d]
  BY <1>1, OpenFacts
<1>3. result' \in [Client -> [err : {"none", "ERR_NONE", "ERR_NETWORK",
                                     "ERR_NOT_FOUND", "ERR_BAD_PARAMETER"},
                              val : Value \cup {Empty, NULL}]]
  BY DEF TypeOK, Refused
<1>4. UNCHANGED <<pc, next, buffer, acks, votes, missing>>
  BY DEF Refused, tallyVars
<1> QED
  BY <1>2, <1>3, <1>4 DEF TypeOK

(* The request of a running operation. *)
LEMMA SentFacts ==
  ASSUME TypeOK, NEW c \in Client, pc[c] # "idle"
  PROVE  /\ Sent(Datagram(op[c]), c) \in Request
         /\ Sent(Datagram(op[c]), c).client = c
         /\ Sent(Datagram(op[c]), c).socket = socket[c]
         /\ Sent(Datagram(op[c]), c).copy = 0
<1>1. op[c] \in Op /\ socket[c] \in Nat
  BY DEF TypeOK
<1>2. /\ Datagram(op[c]).type \in {"dump", "write", "ping", "read"}
      /\ Datagram(op[c]).key \in Key
      /\ Datagram(op[c]).val \in Value \cup {NULL}
  BY <1>1 DEF Op, Datagram, PutDatagram, GetDatagram
<1> QED
  BY <1>1, <1>2 DEF Sent, Request

LEMMA SendTypes ==
  ASSUME TypeOK, NEW c \in Client, Send(c)
  PROVE  TypeOK'
<1>1. pc[c] = "sending"
  BY DEF Send
<1>2. inbox' \in [Server -> Seq(Request)]
  <2>1. CASE /\ next[c] <= Len(Nodes(c))
             /\ inbox' = [inbox EXCEPT ![Nodes(c)[next[c]]] =
                            Append(@, Sent(Datagram(op[c]), c))]
    <3>1. next[c] \in 1 .. Len(Nodes(c))
      BY <2>1, <1>1, NodesFacts DEF TypeOK
    <3>2. Nodes(c)[next[c]] \in Server
      BY <3>1, <1>1, NodesFacts
    <3> DEFINE e == Sent(Datagram(op[c]), c)
               s == Nodes(c)[next[c]]
    <3>3. e \in Request
      BY <1>1, SentFacts
    <3>4. inbox' = [inbox EXCEPT ![s] = Append(@, e)] /\ s \in Server
      BY <2>1, <3>2
    <3> HIDE DEF e, s
    <3> QED
      BY <3>3, <3>4 DEF TypeOK
  <2>2. CASE UNCHANGED inbox
    BY <2>2 DEF TypeOK
  <2> QED
    BY <2>1, <2>2 DEF Send
<1>3. next' \in [Client -> Nat \ {0}]
  BY DEF TypeOK, Send
<1>4. pc' \in [Client -> {"idle", "sending", "receiving"}]
  BY DEF TypeOK, Send
<1>5. \A d \in Client : pc'[d] # "idle" => pc[d] # "idle"
  BY <1>1 DEF TypeOK, Send
<1> QED
  BY <1>2, <1>3, <1>4, <1>5 DEF TypeOK, Send, tallyVars

LEMMA ReturnTypes ==
  ASSUME TypeOK, NEW c \in Client, NEW err \in {"ERR_NONE", "ERR_NETWORK", "ERR_NOT_FOUND"},
         NEW v \in Value \cup {Empty, NULL}, Return(c, err, v)
  PROVE  TypeOK'
<1>1. NoVotes \in [Value \cup {Empty} -> -CharMax - 1 .. CharMax]
  BY StoreAssumption DEF NoVotes
<1>2. [err |-> err, val |-> v] \in [err : {"none", "ERR_NONE", "ERR_NETWORK",
                                           "ERR_NOT_FOUND", "ERR_BAD_PARAMETER"},
                                    val : Value \cup {Empty, NULL}]
  OBVIOUS
<1>3. /\ pc' \in [Client -> {"idle", "sending", "receiving"}]
      /\ next' \in [Client -> Nat \ {0}]
      /\ buffer' \in [Client -> SUBSET Reply]
      /\ acks' \in [Client -> Nat]
      /\ missing' \in [Client -> Nat]
  BY DEF TypeOK, Return
<1>4. votes' \in [Client -> [Value \cup {Empty} -> -CharMax - 1 .. CharMax]]
  BY <1>1 DEF TypeOK, Return
<1>5. result' \in [Client -> [err : {"none", "ERR_NONE", "ERR_NETWORK",
                                     "ERR_NOT_FOUND", "ERR_BAD_PARAMETER"},
                              val : Value \cup {Empty, NULL}]]
  BY <1>2 DEF TypeOK, Return
<1>6. \A d \in Client : pc'[d] # "idle" => pc[d] # "idle"
  BY DEF TypeOK, Return
<1> QED
  BY <1>3, <1>4, <1>5, <1>6 DEF TypeOK, Return, serverVars

LEMMA RecvPutTypes ==
  ASSUME TypeOK, NEW c \in Client, RecvPut(c)
  PROVE  TypeOK'
<1>1. PICK m \in buffer[c] :
       \/ /\ acks[c] + 1 >= op[c].W
          /\ Return(c, "ERR_NONE", NULL)
       \/ /\ acks[c] + 1 < op[c].W
          /\ buffer' = [buffer EXCEPT ![c] = @ \ {m}]
          /\ acks' = [acks EXCEPT ![c] = @ + 1]
          /\ UNCHANGED <<votes, missing>>
          /\ GoOn
  BY DEF RecvPut
<1>2. CASE Return(c, "ERR_NONE", NULL)
  BY <1>2, ReturnTypes
<1>3. CASE ~Return(c, "ERR_NONE", NULL)
  <2>1. /\ buffer' = [buffer EXCEPT ![c] = @ \ {m}]
        /\ acks' = [acks EXCEPT ![c] = @ + 1]
        /\ UNCHANGED <<votes, missing>>
        /\ GoOn
    BY <1>1, <1>3
  <2>2. buffer' \in [Client -> SUBSET Reply] /\ acks' \in [Client -> Nat]
    BY <2>1 DEF TypeOK
  <2> QED
    BY <2>1, <2>2 DEF TypeOK, GoOn, serverVars
<1> QED
  BY <1>2, <1>3

LEMMA IncrementType ==
  ASSUME NEW n \in -CharMax - 1 .. CharMax
  PROVE  Increment(n) \in -CharMax - 1 .. CharMax
  BY StoreAssumption DEF Increment

LEMMA RecvGetTypes ==
  ASSUME TypeOK, NEW c \in Client, RecvGet(c)
  PROVE  TypeOK'
<1>1. PICK m \in buffer[c] :
       \/ /\ m.type = "missing"
          /\ buffer' = [buffer EXCEPT ![c] = @ \ {m}]
          /\ missing' = [missing EXCEPT ![c] = @ + 1]
          /\ UNCHANGED <<acks, votes>>
          /\ GoOn
       \/ /\ m.type # "missing"
          /\ Increment(votes[c][Vote(m)]) >= op[c].R
          /\ Return(c, "ERR_NONE", Vote(m))
       \/ /\ m.type # "missing"
          /\ Increment(votes[c][Vote(m)]) < op[c].R
          /\ buffer' = [buffer EXCEPT ![c] = @ \ {m}]
          /\ votes' = [votes EXCEPT ![c][Vote(m)] = Increment(@)]
          /\ UNCHANGED <<acks, missing>>
          /\ GoOn
  BY DEF RecvGet
<1>2. m \in Reply
  BY DEF TypeOK
<1>3. Vote(m) \in Value \cup {Empty, NULL}
  BY <1>2 DEF Reply, Vote
<1>4. CASE m.type = "missing"
  <2>1. /\ buffer' = [buffer EXCEPT ![c] = @ \ {m}]
        /\ missing' = [missing EXCEPT ![c] = @ + 1]
        /\ UNCHANGED <<acks, votes>>
        /\ GoOn
    BY <1>1, <1>4
  <2>2. buffer' \in [Client -> SUBSET Reply] /\ missing' \in [Client -> Nat]
    BY <2>1 DEF TypeOK
  <2> QED
    BY <2>1, <2>2 DEF TypeOK, GoOn, serverVars
<1>5. CASE m.type # "missing" /\ Return(c, "ERR_NONE", Vote(m))
  BY <1>3, <1>5, ReturnTypes
<1>6. CASE m.type # "missing" /\ ~Return(c, "ERR_NONE", Vote(m))
  <2>1. /\ buffer' = [buffer EXCEPT ![c] = @ \ {m}]
        /\ votes' = [votes EXCEPT ![c][Vote(m)] = Increment(@)]
        /\ UNCHANGED <<acks, missing>>
        /\ GoOn
    BY <1>1, <1>6
  <2>2. votes' \in [Client -> [Value \cup {Empty} -> -CharMax - 1 .. CharMax]]
    <3> DEFINE u == Vote(m)
               W == Value \cup {Empty}
               B == -CharMax - 1 .. CharMax
    <3>1. votes \in [Client -> [W -> B]]
      BY DEF TypeOK
    <3>2. u \in W => Increment(votes[c][u]) \in B
      BY <3>1, IncrementType
    <3>3. votes' = [votes EXCEPT ![c][u] = Increment(@)]
      BY <2>1
    <3> HIDE DEF u, W, B
    <3>4. votes' \in [Client -> [W -> B]]
      BY <3>1, <3>2, <3>3
    <3> QED
      BY <3>4 DEF W, B
  <2>3. buffer' \in [Client -> SUBSET Reply]
    BY <2>1 DEF TypeOK
  <2> QED
    BY <2>1, <2>2, <2>3 DEF TypeOK, GoOn, serverVars
<1> QED
  BY <1>4, <1>5, <1>6

LEMMA TimeoutTypes ==
  ASSUME TypeOK, NEW c \in Client, Timeout(c)
  PROVE  TypeOK'
<1> DEFINE err == IF op[c].call = "get" /\ missing[c] # 0
                  THEN "ERR_NOT_FOUND" ELSE "ERR_NETWORK"
<1>1. Return(c, err, NULL) /\ err \in {"ERR_NONE", "ERR_NETWORK", "ERR_NOT_FOUND"}
  BY DEF Timeout
<1> QED
  BY <1>1, ReturnTypes

(* The answer to a request. *)
LEMMA AnswerFacts ==
  ASSUME TypeOK, NEW s \in Server, NEW d \in Request
  PROVE  /\ Replied(Answer(store[s], d), s, d.copy) \in Reply
         /\ Answer(store[s], d).type = "value" =>
              d.type = "read" /\ Answer(store[s], d).val \in Value
                              /\ Answer(store[s], d).val = store[s][d.key]
         /\ d.type = "read" => Answer(store[s], d).type \in {"missing", "value"}
         /\ d.type # "read" => Answer(store[s], d).type \in {"nothing", "dump"}
<1>1. store[s][d.key] \in Value \cup {NULL} /\ d.copy \in Nat
  BY DEF TypeOK, Request
<1>2. CASE d.type = "read"
  BY <1>1, <1>2 DEF Answer, Replied, Reply
<1>3. CASE d.type # "read"
  <2>1. Answer(store[s], d) \in {[type |-> "dump", val |-> NULL], [type |-> "nothing", val |-> NULL]}
    BY <1>3 DEF Answer
  <2> QED
    BY <2>1, <1>1, <1>3 DEF Replied, Reply
<1> QED
  BY <1>2, <1>3

(* What a server does with the i-th of its datagrams. *)
HandleAt(s, i) ==
  LET d == inbox[s][i]
      a == Answer(store[s], d)
  IN  /\ inbox' = [inbox EXCEPT ![s] = Without(@, i)]
      /\ store' = IF d.type = "write"
                  THEN [store EXCEPT ![s][d.key] = d.val]
                  ELSE store
      /\ Deliver(Replied(a, s, d.copy), d.client, d.socket)
      /\ \/ UNCHANGED dumping
         \/ /\ a.type = "dump" /\ 1 < MaxPackets
            /\ dumping' = [dumping EXCEPT ![s] =
                 {[client |-> d.client, socket |-> d.socket, copy |-> d.copy, sent |-> 1]}]
      /\ UNCHANGED <<walk, crashes, copies, pc, op, socket, next, tallyVars, result>>

LEMMA HandleFacts ==
  ASSUME TypeOK, NEW s \in Server, Handle(s)
  PROVE  /\ dumping[s] = {}
         /\ \E i \in DOMAIN inbox[s] :
              /\ HandleAt(s, i)
              /\ inbox[s][i] \in Request
              /\ i \in 1 .. Len(inbox[s])
              /\ inbox[s] \in Seq(Request)
              /\ InOrder => i = 1
<1>1. PICK i \in Arriving(s) : HandleAt(s, i)
  BY DEF Handle, HandleAt
<1>2. i \in DOMAIN inbox[s] /\ (InOrder => i = 1)
  BY DEF Arriving
<1>3. inbox[s] \in Seq(Request)
  BY DEF TypeOK
<1>4. dumping[s] = {}
  BY DEF Handle
<1> QED
  BY <1>1, <1>2, <1>3, <1>4

(* A datagram is added to the replies that wait for its client, or is gone. *)
LEMMA DeliverTypes ==
  ASSUME TypeOK, NEW r \in Reply, NEW c \in Client, NEW n, Deliver(r, c, n)
  PROVE  /\ buffer' \in [Client -> SUBSET Reply]
         /\ \A d \in Client : d # c => buffer'[d] = buffer[d]
         /\ \/ buffer' = buffer
            \/ /\ n = socket[c] /\ pc[c] # "idle"
               /\ buffer'[c] = buffer[c] \cup {r}
<1>1. buffer \in [Client -> SUBSET Reply]
  BY DEF TypeOK
<1>2. CASE buffer' = buffer
  BY <1>1, <1>2
<1>3. CASE buffer' # buffer
  <2>1. /\ n = socket[c] /\ pc[c] # "idle"
        /\ buffer' = [buffer EXCEPT ![c] = @ \cup {r}]
    BY <1>3 DEF Deliver
  <2> QED
    BY <1>1, <2>1
<1> QED
  BY <1>2, <1>3

LEMMA HandleTypes ==
  ASSUME TypeOK, NEW s \in Server, Handle(s)
  PROVE  TypeOK'
<1>1. PICK i \in DOMAIN inbox[s] :
        HandleAt(s, i) /\ inbox[s][i] \in Request /\ inbox[s] \in Seq(Request)
  BY HandleFacts
<1> DEFINE d == inbox[s][i]
<1>2. inbox' \in [Server -> Seq(Request)]
  BY <1>1, WithoutFacts DEF HandleAt, TypeOK
<1>3. store' \in [Server -> [Key -> Value \cup {NULL}]]
  BY <1>1 DEF HandleAt, TypeOK, Request
<1>4. buffer' \in [Client -> SUBSET Reply]
  <2> DEFINE q == Replied(Answer(store[s], d), s, d.copy)
  <2>1. q \in Reply
    BY <1>1, AnswerFacts
  <2>2. Deliver(q, d.client, d.socket)
    BY <1>1 DEF HandleAt
  <2>3. d.client \in Client
    BY <1>1 DEF Request
  <2> HIDE DEF q, d
  <2> QED
    BY <2>1, <2>2, <2>3, DeliverTypes
<1>5. /\ dumping' \in [Server -> SUBSET Dump]
      /\ \A t \in Server : \A p, q \in dumping'[t] : p = q
  <2> DEFINE e == [client |-> d.client, socket |-> d.socket, copy |-> d.copy, sent |-> 1]
  <2>1. e \in Dump
    BY <1>1 DEF Request, Dump
  <2>2. dumping' = dumping \/ dumping' = [dumping EXCEPT ![s] = {e}]
    BY <1>1 DEF HandleAt
  <2> HIDE DEF e
  <2>3. /\ dumping \in [Server -> SUBSET Dump]
        /\ \A t \in Server : \A p, q \in dumping[t] : p = q
    BY DEF TypeOK
  <2> QED
    BY <2>1, <2>2, <2>3
<1> QED
  BY <1>1, <1>2, <1>3, <1>4, <1>5 DEF HandleAt, TypeOK, tallyVars

(* What a server does with the dump it is in. *)
DumpAt(s, p) ==
  /\ Deliver([type |-> "dump", val |-> NULL, from |-> s,
              copy |-> p.copy, packet |-> p.sent + 1], p.client, p.socket)
  /\ \/ dumping' = [dumping EXCEPT ![s] = {}]
     \/ /\ p.sent + 1 < MaxPackets
        /\ dumping' = [dumping EXCEPT ![s] = {[p EXCEPT !.sent = @ + 1]}]

LEMMA DumpPacketEffect ==
  ASSUME TypeOK, NEW s \in Server, DumpPacket(s)
  PROVE  /\ UNCHANGED <<walk, store, inbox, crashes, copies, pc, op, socket, next,
                        acks, votes, missing, result>>
         /\ \A t \in Server : t # s => dumping'[t] = dumping[t]
         /\ \E p \in dumping[s] : \E r \in Reply :
              /\ p \in Dump /\ dumping[s] = {p}
              /\ r.type = "dump" /\ r.from = s /\ r.copy = p.copy /\ r.packet = p.sent + 1
              /\ \A q \in dumping'[s] :
                   /\ q \in Dump /\ dumping'[s] = {q} /\ q.client = p.client
                   /\ q.socket = p.socket /\ q.copy = p.copy /\ q.sent = p.sent + 1
              /\ buffer' \in [Client -> SUBSET Reply]
              /\ \A d \in Client : d # p.client => buffer'[d] = buffer[d]
              /\ \/ buffer' = buffer
                 \/ /\ p.socket = socket[p.client] /\ pc[p.client] # "idle"
                    /\ buffer'[p.client] = buffer[p.client] \cup {r}
<1>1. UNCHANGED <<walk, store, inbox, crashes, copies, pc, op, socket, next, acks, votes,
                  missing, result>>
  BY DEF DumpPacket, tallyVars
<1>2. PICK p \in dumping[s] : DumpAt(s, p)
  BY DEF DumpPacket, DumpAt
<1>3. /\ dumping \in [Server -> SUBSET Dump]
      /\ p \in Dump /\ dumping[s] = {p}
      /\ p.client \in Client /\ p.copy \in Nat /\ p.sent \in Nat \ {0}
  BY DEF TypeOK, Dump
<1>4. PICK r : r = [type |-> "dump", val |-> NULL, from |-> s,
                    copy |-> p.copy, packet |-> p.sent + 1]
  OBVIOUS
<1>5. /\ r \in Reply
      /\ r.type = "dump" /\ r.from = s /\ r.copy = p.copy /\ r.packet = p.sent + 1
  BY <1>3, <1>4 DEF Reply
<1>6. Deliver(r, p.client, p.socket)
  BY <1>2, <1>4 DEF DumpAt
<1>7. PICK e : e = [p EXCEPT !.sent = @ + 1]
  OBVIOUS
<1>8. /\ e \in Dump /\ e.client = p.client
      /\ e.socket = p.socket /\ e.copy = p.copy /\ e.sent = p.sent + 1
  BY <1>3, <1>7 DEF Dump
<1>9. dumping' = [dumping EXCEPT ![s] = {}] \/ dumping' = [dumping EXCEPT ![s] = {e}]
  BY <1>2, <1>7 DEF DumpAt
<1>10. /\ \A t \in Server : t # s => dumping'[t] = dumping[t]
       /\ \A q \in dumping'[s] : q = e /\ dumping'[s] = {q}
  BY <1>3, <1>9
<1>11. /\ buffer' \in [Client -> SUBSET Reply]
       /\ \A d \in Client : d # p.client => buffer'[d] = buffer[d]
       /\ \/ buffer' = buffer
          \/ /\ p.socket = socket[p.client] /\ pc[p.client] # "idle"
             /\ buffer'[p.client] = buffer[p.client] \cup {r}
  BY <1>3, <1>5, <1>6, DeliverTypes
<1> QED
  BY <1>1, <1>3, <1>5, <1>8, <1>10, <1>11

LEMMA DumpPacketTypes ==
  ASSUME TypeOK, NEW s \in Server, DumpPacket(s)
  PROVE  TypeOK'
<1>1. /\ UNCHANGED <<walk, store, inbox, crashes, copies, pc, op, socket, next,
                     acks, votes, missing, result>>
      /\ \A t \in Server : t # s => dumping'[t] = dumping[t]
      /\ \A q \in dumping'[s] : q \in Dump /\ dumping'[s] = {q}
      /\ buffer' \in [Client -> SUBSET Reply]
  BY DumpPacketEffect
<1>2. DOMAIN dumping' = Server /\ dumping' = [t \in Server |-> dumping'[t]]
  BY DEF DumpPacket, TypeOK
<1>3. ASSUME NEW t \in Server
      PROVE  dumping'[t] \in SUBSET Dump /\ \A p, q \in dumping'[t] : p = q
  <2>1. dumping[t] \in SUBSET Dump /\ \A p, q \in dumping[t] : p = q
    BY DEF TypeOK
  <2>2. CASE t = s
    BY <1>1, <2>2
  <2>3. CASE t # s
    BY <1>1, <2>1, <2>3
  <2> QED
    BY <2>2, <2>3
<1>4. dumping' \in [Server -> SUBSET Dump]
  BY <1>2, <1>3
<1> QED
  BY <1>1, <1>3, <1>4 DEF TypeOK

LEMMA CopyRequestTypes ==
  ASSUME TypeOK, NEW s \in Server, CopyRequest(s)
  PROVE  TypeOK'
<1>1. PICK i \in DOMAIN inbox[s] :
        inbox' = [inbox EXCEPT ![s] = Append(@, [inbox[s][i] EXCEPT !.copy = copies + 1])]
  BY DEF CopyRequest
<1>2. copies \in Nat /\ copies' = copies + 1 /\ copies' \in 0 .. MaxCopies
  BY StoreAssumption DEF TypeOK, CopyRequest
<1>3. inbox[s][i] \in Request
  BY DEF TypeOK
<1>4. [inbox[s][i] EXCEPT !.copy = copies + 1] \in Request
  BY <1>2, <1>3 DEF Request
<1>5. inbox' \in [Server -> Seq(Request)]
  BY <1>1, <1>4 DEF TypeOK
<1> QED
  BY <1>2, <1>5 DEF CopyRequest, TypeOK, clientVars, tallyVars

LEMMA CopyReplyTypes ==
  ASSUME TypeOK, NEW c \in Client, CopyReply(c)
  PROVE  TypeOK'
<1>1. PICK m \in buffer[c] :
        buffer' = [buffer EXCEPT ![c] = @ \cup {[m EXCEPT !.copy = copies + 1]}]
  BY DEF CopyReply
<1>2. copies \in Nat /\ copies' = copies + 1 /\ copies' \in 0 .. MaxCopies
  BY StoreAssumption DEF TypeOK, CopyReply
<1>3. m \in Reply
  BY DEF TypeOK
<1>4. [m EXCEPT !.copy = copies + 1] \in Reply
  BY <1>2, <1>3 DEF Reply
<1>5. buffer' \in [Client -> SUBSET Reply]
  <2> DEFINE r == [m EXCEPT !.copy = copies + 1]
  <2>1. buffer' = [buffer EXCEPT ![c] = @ \cup {r}] /\ r \in Reply
    BY <1>1, <1>4
  <2>2. buffer \in [Client -> SUBSET Reply]
    BY DEF TypeOK
  <2> HIDE DEF r
  <2> QED
    BY <2>1, <2>2
<1> QED
  BY <1>2, <1>5 DEF CopyReply, TypeOK, tallyVars

LEMMA CrashTypes ==
  ASSUME TypeOK, NEW s \in Server, CrashRestart(s)
  PROVE  TypeOK'
<1>1. store' \in [Server -> [Key -> Value \cup {NULL}]]
  BY DEF CrashRestart, TypeOK
<1>2. inbox' \in [Server -> Seq(Request)]
  BY DEF CrashRestart, TypeOK
<1>3. crashes' \in 0 .. MaxCrash
  BY StoreAssumption DEF CrashRestart, TypeOK
<1>4. /\ dumping' \in [Server -> SUBSET Dump]
      /\ \A t \in Server : \A p, q \in dumping'[t] : p = q
  BY DEF CrashRestart, TypeOK
<1> QED
  BY <1>1, <1>2, <1>3, <1>4 DEF CrashRestart, TypeOK, clientVars, tallyVars

LEMMA StepTypes ==
  ASSUME TypeOK, [Next]_vars
  PROVE  TypeOK'
<1>1. ASSUME NEW c \in Client, PutStart(c) \/ GetStart(c) \/ Refused(c)
      PROVE  TypeOK'
  BY <1>1, StartTypes, RefusedTypes DEF PutStart, GetStart
<1>2. ASSUME NEW c \in Client, Step(c) \/ CopyReply(c)
      PROVE  TypeOK'
  BY <1>2, SendTypes, RecvPutTypes, RecvGetTypes, TimeoutTypes, CopyReplyTypes DEF Step
<1>3. ASSUME NEW s \in Server,
             Handle(s) \/ DumpPacket(s) \/ CopyRequest(s) \/ CrashRestart(s)
      PROVE  TypeOK'
  BY <1>3, HandleTypes, DumpPacketTypes, CopyRequestTypes, CrashTypes
<1>4. CASE UNCHANGED vars
  BY <1>4 DEF vars, serverVars, tallyVars, clientVars, TypeOK
<1> QED
  BY <1>1, <1>2, <1>3, <1>4 DEF Next

(* Every variable of the distributed table keeps its type: no client, no   *)
(* server and no fault ever makes a value of another kind.                 *)
THEOREM StoreTypes == Spec => []TypeOK
<1>1. Init => TypeOK
  BY InitTypes
<1>2. TypeOK /\ [Next]_vars => TypeOK'
  BY StepTypes
<1> QED
  BY <1>1, <1>2, PTL DEF Spec

-----------------------------------------------------------------------------
(* What the steps leave alone. *)

(* A new operation has an empty socket of its own, and nothing is counted. *)
LEMMA StartEffect ==
  ASSUME TypeOK, NEW c \in Client, PutStart(c) \/ GetStart(c)
  PROVE  /\ UNCHANGED <<walk, store, inbox, dumping, crashes, copies>>
         /\ pc[c] = "idle" /\ pc'[c] = "sending"
         /\ socket'[c] = socket[c] + 1 /\ socket[c] \in Nat
         /\ next'[c] = 1 /\ buffer'[c] = {} /\ acks'[c] = 0
         /\ votes'[c] = NoVotes /\ missing'[c] = 0 /\ result'[c] = NoResult
         /\ op'[c] \in Op /\ op'[c].N \in Nat \ {0} /\ op'[c].W \in Nat \ {0}
         /\ op'[c].call = "put" => op'[c].val \in Value
         /\ op'[c].R \in Nat \ {0}
         /\ \A d \in Client : d # c =>
              /\ pc'[d] = pc[d] /\ op'[d] = op[d] /\ socket'[d] = socket[d]
              /\ next'[d] = next[d] /\ buffer'[d] = buffer[d] /\ acks'[d] = acks[d]
              /\ votes'[d] = votes[d] /\ missing'[d] = missing[d] /\ result'[d] = result[d]
<1>0. PICK call, k, v : \E a \in Args : Start(c, call, k, v, a)
  BY DEF PutStart, GetStart
<1>1. PICK a \in Args : Start(c, call, k, v, a)
  BY <1>0
<1>2. /\ UNCHANGED <<walk, store, inbox, dumping, crashes, copies>>
      /\ op'[c] \in Op
      /\ op'[c].N \in Nat \ {0} /\ op'[c].W \in Nat \ {0} /\ op'[c].R \in Nat \ {0}
      /\ op'[c].call = "put" => op'[c].val \in Value
      /\ pc[c] = "idle" /\ socket[c] \in Nat /\ socket'[c] = socket[c] + 1
      /\ \A d \in Client : d # c => op'[d] = op[d] /\ socket'[d] = socket[d]
  <2>1. Open(c, call, k, v, a)
    BY <1>1 DEF Start
  <2> QED
    BY <2>1, OpenFacts
<1>5. /\ pc'[c] = "sending"
      /\ next'[c] = 1 /\ buffer'[c] = {} /\ acks'[c] = 0
      /\ votes'[c] = NoVotes /\ missing'[c] = 0 /\ result'[c] = NoResult
  BY <1>1 DEF TypeOK, Start
<1>6. \A d \in Client : d # c =>
        /\ pc'[d] = pc[d]
        /\ next'[d] = next[d] /\ buffer'[d] = buffer[d] /\ acks'[d] = acks[d]
        /\ votes'[d] = votes[d] /\ missing'[d] = missing[d] /\ result'[d] = result[d]
  BY <1>1 DEF TypeOK, Start
<1> QED
  BY <1>2, <1>5, <1>6

(* A refused one is over at once. *)
LEMMA RefusedEffect ==
  ASSUME TypeOK, NEW c \in Client, Refused(c)
  PROVE  /\ UNCHANGED <<walk, store, inbox, dumping, crashes, copies, pc, next, buffer,
                        acks, votes, missing>>
         /\ pc[c] = "idle"
         /\ socket'[c] = socket[c] + 1 /\ socket[c] \in Nat
         /\ op'[c] \in Op
         /\ op'[c].call = "put" => op'[c].val \in Value
         /\ result'[c] = [err |-> "ERR_BAD_PARAMETER", val |-> NULL]
         /\ \A d \in Client : d # c =>
              op'[d] = op[d] /\ socket'[d] = socket[d] /\ result'[d] = result[d]
<1>1. PICK call, k, v : \E a \in Args : Open(c, call, k, v, a)
  BY DEF Refused
<1>2. /\ UNCHANGED <<walk, store, inbox, dumping, crashes, copies>>
      /\ op'[c] \in Op
      /\ op'[c].call = "put" => op'[c].val \in Value
      /\ pc[c] = "idle" /\ socket[c] \in Nat /\ socket'[c] = socket[c] + 1
      /\ \A d \in Client : d # c => op'[d] = op[d] /\ socket'[d] = socket[d]
  BY <1>1, OpenFacts
<1>3. UNCHANGED <<pc, next, buffer, acks, votes, missing>>
  BY DEF Refused, tallyVars
<1>4. /\ result'[c] = [err |-> "ERR_BAD_PARAMETER", val |-> NULL]
      /\ \A d \in Client : d # c => result'[d] = result[d]
  BY DEF Refused, TypeOK
<1> QED
  BY <1>2, <1>3, <1>4

LEMMA SendEffect ==
  ASSUME TypeOK, NEW c \in Client, Send(c)
  PROVE  /\ UNCHANGED <<walk, store, dumping, crashes, copies, op, socket, buffer, tallyVars, result>>
         /\ pc[c] = "sending" /\ op[c] \in Op /\ next[c] \in Nat \ {0}
         /\ next'[c] = next[c] + 1
         /\ pc'[c] = IF next[c] >= op[c].N THEN "receiving" ELSE "sending"
         /\ \A d \in Client : d # c => pc'[d] = pc[d] /\ next'[d] = next[d]
         /\ Nodes(c)' = Nodes(c)
         /\ \/ inbox' = inbox
            \/ /\ next[c] \in 1 .. Len(Nodes(c)) /\ Nodes(c)[next[c]] \in Server
               /\ inbox' = [inbox EXCEPT ![Nodes(c)[next[c]]] =
                              Append(@, Sent(Datagram(op[c]), c))]
<1>1. pc[c] = "sending" /\ op[c] \in Op /\ next[c] \in Nat \ {0}
  BY DEF TypeOK, Send
<1>2. /\ UNCHANGED <<walk, store, dumping, crashes, copies, op, socket, buffer, tallyVars, result>>
      /\ next'[c] = next[c] + 1
      /\ pc'[c] = IF next[c] >= op[c].N THEN "receiving" ELSE "sending"
      /\ \A d \in Client : d # c => pc'[d] = pc[d] /\ next'[d] = next[d]
  BY <1>1 DEF TypeOK, Send
<1>3. Nodes(c)' = Nodes(c)
  BY <1>2 DEF Nodes
<1>4. CASE inbox' = inbox
  BY <1>1, <1>2, <1>3, <1>4
<1>5. CASE inbox' # inbox
  <2>1. /\ next[c] <= Len(Nodes(c))
        /\ inbox' = [inbox EXCEPT ![Nodes(c)[next[c]]] = Append(@, Sent(Datagram(op[c]), c))]
    BY <1>5 DEF Send
  <2>2. next[c] \in 1 .. Len(Nodes(c)) /\ Nodes(c)[next[c]] \in Server
    BY <2>1, <1>1, NodesFacts
  <2> QED
    BY <2>1, <2>2, <1>1, <1>2, <1>3
<1> QED
  BY <1>4, <1>5

(* A client that receives or gives up keeps to its own locals. *)
LEMMA ReceiveEffect ==
  ASSUME TypeOK, NEW c \in Client, RecvPut(c) \/ RecvGet(c) \/ Timeout(c)
  PROVE  /\ UNCHANGED <<walk, store, inbox, dumping, crashes, copies, op, socket>>
         /\ pc[c] = "receiving" /\ op[c] \in Op
         /\ buffer'[c] \subseteq buffer[c]
         /\ pc'[c] = "receiving" => next'[c] = next[c] /\ result'[c] = result[c]
         /\ pc'[c] # "receiving" => pc'[c] = "idle" /\ buffer'[c] = {}
         /\ \A d \in Client : d # c =>
              /\ pc'[d] = pc[d] /\ next'[d] = next[d] /\ buffer'[d] = buffer[d]
              /\ acks'[d] = acks[d] /\ votes'[d] = votes[d] /\ missing'[d] = missing[d]
              /\ result'[d] = result[d]
<1>1. pc[c] = "receiving" /\ op[c] \in Op
  BY DEF RecvPut, RecvGet, Timeout, TypeOK
<1>2. ASSUME NEW err, NEW v, Return(c, err, v)
      PROVE  /\ UNCHANGED <<walk, store, inbox, dumping, crashes, copies, op, socket>>
             /\ pc'[c] = "idle" /\ buffer'[c] = {}
             /\ \A d \in Client : d # c =>
                  /\ pc'[d] = pc[d] /\ next'[d] = next[d] /\ buffer'[d] = buffer[d]
                  /\ acks'[d] = acks[d] /\ votes'[d] = votes[d] /\ missing'[d] = missing[d]
                  /\ result'[d] = result[d]
  BY <1>2 DEF Return, TypeOK, serverVars
<1>3. CASE \E err, v : Return(c, err, v)
  BY <1>1, <1>2, <1>3
<1>4. CASE ~ \E err, v : Return(c, err, v)
  <2>1. /\ GoOn
        /\ \E m \in buffer[c] : buffer' = [buffer EXCEPT ![c] = @ \ {m}]
        /\ \/ UNCHANGED <<acks, votes>> /\ missing' = [missing EXCEPT ![c] = @ + 1]
           \/ UNCHANGED <<acks, missing>> /\ \E u : votes' = [votes EXCEPT ![c][u] = Increment(@)]
           \/ UNCHANGED <<votes, missing>> /\ acks' = [acks EXCEPT ![c] = @ + 1]
    BY <1>4 DEF RecvPut, RecvGet, Timeout
  <2>2. UNCHANGED <<walk, store, inbox, dumping, crashes, copies, op, socket, pc, next, result>>
    BY <2>1 DEF GoOn, serverVars
  <2>3. buffer'[c] \subseteq buffer[c] /\ \A d \in Client : d # c => buffer'[d] = buffer[d]
    BY <2>1 DEF TypeOK
  <2>4. \A d \in Client : d # c =>
          acks'[d] = acks[d] /\ votes'[d] = votes[d] /\ missing'[d] = missing[d]
    BY <2>1 DEF TypeOK
  <2> QED
    BY <2>2, <2>3, <2>4, <1>1
<1> QED
  BY <1>3, <1>4

(* The datagrams that are left are those that were there, in their order. *)
LEMMA HandleEffect ==
  ASSUME TypeOK, NEW s \in Server, NEW i \in DOMAIN inbox[s], HandleAt(s, i)
  PROVE  LET old(t, j) == IF t = s /\ j >= i THEN j + 1 ELSE j
         IN  /\ \A t \in Server : \A j \in DOMAIN inbox'[t] :
                  /\ old(t, j) \in DOMAIN inbox[t]
                  /\ inbox'[t][j] = inbox[t][old(t, j)]
                  /\ t = s => old(t, j) # i
             /\ \A t \in Server : \A j, k \in DOMAIN inbox'[t] : old(t, j) = old(t, k) => j = k
             /\ \A t \in Server : \A j \in DOMAIN inbox[t] : (t # s \/ j # i) =>
                  \E k \in DOMAIN inbox'[t] : old(t, k) = j
<1> DEFINE old(t, j) == IF t = s /\ j >= i THEN j + 1 ELSE j
<1>1. inbox' = [inbox EXCEPT ![s] = Without(@, i)] /\ inbox \in [Server -> Seq(Request)]
  BY DEF HandleAt, TypeOK
<1>2. inbox'[s] = Without(inbox[s], i) /\ inbox[s] \in Seq(Request)
  BY <1>1
<1>3. /\ DOMAIN inbox[s] = 1 .. Len(inbox[s]) /\ Len(inbox[s]) \in Nat
      /\ DOMAIN inbox'[s] = 1 .. Len(inbox[s]) - 1
      /\ \A j \in 1 .. Len(inbox[s]) - 1 :
           inbox'[s][j] = IF j < i THEN inbox[s][j] ELSE inbox[s][j + 1]
  BY <1>2, WithoutFacts
<1>4. \A t \in Server : t # s => inbox'[t] = inbox[t]
  BY <1>1
<1>5. i \in 1 .. Len(inbox[s])
  BY <1>3
<1>6. ASSUME NEW t \in Server, NEW j \in DOMAIN inbox'[t]
      PROVE  /\ old(t, j) \in DOMAIN inbox[t]
             /\ inbox'[t][j] = inbox[t][old(t, j)]
             /\ t = s => old(t, j) # i
  <2>1. CASE t = s
    BY <2>1, <1>3, <1>5, <1>6
  <2>2. CASE t # s
    BY <2>2, <1>4, <1>6
  <2> QED
    BY <2>1, <2>2
<1>7. ASSUME NEW t \in Server, NEW j \in DOMAIN inbox'[t], NEW k \in DOMAIN inbox'[t],
             old(t, j) = old(t, k)
      PROVE  j = k
  <2>1. CASE t = s
    BY <2>1, <1>3, <1>5, <1>7
  <2>2. CASE t # s
    BY <2>2, <1>7
  <2> QED
    BY <2>1, <2>2
<1>8. ASSUME NEW t \in Server, NEW j \in DOMAIN inbox[t], t # s \/ j # i
      PROVE  \E k \in DOMAIN inbox'[t] : old(t, k) = j
  <2>1. CASE t # s
    BY <2>1, <1>4, <1>8
  <2>2. CASE t = s /\ j < i
    <3>1. j \in DOMAIN inbox'[t] /\ old(t, j) = j
      BY <2>2, <1>3, <1>5, <1>8
    <3> QED
      BY <3>1
  <2>3. CASE t = s /\ j > i
    <3>1. j - 1 \in DOMAIN inbox'[t] /\ old(t, j - 1) = j
      BY <2>3, <1>3, <1>5, <1>8
    <3> QED
      BY <3>1
  <2> QED
    BY <2>1, <2>2, <2>3, <1>3, <1>5, <1>8
<1> QED
  BY <1>6, <1>7, <1>8

(* A reply reaches its client's buffer, if that client still runs the      *)
(* operation, or is gone.                                                  *)
LEMMA HandleReplies ==
  ASSUME TypeOK, NEW s \in Server, NEW i \in DOMAIN inbox[s], HandleAt(s, i)
  PROVE  LET m == inbox[s][i]
             r == Replied(Answer(store[s], m), s, m.copy)
         IN  /\ m \in Request /\ r \in Reply
             /\ r.from = s /\ r.copy = m.copy
             /\ r.type = Answer(store[s], m).type /\ r.val = Answer(store[s], m).val
             /\ \/ buffer' = buffer
                \/ /\ m.socket = socket[m.client] /\ pc[m.client] # "idle"
                   /\ buffer'[m.client] = buffer[m.client] \cup {r}
                   /\ \A c \in Client : c # m.client => buffer'[c] = buffer[c]
             /\ \A t \in Server : t # s => dumping'[t] = dumping[t]
             /\ \/ dumping' = dumping
                \/ /\ Answer(store[s], m).type = "dump"
                   /\ dumping'[s] = {[client |-> m.client, socket |-> m.socket,
                                      copy |-> m.copy, sent |-> 1]}
             /\ UNCHANGED <<walk, crashes, copies, pc, op, socket, next, acks, votes,
                            missing, result>>
             /\ r.packet = 1
<1> DEFINE m == inbox[s][i]
           r == Replied(Answer(store[s], m), s, m.copy)
<1>1. m \in Request
  BY DEF TypeOK
<1>2. r \in Reply
  BY <1>1, AnswerFacts
<1>3. /\ r.from = s /\ r.copy = m.copy /\ r.packet = 1
      /\ r.type = Answer(store[s], m).type /\ r.val = Answer(store[s], m).val
  BY DEF Replied
<1>4. Deliver(r, m.client, m.socket)
  BY DEF HandleAt
<1>5. m.client \in Client
  BY <1>1 DEF Request
<1>6. UNCHANGED <<walk, crashes, copies, pc, op, socket, next, acks, votes, missing, result>>
  BY DEF HandleAt, tallyVars
<1>7. \/ buffer' = buffer
      \/ /\ m.socket = socket[m.client] /\ pc[m.client] # "idle"
         /\ buffer'[m.client] = buffer[m.client] \cup {r}
         /\ \A c \in Client : c # m.client => buffer'[c] = buffer[c]
  <2> HIDE DEF r, m
  <2> QED
    BY <1>2, <1>4, <1>5, DeliverTypes
<1> DEFINE e == [client |-> m.client, socket |-> m.socket, copy |-> m.copy, sent |-> 1]
<1>8. \/ dumping' = dumping
      \/ /\ Answer(store[s], m).type = "dump"
         /\ dumping' = [dumping EXCEPT ![s] = {e}]
  BY DEF HandleAt
<1>9. dumping \in [Server -> SUBSET Dump]
  BY DEF TypeOK
<1>10. /\ \A t \in Server : t # s => dumping'[t] = dumping[t]
       /\ \/ dumping' = dumping
          \/ Answer(store[s], m).type = "dump" /\ dumping'[s] = {e}
  <2> HIDE DEF e, m
  <2> QED
    BY <1>8, <1>9
<1> QED
  BY <1>1, <1>2, <1>3, <1>6, <1>7, <1>10

(* A copy of a request comes last, the rest stays. *)
LEMMA CopyRequestEffect ==
  ASSUME TypeOK, NEW s \in Server, CopyRequest(s)
  PROVE  /\ copies' = copies + 1 /\ copies \in Nat
         /\ UNCHANGED <<walk, store, dumping, crashes, pc, op, socket, next, buffer, acks,
                        votes, missing, result>>
         /\ \E i \in DOMAIN inbox[s] :
              LET m == [inbox[s][i] EXCEPT !.copy = copies + 1]
              IN  /\ inbox' = [inbox EXCEPT ![s] = Append(@, m)]
                  /\ inbox[s][i] \in Request /\ m \in Request /\ m.copy = copies + 1
                  /\ m.type = inbox[s][i].type /\ m.key = inbox[s][i].key
                  /\ m.val = inbox[s][i].val /\ m.client = inbox[s][i].client
                  /\ m.socket = inbox[s][i].socket
<1>1. copies' = copies + 1 /\ copies \in Nat
  BY StoreAssumption DEF CopyRequest, TypeOK
<1>2. UNCHANGED <<walk, store, dumping, crashes, pc, op, socket, next, buffer, acks, votes,
                  missing, result>>
  BY DEF CopyRequest, clientVars, tallyVars
<1>3. PICK i \in DOMAIN inbox[s] :
        inbox' = [inbox EXCEPT ![s] = Append(@, [inbox[s][i] EXCEPT !.copy = copies + 1])]
  BY DEF CopyRequest
<1>4. inbox[s][i] \in Request
  BY DEF TypeOK
<1> DEFINE m == [inbox[s][i] EXCEPT !.copy = copies + 1]
<1>5. /\ m \in Request /\ m.copy = copies + 1
      /\ m.type = inbox[s][i].type /\ m.key = inbox[s][i].key
      /\ m.val = inbox[s][i].val /\ m.client = inbox[s][i].client
      /\ m.socket = inbox[s][i].socket
  BY <1>1, <1>4 DEF Request
<1> QED
  BY <1>1, <1>2, <1>3, <1>4, <1>5

LEMMA CopyReplyEffect ==
  ASSUME TypeOK, NEW c \in Client, CopyReply(c)
  PROVE  /\ copies' = copies + 1 /\ copies \in Nat
         /\ UNCHANGED <<walk, store, inbox, dumping, crashes, pc, op, socket, next, acks,
                        votes, missing, result>>
         /\ \A d \in Client : d # c => buffer'[d] = buffer[d]
         /\ \E m \in buffer[c] : \E r \in Reply :
              /\ buffer'[c] = buffer[c] \cup {r}
              /\ r.copy = copies + 1 /\ r.type = m.type /\ r.val = m.val
<1>1. copies' = copies + 1 /\ copies \in Nat
  BY StoreAssumption DEF CopyReply, TypeOK
<1>2. UNCHANGED <<walk, store, inbox, dumping, crashes, pc, op, socket, next, acks, votes,
                  missing, result>>
  BY DEF CopyReply, tallyVars
<1>3. PICK m \in buffer[c] :
        buffer' = [buffer EXCEPT ![c] = @ \cup {[m EXCEPT !.copy = copies + 1]}]
  BY DEF CopyReply
<1> DEFINE r == [m EXCEPT !.copy = copies + 1]
<1>4. m \in Reply
  BY DEF TypeOK
<1>5. r \in Reply /\ r.copy = copies + 1 /\ r.type = m.type /\ r.val = m.val
  BY <1>1, <1>4 DEF Reply
<1>6. buffer'[c] = buffer[c] \cup {r} /\ \A d \in Client : d # c => buffer'[d] = buffer[d]
  BY <1>3 DEF TypeOK
<1> QED
  BY <1>1, <1>2, <1>5, <1>6

LEMMA CrashEffect ==
  ASSUME TypeOK, NEW s \in Server, CrashRestart(s)
  PROVE  /\ UNCHANGED <<walk, copies, pc, op, socket, next, buffer, acks, votes, missing, result>>
         /\ crashes' = crashes + 1 /\ crashes \in Nat
         /\ inbox'[s] = <<>> /\ DOMAIN inbox'[s] = {} /\ dumping'[s] = {}
         /\ \A t \in Server : t # s =>
              inbox'[t] = inbox[t] /\ store'[t] = store[t] /\ dumping'[t] = dumping[t]
<1>1. UNCHANGED <<walk, copies, pc, op, socket, next, buffer, acks, votes, missing, result>>
  BY DEF CrashRestart, clientVars, tallyVars
<1>2. crashes' = crashes + 1 /\ crashes \in Nat
  BY StoreAssumption DEF CrashRestart, TypeOK
<1>3. /\ inbox'[s] = <<>> /\ dumping'[s] = {}
      /\ \A t \in Server : t # s =>
           inbox'[t] = inbox[t] /\ store'[t] = store[t] /\ dumping'[t] = dumping[t]
  BY DEF CrashRestart, TypeOK
<1>4. DOMAIN inbox'[s] = {}
  BY <1>3
<1> QED
  BY <1>1, <1>2, <1>3, <1>4

-----------------------------------------------------------------------------
(* The locals of the operations. *)

LEMMA PhasesStart ==
  ASSUME TypeOK, Phases, NEW c \in Client, PutStart(c) \/ GetStart(c)
  PROVE  Phases'
<1> SUFFICES ASSUME NEW d \in Client
             PROVE  /\ op'[d].call = "put" => op'[d].val \in Value
                    /\ pc'[d] = "idle" => buffer'[d] = {}
                    /\ pc'[d] = "sending" => next'[d] <= op'[d].N
                    /\ pc'[d] = "receiving" => next'[d] = op'[d].N + 1
                    /\ pc'[d] # "idle" => result'[d] = NoResult
                    /\ (pc'[d] # "idle" /\ op'[d].call = "put") =>
                         votes'[d] = NoVotes /\ missing'[d] = 0 /\ acks'[d] < op'[d].W
                    /\ (pc'[d] # "idle" /\ op'[d].call = "get") => acks'[d] = 0
  BY DEF Phases, NoResult, NoVotes
<1>1. CASE d = c
  BY <1>1, StartEffect
<1>2. CASE d # c
  BY <1>2, StartEffect DEF Phases
<1> QED
  BY <1>1, <1>2

LEMMA PhasesRefused ==
  ASSUME TypeOK, Phases, NEW c \in Client, Refused(c)
  PROVE  Phases'
<1> SUFFICES ASSUME NEW d \in Client
             PROVE  /\ op'[d].call = "put" => op'[d].val \in Value
                    /\ pc'[d] = "idle" => buffer'[d] = {}
                    /\ pc'[d] = "sending" => next'[d] <= op'[d].N
                    /\ pc'[d] = "receiving" => next'[d] = op'[d].N + 1
                    /\ pc'[d] # "idle" => result'[d] = NoResult
                    /\ (pc'[d] # "idle" /\ op'[d].call = "put") =>
                         votes'[d] = NoVotes /\ missing'[d] = 0 /\ acks'[d] < op'[d].W
                    /\ (pc'[d] # "idle" /\ op'[d].call = "get") => acks'[d] = 0
  BY DEF Phases, NoResult, NoVotes
<1>1. CASE d = c
  BY <1>1, RefusedEffect DEF Phases
<1>2. CASE d # c
  BY <1>2, RefusedEffect DEF Phases
<1> QED
  BY <1>1, <1>2

LEMMA PhasesSend ==
  ASSUME TypeOK, Phases, NEW c \in Client, Send(c)
  PROVE  Phases'
<1>1. /\ UNCHANGED <<op, buffer, tallyVars, result>>
      /\ pc[c] = "sending" /\ op[c] \in Op /\ next[c] \in Nat \ {0}
      /\ next'[c] = next[c] + 1
      /\ pc'[c] = IF next[c] >= op[c].N THEN "receiving" ELSE "sending"
      /\ \A d \in Client : d # c => pc'[d] = pc[d] /\ next'[d] = next[d]
  BY SendEffect
<1>2. op[c].N \in Nat /\ next[c] <= op[c].N
  BY <1>1 DEF Op, Phases
<1>3. /\ pc'[c] = "sending" => next'[c] <= op'[c].N
      /\ pc'[c] = "receiving" => next'[c] = op'[c].N + 1
      /\ pc'[c] # "idle"
  BY <1>1, <1>2
<1> QED
  BY <1>1, <1>3 DEF Phases, tallyVars, NoResult, NoVotes

LEMMA PhasesReceive ==
  ASSUME TypeOK, Phases, NEW c \in Client, RecvPut(c) \/ RecvGet(c) \/ Timeout(c)
  PROVE  Phases'
<1>1. /\ UNCHANGED op /\ pc[c] = "receiving" /\ op[c] \in Op
      /\ pc'[c] = "receiving" => next'[c] = next[c] /\ result'[c] = result[c]
      /\ pc'[c] # "receiving" => pc'[c] = "idle" /\ buffer'[c] = {}
      /\ \A d \in Client : d # c =>
           /\ pc'[d] = pc[d] /\ next'[d] = next[d] /\ buffer'[d] = buffer[d]
           /\ acks'[d] = acks[d] /\ votes'[d] = votes[d] /\ missing'[d] = missing[d]
           /\ result'[d] = result[d]
  BY ReceiveEffect
<1>2. ASSUME pc'[c] = "receiving", op[c].call = "put"
      PROVE  votes'[c] = NoVotes /\ missing'[c] = 0 /\ acks'[c] < op[c].W
  <2>1. RecvPut(c)
    <3>1. \A err, v : ~Return(c, err, v)
      BY <1>2 DEF Return, TypeOK
    <3> QED
      BY <1>2, <3>1 DEF RecvGet, Timeout
  <2>2. acks' = [acks EXCEPT ![c] = @ + 1] /\ acks[c] + 1 < op[c].W /\ UNCHANGED <<votes, missing>>
    <3>1. ~Return(c, "ERR_NONE", NULL)
      BY <1>2 DEF Return, TypeOK
    <3> QED
      BY <2>1, <3>1 DEF RecvPut
  <2>3. acks'[c] < op[c].W
    BY <2>2 DEF TypeOK
  <2> QED
    BY <2>2, <2>3, <1>1, <1>2 DEF Phases
<1>3. ASSUME pc'[c] = "receiving", op[c].call = "get"
      PROVE  acks'[c] = 0
  <2>1. RecvGet(c)
    <3>1. \A err, v : ~Return(c, err, v)
      BY <1>3 DEF Return, TypeOK
    <3> QED
      BY <1>3, <3>1 DEF RecvPut, Timeout
  <2>2. acks' = acks
    <3>1. \A err, v : ~Return(c, err, v)
      BY <1>3 DEF Return, TypeOK
    <3> QED
      BY <2>1, <3>1 DEF RecvGet
  <2> QED
    BY <2>2, <1>1, <1>3 DEF Phases
<1> SUFFICES ASSUME NEW d \in Client
             PROVE  /\ op'[d].call = "put" => op'[d].val \in Value
                    /\ pc'[d] = "idle" => buffer'[d] = {}
                    /\ pc'[d] = "sending" => next'[d] <= op'[d].N
                    /\ pc'[d] = "receiving" => next'[d] = op'[d].N + 1
                    /\ pc'[d] # "idle" => result'[d] = NoResult
                    /\ (pc'[d] # "idle" /\ op'[d].call = "put") =>
                         votes'[d] = NoVotes /\ missing'[d] = 0 /\ acks'[d] < op'[d].W
                    /\ (pc'[d] # "idle" /\ op'[d].call = "get") => acks'[d] = 0
  BY DEF Phases, NoResult, NoVotes
<1>4. CASE d = c
  BY <1>1, <1>2, <1>3, <1>4 DEF Phases
<1>5. CASE d # c
  BY <1>1, <1>5 DEF Phases
<1> QED
  BY <1>4, <1>5

LEMMA PhasesServe ==
  ASSUME TypeOK, Phases, NEW s \in Server,
         Handle(s) \/ DumpPacket(s) \/ CopyRequest(s) \/ CrashRestart(s)
  PROVE  Phases'
<1>1. CASE Handle(s)
  <2>1. PICK i \in DOMAIN inbox[s] : HandleAt(s, i)
    BY <1>1, HandleFacts
  <2>2. /\ \/ buffer' = buffer
           \/ /\ pc[inbox[s][i].client] # "idle"
              /\ \A c \in Client : c # inbox[s][i].client => buffer'[c] = buffer[c]
        /\ UNCHANGED <<pc, op, next, acks, votes, missing, result>>
    BY <2>1, HandleReplies, Zenon
  <2> QED
    BY <2>2 DEF Phases, NoResult, NoVotes
<1>2. CASE CopyRequest(s) \/ CrashRestart(s)
  <2>1. UNCHANGED <<pc, op, next, buffer, acks, votes, missing, result>>
    BY <1>2, CopyRequestEffect, CrashEffect
  <2> QED
    BY <2>1 DEF Phases, NoResult, NoVotes
<1>3. CASE DumpPacket(s)
  <2>1. PICK c \in Client : /\ buffer' = buffer \/ pc[c] # "idle"
                            /\ \A d \in Client : d # c => buffer'[d] = buffer[d]
    BY <1>3, DumpPacketEffect DEF Dump
  <2>2. UNCHANGED <<pc, op, next, acks, votes, missing, result>>
    BY <1>3, DumpPacketEffect
  <2> QED
    BY <2>1, <2>2 DEF Phases, NoResult, NoVotes
<1> QED
  BY <1>1, <1>2, <1>3

LEMMA PhasesCopyReply ==
  ASSUME TypeOK, Phases, NEW c \in Client, CopyReply(c)
  PROVE  Phases'
<1>1. /\ UNCHANGED <<pc, op, next, acks, votes, missing, result>>
      /\ \A d \in Client : d # c => buffer'[d] = buffer[d]
      /\ buffer[c] # {}
  BY CopyReplyEffect
<1> QED
  BY <1>1 DEF Phases, NoResult, NoVotes

-----------------------------------------------------------------------------
(* Where the datagrams are. *)

DatagramsInv == RequestsTrue /\ RepliesTrue /\ CopiesDiffer /\ AskedOnce

(* A queue that gets one more request. *)
LEMMA AppendEffect ==
  ASSUME TypeOK, NEW s \in Server, NEW e \in Request,
         inbox' = [inbox EXCEPT ![s] = Append(@, e)]
  PROVE  /\ \A t \in Server : \A j \in DOMAIN inbox'[t] :
              \/ j \in DOMAIN inbox[t] /\ inbox'[t][j] = inbox[t][j]
              \/ t = s /\ j = Len(inbox[s]) + 1 /\ inbox'[t][j] = e
         /\ \A t \in Server : \A j \in DOMAIN inbox[t] :
              j \in DOMAIN inbox'[t] /\ inbox'[t][j] = inbox[t][j]
         /\ Len(inbox[s]) + 1 \in DOMAIN inbox'[s] /\ inbox'[s][Len(inbox[s]) + 1] = e
         /\ Len(inbox[s]) + 1 \notin DOMAIN inbox[s]
<1>1. inbox[s] \in Seq(Request) /\ inbox'[s] = Append(inbox[s], e)
  BY DEF TypeOK
<1>2. \A t \in Server : t # s => inbox'[t] = inbox[t]
  BY DEF TypeOK
<1>3. /\ DOMAIN inbox'[s] = 1 .. Len(inbox[s]) + 1
      /\ DOMAIN inbox[s] = 1 .. Len(inbox[s]) /\ Len(inbox[s]) \in Nat
      /\ \A j \in 1 .. Len(inbox[s]) : inbox'[s][j] = inbox[s][j]
      /\ inbox'[s][Len(inbox[s]) + 1] = e
  BY <1>1, AppendFacts
<1> QED
  BY <1>2, <1>3

(* The nodes of an operation depend on its client's locals only. *)
LEMMA SameNodes ==
  ASSUME NEW c, UNCHANGED walk, op'[c] = op[c]
  PROVE  Nodes(c)' = Nodes(c)
  BY DEF Nodes

LEMMA RequestType ==
  ASSUME TypeOK, NEW s \in Server, NEW i \in DOMAIN inbox[s]
  PROVE  /\ inbox[s][i] \in Request
         /\ inbox[s][i].client \in Client /\ inbox[s][i].socket \in Nat
         /\ inbox[s][i].copy \in Nat /\ inbox[s][i].key \in Key
         /\ inbox[s][i].val \in Value \cup {NULL}
<1>1. inbox[s][i] \in Request
  BY DEF TypeOK
<1> QED
  BY <1>1 DEF Request

(* A call opens a socket that no datagram has to do with. *)
LEMMA OpenDatagrams ==
  ASSUME TypeOK, DatagramsInv, NEW c \in Client, UNCHANGED <<walk, inbox, dumping, copies>>,
         socket'[c] = socket[c] + 1, socket[c] \in Nat, buffer'[c] = {},
         \A d \in Client : d # c =>
           /\ pc'[d] = pc[d] /\ op'[d] = op[d] /\ socket'[d] = socket[d]
           /\ next'[d] = next[d] /\ buffer'[d] = buffer[d]
  PROVE  DatagramsInv'
<1>1. /\ UNCHANGED <<walk, inbox, dumping, copies>>
      /\ socket'[c] = socket[c] + 1 /\ socket[c] \in Nat /\ buffer'[c] = {}
      /\ \A d \in Client : d # c =>
           /\ pc'[d] = pc[d] /\ op'[d] = op[d] /\ socket'[d] = socket[d]
           /\ next'[d] = next[d] /\ buffer'[d] = buffer[d]
  OBVIOUS
<1>2. \A s \in Server : \A i \in DOMAIN inbox[s] :
        /\ inbox[s][i].client \in Client /\ inbox[s][i].socket \in Nat
        /\ inbox[s][i].socket <= socket[inbox[s][i].client]
  BY RequestType DEF DatagramsInv, RequestsTrue, RequestTrue
(* No request that is under way has the new socket. *)
<1>3. \A s \in Server : \A i \in DOMAIN inbox[s] :
        inbox[s][i].client = c => inbox[s][i].socket < socket'[c]
  BY <1>1, <1>2
<1>4. RequestsTrue'
  <2> SUFFICES ASSUME NEW s \in Server, NEW i \in DOMAIN inbox[s]
               PROVE  RequestTrue(s, i)'
    BY <1>1 DEF RequestsTrue
  <2>1. CASE inbox[s][i].client = c
    BY <2>1, <1>1, <1>2, <1>3 DEF DatagramsInv, RequestsTrue, RequestTrue
  <2>2. CASE inbox[s][i].client # c
    <3>1. op'[inbox[s][i].client] = op[inbox[s][i].client]
          /\ socket'[inbox[s][i].client] = socket[inbox[s][i].client]
      BY <2>2, <1>1, <1>2
    <3>2. Datagram(op[inbox[s][i].client])' = Datagram(op[inbox[s][i].client])
      BY <1>1, <3>1 DEF Datagram, PutDatagram, GetDatagram
    <3>3. RequestTrue(s, i)
      BY DEF DatagramsInv, RequestsTrue
    <3> QED
      BY <1>1, <3>1, <3>2, <3>3 DEF RequestTrue
  <2> QED
    BY <2>1, <2>2
<1>5. RepliesTrue'
  <2> SUFFICES ASSUME NEW d \in Client
               PROVE  /\ IsFiniteSet(buffer'[d])
                      /\ \A m \in buffer'[d] :
                           /\ m.copy <= copies
                           /\ m.type = "value" => m.val \in Value
                           /\ Datagram(op'[d]).type = "read" => m.type \in {"missing", "value"}
    BY <1>1 DEF RepliesTrue, Datagram, PutDatagram, GetDatagram
  <2>1. CASE d = c
    BY <2>1, <1>1, FS_EmptySet
  <2>2. CASE d # c
    BY <2>2, <1>1 DEF DatagramsInv, RepliesTrue
  <2> QED
    BY <2>1, <2>2
<1>6. CopiesDiffer'
  BY <1>1 DEF DatagramsInv, CopiesDiffer
<1>7. \A s \in Server : ~Asked(c, s)' /\ ~Answered(c, s)'
  BY <1>1, <1>3 DEF Asked, Answered
<1>8. \A d \in Client, s \in Server : d # c =>
        Asked(d, s)' = Asked(d, s) /\ ToAsk(d, s)' = ToAsk(d, s) /\ Answered(d, s)' = Answered(d, s)
  BY <1>1, SameNodes DEF Asked, ToAsk, Answered
<1>9. AskedOnce'
  BY <1>1, <1>7, <1>8 DEF DatagramsInv, AskedOnce
<1> QED
  BY <1>4, <1>5, <1>6, <1>9 DEF DatagramsInv

LEMMA StartDatagrams ==
  ASSUME TypeOK, DatagramsInv, NEW c \in Client, PutStart(c) \/ GetStart(c)
  PROVE  DatagramsInv'
  BY StartEffect, OpenDatagrams

LEMMA RefusedDatagrams ==
  ASSUME TypeOK, Phases, DatagramsInv, NEW c \in Client, Refused(c)
  PROVE  DatagramsInv'
<1>1. buffer'[c] = {}
  BY RefusedEffect DEF Phases
<1> QED
  BY <1>1, RefusedEffect, OpenDatagrams

(* A server that is asked was to be asked. *)
LEMMA SendAsked ==
  ASSUME TypeOK, NEW c \in Client, Send(c), NEW d \in Client, NEW s \in Server
  PROVE  /\ Asked(d, s)' => Asked(d, s) \/ (ToAsk(d, s) /\ ~ToAsk(d, s)')
         /\ ToAsk(d, s)' => ToAsk(d, s)
         /\ Answered(d, s)' = Answered(d, s)
<1>1. /\ UNCHANGED <<walk, op, socket, buffer>>
      /\ pc[c] = "sending" /\ next[c] \in Nat \ {0}
      /\ next'[c] = next[c] + 1
      /\ \A b \in Client : b # c => pc'[b] = pc[b] /\ next'[b] = next[b]
      /\ Nodes(c)' = Nodes(c)
  BY SendEffect
<1>2. /\ Len(Nodes(c)) \in Nat
      /\ \A i, j \in 1 .. Len(Nodes(c)) : Nodes(c)[i] = Nodes(c)[j] => i = j
  BY <1>1, NodesFacts
<1>3. Answered(d, s)' = Answered(d, s)
  BY <1>1 DEF Answered
<1>4. ToAsk(d, s)' => ToAsk(d, s)
  <2>1. CASE d = c
    BY <2>1, <1>1, <1>2 DEF ToAsk
  <2>2. CASE d # c
    BY <2>2, <1>1, SameNodes DEF ToAsk
  <2> QED
    BY <2>1, <2>2
<1>5. ASSUME Asked(d, s)', ~Asked(d, s)
      PROVE  ToAsk(d, s) /\ ~ToAsk(d, s)'
  <2>1. inbox' # inbox
    BY <1>1, <1>5 DEF Asked
  <2>2. PICK s0 \in Server : s0 = Nodes(c)[next[c]]
    BY <2>1, SendEffect
  <2>3. PICK e \in Request : e = Sent(Datagram(op[c]), c) /\ e.client = c
    BY <1>1, SentFacts
  <2>4. /\ next[c] \in 1 .. Len(Nodes(c))
        /\ inbox' = [inbox EXCEPT ![s0] = Append(@, e)]
    BY <2>1, <2>2, <2>3, SendEffect
  <2>5. \A t \in Server : \A j \in DOMAIN inbox'[t] :
          \/ j \in DOMAIN inbox[t] /\ inbox'[t][j] = inbox[t][j]
          \/ t = s0 /\ j = Len(inbox[s0]) + 1 /\ inbox'[t][j] = e
    BY <2>4, AppendEffect
  <2>6. d = c /\ s = s0
    BY <2>3, <2>5, <1>1, <1>5 DEF Asked
  <2>7. ToAsk(c, s0)
    BY <2>2, <2>4, <1>1, <1>2 DEF ToAsk
  <2>8. ~ToAsk(c, s0)'
    BY <2>2, <2>4, <1>1, <1>2 DEF ToAsk
  <2> QED
    BY <2>6, <2>7, <2>8
<1> QED
  BY <1>3, <1>4, <1>5

LEMMA SendDatagrams ==
  ASSUME TypeOK, Phases, DatagramsInv, NEW c \in Client, Send(c)
  PROVE  DatagramsInv'
<1>1. /\ UNCHANGED <<walk, copies, op, socket, buffer>>
      /\ pc[c] = "sending" /\ op[c] \in Op /\ next[c] \in Nat \ {0}
      /\ next'[c] = next[c] + 1
      /\ \A d \in Client : d # c => pc'[d] = pc[d] /\ next'[d] = next[d]
      /\ Nodes(c)' = Nodes(c)
  BY SendEffect
<1>2. RepliesTrue'
  BY <1>1, RepliesTrueSame DEF DatagramsInv
<1>3. \A d \in Client, s \in Server :
        ~(Asked(d, s)' /\ ToAsk(d, s)') /\ ~(Asked(d, s)' /\ Answered(d, s)')
          /\ ~(ToAsk(d, s)' /\ Answered(d, s)')
  BY SendAsked DEF DatagramsInv, AskedOnce
<1>7. CASE inbox' = inbox
  <2>1. RequestsTrue' /\ CopiesDiffer'
    BY <1>1, <1>7, RequestsTrueSame DEF DatagramsInv, CopiesDiffer
  <2>3. AskedOnce'
    BY <1>3, <1>7 DEF DatagramsInv, AskedOnce
  <2> QED
    BY <2>1, <2>3, <1>2 DEF DatagramsInv
<1>8. CASE inbox' # inbox
  <2>0. PICK s0 \in Server : s0 = Nodes(c)[next[c]]
    BY <1>8, SendEffect
  <2> DEFINE e  == Sent(Datagram(op[c]), c)
             l  == Len(inbox[s0]) + 1
  <2>1. /\ next[c] \in 1 .. Len(Nodes(c)) /\ s0 = Nodes(c)[next[c]]
        /\ inbox' = [inbox EXCEPT ![s0] = Append(@, e)]
    BY <1>8, <2>0, SendEffect
  <2>2. /\ e \in Request /\ e.client = c /\ e.socket = socket[c] /\ e.copy = 0
        /\ e.type = Datagram(op[c]).type /\ e.key = Datagram(op[c]).key
        /\ e.val = Datagram(op[c]).val
    BY <1>1, SentFacts DEF Sent
  <2>3. e.type = "write" => e.val \in Value
    BY <2>2 DEF Phases, Datagram, PutDatagram, GetDatagram
  <2>4. ToAsk(c, s0)
    BY <2>1, <1>1, NodesFacts DEF ToAsk
  <2>6. ~Asked(c, s0)
    BY <2>1, <2>4 DEF DatagramsInv, AskedOnce
  <2> HIDE DEF e
  <2>7. /\ \A t \in Server : \A j \in DOMAIN inbox'[t] :
             \/ j \in DOMAIN inbox[t] /\ inbox'[t][j] = inbox[t][j]
             \/ t = s0 /\ j = l /\ inbox'[t][j] = e
        /\ \A t \in Server : \A j \in DOMAIN inbox[t] :
             j \in DOMAIN inbox'[t] /\ inbox'[t][j] = inbox[t][j]
    BY <2>1, <2>2, AppendEffect
  <2> HIDE DEF l
  <2>8. RequestsTrue'
    <3> SUFFICES ASSUME NEW t \in Server, NEW j \in DOMAIN inbox'[t]
                 PROVE  RequestTrue(t, j)'
      BY <1>1 DEF RequestsTrue
    <3>1. CASE j \in DOMAIN inbox[t] /\ inbox'[t][j] = inbox[t][j]
      <4>1. inbox[t][j].copy <= copies'
        BY <1>1, <3>1 DEF DatagramsInv, RequestsTrue, RequestTrue
      <4> QED
        BY <1>1, <3>1, <4>1, RequestMoves DEF DatagramsInv
    <3>2. CASE inbox'[t][j] = e
      <4>1. socket[c] \in Nat /\ copies \in Nat
        BY StoreAssumption DEF TypeOK
      <4> QED
        <5>1. inbox'[t][j].client = c /\ op'[c] = op[c] /\ socket'[c] = socket[c]
          BY <1>1, <2>2, <3>2
        <5>2. Datagram(op[inbox[t][j].client])' = Datagram(op[c])
          BY <5>1 DEF Datagram, PutDatagram, GetDatagram
        <5>3. copies' = copies /\ op'[c] = op[c]
          BY <1>1
        <5> QED
          BY <2>2, <2>3, <3>2, <4>1, <5>1, <5>2, <5>3 DEF RequestTrue
    <3> QED
      BY <3>1, <3>2, <2>7
  <2>9. CopiesDiffer'
    <3>1. ASSUME NEW s \in Server, NEW t \in Server, NEW i \in DOMAIN inbox'[s],
                 NEW j \in DOMAIN inbox'[t],
                 inbox'[s][i].copy = inbox'[t][j].copy, inbox'[s][i].copy # 0
          PROVE  s = t /\ i = j
      <4>1. i \in DOMAIN inbox[s] /\ inbox'[s][i] = inbox[s][i]
        BY <3>1, <2>2, <2>7
      <4>2. j \in DOMAIN inbox[t] /\ inbox'[t][j] = inbox[t][j]
        BY <3>1, <2>2, <2>7
      <4> QED
        BY <3>1, <4>1, <4>2 DEF DatagramsInv, CopiesDiffer
    <3>2. ASSUME NEW s \in Server, NEW d \in Client, NEW i \in DOMAIN inbox'[s],
                 NEW m \in buffer[d], inbox'[s][i].copy = m.copy
          PROVE  m.copy = 0
      <4>1. CASE inbox'[s][i] = e
        BY <3>2, <4>1, <2>2
      <4>2. CASE i \in DOMAIN inbox[s] /\ inbox'[s][i] = inbox[s][i]
        BY <3>2, <4>2 DEF DatagramsInv, CopiesDiffer
      <4> QED
        BY <4>1, <4>2, <2>7
    <3> QED
      BY <3>1, <3>2, <1>1 DEF CopiesDiffer
  <2>11. ASSUME NEW s \in Server, NEW i \in DOMAIN inbox'[s], NEW j \in DOMAIN inbox'[s],
                inbox'[s][i].copy = 0, inbox'[s][j].copy = 0,
                inbox'[s][i].client = inbox'[s][j].client,
                inbox'[s][i].socket = inbox'[s][j].socket
         PROVE  i = j
    <3> DEFINE was(n) == n \in DOMAIN inbox[s] /\ inbox'[s][n] = inbox[s][n]
               is(n) == s = s0 /\ n = l /\ inbox'[s][n] = e
    <3>1. (was(i) \/ is(i)) /\ (was(j) \/ is(j))
      BY <2>7
    <3>2. CASE was(i) /\ was(j)
      BY <2>11, <3>2 DEF DatagramsInv, AskedOnce
    <3>3. CASE is(i) /\ is(j)
      BY <3>3
    <3>4. CASE was(i) /\ is(j)
      BY <2>11, <3>4, <2>2, <2>6 DEF Asked
    <3>5. CASE is(i) /\ was(j)
      BY <2>11, <3>5, <2>2, <2>6 DEF Asked
    <3> QED
      BY <3>1, <3>2, <3>3, <3>4, <3>5
  <2>12. AskedOnce'
    BY <2>11, <1>3 DEF AskedOnce
  <2> QED
    BY <2>8, <2>9, <2>12, <1>2 DEF DatagramsInv
<1> QED
  BY <1>7, <1>8

(* What an operation asks, and has answers to, from its client's receive.  *)
LEMMA ReceiveAsked ==
  ASSUME TypeOK, NEW c \in Client, RecvPut(c) \/ RecvGet(c) \/ Timeout(c),
         NEW d \in Client, NEW s \in Server
  PROVE  /\ Asked(d, s)' = Asked(d, s)
         /\ ToAsk(d, s)' => ToAsk(d, s)
         /\ Answered(d, s)' => Answered(d, s)
<1>1. /\ UNCHANGED <<walk, inbox, op, socket>>
      /\ pc[c] = "receiving" /\ pc'[c] # "sending"
      /\ buffer'[c] \subseteq buffer[c]
      /\ \A b \in Client : b # c =>
           pc'[b] = pc[b] /\ next'[b] = next[b] /\ buffer'[b] = buffer[b]
  BY ReceiveEffect
<1>2. Asked(d, s)' = Asked(d, s)
  BY <1>1 DEF Asked
<1>3. ToAsk(d, s)' => ToAsk(d, s)
  BY <1>1, SameNodes DEF ToAsk
<1>4. Answered(d, s)' => Answered(d, s)
  BY <1>1 DEF Answered
<1> QED
  BY <1>2, <1>3, <1>4

LEMMA ReceiveDatagrams ==
  ASSUME TypeOK, DatagramsInv, NEW c \in Client, RecvPut(c) \/ RecvGet(c) \/ Timeout(c)
  PROVE  DatagramsInv'
<1>1. /\ UNCHANGED <<walk, inbox, copies, op, socket>>
      /\ pc[c] = "receiving" /\ pc'[c] # "sending"
      /\ buffer'[c] \subseteq buffer[c]
      /\ \A d \in Client : d # c =>
           pc'[d] = pc[d] /\ next'[d] = next[d] /\ buffer'[d] = buffer[d]
  BY ReceiveEffect
<1>2. \A d \in Client : buffer'[d] \subseteq buffer[d]
  BY <1>1
<1>3. RequestsTrue'
  BY <1>1, RequestsTrueSame DEF DatagramsInv
<1>4. RepliesTrue'
  <2>1. \A d \in Client : IsFiniteSet(buffer'[d])
    BY <1>2, FS_Subset DEF DatagramsInv, RepliesTrue
  <2>2. \A d \in Client : \A m \in buffer'[d] :
          /\ m.copy <= copies
          /\ m.type = "value" => m.val \in Value
          /\ Datagram(op[d]).type = "read" => m.type \in {"missing", "value"}
    BY <1>2 DEF DatagramsInv, RepliesTrue
  <2>9. \A d \in Client : Datagram(op[d])' = Datagram(op[d])
    BY <1>1 DEF Datagram, PutDatagram, GetDatagram
  <2> QED
    BY <2>1, <2>2, <1>1, <2>9 DEF RepliesTrue
<1>5. CopiesDiffer'
  BY <1>1, <1>2 DEF DatagramsInv, CopiesDiffer
<1>6. \A d \in Client, s \in Server :
        /\ Asked(d, s)' = Asked(d, s)
        /\ ToAsk(d, s)' => ToAsk(d, s)
        /\ Answered(d, s)' => Answered(d, s)
  BY ReceiveAsked
<1>7. AskedOnce'
  BY <1>1, <1>6 DEF DatagramsInv, AskedOnce
<1> QED
  BY <1>3, <1>4, <1>5, <1>7 DEF DatagramsInv

(* A request that is handled asks no more; its answer may arrive. *)
LEMMA HandleAsked ==
  ASSUME TypeOK, DatagramsInv, NEW s \in Server, NEW i \in DOMAIN inbox[s], HandleAt(s, i),
         NEW d \in Client, NEW t \in Server
  PROVE  /\ Asked(d, t)' => Asked(d, t)
         /\ ToAsk(d, t)' = ToAsk(d, t)
         /\ Answered(d, t)' => Answered(d, t) \/ (Asked(d, t) /\ ~Asked(d, t)')
         /\ (/\ t = s /\ inbox[s][i].copy = 0
             /\ inbox[s][i].client = d /\ inbox[s][i].socket = socket[d]) =>
              Asked(d, t) /\ ~Asked(d, t)'
<1> DEFINE old(u, j) == IF u = s /\ j >= i THEN j + 1 ELSE j
<1>2. \A u \in Server : \A j \in DOMAIN inbox'[u] :
        /\ old(u, j) \in DOMAIN inbox[u]
        /\ inbox'[u][j] = inbox[u][old(u, j)]
        /\ u = s => old(u, j) # i
  BY HandleEffect
<1> HIDE DEF old
<1> PICK m : m = inbox[s][i]
  OBVIOUS
<1> PICK r : r = Replied(Answer(store[s], m), s, m.copy)
  OBVIOUS
<1>3. /\ m \in Request /\ r.from = s /\ r.copy = m.copy
      /\ \/ buffer' = buffer
         \/ /\ m.socket = socket[m.client] /\ pc[m.client] # "idle"
            /\ buffer'[m.client] = buffer[m.client] \cup {r}
            /\ \A c \in Client : c # m.client => buffer'[c] = buffer[c]
      /\ UNCHANGED <<walk, copies, pc, op, socket, next>>
  BY HandleReplies
<1>4. m.client \in Client
  BY <1>3 DEF Request
<1>5. Asked(d, t)' => Asked(d, t)
  <2> SUFFICES ASSUME NEW j \in DOMAIN inbox'[t],
                      inbox'[t][j].copy = 0, inbox'[t][j].client = d,
                      inbox'[t][j].socket = socket[d]
               PROVE  Asked(d, t)
    BY <1>3 DEF Asked
  <2>1. old(t, j) \in DOMAIN inbox[t] /\ inbox'[t][j] = inbox[t][old(t, j)]
    BY <1>2
  <2> QED
    BY <2>1 DEF Asked
<1>6. ToAsk(d, t)' = ToAsk(d, t)
  BY <1>3, SameNodes DEF ToAsk
<1>7. ASSUME t = s, m.copy = 0, m.client = d, m.socket = socket[d]
      PROVE  Asked(d, t) /\ ~Asked(d, t)'
  <2>1. Asked(d, t)
    BY <1>7 DEF Asked
  <2>2. ASSUME NEW j \in DOMAIN inbox'[s],
               inbox'[s][j].copy = 0, inbox'[s][j].client = d,
               inbox'[s][j].socket = socket[d]
        PROVE  FALSE
    <3>1. /\ old(s, j) \in DOMAIN inbox[s] /\ inbox'[s][j] = inbox[s][old(s, j)]
          /\ old(s, j) # i
      BY <1>2
    <3>2. old(s, j) = i
      BY <1>7, <2>2, <3>1 DEF DatagramsInv, AskedOnce
    <3> QED
      BY <3>1, <3>2
  <2>3. ~Asked(d, t)'
    BY <2>2, <1>3, <1>7 DEF Asked
  <2> QED
    BY <2>1, <2>3
<1>8. Answered(d, t)' => Answered(d, t) \/ (Asked(d, t) /\ ~Asked(d, t)')
  <2>1. \A x \in buffer'[d] : x \in buffer[d] \/ (x = r /\ d = m.client /\ m.socket = socket[d])
    BY <1>3, <1>4
  <2>2. ASSUME Answered(d, t)', ~Answered(d, t)
        PROVE  t = s /\ m.copy = 0 /\ m.client = d /\ m.socket = socket[d]
    <3>1. PICK x \in buffer'[d] : x.copy = 0 /\ x.from = t
      BY <2>2 DEF Answered
    <3>2. x = r /\ d = m.client /\ m.socket = socket[d]
      BY <2>1, <2>2, <3>1 DEF Answered
    <3> QED
      BY <3>1, <3>2, <1>3
  <2> QED
    BY <2>2, <1>7
<1> QED
  BY <1>5, <1>6, <1>7, <1>8

LEMMA HandleDatagrams ==
  ASSUME TypeOK, DatagramsInv, NEW s \in Server, Handle(s)
  PROVE  DatagramsInv'
<1>1. PICK i \in DOMAIN inbox[s] : HandleAt(s, i)
  BY HandleFacts
<1> DEFINE old(t, j) == IF t = s /\ j >= i THEN j + 1 ELSE j
<1>2. /\ \A t \in Server : \A j \in DOMAIN inbox'[t] :
           /\ old(t, j) \in DOMAIN inbox[t]
           /\ inbox'[t][j] = inbox[t][old(t, j)]
           /\ t = s => old(t, j) # i
      /\ \A t \in Server : \A j, k \in DOMAIN inbox'[t] : old(t, j) = old(t, k) => j = k
  BY <1>1, HandleEffect
<1> HIDE DEF old
<1> PICK m : m = inbox[s][i]
  OBVIOUS
<1> PICK r : r = Replied(Answer(store[s], m), s, m.copy)
  OBVIOUS
<1>3. /\ m \in Request /\ r \in Reply
      /\ r.from = s /\ r.copy = m.copy
      /\ r.type = Answer(store[s], m).type /\ r.val = Answer(store[s], m).val
      /\ \/ buffer' = buffer
         \/ /\ m.socket = socket[m.client] /\ pc[m.client] # "idle"
            /\ buffer'[m.client] = buffer[m.client] \cup {r}
            /\ \A c \in Client : c # m.client => buffer'[c] = buffer[c]
      /\ UNCHANGED <<walk, copies, pc, op, socket, next>>
  BY <1>1, HandleReplies
<1>4. m.client \in Client /\ m.copy \in Nat /\ m.socket \in Nat
  BY <1>3 DEF Request
(* What is in a buffer was there or is the reply. *)
<1>5. \A c \in Client : \A x \in buffer'[c] :
        x \in buffer[c] \/ (x = r /\ c = m.client /\ m.socket = socket[c])
  BY <1>3, <1>4
(* The handled request was true, and what it is answered. *)
<1>16. /\ m.copy <= copies
       /\ m.socket = socket[m.client] => m.type = Datagram(op[m.client]).type
  BY DEF DatagramsInv, RequestsTrue, RequestTrue
<1>17. /\ r.type = "value" => r.val \in Value
       /\ m.type = "read" => r.type \in {"missing", "value"}
  BY <1>3, AnswerFacts
<1>6. RequestsTrue'
  <2> SUFFICES ASSUME NEW t \in Server, NEW j \in DOMAIN inbox'[t]
               PROVE  RequestTrue(t, j)'
    BY DEF RequestsTrue
  <2>1. old(t, j) \in DOMAIN inbox[t] /\ inbox'[t][j] = inbox[t][old(t, j)]
    BY <1>2
  <2> QED
    <3>1. UNCHANGED <<op, socket, copies>>
      BY <1>3
    <3>2. inbox[t][old(t, j)].copy <= copies'
      BY <2>1, <3>1 DEF DatagramsInv, RequestsTrue, RequestTrue
    <3> QED
      BY <2>1, <3>1, <3>2, RequestMoves DEF DatagramsInv
<1>7. RepliesTrue'
  <2>1. \A c \in Client : IsFiniteSet(buffer'[c])
    BY <1>3, FS_AddElement DEF DatagramsInv, RepliesTrue
  <2>2. /\ r.copy <= copies
        /\ r.type = "value" => r.val \in Value
    BY <1>3, <1>16, <1>17
  <2>3. m.socket = socket[m.client] =>
          (Datagram(op[m.client]).type = "read" => r.type \in {"missing", "value"})
    BY <1>16, <1>17
  <2>4. \A c \in Client : \A x \in buffer'[c] :
          /\ x.copy <= copies
          /\ x.type = "value" => x.val \in Value
          /\ Datagram(op[c]).type = "read" => x.type \in {"missing", "value"}
    <3> SUFFICES ASSUME NEW c \in Client, NEW x \in buffer'[c]
                 PROVE  /\ x.copy <= copies
                        /\ x.type = "value" => x.val \in Value
                        /\ Datagram(op[c]).type = "read" => x.type \in {"missing", "value"}
      OBVIOUS
    <3>1. CASE x \in buffer[c]
      BY <3>1 DEF DatagramsInv, RepliesTrue
    <3>2. CASE x = r /\ c = m.client /\ m.socket = socket[c]
      BY <2>2, <2>3, <3>2
    <3> QED
      BY <1>5, <3>1, <3>2
  <2>9. \A d \in Client : Datagram(op[d])' = Datagram(op[d])
    BY <1>3 DEF Datagram, PutDatagram, GetDatagram
  <2> QED
    BY <2>1, <2>4, <1>3, <2>9 DEF RepliesTrue
<1>8. CopiesDiffer'
  <2>1. ASSUME NEW t \in Server, NEW u \in Server, NEW j \in DOMAIN inbox'[t],
               NEW k \in DOMAIN inbox'[u],
               inbox'[t][j].copy = inbox'[u][k].copy, inbox'[t][j].copy # 0
        PROVE  t = u /\ j = k
    <3>1. /\ old(t, j) \in DOMAIN inbox[t] /\ inbox'[t][j] = inbox[t][old(t, j)]
          /\ old(u, k) \in DOMAIN inbox[u] /\ inbox'[u][k] = inbox[u][old(u, k)]
      BY <1>2
    <3>2. /\ inbox[t][old(t, j)].copy = inbox[u][old(u, k)].copy
          /\ inbox[t][old(t, j)].copy # 0
      BY <2>1, <3>1
    <3>3. t = u /\ old(t, j) = old(u, k)
      BY <3>1, <3>2 DEF DatagramsInv, CopiesDiffer
    <3> QED
      BY <3>3, <1>2
  <2>2. ASSUME NEW t \in Server, NEW c \in Client, NEW j \in DOMAIN inbox'[t],
               NEW x \in buffer'[c], inbox'[t][j].copy = x.copy
        PROVE  x.copy = 0
    <3>1. /\ old(t, j) \in DOMAIN inbox[t] /\ inbox'[t][j] = inbox[t][old(t, j)]
          /\ t = s => old(t, j) # i
      BY <1>2
    <3>2. CASE x \in buffer[c]
      BY <2>2, <3>1, <3>2 DEF DatagramsInv, CopiesDiffer
    <3>3. CASE x = r
      BY <2>2, <3>1, <3>3, <1>3 DEF DatagramsInv, CopiesDiffer
    <3> QED
      BY <3>2, <3>3, <1>5
  <2> QED
    BY <2>1, <2>2 DEF CopiesDiffer
<1>12. ASSUME NEW t \in Server, NEW j \in DOMAIN inbox'[t], NEW k \in DOMAIN inbox'[t],
              inbox'[t][j].copy = 0, inbox'[t][k].copy = 0,
              inbox'[t][j].client = inbox'[t][k].client,
              inbox'[t][j].socket = inbox'[t][k].socket
       PROVE  j = k
  <2>1. /\ old(t, j) \in DOMAIN inbox[t] /\ inbox'[t][j] = inbox[t][old(t, j)]
        /\ old(t, k) \in DOMAIN inbox[t] /\ inbox'[t][k] = inbox[t][old(t, k)]
    BY <1>2
  <2>2. old(t, j) = old(t, k)
    BY <1>12, <2>1 DEF DatagramsInv, AskedOnce
  <2> QED
    BY <2>2, <1>2
<1>14. \A c \in Client, t \in Server :
         ~(Asked(c, t)' /\ ToAsk(c, t)') /\ ~(Asked(c, t)' /\ Answered(c, t)')
           /\ ~(ToAsk(c, t)' /\ Answered(c, t)')
  BY <1>1, HandleAsked DEF DatagramsInv, AskedOnce
<1>15. AskedOnce'
  BY <1>12, <1>14 DEF AskedOnce
<1> QED
  BY <1>6, <1>7, <1>8, <1>15 DEF DatagramsInv

(* A copy of a request is not the request itself. *)
LEMMA CopyRequestAsked ==
  ASSUME TypeOK, NEW s \in Server, CopyRequest(s)
  PROVE  /\ \A t \in Server : \A j \in DOMAIN inbox'[t] : inbox'[t][j].copy = 0 =>
              j \in DOMAIN inbox[t] /\ inbox'[t][j] = inbox[t][j]
         /\ \A c \in Client, t \in Server :
              /\ Asked(c, t)' => Asked(c, t)
              /\ ToAsk(c, t)' = ToAsk(c, t)
              /\ Answered(c, t)' = Answered(c, t)
<1>1. /\ copies' = copies + 1 /\ copies \in Nat
      /\ UNCHANGED <<walk, pc, op, socket, next, buffer>>
  BY CopyRequestEffect
<1>2. PICK e \in Request :
        inbox' = [inbox EXCEPT ![s] = Append(@, e)] /\ e.copy = copies + 1
  BY CopyRequestEffect
<1>3. \A t \in Server : \A j \in DOMAIN inbox'[t] :
        \/ j \in DOMAIN inbox[t] /\ inbox'[t][j] = inbox[t][j]
        \/ t = s /\ j = Len(inbox[s]) + 1 /\ inbox'[t][j] = e
  BY <1>2, AppendEffect
<1>4. \A t \in Server : \A j \in DOMAIN inbox'[t] : inbox'[t][j].copy = 0 =>
        j \in DOMAIN inbox[t] /\ inbox'[t][j] = inbox[t][j]
  BY <1>1, <1>2, <1>3
<1>5. ASSUME NEW c \in Client, NEW t \in Server
      PROVE  /\ Asked(c, t)' => Asked(c, t)
             /\ ToAsk(c, t)' = ToAsk(c, t)
             /\ Answered(c, t)' = Answered(c, t)
  <2>1. Asked(c, t)' => Asked(c, t)
    BY <1>1, <1>4 DEF Asked
  <2>2. ToAsk(c, t)' = ToAsk(c, t)
    BY <1>1, SameNodes DEF ToAsk
  <2>3. Answered(c, t)' = Answered(c, t)
    BY <1>1 DEF Answered
  <2> QED
    BY <2>1, <2>2, <2>3
<1> QED
  BY <1>4, <1>5

LEMMA CopyRequestDatagrams ==
  ASSUME TypeOK, DatagramsInv, NEW s \in Server, CopyRequest(s)
  PROVE  DatagramsInv'
<1>1. /\ copies' = copies + 1 /\ copies \in Nat
      /\ UNCHANGED <<walk, pc, op, socket, next, buffer>>
  BY CopyRequestEffect
<1>2. PICK i \in DOMAIN inbox[s], e \in Request :
        /\ inbox' = [inbox EXCEPT ![s] = Append(@, e)] /\ e.copy = copies + 1
        /\ e.type = inbox[s][i].type /\ e.key = inbox[s][i].key
        /\ e.val = inbox[s][i].val /\ e.client = inbox[s][i].client
        /\ e.socket = inbox[s][i].socket
  BY CopyRequestEffect
<1>3. PICK l : l = Len(inbox[s]) + 1
  OBVIOUS
<1>4. /\ \A t \in Server : \A j \in DOMAIN inbox'[t] :
           \/ j \in DOMAIN inbox[t] /\ inbox'[t][j] = inbox[t][j]
           \/ t = s /\ j = l /\ inbox'[t][j] = e
      /\ \A t \in Server : \A j \in DOMAIN inbox[t] :
           j \in DOMAIN inbox'[t] /\ inbox'[t][j] = inbox[t][j]
  BY <1>2, <1>3, AppendEffect
<1>5. \A t \in Server : \A j \in DOMAIN inbox[t] :
        inbox[t][j].copy \in Nat /\ inbox[t][j].copy <= copies
  BY RequestType DEF DatagramsInv, RequestsTrue, RequestTrue
<1>6. RequestsTrue'
  <2> SUFFICES ASSUME NEW t \in Server, NEW j \in DOMAIN inbox'[t]
               PROVE  RequestTrue(t, j)'
    BY <1>1 DEF RequestsTrue
  <2>1. CASE j \in DOMAIN inbox[t] /\ inbox'[t][j] = inbox[t][j]
    <3>1. inbox[t][j].copy <= copies'
      BY <1>1, <1>5, <2>1
    <3> QED
      BY <1>1, <2>1, <3>1, RequestMoves DEF DatagramsInv
  <2>2. CASE inbox'[t][j] = e
    <3>1. /\ inbox'[t][j].client = inbox[s][i].client
          /\ op'[inbox[s][i].client] = op[inbox[s][i].client]
      BY <1>1, <1>2, <2>2
    <3>2. Datagram(op[inbox[t][j].client])' = Datagram(op[inbox[s][i].client])
      BY <3>1 DEF Datagram, PutDatagram, GetDatagram
    <3>3. RequestTrue(s, i)
      BY <1>2 DEF DatagramsInv, RequestsTrue
    <3> QED
      BY <1>1, <1>2, <2>2, <3>1, <3>2, <3>3 DEF RequestTrue
  <2> QED
    BY <2>1, <2>2, <1>4
<1>7. RepliesTrue'
  <2>1. \A c \in Client : \A m \in buffer[c] : m.copy <= copies + 1
    <3>1. \A c \in Client : \A m \in buffer[c] : m.copy \in Nat /\ m.copy <= copies
      BY DEF TypeOK, Reply, DatagramsInv, RepliesTrue
    <3> QED
      BY <3>1, <1>1
  <2> QED
    BY <2>1, <1>1 DEF DatagramsInv, RepliesTrue, Datagram, PutDatagram, GetDatagram
<1>8. CopiesDiffer'
  <2>1. ASSUME NEW t \in Server, NEW u \in Server, NEW j \in DOMAIN inbox'[t],
               NEW k \in DOMAIN inbox'[u],
               inbox'[t][j].copy = inbox'[u][k].copy, inbox'[t][j].copy # 0
        PROVE  t = u /\ j = k
    <3> DEFINE was(x, n) == n \in DOMAIN inbox[x] /\ inbox'[x][n] = inbox[x][n]
               is(x, n) == x = s /\ n = l /\ inbox'[x][n] = e
    <3>1. (was(t, j) \/ is(t, j)) /\ (was(u, k) \/ is(u, k))
      BY <1>4
    <3>2. CASE was(t, j) /\ was(u, k)
      BY <2>1, <3>2 DEF DatagramsInv, CopiesDiffer
    <3>3. CASE is(t, j) /\ is(u, k)
      BY <3>3
    <3>4. CASE (was(t, j) /\ is(u, k)) \/ (is(t, j) /\ was(u, k))
      BY <2>1, <3>4, <1>1, <1>2, <1>5
    <3> QED
      BY <3>1, <3>2, <3>3, <3>4
  <2>2. ASSUME NEW t \in Server, NEW c \in Client, NEW j \in DOMAIN inbox'[t],
               NEW m \in buffer[c], inbox'[t][j].copy = m.copy
        PROVE  m.copy = 0
    <3>1. m.copy \in Nat /\ m.copy <= copies
      BY DEF TypeOK, Reply, DatagramsInv, RepliesTrue
    <3>2. j \in DOMAIN inbox[t] /\ inbox'[t][j] = inbox[t][j]
      BY <2>2, <3>1, <1>1, <1>2, <1>4
    <3> QED
      BY <2>2, <3>2 DEF DatagramsInv, CopiesDiffer
  <2> QED
    BY <2>1, <2>2, <1>1 DEF CopiesDiffer
<1>11. \A t \in Server : \A j, k \in DOMAIN inbox'[t] :
         (/\ inbox'[t][j].copy = 0 /\ inbox'[t][k].copy = 0
          /\ inbox'[t][j].client = inbox'[t][k].client
          /\ inbox'[t][j].socket = inbox'[t][k].socket) => j = k
  BY CopyRequestAsked DEF DatagramsInv, AskedOnce
<1>12. \A c \in Client, t \in Server :
         ~(Asked(c, t)' /\ ToAsk(c, t)') /\ ~(Asked(c, t)' /\ Answered(c, t)')
           /\ ~(ToAsk(c, t)' /\ Answered(c, t)')
  BY CopyRequestAsked DEF DatagramsInv, AskedOnce
<1>13. AskedOnce'
  BY <1>11, <1>12 DEF AskedOnce
<1> QED
  BY <1>6, <1>7, <1>8, <1>13 DEF DatagramsInv

LEMMA CopyReplyAsked ==
  ASSUME TypeOK, NEW c \in Client, CopyReply(c), NEW d \in Client, NEW s \in Server
  PROVE  /\ Asked(d, s)' = Asked(d, s)
         /\ ToAsk(d, s)' = ToAsk(d, s)
         /\ Answered(d, s)' => Answered(d, s)
<1>1. /\ copies' = copies + 1 /\ copies \in Nat
      /\ UNCHANGED <<walk, inbox, pc, op, socket, next>>
      /\ \A b \in Client : b # c => buffer'[b] = buffer[b]
  BY CopyReplyEffect
<1>2. PICK r \in Reply : buffer'[c] = buffer[c] \cup {r} /\ r.copy = copies + 1
  BY CopyReplyEffect
<1>3. Asked(d, s)' = Asked(d, s)
  BY <1>1 DEF Asked
<1>4. ToAsk(d, s)' = ToAsk(d, s)
  BY <1>1, SameNodes DEF ToAsk
<1>5. Answered(d, s)' => Answered(d, s)
  BY <1>1, <1>2 DEF Answered
<1> QED
  BY <1>3, <1>4, <1>5

LEMMA CopyReplyDatagrams ==
  ASSUME TypeOK, DatagramsInv, NEW c \in Client, CopyReply(c)
  PROVE  DatagramsInv'
<1>1. /\ copies' = copies + 1 /\ copies \in Nat
      /\ UNCHANGED <<walk, inbox, pc, op, socket, next>>
      /\ \A d \in Client : d # c => buffer'[d] = buffer[d]
  BY CopyReplyEffect
<1>2. PICK m \in buffer[c], r \in Reply :
        /\ buffer'[c] = buffer[c] \cup {r}
        /\ r.copy = copies + 1 /\ r.type = m.type /\ r.val = m.val
  BY CopyReplyEffect
<1>3. \A d \in Client : \A x \in buffer'[d] : x \in buffer[d] \/ (d = c /\ x = r)
  BY <1>1, <1>2
<1>4. \A s \in Server : \A i \in DOMAIN inbox[s] :
        inbox[s][i].copy \in Nat /\ inbox[s][i].copy <= copies
  BY RequestType DEF DatagramsInv, RequestsTrue, RequestTrue
<1>5. RequestsTrue'
  <2>1. \A s \in Server : \A i \in DOMAIN inbox[s] : inbox[s][i].copy <= copies'
    BY <1>1, <1>4
  <2> QED
    BY <2>1, <1>1, RequestMoves DEF DatagramsInv, RequestsTrue
<1>6. RepliesTrue'
  <2>1. \A d \in Client : IsFiniteSet(buffer'[d])
    BY <1>1, <1>2, FS_AddElement DEF DatagramsInv, RepliesTrue
  <2>2. \A d \in Client : \A x \in buffer[d] : x.copy \in Nat /\ x.copy <= copies
    BY DEF TypeOK, Reply, DatagramsInv, RepliesTrue
  <2>3. \A d \in Client : \A x \in buffer'[d] : x.copy <= copies'
    BY <2>2, <1>1, <1>2, <1>3
  <2>4. \A d \in Client : \A x \in buffer'[d] :
          /\ x.type = "value" => x.val \in Value
          /\ Datagram(op[d]).type = "read" => x.type \in {"missing", "value"}
    BY <1>2, <1>3 DEF DatagramsInv, RepliesTrue
  <2>9. \A d \in Client : Datagram(op[d])' = Datagram(op[d])
    BY <1>1 DEF Datagram, PutDatagram, GetDatagram
  <2> QED
    BY <2>1, <2>3, <2>4, <1>1, <2>9 DEF RepliesTrue
<1>7. CopiesDiffer'
  BY <1>1, <1>2, <1>3, <1>4 DEF DatagramsInv, CopiesDiffer
<1>8. \A d \in Client, s \in Server :
        /\ Asked(d, s)' = Asked(d, s)
        /\ ToAsk(d, s)' = ToAsk(d, s)
        /\ Answered(d, s)' => Answered(d, s)
  BY CopyReplyAsked
<1>9. AskedOnce'
  BY <1>1, <1>8 DEF DatagramsInv, AskedOnce
<1> QED
  BY <1>5, <1>6, <1>7, <1>9 DEF DatagramsInv

LEMMA CrashAsked ==
  ASSUME TypeOK, NEW s \in Server, CrashRestart(s), NEW c \in Client, NEW t \in Server
  PROVE  /\ Asked(c, t)' => Asked(c, t)
         /\ ToAsk(c, t)' = ToAsk(c, t)
         /\ Answered(c, t)' = Answered(c, t)
<1>1. /\ UNCHANGED <<walk, pc, op, socket, next, buffer>>
      /\ DOMAIN inbox'[s] = {}
      /\ \A u \in Server : u # s => inbox'[u] = inbox[u]
  BY CrashEffect
<1>2. Asked(c, t)' => Asked(c, t)
  BY <1>1 DEF Asked
<1>3. ToAsk(c, t)' = ToAsk(c, t)
  BY <1>1, SameNodes DEF ToAsk
<1>4. Answered(c, t)' = Answered(c, t)
  BY <1>1 DEF Answered
<1> QED
  BY <1>2, <1>3, <1>4

LEMMA CrashDatagrams ==
  ASSUME TypeOK, DatagramsInv, NEW s \in Server, CrashRestart(s)
  PROVE  DatagramsInv'
<1>1. /\ UNCHANGED <<walk, copies, pc, op, socket, next, buffer>>
      /\ DOMAIN inbox'[s] = {}
      /\ \A t \in Server : t # s => inbox'[t] = inbox[t]
  BY CrashEffect
<1>2. \A t \in Server : \A j \in DOMAIN inbox'[t] :
        j \in DOMAIN inbox[t] /\ inbox'[t][j] = inbox[t][j]
  BY <1>1
<1>3. RequestsTrue'
  <2> SUFFICES ASSUME NEW t \in Server, NEW j \in DOMAIN inbox'[t]
               PROVE  RequestTrue(t, j)'
    BY <1>1 DEF RequestsTrue
  <2> QED
    <3>1. inbox[t][j].copy <= copies'
      BY <1>1, <1>2 DEF DatagramsInv, RequestsTrue, RequestTrue
    <3> QED
      BY <1>1, <1>2, <3>1, RequestMoves DEF DatagramsInv
<1>4. RepliesTrue'
  BY <1>1, RepliesTrueSame DEF DatagramsInv
<1>5. CopiesDiffer'
  BY <1>1, <1>2 DEF DatagramsInv, CopiesDiffer
<1>6. \A c \in Client, t \in Server :
        /\ Asked(c, t)' => Asked(c, t)
        /\ ToAsk(c, t)' = ToAsk(c, t)
        /\ Answered(c, t)' = Answered(c, t)
  BY CrashAsked
<1>7. \A t \in Server : \A j, k \in DOMAIN inbox'[t] :
         (/\ inbox'[t][j].copy = 0 /\ inbox'[t][k].copy = 0
          /\ inbox'[t][j].client = inbox'[t][k].client
          /\ inbox'[t][j].socket = inbox'[t][k].socket) => j = k
  BY <1>2 DEF DatagramsInv, AskedOnce
<1>8. \A c \in Client, t \in Server :
         ~(Asked(c, t)' /\ ToAsk(c, t)') /\ ~(Asked(c, t)' /\ Answered(c, t)')
           /\ ~(ToAsk(c, t)' /\ Answered(c, t)')
  BY <1>6 DEF DatagramsInv, AskedOnce
<1> QED
  BY <1>3, <1>4, <1>5, <1>7, <1>8 DEF DatagramsInv, AskedOnce

-----------------------------------------------------------------------------
(* Dumps in progress. *)

(* A dump stays true while its server does something else: its client has  *)
(* another socket now, or gets nothing from that server but copies, and    *)
(* asks it nothing more.                                                   *)
LEMMA DumpKept ==
  ASSUME TypeOK, copies' \in Nat, copies <= copies',
         NEW s \in Server, NEW p \in Dump, DumpTrue(s, p), socket'[p.client] \in Nat,
         \A t \in Server : \A i \in DOMAIN inbox'[t] :
           \/ inbox'[t][i].copy = 0 \/ inbox'[t][i].copy > copies
           \/ \E u \in Server : \E j \in DOMAIN inbox[u] : inbox[u][j].copy = inbox'[t][i].copy,
         \/ socket[p.client] < socket'[p.client]
         \/ /\ socket'[p.client] = socket[p.client] /\ op'[p.client] = op[p.client]
            /\ Asked(p.client, s)' => Asked(p.client, s) \/ (ToAsk(p.client, s) /\ ~ToAsk(p.client, s)')
            /\ ToAsk(p.client, s)' => ToAsk(p.client, s)
            /\ \A m \in buffer'[p.client] :
                 m \in buffer[p.client] \/ m.copy > copies \/ m.from # s
  PROVE  DumpTrue(s, p)'
<1>1. /\ p.client \in Client /\ p.socket \in Nat /\ p.copy \in Nat /\ p.sent \in Nat
      /\ copies \in Nat /\ socket[p.client] \in Nat
  BY StoreAssumption DEF Dump, TypeOK
<1>2. p.socket <= socket[p.client] /\ p.copy <= copies
  BY DEF DumpTrue
<1>3. p.socket <= socket'[p.client] /\ p.copy <= copies'
  BY <1>1, <1>2
<1>4. \A t \in Server : \A i \in DOMAIN inbox'[t] : inbox'[t][i].copy = p.copy => p.copy = 0
  BY <1>1, <1>2 DEF DumpTrue
<1>5. ASSUME p.socket = socket'[p.client]
      PROVE  /\ Datagram(op'[p.client]).type = "dump"
             /\ p.copy = 0 => ~Asked(p.client, s)' /\ ~ToAsk(p.client, s)'
             /\ \A m \in buffer'[p.client] : m.from = s /\ m.copy = p.copy => m.packet <= p.sent
  <2>1. /\ p.socket = socket[p.client] /\ op'[p.client] = op[p.client]
        /\ Asked(p.client, s)' => Asked(p.client, s) \/ (ToAsk(p.client, s) /\ ~ToAsk(p.client, s)')
        /\ ToAsk(p.client, s)' => ToAsk(p.client, s)
        /\ \A m \in buffer'[p.client] :
             m \in buffer[p.client] \/ m.copy > copies \/ m.from # s
    BY <1>1, <1>2, <1>5
  <2>2. Datagram(op'[p.client]).type = "dump"
    BY <2>1 DEF DumpTrue
  <2>3. p.copy = 0 => ~Asked(p.client, s)' /\ ~ToAsk(p.client, s)'
    BY <2>1 DEF DumpTrue
  <2>4. \A m \in buffer'[p.client] : m.from = s /\ m.copy = p.copy => m.packet <= p.sent
    <3>1. ~(p.copy > copies)
      BY <1>1, <1>2
    <3> QED
      BY <2>1, <3>1 DEF DumpTrue
  <2> QED
    BY <2>2, <2>3, <2>4
<1>6. Datagram(op[p.client])' = Datagram(op'[p.client])
  BY DEF Datagram, PutDatagram, GetDatagram
<1> QED
  BY <1>3, <1>4, <1>5, <1>6 DEF DumpTrue

(* The requests that are under way, when some leave and one may come. *)
LEMMA DumpsKept ==
  ASSUME TypeOK, DumpsTrue, copies' \in Nat, copies <= copies',
         \A t \in Server : dumping'[t] \subseteq dumping[t],
         \A c \in Client : socket'[c] \in Nat,
         \A t \in Server : \A i \in DOMAIN inbox'[t] :
           \/ inbox'[t][i].copy = 0 \/ inbox'[t][i].copy > copies
           \/ \E u \in Server : \E j \in DOMAIN inbox[u] : inbox[u][j].copy = inbox'[t][i].copy,
         \A c \in Client :
           \/ socket[c] < socket'[c]
           \/ /\ socket'[c] = socket[c] /\ op'[c] = op[c]
              /\ \A s \in Server :
                   /\ Asked(c, s)' => Asked(c, s) \/ (ToAsk(c, s) /\ ~ToAsk(c, s)')
                   /\ ToAsk(c, s)' => ToAsk(c, s)
              /\ \A m \in buffer'[c] : m \in buffer[c] \/ m.copy > copies
  PROVE  DumpsTrue'
<1> SUFFICES ASSUME NEW s \in Server, NEW p \in dumping'[s]
             PROVE  DumpTrue(s, p)'
  BY DEF DumpsTrue
<1>1. p \in Dump /\ DumpTrue(s, p)
  BY DEF DumpsTrue, TypeOK
<1>2. p.client \in Client
  BY <1>1 DEF Dump
<1>3. \/ socket[p.client] < socket'[p.client]
      \/ /\ socket'[p.client] = socket[p.client] /\ op'[p.client] = op[p.client]
         /\ Asked(p.client, s)' => Asked(p.client, s) \/ (ToAsk(p.client, s) /\ ~ToAsk(p.client, s)')
         /\ ToAsk(p.client, s)' => ToAsk(p.client, s)
         /\ \A m \in buffer'[p.client] :
              m \in buffer[p.client] \/ m.copy > copies \/ m.from # s
  BY <1>2
<1> QED
  BY <1>1, <1>2, <1>3, DumpKept

LEMMA OpenDumps ==
  ASSUME TypeOK, DumpsTrue, NEW c \in Client, PutStart(c) \/ GetStart(c) \/ Refused(c)
  PROVE  DumpsTrue'
<1>1. /\ UNCHANGED <<walk, inbox, dumping, copies>>
      /\ socket'[c] = socket[c] + 1 /\ socket[c] \in Nat
      /\ \A d \in Client : d # c =>
           /\ pc'[d] = pc[d] /\ op'[d] = op[d] /\ socket'[d] = socket[d]
           /\ next'[d] = next[d] /\ buffer'[d] = buffer[d]
  BY StartEffect, RefusedEffect
<1>2. \A d \in Client : socket[d] \in Nat /\ socket'[d] \in Nat
  <2>1. \A d \in Client : socket[d] \in Nat
    BY DEF TypeOK
  <2>2. socket'[c] \in Nat
    BY <1>1
  <2> QED
    BY <1>1, <2>1, <2>2
<1>3. copies \in Nat
  BY StoreAssumption DEF TypeOK
<1>4. \A d \in Client : d # c =>
        \A s \in Server : Asked(d, s)' = Asked(d, s) /\ ToAsk(d, s)' = ToAsk(d, s)
  BY <1>1, SameNodes DEF Asked, ToAsk
<1>5. \A d \in Client :
        \/ socket[d] < socket'[d]
        \/ /\ socket'[d] = socket[d] /\ op'[d] = op[d]
           /\ \A s \in Server :
                /\ Asked(d, s)' => Asked(d, s) \/ (ToAsk(d, s) /\ ~ToAsk(d, s)')
                /\ ToAsk(d, s)' => ToAsk(d, s)
           /\ \A m \in buffer'[d] : m \in buffer[d] \/ m.copy > copies
  BY <1>1, <1>2, <1>4
<1> QED
  BY <1>1, <1>2, <1>3, <1>5, DumpsKept

LEMMA ClientDumps ==
  ASSUME TypeOK, DumpsTrue, NEW c \in Client, Step(c) \/ CopyReply(c)
  PROVE  DumpsTrue'
<1>1. copies \in Nat /\ \A d \in Client : socket[d] \in Nat
  BY StoreAssumption DEF TypeOK
<1>2. UNCHANGED <<op, socket, dumping>>
  BY SendEffect, ReceiveEffect, CopyReplyEffect DEF Step
<1>3. copies' \in Nat /\ copies <= copies'
  BY <1>1, SendEffect, ReceiveEffect, CopyReplyEffect DEF Step
<1>4. \A d \in Client, s \in Server :
        /\ Asked(d, s)' => Asked(d, s) \/ (ToAsk(d, s) /\ ~ToAsk(d, s)')
        /\ ToAsk(d, s)' => ToAsk(d, s)
  BY SendAsked, ReceiveAsked, CopyReplyAsked DEF Step
<1>5. \A d \in Client : \A m \in buffer'[d] : m \in buffer[d] \/ m.copy > copies
  <2>1. CASE Send(c)
    BY <2>1, SendEffect
  <2>2. CASE RecvPut(c) \/ RecvGet(c) \/ Timeout(c)
    BY <2>2, ReceiveEffect
  <2>3. CASE CopyReply(c)
    BY <2>3, <1>1, CopyReplyEffect
  <2> QED
    BY <2>1, <2>2, <2>3 DEF Step
<1>6. \A t \in Server : \A i \in DOMAIN inbox'[t] :
        \/ inbox'[t][i].copy = 0
        \/ \E u \in Server : \E j \in DOMAIN inbox[u] : inbox[u][j].copy = inbox'[t][i].copy
  <2>1. CASE inbox' = inbox
    BY <2>1
  <2>2. CASE Send(c) /\ inbox' # inbox
    <3>1. PICK s \in Server, e \in Request :
            /\ e.copy = 0
            /\ inbox' = [inbox EXCEPT ![s] = Append(@, e)]
      <4>1. pc[c] # "idle"
        BY <2>2, SendEffect
      <4> QED
        BY <2>2, <4>1, SendEffect, SentFacts
    <3> QED
      BY <3>1, AppendEffect
  <2>3. Send(c) \/ inbox' = inbox
    BY ReceiveEffect, CopyReplyEffect DEF Step
  <2> QED
    BY <2>1, <2>2, <2>3
<1> QED
  BY <1>1, <1>2, <1>3, <1>4, <1>5, <1>6, DumpsKept

LEMMA NetworkDumps ==
  ASSUME TypeOK, DumpsTrue, NEW s \in Server, CopyRequest(s) \/ CrashRestart(s)
  PROVE  DumpsTrue'
<1>1. copies \in Nat /\ \A d \in Client : socket[d] \in Nat
  BY StoreAssumption DEF TypeOK
<1>2. /\ UNCHANGED <<op, socket, buffer>>
      /\ \A t \in Server : dumping'[t] \subseteq dumping[t]
      /\ copies' \in Nat /\ copies <= copies'
  BY <1>1, CopyRequestEffect, CrashEffect
<1>3. \A d \in Client, t \in Server :
        /\ Asked(d, t)' => Asked(d, t)
        /\ ToAsk(d, t)' => ToAsk(d, t)
  BY CopyRequestAsked, CrashAsked
<1>4. \A t \in Server : \A i \in DOMAIN inbox'[t] :
        \/ inbox'[t][i].copy > copies
        \/ \E u \in Server : \E j \in DOMAIN inbox[u] : inbox[u][j].copy = inbox'[t][i].copy
  <2>1. CASE CrashRestart(s)
    BY <2>1, CrashEffect
  <2>2. CASE CopyRequest(s)
    <3>1. PICK e \in Request :
            /\ inbox' = [inbox EXCEPT ![s] = Append(@, e)] /\ e.copy = copies + 1
      BY <2>2, CopyRequestEffect
    <3> QED
      BY <1>1, <3>1, AppendEffect
  <2> QED
    BY <2>1, <2>2
<1> QED
  BY <1>1, <1>2, <1>3, <1>4, DumpsKept

(* A dump that begins has its first datagram under way, or lost. *)
LEMMA HandleDumps ==
  ASSUME TypeOK, DatagramsInv, DumpsTrue, NEW s \in Server, Handle(s)
  PROVE  DumpsTrue'
<1>1. PICK i \in DOMAIN inbox[s] : HandleAt(s, i) /\ dumping[s] = {}
  BY HandleFacts
<1> PICK m : m = inbox[s][i]
  OBVIOUS
<1> PICK r : r = Replied(Answer(store[s], m), s, m.copy)
  OBVIOUS
<1>2. /\ m \in Request /\ r.from = s /\ r.copy = m.copy /\ r.packet = 1
      /\ \/ buffer' = buffer
         \/ /\ buffer'[m.client] = buffer[m.client] \cup {r}
            /\ \A c \in Client : c # m.client => buffer'[c] = buffer[c]
      /\ \A t \in Server : t # s => dumping'[t] = dumping[t]
      /\ \/ dumping' = dumping
         \/ /\ Answer(store[s], m).type = "dump"
            /\ dumping'[s] = {[client |-> m.client, socket |-> m.socket,
                               copy |-> m.copy, sent |-> 1]}
      /\ UNCHANGED <<walk, copies, pc, op, socket, next>>
  BY <1>1, HandleReplies
<1>3. m.client \in Client /\ m.copy \in Nat /\ m.socket \in Nat
  BY <1>2 DEF Request
<1>4. \A c \in Client : \A x \in buffer'[c] : x \in buffer[c] \/ (x = r /\ c = m.client)
  BY <1>2, <1>3
<1>5. \A d \in Client, t \in Server :
        /\ Asked(d, t)' => Asked(d, t)
        /\ ToAsk(d, t)' = ToAsk(d, t)
        /\ (/\ t = s /\ m.copy = 0 /\ m.client = d /\ m.socket = socket[d]) =>
             Asked(d, t) /\ ~Asked(d, t)'
  BY <1>1, HandleAsked
<1>6. \A t \in Server : \A j \in DOMAIN inbox'[t] :
        \E u \in Server : \E k \in DOMAIN inbox[u] :
          inbox[u][k].copy = inbox'[t][j].copy /\ (u = s => k # i)
  BY <1>1, HandleEffect
<1>7. copies \in Nat /\ \A d \in Client : socket[d] \in Nat
  BY StoreAssumption DEF TypeOK
<1>8. ASSUME NEW t \in Server, t # s, NEW p \in dumping'[t]
      PROVE  DumpTrue(t, p)'
  <2>1. p \in Dump /\ DumpTrue(t, p)
    BY <1>2, <1>8 DEF DumpsTrue, TypeOK
  <2>2. p.client \in Client
    BY <2>1 DEF Dump
  <2>3. \A x \in buffer'[p.client] : x \in buffer[p.client] \/ x.from # t
    BY <1>2, <1>4, <1>8, <2>2
  <2> QED
    BY <1>2, <1>5, <1>6, <1>7, <2>1, <2>2, <2>3, DumpKept
<1>9. ASSUME NEW p \in dumping'[s]
      PROVE  DumpTrue(s, p)'
  <2>1. /\ Answer(store[s], m).type = "dump"
        /\ p = [client |-> m.client, socket |-> m.socket, copy |-> m.copy, sent |-> 1]
    BY <1>1, <1>2, <1>9
  <2>2. p.client = m.client /\ p.socket = m.socket /\ p.copy = m.copy /\ p.sent = 1
    BY <2>1
  <2>3. m.type = "dump"
    BY <2>1 DEF Answer
  <2>4. /\ m.socket <= socket[m.client] /\ m.copy <= copies
        /\ m.socket = socket[m.client] => m.type = Datagram(op[m.client]).type
    BY DEF DatagramsInv, RequestsTrue, RequestTrue
  <2>5. \A t \in Server : \A j \in DOMAIN inbox'[t] : inbox'[t][j].copy = m.copy => m.copy = 0
    BY <1>6 DEF DatagramsInv, CopiesDiffer
  <2>6. ASSUME m.socket = socket[m.client]
        PROVE  /\ m.copy = 0 => ~Asked(m.client, s)' /\ ~ToAsk(m.client, s)'
               /\ \A x \in buffer'[m.client] : x.from = s /\ x.copy = m.copy => x.packet <= 1
    <3>1. m.copy = 0 => Asked(m.client, s) /\ ~Asked(m.client, s)'
      BY <1>3, <1>5, <2>6
    <3>2. m.copy = 0 => ~ToAsk(m.client, s) /\ ~Answered(m.client, s)
      BY <1>3, <3>1 DEF DatagramsInv, AskedOnce
    <3>3. \A x \in buffer[m.client] : ~(x.from = s /\ x.copy = m.copy)
      BY <1>3, <3>2 DEF Answered, DatagramsInv, CopiesDiffer
    <3> QED
      BY <1>2, <1>3, <1>4, <1>5, <3>1, <3>2, <3>3
  <2>7. Datagram(op[m.client])' = Datagram(op[m.client])
    BY <1>2 DEF Datagram, PutDatagram, GetDatagram
  <2> QED
    BY <1>2, <2>2, <2>3, <2>4, <2>5, <2>6, <2>7 DEF DumpTrue
<1> QED
  BY <1>8, <1>9 DEF DumpsTrue

(* The next datagram of a dump is one more of its server's. *)
LEMMA DumpPacketDatagrams ==
  ASSUME TypeOK, DatagramsInv, DumpsTrue, NEW s \in Server, DumpPacket(s)
  PROVE  DatagramsInv' /\ DumpsTrue'
<1>1. /\ UNCHANGED <<walk, store, inbox, crashes, copies, pc, op, socket, next,
                     acks, votes, missing, result>>
      /\ \A t \in Server : t # s => dumping'[t] = dumping[t]
  BY DumpPacketEffect
<1>2. PICK p \in dumping[s], r \in Reply :
        /\ p \in Dump
        /\ r.type = "dump" /\ r.from = s /\ r.copy = p.copy /\ r.packet = p.sent + 1
        /\ \A q \in dumping'[s] :
             /\ q \in Dump /\ q.client = p.client
             /\ q.socket = p.socket /\ q.copy = p.copy /\ q.sent = p.sent + 1
        /\ \A d \in Client : d # p.client => buffer'[d] = buffer[d]
        /\ \/ buffer' = buffer
           \/ /\ p.socket = socket[p.client] /\ pc[p.client] # "idle"
              /\ buffer'[p.client] = buffer[p.client] \cup {r}
  BY DumpPacketEffect
<1>3. p.client \in Client /\ p.copy \in Nat /\ p.sent \in Nat
  BY <1>2 DEF Dump
<1>4. DumpTrue(s, p)
  BY DEF DumpsTrue
<1>5. \A c \in Client : \A x \in buffer'[c] :
        x \in buffer[c] \/ (x = r /\ c = p.client /\ p.socket = socket[c])
  BY <1>2, <1>3
<1>6. \A c \in Client, t \in Server : Asked(c, t)' = Asked(c, t) /\ ToAsk(c, t)' = ToAsk(c, t)
  BY <1>1, SameNodes DEF Asked, ToAsk
<1>7. RequestsTrue'
  BY <1>1, RequestsTrueSame DEF DatagramsInv
<1>8. RepliesTrue'
  <2>1. \A c \in Client : IsFiniteSet(buffer'[c])
    BY <1>2, <1>3, FS_AddElement DEF DatagramsInv, RepliesTrue
  <2>2. \A c \in Client : \A x \in buffer'[c] :
          /\ x.copy <= copies
          /\ x.type = "value" => x.val \in Value
          /\ Datagram(op[c]).type = "read" => x.type \in {"missing", "value"}
    BY <1>2, <1>4, <1>5 DEF DumpTrue, DatagramsInv, RepliesTrue
  <2>3. \A c \in Client : Datagram(op[c])' = Datagram(op[c])
    BY <1>1 DEF Datagram, PutDatagram, GetDatagram
  <2> QED
    BY <1>1, <2>1, <2>2, <2>3 DEF RepliesTrue
<1>9. CopiesDiffer'
  <2>1. ASSUME NEW t \in Server, NEW c \in Client, NEW i \in DOMAIN inbox[t],
               NEW x \in buffer'[c], inbox[t][i].copy = x.copy
        PROVE  x.copy = 0
    <3>1. CASE x \in buffer[c]
      BY <2>1, <3>1 DEF DatagramsInv, CopiesDiffer
    <3>2. CASE x = r
      BY <2>1, <3>2, <1>2, <1>4 DEF DumpTrue
    <3> QED
      BY <3>1, <3>2, <1>5
  <2> QED
    BY <1>1, <2>1 DEF DatagramsInv, CopiesDiffer
<1>10. AskedOnce'
  <2>1. ASSUME NEW c \in Client, NEW t \in Server, Answered(c, t)', ~Answered(c, t)
        PROVE  ~Asked(c, t)' /\ ~ToAsk(c, t)'
    <3>1. PICK x \in buffer'[c] : x.copy = 0 /\ x.from = t
      BY <2>1 DEF Answered
    <3>2. x = r /\ c = p.client /\ p.socket = socket[c]
      BY <1>5, <2>1, <3>1 DEF Answered
    <3> QED
      BY <1>2, <1>4, <1>6, <3>1, <3>2 DEF DumpTrue
  <2>2. \A c \in Client, t \in Server :
          ~(Asked(c, t)' /\ ToAsk(c, t)') /\ ~(Asked(c, t)' /\ Answered(c, t)')
            /\ ~(ToAsk(c, t)' /\ Answered(c, t)')
    BY <1>6, <2>1 DEF DatagramsInv, AskedOnce
  <2> QED
    BY <1>1, <2>2 DEF DatagramsInv, AskedOnce
<1>11. copies \in Nat /\ \A d \in Client : socket[d] \in Nat
  BY StoreAssumption DEF TypeOK
<1>12. ASSUME NEW t \in Server, t # s, NEW q \in dumping'[t]
       PROVE  DumpTrue(t, q)'
  <2>1. q \in Dump /\ DumpTrue(t, q)
    BY <1>1, <1>12 DEF DumpsTrue, TypeOK
  <2>2. q.client \in Client
    BY <2>1 DEF Dump
  <2>3. \A x \in buffer'[q.client] : x \in buffer[q.client] \/ x.from # t
    BY <1>2, <1>5, <1>12, <2>2
  <2> QED
    BY <1>1, <1>6, <1>11, <2>1, <2>2, <2>3, DumpKept
<1>13. ASSUME NEW q \in dumping'[s]
       PROVE  DumpTrue(s, q)'
  <2>1. /\ q.client = p.client /\ q.socket = p.socket
        /\ q.copy = p.copy /\ q.sent = p.sent + 1
    BY <1>2
  <2>2. p.socket = socket[p.client] =>
          \A x \in buffer'[p.client] : x.from = s /\ x.copy = p.copy => x.packet <= p.sent + 1
    <3>1. \A x \in buffer[p.client] : x.packet \in Nat
      BY <1>3 DEF TypeOK, Reply
    <3> QED
      BY <1>2, <1>3, <1>4, <1>5, <3>1 DEF DumpTrue
  <2>3. Datagram(op[p.client])' = Datagram(op[p.client])
    BY <1>1 DEF Datagram, PutDatagram, GetDatagram
  <2> QED
    BY <1>1, <1>3, <1>4, <1>6, <2>1, <2>2, <2>3 DEF DumpTrue
<1> QED
  BY <1>7, <1>8, <1>9, <1>10, <1>12, <1>13 DEF DatagramsInv, DumpsTrue

-----------------------------------------------------------------------------
StoreInv == TypeOK /\ Phases /\ DatagramsInv /\ DumpsTrue

LEMMA InitStoreInv == Init => StoreInv
<1> SUFFICES ASSUME Init PROVE StoreInv
  OBVIOUS
<1>1. TypeOK
  BY InitTypes
<1>2. /\ \A c \in Client : /\ pc[c] = "idle" /\ op[c] = NoOp /\ buffer[c] = {}
      /\ \A s \in Server : inbox[s] = <<>> /\ DOMAIN inbox[s] = {} /\ dumping[s] = {}
  BY DEF Init
<1>3. Phases
  BY <1>2 DEF Phases, NoOp
<1>4. RequestsTrue /\ RepliesTrue
  BY <1>2, FS_EmptySet DEF RequestsTrue, RequestTrue, RepliesTrue
<1>5. CopiesDiffer /\ AskedOnce
  BY <1>2 DEF CopiesDiffer, AskedOnce, Asked, ToAsk, Answered
<1>6. DumpsTrue
  BY <1>2 DEF DumpsTrue
<1> QED
  BY <1>1, <1>3, <1>4, <1>5, <1>6 DEF StoreInv, DatagramsInv

LEMMA StepStoreInv ==
  ASSUME StoreInv, [Next]_vars
  PROVE  StoreInv'
<1>1. TypeOK /\ Phases /\ DatagramsInv /\ DumpsTrue
  BY DEF StoreInv
<1>2. TypeOK'
  BY <1>1, StepTypes
<1> SUFFICES Phases' /\ DatagramsInv' /\ DumpsTrue'
  BY <1>2 DEF StoreInv
<1>3. ASSUME NEW c \in Client, PutStart(c) \/ GetStart(c) \/ Refused(c)
      PROVE  Phases' /\ DatagramsInv' /\ DumpsTrue'
  BY <1>1, <1>3, PhasesStart, PhasesRefused, StartDatagrams, RefusedDatagrams, OpenDumps
<1>4. ASSUME NEW c \in Client, Step(c)
      PROVE  Phases' /\ DatagramsInv' /\ DumpsTrue'
  <2>1. Phases' /\ DatagramsInv'
    BY <1>1, <1>4, PhasesSend, SendDatagrams, PhasesReceive, ReceiveDatagrams DEF Step
  <2> QED
    BY <1>1, <1>4, <2>1, ClientDumps
<1>5. ASSUME NEW c \in Client, CopyReply(c)
      PROVE  Phases' /\ DatagramsInv' /\ DumpsTrue'
  BY <1>1, <1>5, PhasesCopyReply, CopyReplyDatagrams, ClientDumps
<1>6. ASSUME NEW s \in Server,
             Handle(s) \/ DumpPacket(s) \/ CopyRequest(s) \/ CrashRestart(s)
      PROVE  Phases' /\ DatagramsInv' /\ DumpsTrue'
  <2>1. Phases'
    BY <1>1, <1>6, PhasesServe
  <2>2. DatagramsInv' /\ DumpsTrue'
    BY <1>1, <1>6, HandleDatagrams, HandleDumps, DumpPacketDatagrams, CopyRequestDatagrams,
       CrashDatagrams, NetworkDumps
  <2> QED
    BY <2>1, <2>2
<1>7. CASE UNCHANGED vars
  <2>1. UNCHANGED <<walk, store, inbox, dumping, crashes, copies, pc, op, socket, next, buffer,
                    acks, votes, missing, result>>
    BY <1>7 DEF vars, serverVars, clientVars, tallyVars
  <2>2. Phases'
    BY <1>1, <2>1 DEF Phases, NoResult, NoVotes
  <2>3. RequestsTrue' /\ RepliesTrue'
    BY <1>1, <2>1, RequestsTrueSame, RepliesTrueSame DEF DatagramsInv
  <2>4. CopiesDiffer'
    BY <1>1, <2>1 DEF DatagramsInv, CopiesDiffer
  <2>5. AskedOnce'
    <3>1. \A c \in Client, s \in Server :
            /\ Asked(c, s)' = Asked(c, s)
            /\ ToAsk(c, s)' = ToAsk(c, s)
            /\ Answered(c, s)' = Answered(c, s)
      BY <2>1, SameNodes DEF Asked, ToAsk, Answered
    <3> QED
      BY <1>1, <2>1, <3>1 DEF DatagramsInv, AskedOnce
  <2>6. DumpsTrue'
    <3>1. \A c \in Client, s \in Server : Asked(c, s)' = Asked(c, s) /\ ToAsk(c, s)' = ToAsk(c, s)
      BY <2>1, SameNodes DEF Asked, ToAsk
    <3>2. copies \in Nat /\ \A c \in Client : socket[c] \in Nat
      BY <1>1, StoreAssumption DEF TypeOK
    <3> QED
      BY <1>1, <2>1, <3>1, <3>2, DumpsKept
  <2> QED
    BY <2>2, <2>3, <2>4, <2>5, <2>6 DEF DatagramsInv
<1> QED
  BY <1>3, <1>4, <1>5, <1>6, <1>7 DEF Next

(* Where the datagrams of the running operations are: a request says what  *)
(* its operation asks for, each server is asked at most once, and no two   *)
(* datagrams come of one copy (network_put, network_get, the receive loop).*)
THEOREM StoreInvariant == Spec => []StoreInv
<1>1. Init => StoreInv
  BY InitStoreInv
<1>2. StoreInv /\ [Next]_vars => StoreInv'
  BY StepStoreInv
<1> QED
  BY <1>1, <1>2, PTL DEF Spec

=============================================================================
