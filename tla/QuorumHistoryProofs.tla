------------------------ MODULE QuorumHistoryProofs ------------------------
(***************************************************************************)
(* Why puts and gets implement a regular register when quorums meet: for   *)
(* all servers, clients, keys, values, walks and lost datagrams.           *)
(***************************************************************************)
EXTENDS QuorumHistory, QuorumStoreProofs

Puts == [by : Client, n : Nat, val : Value]

(* c's running put, and the put a request makes. *)
Mine(c)   == [by |-> c, n |-> socket[c], val |-> op[c].val]
PutBy(m)  == [by |-> m.client, n |-> m.socket, val |-> m.val]
Putting(c, k) == pc[c] # "idle" /\ op[c].call = "put" /\ op[c].key = k

Writes(s, k)  == {i \in DOMAIN inbox[s] : inbox[s][i].type = "write" /\ inbox[s][i].key = k}
AskedBefore(c, s, i) ==
  \E j \in DOMAIN inbox[s] :
    j < i /\ inbox[s][j].client = c /\ inbox[s][j].socket = socket[c]

(* The code keeps neither who wrote what a server has (writer[s][k] has    *)
(* that put, or nothing) nor which replies an operation has counted        *)
(* (taken[c]): both are parameters here, and some value of them fits.      *)

(* The puts of k that s has or will be asked to make. *)
Contents(writer, s, k) == writer[s][k] \cup {PutBy(inbox[s][i]) : i \in Writes(s, k)}

Replies(taken, c) == buffer[c] \cup taken[c]
Senders(T) == {m.from : m \in T}

(* The puts of k that s has or will be asked to make once it has handled   *)
(* the request of c's operation.                                           *)
After(writer, taken, c, s, k) ==
  IF s \in Senders(Replies(taken, c))
  THEN Contents(writer, s, k)
  ELSE {PutBy(inbox[s][i]) : i \in {j \in Writes(s, k) : AskedBefore(c, s, j)}}

HistoriesOK(writer, taken) ==
  /\ live \in [Key -> SUBSET Puts]
  /\ hides \in [Client -> SUBSET Puts]
  /\ allowed \in [Client -> SUBSET Puts]
  /\ writer \in [Server -> [Key -> SUBSET Puts]]
  /\ taken \in [Client -> SUBSET Reply]
  /\ \A c \in Client :
       /\ pc[c] # "idle" => \E a \in Args : op[c].N = a.N /\ op[c].R = a.R /\ op[c].W = a.W
       /\ hides[c] # {} => pc[c] # "idle" /\ op[c].call = "put"
       /\ allowed[c] # {} => pc[c] # "idle" /\ op[c].call = "get"

(* Of a running put, and of the puts it hides. *)
PutsKnown ==
  /\ \A k \in Key : \A p \in live[k] : p.n <= socket[p.by]
  /\ \A c \in Client : \A p \in hides[c] : p.n <= socket[p.by] /\ Ended(p)
  /\ \A c \in Client, k \in Key : Putting(c, k) =>
       /\ Mine(c) \in live[k]
       /\ \A d \in Client : Reading(d, k) => Mine(c) \in allowed[d]

StoredBy(writer) ==
  \A s \in Server, k \in Key :
    /\ store[s][k] # NULL => writer[s][k] # {}
    /\ \A p \in writer[s][k] : p.val = store[s][k]

(* One reply of a server, and every vote is of another server. *)
Tally(taken) ==
  \A c \in Client : pc[c] # "idle" =>
    /\ \A m, n \in buffer[c] : m.from = n.from => m = n
    /\ \A m \in taken[c] :
         /\ m.from \notin Senders(buffer[c])
         /\ ~Asked(c, m.from) /\ ~ToAsk(c, m.from)
    /\ op[c].call = "put" => acks[c] <= Cardinality(Senders(taken[c]))
    /\ op[c].call = "get" => \A v \in Value \cup {Empty} :
         votes[c][v] <= Cardinality(Senders({m \in taken[c] : m.type = "value" /\ m.val = v}))

(* The servers that c's operation asks; no other answers it. *)
Asking(c) == Asks(walk[c], op[c].key, op[c])

OwnNodes(taken) ==
  \A c \in Client : pc[c] # "idle" =>
    /\ \A s \in Server : Asked(c, s) => s \in Asking(c)
    /\ \A m \in Replies(taken, c) : m.from \in Asking(c)

(* A set of servers that every get of k hears from. *)
ReadFrom(k, Q) ==
  \A w \in Walks, a \in Args : \A T \in SUBSET Asks(w, k, a) :
    Cardinality(T) >= a.R => Q \cap T # {}

(* Some such servers have only puts of k that are live. *)
LiveQuorum(writer) ==
  \A k \in Key : \E Q \in SUBSET Server :
    ReadFrom(k, Q) /\ \A s \in Q : Contents(writer, s, k) \subseteq live[k]

(* Where a put has been, the puts it hides do not come back. *)
HiddenGone(writer, taken) ==
  \A c \in Client, k \in Key, s \in Server :
    Putting(c, k) => After(writer, taken, c, s, k) \cap hides[c] = {}

Chained ==
  \A c, d \in Client, k \in Key : Putting(c, k) /\ Putting(d, k) =>
    hides[c] \cap live[k] \subseteq hides[d] \/ hides[d] \cap live[k] \subseteq hides[c]

(* A put that still hides something leaves only live puts behind it. *)
LiveAfter(writer, taken) ==
  \A c \in Client, k \in Key : Putting(c, k) =>
    \/ hides[c] \cap live[k] = {}
    \/ \A s \in Server : After(writer, taken, c, s, k) \subseteq live[k]

(* A get asks servers that have, and answered, only what it may return.  *)
AllowedQuorum(writer, taken) ==
  \A c \in Client, k \in Key : Reading(c, k) => \E Q \in SUBSET Server :
    /\ ReadFrom(k, Q)
    /\ \A s \in Q : Contents(writer, s, k) \subseteq allowed[c]
    /\ \A m \in Replies(taken, c) : (m.from \in Q /\ m.type = "value") =>
         \E p \in allowed[c] : p.val = m.val

QuorumsHold(writer, taken) ==
  /\ PutsKnown
  /\ LiveQuorum(writer)
  /\ HiddenGone(writer, taken)
  /\ Chained
  /\ LiveAfter(writer, taken)
  /\ AllowedQuorum(writer, taken)

Regular(writer, taken) ==
  /\ HistoriesOK(writer, taken)
  /\ StoredBy(writer)
  /\ Tally(taken)
  /\ OwnNodes(taken)
  /\ QuorumsHold(writer, taken)

-----------------------------------------------------------------------------
(* The calls of a register follow those of the table. *)
LEMMA CallOf ==
  ASSUME NEW c \in Client
  PROVE  /\ Call[c].busy <=> pc[c] # "idle"
         /\ Call[c].n = socket[c] /\ Call[c].what = op[c].call /\ Call[c].key = op[c].key
         /\ Call[c].val = op[c].val
         /\ Call'[c] = [busy |-> pc'[c] # "idle", n |-> socket'[c], what |-> op'[c].call,
                        key |-> op'[c].key, val |-> op'[c].val,
                        err |-> result'[c].err, got |-> result'[c].val]
<1>1. Call[c] = [busy |-> pc[c] # "idle", n |-> socket[c], what |-> op[c].call,
                 key |-> op[c].key, val |-> op[c].val,
                 err |-> result[c].err, got |-> result[c].val]
  BY DEF Call
<1>2. Call'[c] = [busy |-> pc'[c] # "idle", n |-> socket'[c], what |-> op'[c].call,
                  key |-> op'[c].key, val |-> op'[c].val,
                  err |-> result'[c].err, got |-> result'[c].val]
  BY DEF Call
<1>3. /\ Call[c].busy <=> pc[c] # "idle"
      /\ Call[c].n = socket[c] /\ Call[c].what = op[c].call /\ Call[c].key = op[c].key
      /\ Call[c].val = op[c].val
  <2> DEFINE b == pc[c] # "idle"
  <2>1. Call[c] = [busy |-> b, n |-> socket[c], what |-> op[c].call, key |-> op[c].key,
                   val |-> op[c].val, err |-> result[c].err, got |-> result[c].val]
    BY <1>1
  <2> HIDE DEF b
  <2>2. /\ Call[c].busy = b
        /\ Call[c].n = socket[c] /\ Call[c].what = op[c].call /\ Call[c].key = op[c].key
        /\ Call[c].val = op[c].val
    BY <2>1
  <2> QED
    BY <2>2, Zenon DEF b
<1> QED
  BY <1>2, <1>3

LEMMA CallStep ==
  ASSUME NEW c \in Client, NEW r,
         \A d \in Client : d # c =>
           /\ pc'[d] = pc[d] /\ socket'[d] = socket[d] /\ op'[d] = op[d]
           /\ result'[d] = result[d],
         Call'[c] = r
  PROVE  Call' = [Call EXCEPT ![c] = r]
<1>1. \A d \in Client : d # c => Call'[d] = Call[d]
  BY DEF Call
<1>2. /\ Call = [d \in Client |-> Call[d]]
      /\ Call' = [d \in Client |-> Call'[d]]
  BY Zenon DEF Call
<1> QED
  BY <1>1, <1>2

LEMMA InitRefines == HInit => Register!Init
<1> SUFFICES ASSUME HInit PROVE Register!Init
  OBVIOUS
<1>1. Call = [c \in Client |-> [busy |-> FALSE, n |-> 0, what |-> "none",
                               key |-> NULL, val |-> NULL, err |-> "none", got |-> NULL]]
  BY DEF HInit, Init, NoOp, NoResult, Call
<1> QED
  BY <1>1 DEF HInit, Register!Init

(* What an operation that starts is, and who else is left alone. *)
LEMMA StartsWith ==
  ASSUME TypeOK, NEW c \in Client, NEW call, NEW k, NEW v, NEW a,
         Start(c, call, k, v, a), PutStart(c) \/ GetStart(c)
  PROVE  /\ op'[c] = [call |-> call, key |-> k, val |-> v, N |-> a.N, R |-> a.R, W |-> a.W]
         /\ op'[c].call = call /\ op'[c].key = k /\ op'[c].val = v
         /\ pc[c] = "idle" /\ pc'[c] = "sending"
         /\ socket'[c] = socket[c] + 1 /\ socket[c] \in Nat
         /\ result'[c] = NoResult
         /\ \A d \in Client : d # c =>
              /\ pc'[d] = pc[d] /\ socket'[d] = socket[d] /\ op'[d] = op[d]
              /\ result'[d] = result[d]
<1>1. op \in [Client -> Op \cup {NoOp}]
  BY DEF TypeOK
<1>2. op'[c] = [call |-> call, key |-> k, val |-> v, N |-> a.N, R |-> a.R, W |-> a.W]
  BY <1>1 DEF Start, Open
<1> QED
  BY <1>2, StartEffect

LEMMA PutStartRefines ==
  ASSUME StoreInv, live \in [Key -> SUBSET Puts], NEW c \in Client, HPutStart(c)
  PROVE  Register!Next
<1>1. PICK k \in Key, v \in Value, a \in Args : Start(c, "put", k, v, a)
  BY DEF HPutStart, PutStart
<1>2. /\ TypeOK
      /\ op'[c].call = "put" /\ op'[c].key = k /\ op'[c].val = v
  BY <1>1, StartsWith DEF StoreInv, HPutStart
<1>3. /\ pc[c] = "idle" /\ pc'[c] = "sending" /\ socket'[c] = socket[c] + 1
      /\ result'[c] = NoResult
      /\ \A d \in Client : d # c =>
           /\ pc'[d] = pc[d] /\ socket'[d] = socket[d] /\ op'[d] = op[d]
           /\ result'[d] = result[d]
  BY <1>1, StartsWith DEF StoreInv, HPutStart
<1>4. Call'[c] = [busy |-> TRUE, n |-> Call[c].n + 1, what |-> "put", key |-> k, val |-> v,
                  err |-> "none", got |-> NULL]
  <2>1. /\ op'[c].call = "put" /\ op'[c].key = k /\ op'[c].val = v
        /\ result'[c].err = "none" /\ result'[c].val = NULL
        /\ socket'[c] = Call[c].n + 1
    <3>1. Call[c].n = socket[c]
      BY CallOf
    <3> QED
      BY <1>2, <1>3, <3>1 DEF NoResult
  <2>2. Call'[c] = [busy |-> pc'[c] # "idle", n |-> socket'[c], what |-> op'[c].call,
                    key |-> op'[c].key, val |-> op'[c].val,
                    err |-> result'[c].err, got |-> result'[c].val]
    BY CallOf
  <2>3. (pc'[c] # "idle") = TRUE
    BY <1>3
  <2> QED
    BY <2>1, <2>2, <2>3, Zenon
<1>5. Register!Begin(c, "put", k, v)
  <2>1. Call' = [Call EXCEPT ![c] = Call'[c]]
    BY <1>3, CallStep
  <2>2. ~Call[c].busy
    BY <1>3, CallOf
  <2>3. [Call EXCEPT ![c] = Call'[c]]
        = [Call EXCEPT ![c] = [busy |-> TRUE, n |-> Call[c].n + 1, what |-> "put", key |-> k,
                               val |-> v, err |-> "none", got |-> NULL]]
    BY <1>4
  <2>4. Call'[c].busy
    BY <1>4
  <2> QED
    BY <2>1, <2>2, <2>3, <2>4 DEF Register!Begin
<1>6. /\ PutOf(c, v) = Register!Put(c, v)
      /\ \A d \in Client : Reading(d, k) = Register!Running(d, "get", k)
  BY CallOf DEF PutOf, Register!Put, Reading, Register!Running
<1>7. {q \in live[k] : Ended(q)} = {q \in live[k] : Register!Ended(q)}
  <2>1. \A q \in live[k] : q.by \in Client
    BY DEF Puts
  <2>2. \A q \in live[k] : Ended(q) = Register!Ended(q)
    BY <2>1, CallOf DEF Ended, Register!Ended
  <2> QED
    BY <2>2
<1>8. /\ live' = [live EXCEPT ![k] = @ \cup {PutOf(c, v)}]
      /\ hides' = [hides EXCEPT ![c] = {q \in live[k] : Ended(q)}]
      /\ allowed' = [d \in Client |-> IF Reading(d, k)
                                      THEN allowed[d] \cup {PutOf(c, v)} ELSE allowed[d]]
  BY <1>2 DEF HPutStart
<1>9. /\ live' = [live EXCEPT ![k] = @ \cup {Register!Put(c, v)}]
      /\ hides' = [hides EXCEPT ![c] = {q \in live[k] : Register!Ended(q)}]
      /\ allowed' = [d \in Client |-> IF Register!Running(d, "get", k)
                                      THEN allowed[d] \cup {Register!Put(c, v)} ELSE allowed[d]]
  BY <1>6, <1>7, <1>8, Zenon
<1>10. Register!BeginPut(c, k, v)
  BY <1>5, <1>9 DEF Register!BeginPut
<1> QED
  BY <1>10 DEF Register!Next

LEMMA GetStartRefines ==
  ASSUME StoreInv, NEW c \in Client, HGetStart(c)
  PROVE  Register!Next
<1>1. PICK k \in Key, a \in Args : Start(c, "get", k, NULL, a)
  BY DEF HGetStart, GetStart
<1>2. /\ TypeOK
      /\ op'[c].call = "get" /\ op'[c].key = k /\ op'[c].val = NULL
  BY <1>1, StartsWith DEF StoreInv, HGetStart
<1>3. /\ pc[c] = "idle" /\ pc'[c] = "sending" /\ socket'[c] = socket[c] + 1
      /\ result'[c] = NoResult
      /\ \A d \in Client : d # c =>
           /\ pc'[d] = pc[d] /\ socket'[d] = socket[d] /\ op'[d] = op[d]
           /\ result'[d] = result[d]
  BY <1>1, StartsWith DEF StoreInv, HGetStart
<1>4. Call'[c] = [busy |-> TRUE, n |-> Call[c].n + 1, what |-> "get", key |-> k, val |-> NULL,
                  err |-> "none", got |-> NULL]
  <2>1. /\ op'[c].call = "get" /\ op'[c].key = k /\ op'[c].val = NULL
        /\ result'[c].err = "none" /\ result'[c].val = NULL
        /\ socket'[c] = Call[c].n + 1
    <3>1. Call[c].n = socket[c]
      BY CallOf
    <3> QED
      BY <1>2, <1>3, <3>1 DEF NoResult
  <2>2. Call'[c] = [busy |-> pc'[c] # "idle", n |-> socket'[c], what |-> op'[c].call,
                    key |-> op'[c].key, val |-> op'[c].val,
                    err |-> result'[c].err, got |-> result'[c].val]
    BY CallOf
  <2>3. (pc'[c] # "idle") = TRUE
    BY <1>3
  <2> QED
    BY <2>1, <2>2, <2>3, Zenon
<1>5. Register!Begin(c, "get", k, NULL)
  <2>1. Call' = [Call EXCEPT ![c] = Call'[c]]
    BY <1>3, CallStep
  <2>2. ~Call[c].busy
    BY <1>3, CallOf
  <2>3. [Call EXCEPT ![c] = Call'[c]]
        = [Call EXCEPT ![c] = [busy |-> TRUE, n |-> Call[c].n + 1, what |-> "get", key |-> k,
                               val |-> NULL, err |-> "none", got |-> NULL]]
    BY <1>4
  <2>4. Call'[c].busy
    BY <1>4
  <2> QED
    BY <2>1, <2>2, <2>3, <2>4 DEF Register!Begin
<1>6. Register!BeginGet(c, k)
  BY <1>2, <1>5 DEF Register!BeginGet, HGetStart
<1> QED
  BY <1>6 DEF Register!Next

(* A return of the table is a return of the register, provided a get has   *)
(* a value it may return.                                                  *)
LEMMA ReturnRefines ==
  ASSUME TypeOK, NEW c \in Client, NEW err, NEW v, pc[c] = "receiving",
         Return(c, err, v), HReturn(c),
         op[c].call = "put" => v = NULL /\ err \in {"ERR_NONE", "ERR_NETWORK"}
                               /\ allowed[c] = {},
         op[c].call = "get" =>
           /\ \/ err = "ERR_NONE" /\ \E p \in allowed[c] : p.val = v
              \/ err \in {"ERR_NETWORK", "ERR_NOT_FOUND"} /\ v = NULL
           /\ hides[c] = {},
         hides \in [Client -> SUBSET Puts], allowed \in [Client -> SUBSET Puts]
  PROVE  Register!Next
<1>1. op[c].call \in {"put", "get"}
  BY NodesFacts DEF Op
<1>2. /\ pc'[c] = "idle" /\ socket'[c] = socket[c] /\ op'[c] = op[c]
      /\ result'[c] = [err |-> err, val |-> v]
      /\ \A d \in Client : d # c =>
           /\ pc'[d] = pc[d] /\ socket'[d] = socket[d] /\ op'[d] = op[d]
           /\ result'[d] = result[d]
  BY DEF Return, TypeOK
<1>3. Register!End(c, err, v)
  <2> DEFINE r == [busy |-> FALSE, n |-> Call[c].n, what |-> Call[c].what, key |-> Call[c].key,
                   val |-> Call[c].val, err |-> err, got |-> v]
  <2>1. Call'[c] = r
    <3>1. (pc'[c] # "idle") = FALSE
      BY <1>2
    <3>2. Call'[c] = [busy |-> pc'[c] # "idle", n |-> socket'[c], what |-> op'[c].call,
                      key |-> op'[c].key, val |-> op'[c].val,
                      err |-> result'[c].err, got |-> result'[c].val]
      BY CallOf
    <3>3. result'[c].err = err /\ result'[c].val = v
      BY <1>2
    <3>4. /\ Call[c].n = socket[c] /\ Call[c].what = op[c].call /\ Call[c].key = op[c].key
          /\ Call[c].val = op[c].val
      BY CallOf
    <3> QED
      BY <1>2, <3>1, <3>2, <3>3, <3>4, Zenon
  <2>2. Call' = [Call EXCEPT ![c] = r]
    BY <1>2, <2>1, CallStep
  <2>3. Call[c].busy
    BY CallOf
  <2>4. ~Call'[c].busy
    BY <2>1
  <2> QED
    BY <2>2, <2>3, <2>4 DEF Register!End
<1>4. Call[c].what = op[c].call /\ Call[c].key = op[c].key
  BY CallOf
<1>5. result'[c].err = err
  BY <1>2
<1>6. CASE op[c].call = "put"
  <2>1. allowed' = allowed /\ hides' = [hides EXCEPT ![c] = {}]
    BY <1>6 DEF HReturn
  <2>2. live' = IF err = "ERR_NONE" THEN [live EXCEPT ![Call[c].key] = @ \ hides[c]] ELSE live
    BY <1>4, <1>5, <1>6 DEF HReturn
  <2>3. Register!EndPut(c)
    BY <1>3, <1>4, <1>6, <2>1, <2>2 DEF Register!EndPut
  <2> QED
    BY <2>3 DEF Register!Next
<1>7. CASE op[c].call = "get"
  <2>1. live' = live /\ hides' = hides /\ allowed' = [allowed EXCEPT ![c] = {}]
    BY <1>7 DEF HReturn
  <2>2. Register!EndGet(c)
    BY <1>3, <1>4, <1>7, <2>1 DEF Register!EndGet
  <2> QED
    BY <2>2 DEF Register!Next
<1> QED
  BY <1>1, <1>6, <1>7

(* The other steps change nothing a register shows. *)
LEMMA QuietRefines ==
  ASSUME UNCHANGED <<op, socket, result, history>>,
         \A c \in Client : pc'[c] = "idle" <=> pc[c] = "idle"
  PROVE  UNCHANGED Register!vars
<1>1. ASSUME NEW c \in Client
      PROVE  Call'[c] = Call[c]
  <2>1. (pc'[c] # "idle") = (pc[c] # "idle")
    OBVIOUS
  <2>2. /\ Call[c] = [busy |-> pc[c] # "idle", n |-> socket[c], what |-> op[c].call,
                      key |-> op[c].key, val |-> op[c].val,
                      err |-> result[c].err, got |-> result[c].val]
        /\ Call'[c] = [busy |-> pc'[c] # "idle", n |-> socket'[c], what |-> op'[c].call,
                       key |-> op'[c].key, val |-> op'[c].val,
                       err |-> result'[c].err, got |-> result'[c].val]
    BY DEF Call
  <2>3. op' = op /\ socket' = socket /\ result' = result
    OBVIOUS
  <2> QED
    BY <2>1, <2>2, <2>3, Zenon
<1>2. Call' = Call
  <2>1. /\ Call = [d \in Client |-> Call[d]]
        /\ Call' = [d \in Client |-> Call'[d]]
    BY Zenon DEF Call
  <2> QED
    BY <1>1, <2>1
<1> QED
  BY <1>2 DEF Register!vars, history

-----------------------------------------------------------------------------
(* How what a server has and will have of a key grows. *)

LEMMA ContentsMembers ==
  ASSUME NEW writer, NEW s, NEW k, NEW p
  PROVE  p \in Contents(writer, s, k) <=>
           \/ p \in writer[s][k]
           \/ \E i \in DOMAIN inbox[s] :
                /\ inbox[s][i].type = "write" /\ inbox[s][i].key = k
                /\ p = PutBy(inbox[s][i])
  BY DEF Contents, Writes

LEMMA AfterMembers ==
  ASSUME NEW writer, NEW taken, NEW c, NEW s, NEW k, NEW p
  PROVE  p \in After(writer, taken, c, s, k) <=>
           IF s \in Senders(Replies(taken, c))
           THEN p \in Contents(writer, s, k)
           ELSE \E i \in DOMAIN inbox[s] :
                  /\ inbox[s][i].type = "write" /\ inbox[s][i].key = k
                  /\ AskedBefore(c, s, i)
                  /\ p = PutBy(inbox[s][i])
  BY DEF After, Writes

(* The request a running put of a key sends, and of a get. *)
LEMMA SameAfter ==
  ASSUME NEW writer, NEW taken, NEW counted, NEW d, NEW s, NEW k,
         inbox' = inbox, socket'[d] = socket[d],
         Senders(Replies(counted, d))' = Senders(Replies(taken, d))
  PROVE  After(writer, counted, d, s, k)' = After(writer, taken, d, s, k)
<1>1. Contents(writer, s, k)' = Contents(writer, s, k)
  BY DEF Contents, Writes
<1>2. {j \in Writes(s, k)' : AskedBefore(d, s, j)'} = {j \in Writes(s, k) : AskedBefore(d, s, j)}
  BY DEF Writes, AskedBefore
<1>3. {PutBy(inbox'[s][i]) : i \in {j \in Writes(s, k)' : AskedBefore(d, s, j)'}}
      = {PutBy(inbox[s][i]) : i \in {j \in Writes(s, k) : AskedBefore(d, s, j)}}
  BY <1>2, Zenon
<1>4. CASE s \in Senders(Replies(taken, d))
  BY <1>1, <1>4 DEF After
<1>5. CASE s \notin Senders(Replies(taken, d))
  BY <1>3, <1>5 DEF After, PutBy
<1> QED
  BY <1>4, <1>5

(* What the request of a running operation asks for. *)
LEMMA RequestOf ==
  ASSUME StoreInv, NEW c \in Client, pc[c] # "idle", Empty \notin Key
  PROVE  /\ op[c] \in Op /\ op[c].key \in Key
         /\ Datagram(op[c]).key = op[c].key
         /\ op[c].call = "put" =>
              Datagram(op[c]).type = "write" /\ Datagram(op[c]).val = op[c].val
         /\ op[c].call = "get" => Datagram(op[c]).type = "read"
<1>1. op[c] \in Op
  BY NodesFacts DEF StoreInv
<1>2. op[c].key \in Key /\ op[c].key # Empty /\ op[c].call \in {"put", "get"}
  BY <1>1 DEF Op
<1> QED
  BY <1>1, <1>2 DEF Datagram, PutDatagram, GetDatagram

(* A request that a server has is the running operation's. *)
LEMMA PendingOf ==
  ASSUME StoreInv, NEW s \in Server, NEW i \in DOMAIN inbox[s], NEW c \in Client,
         inbox[s][i].client = c, inbox[s][i].socket = socket[c], pc[c] # "idle",
         Empty \notin Key
  PROVE  /\ inbox[s][i].key = op[c].key
         /\ op[c].call = "put" => inbox[s][i].type = "write" /\ PutBy(inbox[s][i]) = Mine(c)
         /\ op[c].call = "get" => inbox[s][i].type = "read"
<1>1. /\ inbox[s][i].type = Datagram(op[c]).type
      /\ inbox[s][i].key = Datagram(op[c]).key
      /\ inbox[s][i].val = Datagram(op[c]).val
  BY DEF StoreInv, DatagramsInv, RequestsTrue, RequestTrue
<1> QED
  BY <1>1, RequestOf DEF PutBy, Mine

(* A request that is sent is the last the server will handle. *)
LEMMA SendGrows ==
  ASSUME StoreInv, Empty \notin Key, NEW c \in Client, Send(c),
         NEW writer, NEW taken, NEW s \in Server, NEW k \in Key
  PROVE  /\ \A p \in Contents(writer, s, k)' :
              p \in Contents(writer, s, k) \/ (Putting(c, k) /\ p = Mine(c))
         /\ \A d \in Client : \A p \in After(writer, taken, d, s, k)' :
              p \in After(writer, taken, d, s, k) \/ (Putting(c, k) /\ p = Mine(c))
<1> DEFINE e == Sent(Datagram(op[c]), c)
<1>1. /\ TypeOK /\ pc[c] = "sending"
      /\ UNCHANGED <<op, socket, buffer>>
      /\ \/ inbox' = inbox
         \/ /\ Nodes(c)[next[c]] \in Server
            /\ inbox' = [inbox EXCEPT ![Nodes(c)[next[c]]] = Append(@, e)]
  BY SendEffect DEF StoreInv
<1>2. e \in Request /\ e.client = c /\ e.socket = socket[c]
  BY <1>1, SentFacts
<1>3. /\ e.type = Datagram(op[c]).type /\ e.key = Datagram(op[c]).key
      /\ e.val = Datagram(op[c]).val
  BY DEF Sent
<1>4. /\ e.key = op[c].key /\ op[c].call \in {"put", "get"}
      /\ op[c].call = "put" => PutBy(e) = Mine(c)
      /\ op[c].call = "get" => e.type = "read"
  <2>1. op[c].call \in {"put", "get"}
    BY <1>1, RequestOf DEF Op
  <2> QED
    BY <1>1, <1>2, <1>3, <2>1, RequestOf DEF PutBy, Mine
<1>5. (e.type = "write" /\ e.key = k) => Putting(c, k) /\ PutBy(e) = Mine(c)
  BY <1>1, <1>4 DEF Putting
<1> HIDE DEF e
<1>6. CASE inbox' = inbox
  <2>1. Contents(writer, s, k)' = Contents(writer, s, k)
    BY <1>6 DEF Contents, Writes
  <2>2. \A d \in Client : After(writer, taken, d, s, k)' = After(writer, taken, d, s, k)
    BY <1>1, <1>6, <2>1 DEF After, Writes, AskedBefore, Senders, Replies
  <2> QED
    BY <2>1, <2>2
<1>7. CASE /\ Nodes(c)[next[c]] \in Server
           /\ inbox' = [inbox EXCEPT ![Nodes(c)[next[c]]] = Append(@, e)]
  <2>1. PICK t \in Server : inbox' = [inbox EXCEPT ![t] = Append(@, e)]
    BY <1>7
  <2>2. \A j \in DOMAIN inbox'[s] :
          \/ j \in DOMAIN inbox[s] /\ inbox'[s][j] = inbox[s][j]
          \/ s = t /\ j = Len(inbox[s]) + 1 /\ inbox'[s][j] = e
    BY <1>1, <1>2, <2>1, AppendEffect
  <2>3. ASSUME NEW p \in Contents(writer, s, k)'
        PROVE  p \in Contents(writer, s, k) \/ (Putting(c, k) /\ p = Mine(c))
    <3>1. \/ p \in writer[s][k]
          \/ \E i \in DOMAIN inbox'[s] :
               /\ inbox'[s][i].type = "write" /\ inbox'[s][i].key = k
               /\ p = PutBy(inbox'[s][i])
      BY <2>3 DEF Contents, Writes, PutBy
    <3> QED
      BY <1>5, <2>2, <3>1, ContentsMembers
  <2>4. ASSUME NEW d \in Client, NEW p \in After(writer, taken, d, s, k)'
        PROVE  p \in After(writer, taken, d, s, k) \/ (Putting(c, k) /\ p = Mine(c))
    <3>1. Senders(Replies(taken, d))' = Senders(Replies(taken, d))
      BY <1>1 DEF Senders, Replies
    <3>2. CASE s \in Senders(Replies(taken, d))
      BY <2>3, <2>4, <3>1, <3>2 DEF After
    <3>3. CASE s \notin Senders(Replies(taken, d))
      <4>1. PICK i \in DOMAIN inbox'[s] :
              /\ inbox'[s][i].type = "write" /\ inbox'[s][i].key = k
              /\ AskedBefore(d, s, i)' /\ p = PutBy(inbox'[s][i])
        BY <2>4, <3>1, <3>3 DEF After, Writes, PutBy
      <4>2. CASE i \in DOMAIN inbox[s] /\ inbox'[s][i] = inbox[s][i]
        <5>1. PICK j \in DOMAIN inbox'[s] :
                j < i /\ inbox'[s][j].client = d /\ inbox'[s][j].socket = socket[d]
          BY <1>1, <4>1 DEF AskedBefore
        <5>2. i \in Nat /\ i <= Len(inbox[s]) /\ Len(inbox[s]) \in Nat
          BY <1>1, <4>2 DEF TypeOK
        <5>3. j \in DOMAIN inbox[s] /\ inbox'[s][j] = inbox[s][j]
          BY <2>2, <5>1, <5>2
        <5>4. AskedBefore(d, s, i)
          BY <5>1, <5>3 DEF AskedBefore
        <5> QED
          BY <3>3, <4>1, <4>2, <5>4, AfterMembers
      <4>3. CASE inbox'[s][i] = e
        BY <1>5, <4>1, <4>3
      <4> QED
        BY <2>2, <4>2, <4>3
    <3> QED
      BY <3>2, <3>3
  <2> QED
    BY <2>3, <2>4
<1> QED
  BY <1>1, <1>6, <1>7

(* What a server has after it has handled its first datagram.  The put of  *)
(* a client comes to stand before all that the server was asked later.     *)
WriterAfter(writer, s, m) ==
  IF m.type = "write" THEN [writer EXCEPT ![s][m.key] = {PutBy(m)}] ELSE writer

(* Handling a datagram takes the puts of others away from what a server     *)
(* has, and adds none but the put of the datagram's own client.             *)
GrowsBy(writer, taken, written, s, k) ==
  /\ \A p \in Contents(written, s, k)' : p \in Contents(writer, s, k)
  /\ \A d \in Client : Putting(d, k) =>
       \A p \in After(written, taken, d, s, k)' :
         p \in After(writer, taken, d, s, k) \/ p = Mine(d)

(* The same with names for the datagram and the reply. *)
LEMMA HandleAnswers ==
  ASSUME TypeOK, NEW s \in Server, NEW i \in DOMAIN inbox[s], HandleAt(s, i),
         NEW m, m = inbox[s][i], NEW r, r = Replied(Answer(store[s], m), s, m.copy)
  PROVE  /\ r \in Reply /\ r.from = s
         /\ r.type = Answer(store[s], m).type /\ r.val = Answer(store[s], m).val
         /\ \/ buffer' = buffer
            \/ /\ m.socket = socket[m.client] /\ pc[m.client] # "idle"
               /\ buffer'[m.client] = buffer[m.client] \cup {r}
               /\ \A c \in Client : c # m.client => buffer'[c] = buffer[c]
         /\ UNCHANGED <<pc, op, socket, acks, votes>>
<1> DEFINE d == inbox[s][i]
           a == Replied(Answer(store[s], d), s, d.copy)
<1>1. /\ a \in Reply /\ a.from = s
      /\ a.type = Answer(store[s], d).type /\ a.val = Answer(store[s], d).val
      /\ \/ buffer' = buffer
         \/ /\ d.socket = socket[d.client] /\ pc[d.client] # "idle"
            /\ buffer'[d.client] = buffer[d.client] \cup {a}
            /\ \A c \in Client : c # d.client => buffer'[c] = buffer[c]
      /\ UNCHANGED <<pc, op, socket, acks, votes>>
  BY HandleReplies
<1>2. m = d /\ r = a
  OBVIOUS
<1> HIDE DEF d, a
<1> QED
  BY <1>1, <1>2

LEMMA HandleGrows ==
  ASSUME StoreInv, Empty \notin Key, NEW t \in Server, 1 \in DOMAIN inbox[t], HandleAt(t, 1),
         NEW writer \in [Server -> [Key -> SUBSET Puts]], NEW taken,
         NEW written, written = WriterAfter(writer, t, inbox[t][1]),
         NEW s \in Server, NEW k \in Key
  PROVE  GrowsBy(writer, taken, written, s, k)
<1> DEFINE m == inbox[t][1]
<1>1. TypeOK /\ m \in Request /\ m.key \in Key /\ m.client \in Client
  BY RequestType DEF StoreInv
<1>2. /\ \A j \in DOMAIN inbox'[s] :
           LET o == IF s = t /\ j >= 1 THEN j + 1 ELSE j
           IN  o \in DOMAIN inbox[s] /\ inbox'[s][j] = inbox[s][o]
      /\ \A j \in DOMAIN inbox'[s] : j \in Nat /\ j >= 1
  <2>1. \A j \in DOMAIN inbox'[s] :
           LET o == IF s = t /\ j >= 1 THEN j + 1 ELSE j
           IN  o \in DOMAIN inbox[s] /\ inbox'[s][j] = inbox[s][o]
    BY <1>1, HandleEffect
  <2>2. inbox'[s] \in Seq(Request)
    <3>1. inbox' = [inbox EXCEPT ![t] = Without(@, 1)] /\ inbox[t] \in Seq(Request)
          /\ inbox[s] \in Seq(Request)
      BY <1>1 DEF HandleAt, TypeOK
    <3>2. Without(inbox[t], 1) \in Seq(Request)
      BY <3>1, WithoutFacts
    <3> QED
      BY <1>1, <3>1, <3>2 DEF TypeOK
  <2> QED
    BY <2>1, <2>2
<1>3. /\ s = t => \A j \in DOMAIN inbox'[s] :
                    j + 1 \in DOMAIN inbox[s] /\ inbox'[s][j] = inbox[s][j + 1]
      /\ s # t => \A j \in DOMAIN inbox'[s] :
                    j \in DOMAIN inbox[s] /\ inbox'[s][j] = inbox[s][j]
  BY <1>2
<1>4. /\ s = t /\ m.type = "write" /\ m.key = k => written[s][k] = {PutBy(m)}
      /\ ~(s = t /\ m.type = "write" /\ m.key = k) => written[s][k] = writer[s][k]
  BY <1>1 DEF WriterAfter
<1> HIDE DEF m
<1>5. ASSUME NEW p \in Contents(written, s, k)'
      PROVE  p \in Contents(writer, s, k)
  <2>1. \/ p \in written[s][k]
        \/ \E i \in DOMAIN inbox'[s] :
             /\ inbox'[s][i].type = "write" /\ inbox'[s][i].key = k
             /\ p = PutBy(inbox'[s][i])
    BY <1>5 DEF Contents, Writes, PutBy
  <2>2. CASE p \in written[s][k]
    <3>1. CASE s = t /\ m.type = "write" /\ m.key = k
      BY <1>4, <2>2, <3>1, ContentsMembers DEF m
    <3>2. CASE ~(s = t /\ m.type = "write" /\ m.key = k)
      BY <1>4, <2>2, <3>2, ContentsMembers
    <3> QED
      BY <3>1, <3>2
  <2>3. CASE \E i \in DOMAIN inbox'[s] :
               /\ inbox'[s][i].type = "write" /\ inbox'[s][i].key = k
               /\ p = PutBy(inbox'[s][i])
    BY <1>3, <2>3, ContentsMembers
  <2> QED
    BY <2>1, <2>2, <2>3
<1>6. ASSUME NEW d \in Client, Putting(d, k), NEW p \in After(written, taken, d, s, k)'
      PROVE  p \in After(writer, taken, d, s, k) \/ p = Mine(d)
  <2> DEFINE r == Replied(Answer(store[t], m), t, m.copy)
  <2>1. /\ r.from = t
        /\ \/ buffer' = buffer
           \/ /\ m.socket = socket[m.client] /\ pc[m.client] # "idle"
              /\ buffer'[m.client] = buffer[m.client] \cup {r}
              /\ \A c \in Client : c # m.client => buffer'[c] = buffer[c]
        /\ socket' = socket /\ pc' = pc /\ op' = op
    BY <1>1, HandleReplies DEF m
  <2> HIDE DEF r
  <2>2. \A x \in Senders(Replies(taken, d)) : x \in Senders(Replies(taken, d))'
    BY <2>1 DEF Senders, Replies
  <2>3. s \in Senders(Replies(taken, d))' /\ s \notin Senders(Replies(taken, d)) =>
          s = t /\ m.client = d /\ m.socket = socket[d]
    BY <2>1 DEF Senders, Replies
  <2>4. CASE s \in Senders(Replies(taken, d))
    BY <1>5, <1>6, <2>2, <2>4 DEF After
  <2>5. CASE s \notin Senders(Replies(taken, d)) /\ s \in Senders(Replies(taken, d))'
    <3>1. /\ s = t /\ m.client = d /\ m.socket = socket[d]
          /\ pc[d] # "idle" /\ op[d].call = "put" /\ op[d].key = k
      BY <1>6, <2>3, <2>5 DEF Putting
    <3>2. m.key = k /\ m.type = "write" /\ PutBy(m) = Mine(d)
      BY <3>1, PendingOf DEF m
    <3>3. p \in Contents(written, s, k)'
      BY <1>6, <2>5 DEF After
    <3>4. \/ p \in written[s][k]
          \/ \E i \in DOMAIN inbox'[s] :
               /\ inbox'[s][i].type = "write" /\ inbox'[s][i].key = k
               /\ p = PutBy(inbox'[s][i])
      BY <3>3 DEF Contents, Writes, PutBy
    <3>5. CASE p \in written[s][k]
      BY <1>4, <3>1, <3>2, <3>5
    <3>6. CASE \E i \in DOMAIN inbox'[s] :
                 /\ inbox'[s][i].type = "write" /\ inbox'[s][i].key = k
                 /\ p = PutBy(inbox'[s][i])
      <4>1. PICK i \in DOMAIN inbox'[s] :
              /\ inbox'[s][i].type = "write" /\ inbox'[s][i].key = k
              /\ p = PutBy(inbox'[s][i])
        BY <3>6
      <4>2. i + 1 \in DOMAIN inbox[s] /\ inbox'[s][i] = inbox[s][i + 1] /\ 1 < i + 1
        BY <1>2, <1>3, <3>1
      <4>3. AskedBefore(d, s, i + 1)
        BY <3>1, <4>2 DEF AskedBefore, m
      <4> QED
        BY <2>5, <4>1, <4>2, <4>3, AfterMembers
    <3> QED
      BY <3>4, <3>5, <3>6
  <2>6. CASE s \notin Senders(Replies(taken, d))'
    <3>1. PICK i \in DOMAIN inbox'[s] :
            /\ inbox'[s][i].type = "write" /\ inbox'[s][i].key = k
            /\ AskedBefore(d, s, i)' /\ p = PutBy(inbox'[s][i])
      BY <1>6, <2>6 DEF After, Writes, PutBy
    <3>2. PICK j \in DOMAIN inbox'[s] :
            j < i /\ inbox'[s][j].client = d /\ inbox'[s][j].socket = socket[d]
      BY <2>1, <3>1 DEF AskedBefore
    <3>3. PICK a \in DOMAIN inbox[s], b \in DOMAIN inbox[s] :
            a < b /\ inbox'[s][j] = inbox[s][a] /\ inbox'[s][i] = inbox[s][b]
      <4>1. CASE s = t
        <5>1. j + 1 < i + 1
          BY <1>2, <3>2
        <5> QED
          BY <1>3, <4>1, <5>1
      <4>2. CASE s # t
        BY <1>3, <3>2, <4>2
      <4> QED
        BY <4>1, <4>2
    <3>4. AskedBefore(d, s, b)
      BY <3>2, <3>3 DEF AskedBefore
    <3>5. s \notin Senders(Replies(taken, d))
      BY <2>2, <2>6
    <3> QED
      BY <3>1, <3>3, <3>4, <3>5, AfterMembers
  <2> QED
    BY <2>4, <2>5, <2>6
<1> QED
  BY <1>5, <1>6 DEF GrowsBy

-----------------------------------------------------------------------------
(* A step that starts and ends no operation: what a server has or will     *)
(* have grows at most by the running puts, and what a get hears is what    *)
(* its servers have.                                                       *)
QuietGrowth(writer, taken, written, counted) ==
  /\ UNCHANGED <<op, socket, history>>
  /\ \A c \in Client : pc'[c] = "idle" <=> pc[c] = "idle"
  /\ \A s \in Server, k \in Key : \A p \in Contents(written, s, k)' :
       p \in Contents(writer, s, k) \/ \E d \in Client : Putting(d, k) /\ p = Mine(d)
  /\ \A c \in Client, k \in Key, s \in Server : Putting(c, k) =>
       \A p \in After(written, counted, c, s, k)' :
         \/ p \in After(writer, taken, c, s, k)
         \/ \E d \in Client : Putting(d, k) /\ p = Mine(d)
  /\ \A c \in Client, k \in Key : Reading(c, k) =>
       \A m \in Replies(counted, c)' :
         \/ m \in Replies(taken, c)
         \/ m.type = "value" => \E p \in Contents(writer, m.from, k) : p.val = m.val

LEMMA QuietKeeps ==
  ASSUME NEW writer, NEW taken, NEW written, NEW counted,
         QuorumsHold(writer, taken), hides \in [Client -> SUBSET Puts],
         QuietGrowth(writer, taken, written, counted)
  PROVE  QuorumsHold(written, counted)'
<1>a. /\ PutsKnown /\ LiveQuorum(writer) /\ HiddenGone(writer, taken) /\ Chained
      /\ LiveAfter(writer, taken) /\ AllowedQuorum(writer, taken)
  BY DEF QuorumsHold
<1>b. /\ UNCHANGED <<op, socket, history>>
      /\ \A c \in Client : pc'[c] = "idle" <=> pc[c] = "idle"
      /\ \A s \in Server, k \in Key : \A p \in Contents(written, s, k)' :
           p \in Contents(writer, s, k) \/ \E d \in Client : Putting(d, k) /\ p = Mine(d)
      /\ \A c \in Client, k \in Key, s \in Server : Putting(c, k) =>
           \A p \in After(written, counted, c, s, k)' :
             \/ p \in After(writer, taken, c, s, k)
             \/ \E d \in Client : Putting(d, k) /\ p = Mine(d)
      /\ \A c \in Client, k \in Key : Reading(c, k) =>
           \A m \in Replies(counted, c)' :
             \/ m \in Replies(taken, c)
             \/ m.type = "value" => \E p \in Contents(writer, m.from, k) : p.val = m.val
  BY DEF QuietGrowth
<1> USE <1>a, <1>b
<1>1. /\ live' = live /\ hides' = hides /\ allowed' = allowed
      /\ \A c \in Client, k \in Key :
           /\ Putting(c, k)' <=> Putting(c, k)
           /\ Reading(c, k)' <=> Reading(c, k)
      /\ \A c \in Client : Mine(c)' = Mine(c)
  BY DEF history, Putting, Reading, Mine
<1>2. PutsKnown'
  <2>1. \A c \in Client : \A p \in hides[c] : Ended(p) => Ended(p)'
    <3> SUFFICES ASSUME NEW c \in Client, NEW p \in hides[c], Ended(p)
                 PROVE  socket'[p.by] # p.n \/ pc'[p.by] = "idle"
      BY DEF Ended
    <3>1. p.by \in Client
      BY DEF Puts
    <3> QED
      BY <3>1 DEF Ended
  <2> QED
    BY <1>1, <2>1 DEF PutsKnown
<1>3. LiveQuorum(written)'
  <2> SUFFICES ASSUME NEW k \in Key
               PROVE  \E Q \in SUBSET Server :
                        ReadFrom(k, Q) /\ \A s \in Q : Contents(written, s, k)' \subseteq live[k]
    BY <1>1 DEF LiveQuorum, ReadFrom
  <2>1. PICK Q \in SUBSET Server :
          ReadFrom(k, Q) /\ \A s \in Q : Contents(writer, s, k) \subseteq live[k]
    BY DEF LiveQuorum
  <2> QED
    BY <2>1 DEF PutsKnown
<1>4. HiddenGone(written, counted)'
  <2> SUFFICES ASSUME NEW c \in Client, NEW k \in Key, NEW s \in Server, Putting(c, k),
                      NEW p \in After(written, counted, c, s, k)', p \in hides[c]
               PROVE  FALSE
    BY <1>1 DEF HiddenGone
  <2>1. p \notin After(writer, taken, c, s, k)
    BY DEF HiddenGone
  <2>2. PICK d \in Client : Putting(d, k) /\ p = Mine(d)
    BY <2>1
  <2>3. Ended(p)
    BY DEF PutsKnown
  <2> QED
    BY <2>2, <2>3 DEF Ended, Mine, Putting
<1>5. Chained'
  BY <1>1 DEF Chained
<1>6. LiveAfter(written, counted)'
  <2> SUFFICES ASSUME NEW c \in Client, NEW k \in Key, Putting(c, k),
                      hides[c] \cap live[k] # {}, NEW s \in Server,
                      NEW p \in After(written, counted, c, s, k)'
               PROVE  p \in live[k]
    BY <1>1 DEF LiveAfter
  <2>1. After(writer, taken, c, s, k) \subseteq live[k]
    BY DEF LiveAfter
  <2> QED
    BY <2>1 DEF PutsKnown
<1>7. AllowedQuorum(written, counted)'
  <2>0. \A k, Q : ReadFrom(k, Q)' <=> ReadFrom(k, Q)
    BY DEF ReadFrom
  <2> SUFFICES ASSUME NEW c \in Client, NEW k \in Key, Reading(c, k)
               PROVE  \E Q \in SUBSET Server :
                        /\ ReadFrom(k, Q)
                        /\ \A s \in Q : Contents(written, s, k)' \subseteq allowed[c]
                        /\ \A m \in Replies(counted, c)' : (m.from \in Q /\ m.type = "value") =>
                             \E p \in allowed[c] : p.val = m.val
    BY <1>1, <2>0 DEF AllowedQuorum
  <2>1. PICK Q \in SUBSET Server :
          /\ ReadFrom(k, Q)
          /\ \A s \in Q : Contents(writer, s, k) \subseteq allowed[c]
          /\ \A m \in Replies(taken, c) : (m.from \in Q /\ m.type = "value") =>
               \E p \in allowed[c] : p.val = m.val
    BY DEF AllowedQuorum
  <2>2. \A s \in Q : Contents(written, s, k)' \subseteq allowed[c]
    BY <2>1 DEF PutsKnown
  <2>3. ASSUME NEW m \in Replies(counted, c)', m.from \in Q, m.type = "value"
        PROVE  \E p \in allowed[c] : p.val = m.val
    <3>1. CASE m \in Replies(taken, c)
      BY <2>1, <2>3, <3>1
    <3>2. CASE \E p \in Contents(writer, m.from, k) : p.val = m.val
      BY <2>1, <2>3, <3>2
    <3> QED
      BY <2>3, <3>1, <3>2
  <2> QED
    BY <2>1, <2>2, <2>3
<1> QED
  BY <1>2, <1>3, <1>4, <1>5, <1>6, <1>7 DEF QuorumsHold

(* The operations and the stores, when both histories stay as they are. *)
LEMMA QuietHistories ==
  ASSUME NEW writer \in [Server -> [Key -> SUBSET Puts]],
         NEW taken \in [Client -> SUBSET Reply],
         NEW written \in [Server -> [Key -> SUBSET Puts]],
         NEW counted \in [Client -> SUBSET Reply],
         HistoriesOK(writer, taken), UNCHANGED <<op, history>>,
         \A c \in Client : pc'[c] = "idle" <=> pc[c] = "idle"
  PROVE  HistoriesOK(written, counted)'
  BY DEF HistoriesOK, history

LEMMA AsksFacts ==
  ASSUME NEW w \in Walks, NEW k \in Key, NEW a
  PROVE  Asks(w, k, a) \in SUBSET Server
<1>1. w[k] \in [1 .. Cardinality(Server) -> Server]
  BY StoreAssumption
<1> QED
  BY <1>1 DEF Asks

LEMMA AskingNodes ==
  ASSUME TypeOK, NEW c \in Client, pc[c] # "idle"
  PROVE  \A i \in 1 .. Len(Nodes(c)) : Nodes(c)[i] \in Asking(c)
<1> DEFINE w == walk[c][op[c].key]
           n == Cardinality(Server)
           l == IF op[c].N <= Len(w) THEN op[c].N ELSE Len(w)
<1>1. op[c].key \in Key /\ op[c].N \in Nat /\ walk[c] \in Walks /\ n \in Nat
  BY StoreAssumption, FS_CardinalityType, NodesFacts DEF Op, TypeOK
<1>2. w \in [1 .. n -> Server]
  BY <1>1, StoreAssumption
<1> HIDE DEF w
<1>3. w \in Seq(Server) /\ Len(w) = n /\ DOMAIN w = 1 .. n
  BY <1>1, <1>2
<1>4. l \in Nat /\ l <= n /\ l <= op[c].N
  BY <1>1, <1>3
<1> HIDE DEF l, n
<1>5. Len(SubSeq(w, 1, l)) = l /\ \A i \in 1 .. l : SubSeq(w, 1, l)[i] = w[i]
  BY <1>1, <1>3, <1>4
<1>6. \A i \in 1 .. l : i \in DOMAIN w \cap 1 .. op[c].N
  BY <1>1, <1>3, <1>4
<1>7. Nodes(c) = SubSeq(w, 1, l)
  BY DEF Nodes, w, l
<1>8. Asking(c) = {w[i] : i \in DOMAIN w \cap 1 .. op[c].N}
  BY DEF Asking, Asks, w
<1> QED
  BY <1>5, <1>6, <1>7, <1>8

LEMMA OwnNodesKept ==
  ASSUME NEW taken, NEW counted, OwnNodes(taken), UNCHANGED walk,
         \A d \in Client : pc'[d] # "idle" =>
           /\ pc[d] # "idle" /\ op'[d] = op[d]
           /\ \A s \in Server : Asked(d, s)' => Asked(d, s) \/ s \in Asking(d)
           /\ \A m \in Replies(counted, d)' : m \in Replies(taken, d) \/ m.from \in Asking(d)
  PROVE  OwnNodes(counted)'
<1> SUFFICES ASSUME NEW d \in Client, pc'[d] # "idle"
             PROVE  /\ \A s \in Server : Asked(d, s)' => s \in Asking(d)'
                    /\ \A m \in Replies(counted, d)' : m.from \in Asking(d)'
  BY DEF OwnNodes
<1>1. Asking(d)' = Asking(d)
  BY DEF Asking
<1> QED
  BY <1>1 DEF OwnNodes

LEMMA SendKeeps ==
  ASSUME StoreInv, Empty \notin Key, NEW c \in Client, Send(c), UNCHANGED history,
         NEW writer, NEW taken, Regular(writer, taken)
  PROVE  Regular(writer, taken)'
<1>1. /\ TypeOK
      /\ UNCHANGED <<store, op, socket, buffer, acks, votes>>
      /\ \A d \in Client : pc'[d] = "idle" <=> pc[d] = "idle"
  BY SendEffect DEF StoreInv, tallyVars
<1>2. /\ writer \in [Server -> [Key -> SUBSET Puts]] /\ taken \in [Client -> SUBSET Reply]
      /\ hides \in [Client -> SUBSET Puts]
  BY DEF Regular, HistoriesOK
<1>3. HistoriesOK(writer, taken)'
  BY <1>1, <1>2, QuietHistories DEF Regular
<1>4. StoredBy(writer)'
  BY <1>1 DEF Regular, StoredBy
<1>5. Tally(taken)'
  <2>1. ASSUME NEW d \in Client, NEW s \in Server, ~Asked(d, s), ~ToAsk(d, s)
        PROVE  ~Asked(d, s)' /\ ~ToAsk(d, s)'
    BY <1>1, <2>1, SendAsked
  <2>2. \A d \in Client : \A m \in taken[d] : m.from \in Server
    BY <1>2 DEF Reply
  <2> SUFFICES ASSUME NEW d \in Client, pc[d] # "idle"
               PROVE  /\ \A m, n \in buffer[d] : m.from = n.from => m = n
                      /\ \A m \in taken[d] :
                           /\ m.from \notin Senders(buffer[d])
                           /\ ~Asked(d, m.from)' /\ ~ToAsk(d, m.from)'
                      /\ op[d].call = "put" => acks[d] <= Cardinality(Senders(taken[d]))
                      /\ op[d].call = "get" => \A v \in Value \cup {Empty} :
                           votes[d][v] <= Cardinality(Senders({m \in taken[d] : m.type = "value" /\ m.val = v}))
    BY <1>1 DEF Tally, Senders
  <2> QED
    BY <2>1, <2>2 DEF Regular, Tally
<1>6. \A d \in Client, k \in Key : Reading(d, k) =>
        \A m \in Replies(taken, d)' :
          \/ m \in Replies(taken, d)
          \/ m.type = "value" => \E p \in Contents(writer, m.from, k) : p.val = m.val
  BY <1>1 DEF Replies
<1>7. \A s \in Server, k \in Key : \A p \in Contents(writer, s, k)' :
        p \in Contents(writer, s, k) \/ \E d \in Client : Putting(d, k) /\ p = Mine(d)
  BY SendGrows
<1>8. \A d \in Client, k \in Key, s \in Server : Putting(d, k) =>
        \A p \in After(writer, taken, d, s, k)' :
          \/ p \in After(writer, taken, d, s, k)
          \/ \E e \in Client : Putting(e, k) /\ p = Mine(e)
  BY SendGrows
<1>9. QuietGrowth(writer, taken, writer, taken)
  <2>1. UNCHANGED <<op, socket, history>> /\ \A d \in Client : pc'[d] = "idle" <=> pc[d] = "idle"
    BY <1>1
  <2> QED
    BY <1>6, <1>7, <1>8, <2>1, Zenon DEF QuietGrowth
<1>10. QuorumsHold(writer, taken)'
  BY <1>2, <1>9, QuietKeeps DEF Regular
<1>11. OwnNodes(taken)'
  <2>1. UNCHANGED walk
    BY SendEffect, <1>1
  <2>2. \A d \in Client : Replies(taken, d)' = Replies(taken, d)
    BY <1>1 DEF Replies
  <2>3. ASSUME NEW d \in Client, pc[d] # "idle", NEW s \in Server, ToAsk(d, s)
        PROVE  s \in Asking(d)
    <3>1. PICK i \in next[d] .. Len(Nodes(d)) : Nodes(d)[i] = s
      BY <2>3 DEF ToAsk
    <3>2. i \in 1 .. Len(Nodes(d))
      BY <1>1, <2>3, <3>1, NodesFacts DEF TypeOK
    <3> QED
      BY <1>1, <2>3, <3>1, <3>2, AskingNodes
  <2>4. \A d \in Client, s \in Server : Asked(d, s)' => Asked(d, s) \/ ToAsk(d, s)
    BY <1>1, SendAsked
  <2>5. OwnNodes(taken)
    BY DEF Regular
  <2> QED
    BY <1>1, <2>1, <2>2, <2>3, <2>4, <2>5, OwnNodesKept
<1> QED
  BY <1>3, <1>4, <1>5, <1>10, <1>11 DEF Regular

LEMMA HandleKeeps ==
  ASSUME StoreInv, QuorumsMeet, NEW t \in Server, Handle(t), UNCHANGED history,
         NEW writer, NEW taken, Regular(writer, taken)
  PROVE  \E written : Regular(written, taken)'
<1>1. TypeOK /\ DatagramsInv /\ InOrder /\ Empty \notin Key
  BY DEF StoreInv, QuorumsMeet
<1>2. 1 \in DOMAIN inbox[t] /\ HandleAt(t, 1)
  <2>1. PICK i \in DOMAIN inbox[t] : HandleAt(t, i) /\ i = 1
    BY <1>1, HandleFacts
  <2> QED
    BY <2>1
<1> DEFINE m == inbox[t][1]
           r == Replied(Answer(store[t], m), t, m.copy)
<1>3. /\ m \in Request /\ m.key \in Key /\ m.client \in Client /\ m.socket \in Nat
      /\ m.type = "write" => m.val \in Value
  BY <1>1, <1>2, RequestType DEF DatagramsInv, RequestsTrue, RequestTrue
<1>4. /\ r \in Reply /\ r.from = t
      /\ r.type = Answer(store[t], m).type /\ r.val = Answer(store[t], m).val
      /\ \/ buffer' = buffer
         \/ /\ m.socket = socket[m.client] /\ pc[m.client] # "idle"
            /\ buffer'[m.client] = buffer[m.client] \cup {r}
            /\ \A c \in Client : c # m.client => buffer'[c] = buffer[c]
      /\ UNCHANGED <<pc, op, socket, acks, votes>>
  BY <1>1, <1>2, HandleAnswers
<1>5. r.type = "value" => m.type = "read" /\ r.val = store[t][m.key] /\ r.val # NULL
  <2>1. Answer(store[t], m).type = "value" =>
          /\ m.type = "read" /\ Answer(store[t], m).val \in Value
          /\ Answer(store[t], m).val = store[t][m.key]
    BY <1>1, <1>3, AnswerFacts
  <2>2. NULL \notin Value
    BY StoreAssumption
  <2> HIDE DEF m, r
  <2> QED
    BY <1>4, <2>1, <2>2
<1>6. store' = IF m.type = "write" THEN [store EXCEPT ![t][m.key] = m.val] ELSE store
  BY <1>2 DEF HandleAt
<1>7. /\ writer \in [Server -> [Key -> SUBSET Puts]] /\ taken \in [Client -> SUBSET Reply]
      /\ hides \in [Client -> SUBSET Puts]
      /\ HistoriesOK(writer, taken) /\ StoredBy(writer) /\ Tally(taken)
      /\ QuorumsHold(writer, taken)
  BY DEF Regular, HistoriesOK
<1>8. m.type = "write" => PutBy(m) \in Puts
  BY <1>3 DEF PutBy, Puts
<1>9. PICK written : written = WriterAfter(writer, t, m)
  OBVIOUS
<1>10. written \in [Server -> [Key -> SUBSET Puts]]
  BY <1>3, <1>7, <1>8, <1>9 DEF WriterAfter
<1>11. HistoriesOK(written, taken)'
  BY <1>4, <1>7, <1>10, QuietHistories
<1>12. ASSUME NEW c \in Client, NEW s \in Server
       PROVE  /\ Asked(c, s)' => Asked(c, s)
              /\ ToAsk(c, s)' = ToAsk(c, s)
              /\ (s = t /\ m.client = c /\ m.socket = socket[c]) =>
                   Asked(c, s) /\ ~Asked(c, s)'
  <2>1. m.copy = 0
    <3>1. m.copy <= copies /\ copies \in 0 .. MaxCopies /\ MaxCopies = 0 /\ m.copy \in Nat
      BY <1>1, <1>2, RequestType DEF DatagramsInv, RequestsTrue, RequestTrue, TypeOK, QuorumsMeet
    <3> QED
      BY <3>1
  <2> HIDE DEF r
  <2> QED
    BY <1>1, <1>2, <2>1, HandleAsked
<1> HIDE DEF m, r
<1>13. StoredBy(written)'
  <2> SUFFICES ASSUME NEW s \in Server, NEW k \in Key
               PROVE  /\ store'[s][k] # NULL => written[s][k] # {}
                      /\ \A p \in written[s][k] : p.val = store'[s][k]
    BY DEF StoredBy
  <2>1. CASE s = t /\ m.type = "write" /\ m.key = k
    <3>1. store'[s][k] = m.val /\ written[s][k] = {PutBy(m)}
      BY <1>1, <1>6, <1>7, <1>9, <2>1 DEF WriterAfter, TypeOK
    <3> QED
      BY <3>1 DEF PutBy
  <2>2. CASE ~(s = t /\ m.type = "write" /\ m.key = k)
    <3>1. store'[s][k] = store[s][k] /\ written[s][k] = writer[s][k]
      BY <1>1, <1>3, <1>6, <1>7, <1>9, <2>2 DEF WriterAfter, TypeOK
    <3> QED
      BY <1>7, <3>1 DEF StoredBy
  <2> QED
    BY <2>1, <2>2
<1>14. Tally(taken)'
  <2> SUFFICES ASSUME NEW c \in Client, pc[c] # "idle"
               PROVE  /\ \A a, b \in buffer'[c] : a.from = b.from => a = b
                      /\ \A a \in taken[c] :
                           /\ \A b \in buffer'[c] : a.from # b.from
                           /\ ~Asked(c, a.from)' /\ ~ToAsk(c, a.from)'
                      /\ op[c].call = "put" => acks[c] <= Cardinality(Senders(taken[c]))
                      /\ op[c].call = "get" => \A v \in Value \cup {Empty} :
                           votes[c][v] <= Cardinality(Senders({a \in taken[c] : a.type = "value" /\ a.val = v}))
    BY <1>4 DEF Tally, Senders
  <2>1. /\ \A a, b \in buffer[c] : a.from = b.from => a = b
        /\ \A a \in taken[c] :
             /\ \A b \in buffer[c] : a.from # b.from
             /\ ~Asked(c, a.from) /\ ~ToAsk(c, a.from)
        /\ op[c].call = "put" => acks[c] <= Cardinality(Senders(taken[c]))
        /\ op[c].call = "get" => \A v \in Value \cup {Empty} :
             votes[c][v] <= Cardinality(Senders({a \in taken[c] : a.type = "value" /\ a.val = v}))
    <3>1. \A a \in taken[c] : a.from \notin Senders(buffer[c])
      BY <1>7 DEF Tally
    <3>2. \A a \in taken[c] : \A b \in buffer[c] : a.from # b.from
      BY <3>1 DEF Senders
    <3> QED
      BY <1>7, <3>2 DEF Tally
  <2>2. \A a \in taken[c] : a.from \in Server /\ ~Asked(c, a.from)' /\ ~ToAsk(c, a.from)'
    BY <1>7, <1>12, <2>1 DEF Reply
  <2>3. CASE buffer'[c] = buffer[c]
    BY <2>1, <2>2, <2>3
  <2>4. CASE /\ m.client = c /\ m.socket = socket[c]
             /\ buffer'[c] = buffer[c] \cup {r}
    <3>1. Asked(c, t)
      BY <1>12, <2>4
    <3>2. \A a \in taken[c] : a.from # t
      BY <2>1, <3>1
    <3>3. ~Answered(c, t)
      BY <1>1, <3>1 DEF DatagramsInv, AskedOnce
    <3>4. \A a \in buffer[c] : a.from # t
      <4>1. \A a \in buffer[c] : a.copy <= copies /\ a.copy \in Nat
        BY <1>1 DEF DatagramsInv, RepliesTrue, TypeOK, Reply
      <4>2. copies = 0
        BY <1>1, StoreAssumption DEF TypeOK, QuorumsMeet
      <4>3. \A a \in buffer[c] : a.copy = 0
        BY <4>1, <4>2
      <4> QED
        BY <3>3, <4>3 DEF Answered
    <3> QED
      BY <1>4, <2>1, <2>2, <2>4, <3>2, <3>4
  <2> QED
    BY <1>4, <2>3, <2>4
<1>15. ASSUME NEW s \in Server, NEW k \in Key
       PROVE  GrowsBy(writer, taken, written, s, k)
  <2>1. Empty \notin Key /\ 1 \in DOMAIN inbox[t] /\ HandleAt(t, 1)
    BY <1>1, <1>2
  <2>2. writer \in [Server -> [Key -> SUBSET Puts]]
    BY <1>7
  <2>3. written = WriterAfter(writer, t, inbox[t][1])
    BY <1>9 DEF m
  <2> HIDE DEF m, r
  <2> QED
    BY <2>1, <2>2, <2>3, HandleGrows
<1>16. /\ \A s \in Server, k \in Key : \A p \in Contents(written, s, k)' :
            \/ p \in Contents(writer, s, k)
            \/ \E d \in Client : Putting(d, k) /\ p = Mine(d)
       /\ \A c \in Client, k \in Key, s \in Server : Putting(c, k) =>
            \A p \in After(written, taken, c, s, k)' :
              \/ p \in After(writer, taken, c, s, k)
              \/ \E d \in Client : Putting(d, k) /\ p = Mine(d)
  BY <1>15 DEF GrowsBy
<1>17. ASSUME NEW c \in Client, NEW k \in Key, Reading(c, k), NEW a \in Replies(taken, c)'
       PROVE  \/ a \in Replies(taken, c)
              \/ a.type = "value" => \E p \in Contents(writer, a.from, k) : p.val = a.val
  <2> SUFFICES ASSUME a \notin Replies(taken, c), a.type = "value"
               PROVE  \E p \in Contents(writer, a.from, k) : p.val = a.val
    OBVIOUS
  <2>1. a = r /\ m.client = c /\ m.socket = socket[c]
    BY <1>4, <1>17 DEF Replies
  <2>2. m.key = k
    BY <1>1, <1>2, <1>17, <2>1, PendingOf DEF m, Reading
  <2>3. a.from = t /\ a.val = store[t][k] /\ store[t][k] # NULL
    BY <1>4, <1>5, <2>1, <2>2
  <2>4. PICK p \in writer[t][k] : p.val = store[t][k]
    BY <1>7, <2>3 DEF StoredBy
  <2> QED
    BY <2>3, <2>4, ContentsMembers
<1>18. QuietGrowth(writer, taken, written, taken)
  <2>1. UNCHANGED <<op, socket, history>> /\ \A d \in Client : pc'[d] = "idle" <=> pc[d] = "idle"
    BY <1>4
  <2>2. \A c \in Client, k \in Key : Reading(c, k) =>
          \A a \in Replies(taken, c)' :
            \/ a \in Replies(taken, c)
            \/ a.type = "value" => \E p \in Contents(writer, a.from, k) : p.val = a.val
    BY <1>17
  <2> QED
    BY <1>16, <2>1, <2>2, Zenon DEF QuietGrowth
<1>19. QuorumsHold(written, taken)'
  BY <1>7, <1>18, QuietKeeps
<1>20. OwnNodes(taken)'
  <2>1. OwnNodes(taken) /\ UNCHANGED walk
    BY DEF Regular, Handle
  <2>2. ASSUME NEW c \in Client, pc[c] # "idle", NEW a \in Replies(taken, c)',
               a \notin Replies(taken, c)
        PROVE  a.from \in Asking(c)
    <3>1. a = r /\ m.client = c /\ m.socket = socket[c]
      BY <1>4, <2>2 DEF Replies
    <3>2. Asked(c, t)
      BY <1>12, <3>1
    <3> QED
      BY <1>4, <2>1, <2>2, <3>1, <3>2 DEF OwnNodes
  <2> QED
    BY <1>4, <1>12, <2>1, <2>2, OwnNodesKept
<1> QED
  BY <1>11, <1>13, <1>14, <1>19, <1>20 DEF Regular

-----------------------------------------------------------------------------
(* The receive loops: an operation counts one reply, or it returns. *)
Counts(c, m) ==
  /\ buffer' = [buffer EXCEPT ![c] = @ \ {m}]
  /\ acks' = IF op[c].call = "put" THEN [acks EXCEPT ![c] = @ + 1] ELSE acks
  /\ votes' = IF op[c].call = "put" \/ m.type = "missing" THEN votes
              ELSE [votes EXCEPT ![c][Vote(m)] = Increment(@)]
  /\ UNCHANGED <<walk, store, inbox, pc, op, socket, next, result>>

Returns(c, err, v) ==
  /\ Return(c, err, v)
  /\ op[c].call = "put" =>
       /\ v = NULL
       /\ \/ err = "ERR_NONE" /\ \E m \in buffer[c] : acks[c] + 1 >= op[c].W
          \/ err = "ERR_NETWORK"
  /\ op[c].call = "get" =>
       \/ /\ err = "ERR_NONE"
          /\ \E m \in buffer[c] :
               m.type # "missing" /\ v = Vote(m) /\ Increment(votes[c][v]) >= op[c].R
       \/ err \in {"ERR_NETWORK", "ERR_NOT_FOUND"} /\ v = NULL

LEMMA ReceiveCases ==
  ASSUME TypeOK, NEW c \in Client, RecvPut(c) \/ RecvGet(c) \/ Timeout(c)
  PROVE  /\ pc[c] = "receiving"
         /\ (\E m \in buffer[c] : Counts(c, m)) \/ (\E err, v : Returns(c, err, v))
<1>1. CASE RecvPut(c)
  <2>1. PICK m \in buffer[c] :
          \/ /\ acks[c] + 1 >= op[c].W
             /\ Return(c, "ERR_NONE", NULL)
          \/ /\ acks[c] + 1 < op[c].W
             /\ buffer' = [buffer EXCEPT ![c] = @ \ {m}]
             /\ acks' = [acks EXCEPT ![c] = @ + 1]
             /\ UNCHANGED <<votes, missing>>
             /\ GoOn
    BY <1>1 DEF RecvPut
  <2>2. pc[c] = "receiving" /\ op[c].call = "put"
    BY <1>1 DEF RecvPut
  <2>3. CASE acks[c] + 1 >= op[c].W /\ Return(c, "ERR_NONE", NULL)
    BY <2>2, <2>3 DEF Returns
  <2>4. CASE /\ buffer' = [buffer EXCEPT ![c] = @ \ {m}]
             /\ acks' = [acks EXCEPT ![c] = @ + 1]
             /\ UNCHANGED <<votes, missing>>
             /\ GoOn
    BY <2>2, <2>4 DEF Counts, GoOn, serverVars
  <2> QED
    BY <2>1, <2>2, <2>3, <2>4
<1>2. CASE RecvGet(c)
  <2>1. PICK m \in buffer[c] :
          \/ /\ m.type = "missing"
             /\ buffer' = [buffer EXCEPT ![c] = @ \ {m}]
             /\ missing' = [missing EXCEPT ![c] = @ + 1]
             /\ UNCHANGED <<acks, votes>>
             /\ GoOn
          \/ /\ m.type # "missing"
             /\ Increment(votes[c][Vote(m)]) >= op[c].R
             /\ Return(c, "ERR_NONE", Vote(m))
          \/ /\ m.type # "missing"
             /\ Increment(votes[c][Vote(m)]) < op[c].R
             /\ buffer' = [buffer EXCEPT ![c] = @ \ {m}]
             /\ votes' = [votes EXCEPT ![c][Vote(m)] = Increment(@)]
             /\ UNCHANGED <<acks, missing>>
             /\ GoOn
    BY <1>2 DEF RecvGet
  <2>2. pc[c] = "receiving" /\ op[c].call = "get"
    BY <1>2 DEF RecvGet
  <2>3. CASE /\ m.type = "missing"
             /\ buffer' = [buffer EXCEPT ![c] = @ \ {m}]
             /\ UNCHANGED <<acks, votes>>
             /\ GoOn
    BY <2>2, <2>3 DEF Counts, GoOn, serverVars
  <2>4. CASE /\ m.type # "missing"
             /\ Increment(votes[c][Vote(m)]) >= op[c].R
             /\ Return(c, "ERR_NONE", Vote(m))
    BY <2>2, <2>4 DEF Returns
  <2>5. CASE /\ m.type # "missing"
             /\ buffer' = [buffer EXCEPT ![c] = @ \ {m}]
             /\ votes' = [votes EXCEPT ![c][Vote(m)] = Increment(@)]
             /\ UNCHANGED <<acks, missing>>
             /\ GoOn
    BY <2>2, <2>5 DEF Counts, GoOn, serverVars
  <2> QED
    BY <2>1, <2>2, <2>3, <2>4, <2>5
<1>3. CASE Timeout(c)
  <2>1. /\ pc[c] = "receiving"
        /\ Return(c, IF op[c].call = "get" /\ missing[c] # 0
                     THEN "ERR_NOT_FOUND" ELSE "ERR_NETWORK", NULL)
    BY <1>3 DEF Timeout
  <2>2. Returns(c, IF op[c].call = "get" /\ missing[c] # 0
                   THEN "ERR_NOT_FOUND" ELSE "ERR_NETWORK", NULL)
    BY <2>1 DEF Returns
  <2> QED
    BY <2>1, <2>2
<1> QED
  BY <1>1, <1>2, <1>3

LEMMA SendersFacts ==
  ASSUME NEW T \in SUBSET Reply, NEW m \in Reply
  PROVE  /\ IsFiniteSet(Senders(T)) /\ Cardinality(Senders(T)) \in Nat
         /\ Senders(T) \in SUBSET Server /\ m.from \in Server
         /\ m.from \notin Senders(T) =>
              Cardinality(Senders(T \cup {m})) = Cardinality(Senders(T)) + 1
<1>1. Senders(T) \in SUBSET Server /\ m.from \in Server
  BY DEF Senders, Reply
<1>2. IsFiniteSet(Senders(T)) /\ Cardinality(Senders(T)) \in Nat
  BY <1>1, StoreAssumption, FS_Subset, FS_CardinalityType
<1>3. Senders(T \cup {m}) = Senders(T) \cup {m.from}
  BY DEF Senders
<1>4. Cardinality(Senders(T) \cup {m.from})
      = IF m.from \in Senders(T) THEN Cardinality(Senders(T)) ELSE Cardinality(Senders(T)) + 1
  BY <1>2, FS_AddElement, Zenon
<1> QED
  BY <1>1, <1>2, <1>3, <1>4, Zenon

LEMMA IncrementBound ==
  ASSUME NEW n \in -CharMax - 1 .. CharMax
  PROVE  Increment(n) \in Int /\ Increment(n) <= n + 1
  BY StoreAssumption DEF Increment

LEMMA CountsKeeps ==
  ASSUME StoreInv, QuorumsMeet, NEW c \in Client, RecvPut(c) \/ RecvGet(c) \/ Timeout(c),
         NEW m \in buffer[c], Counts(c, m), UNCHANGED history,
         NEW writer, NEW taken, Regular(writer, taken)
  PROVE  \E counted : Regular(writer, counted)'
<1>1. /\ TypeOK /\ DatagramsInv /\ Empty \notin Key /\ op[c].call \in {"put", "get"}
      /\ pc[c] = "receiving" /\ m \in Reply
  BY ReceiveEffect DEF StoreInv, QuorumsMeet, Op, TypeOK
<1>2. UNCHANGED <<store, inbox, pc, op, socket>>
  BY DEF Counts
<1>3. /\ writer \in [Server -> [Key -> SUBSET Puts]] /\ taken \in [Client -> SUBSET Reply]
      /\ hides \in [Client -> SUBSET Puts]
      /\ HistoriesOK(writer, taken) /\ StoredBy(writer) /\ Tally(taken)
      /\ QuorumsHold(writer, taken)
  BY DEF Regular, HistoriesOK
<1>4. PICK counted : counted = [taken EXCEPT ![c] = @ \cup {m}]
  OBVIOUS
<1>5. counted \in [Client -> SUBSET Reply]
  BY <1>1, <1>3, <1>4
<1>6. HistoriesOK(writer, counted)'
  BY <1>2, <1>3, <1>5, QuietHistories
<1>7. StoredBy(writer)'
  BY <1>2, <1>3 DEF StoredBy
<1>8. \A d \in Client : Replies(counted, d)' = Replies(taken, d)
  BY <1>1, <1>3, <1>4 DEF Replies, Counts, TypeOK
<1>9. /\ \A s \in Server, k \in Key : Contents(writer, s, k)' = Contents(writer, s, k)
      /\ \A d \in Client, s \in Server, k \in Key :
           After(writer, counted, d, s, k)' = After(writer, taken, d, s, k)
  <2>1. \A s \in Server, k \in Key : Contents(writer, s, k)' = Contents(writer, s, k)
    BY <1>2 DEF Contents, Writes
  <2>2. \A d \in Client : Senders(Replies(counted, d))' = Senders(Replies(taken, d))
    BY <1>8 DEF Senders
  <2> QED
    BY <1>2, <2>1, <2>2 DEF After, Writes, AskedBefore
<1>10. QuorumsHold(writer, counted)'
  <2>1. UNCHANGED <<op, socket, history>> /\ \A d \in Client : pc'[d] = "idle" <=> pc[d] = "idle"
    BY <1>2
  <2>2. QuietGrowth(writer, taken, writer, counted)
    BY <1>8, <1>9, <2>1 DEF QuietGrowth
  <2> QED
    BY <1>3, <2>2, QuietKeeps
<1>11. Tally(counted)'
  <2> SUFFICES ASSUME NEW d \in Client, pc[d] # "idle"
               PROVE  /\ \A a, b \in buffer'[d] : a.from = b.from => a = b
                      /\ \A a \in counted[d] :
                           /\ a.from \notin Senders(buffer'[d])
                           /\ ~Asked(d, a.from)' /\ ~ToAsk(d, a.from)'
                      /\ op[d].call = "put" => acks'[d] <= Cardinality(Senders(counted[d]))
                      /\ op[d].call = "get" => \A v \in Value \cup {Empty} :
                           votes'[d][v] <= Cardinality(Senders({a \in counted[d] : a.type = "value" /\ a.val = v}))
    BY <1>2 DEF Tally, Senders
  <2>1. /\ \A a, b \in buffer[d] : a.from = b.from => a = b
        /\ \A a \in taken[d] :
             /\ a.from \notin Senders(buffer[d])
             /\ ~Asked(d, a.from) /\ ~ToAsk(d, a.from)
        /\ op[d].call = "put" => acks[d] <= Cardinality(Senders(taken[d]))
        /\ op[d].call = "get" => \A v \in Value \cup {Empty} :
             votes[d][v] <= Cardinality(Senders({a \in taken[d] : a.type = "value" /\ a.val = v}))
    BY <1>3 DEF Tally
  <2>2. \A s \in Server : (~Asked(d, s) => ~Asked(d, s)') /\ (~ToAsk(d, s) => ~ToAsk(d, s)')
    BY <1>1, ReceiveAsked
  <2>3. CASE d # c
    <3>1. /\ buffer'[d] = buffer[d] /\ acks'[d] = acks[d] /\ votes'[d] = votes[d]
          /\ counted[d] = taken[d]
      BY <1>1, <1>3, <1>4, <2>3 DEF Counts, TypeOK
    <3>2. \A a \in taken[d] : a.from \in Server
      BY <1>3 DEF Reply
    <3> QED
      BY <2>1, <2>2, <3>1, <3>2
  <2>4. CASE d = c
    <3>1. /\ buffer'[c] = buffer[c] \ {m} /\ counted[c] = taken[c] \cup {m}
          /\ taken[c] \in SUBSET Reply
          /\ acks[c] \in Nat
      BY <1>1, <1>3, <1>4 DEF Counts, TypeOK
    <3>2. m.from \notin Senders(taken[c]) /\ m.from \notin Senders(buffer'[c])
      BY <2>1, <2>4, <3>1 DEF Senders
    <3>3. ~Asked(c, m.from) /\ ~ToAsk(c, m.from) /\ m.from \in Server
      <4>1. m.copy <= copies /\ copies \in 0 .. MaxCopies /\ MaxCopies = 0 /\ m.copy \in Nat
        BY <1>1 DEF DatagramsInv, RepliesTrue, TypeOK, QuorumsMeet, Reply
      <4>2. m.copy = 0 /\ m.from \in Server
        BY <1>1, <4>1 DEF Reply
      <4>3. Answered(c, m.from)
        BY <4>2 DEF Answered
      <4> QED
        BY <1>1, <4>2, <4>3 DEF DatagramsInv, AskedOnce
    <3>4. \A a \in counted[c] :
            /\ a.from \notin Senders(buffer'[c])
            /\ ~Asked(c, a.from)' /\ ~ToAsk(c, a.from)'
      <4>1. \A a \in taken[c] : a.from \in Server /\ a.from \notin Senders(buffer'[c])
        BY <2>1, <2>4, <3>1 DEF Reply, Senders
      <4> QED
        BY <2>1, <2>2, <2>4, <3>1, <3>2, <3>3, <4>1
    <3>5. \A a, b \in buffer'[c] : a.from = b.from => a = b
      BY <2>1, <2>4, <3>1
    <3>6. ASSUME op[c].call = "put" PROVE acks'[c] <= Cardinality(Senders(counted[c]))
      <4>1. acks'[c] = acks[c] + 1
        BY <1>1, <3>6 DEF Counts, TypeOK
      <4>2. /\ Cardinality(Senders(counted[c])) = Cardinality(Senders(taken[c])) + 1
            /\ Cardinality(Senders(taken[c])) \in Nat
        BY <1>1, <3>1, <3>2, SendersFacts
      <4> QED
        BY <2>1, <2>4, <3>1, <3>6, <4>1, <4>2
    <3>7. ASSUME op[c].call = "get", NEW v \in Value \cup {Empty}
          PROVE  votes'[c][v] <= Cardinality(Senders({a \in counted[c] : a.type = "value" /\ a.val = v}))
      <4> DEFINE old == {a \in taken[c] : a.type = "value" /\ a.val = v}
                 new == {a \in counted[c] : a.type = "value" /\ a.val = v}
      <4>1. votes[c][v] <= Cardinality(Senders(old))
        BY <2>1, <2>4, <3>7
      <4>2. m.type = "missing" \/ (m.type = "value" /\ m.val \in Value)
        BY <1>1, <3>7, RequestOf DEF DatagramsInv, RepliesTrue
      <4>3. old \in SUBSET Reply /\ m.from \notin Senders(old)
        BY <3>1, <3>2 DEF Senders
      <4>4. votes[c] \in [Value \cup {Empty} -> -CharMax - 1 .. CharMax]
        BY <1>1 DEF TypeOK
      <4>5. CASE m.type = "value" /\ m.val = v
        <5>1. new = old \cup {m}
          BY <3>1, <4>5
        <5>2. votes'[c][v] = Increment(votes[c][v])
          <6>1. Vote(m) = v
            BY <4>5 DEF Vote
          <6>2. votes' = [votes EXCEPT ![c][v] = Increment(@)]
            BY <3>7, <4>5, <6>1 DEF Counts
          <6> QED
            BY <1>1, <4>4, <6>2 DEF TypeOK
        <5> HIDE DEF new, old
        <5>3. /\ Cardinality(Senders(new)) = Cardinality(Senders(old)) + 1
              /\ Cardinality(Senders(old)) \in Nat
          BY <1>1, <4>3, <5>1, SendersFacts
        <5>4. votes[c][v] \in -CharMax - 1 .. CharMax
          BY <4>4
        <5>5. Increment(votes[c][v]) \in Int /\ Increment(votes[c][v]) <= votes[c][v] + 1
          BY <5>4, IncrementBound
        <5>6. votes[c][v] \in Int
          BY <5>4, StoreAssumption
        <5>7. votes'[c][v] <= Cardinality(Senders(new))
          BY <4>1, <5>2, <5>3, <5>5, <5>6
        <5> QED
          BY <5>7 DEF new
      <4>6. CASE ~(m.type = "value" /\ m.val = v)
        <5>1. new = old
          BY <3>1, <4>6
        <5>2. votes'[c][v] = votes[c][v]
          <6>1. CASE m.type = "missing"
            BY <6>1 DEF Counts
          <6>2. CASE m.type = "value" /\ m.val # v
            <7>1. Vote(m) = m.val
              BY <6>2 DEF Vote
            <7>2. votes' = [votes EXCEPT ![c][m.val] = Increment(@)]
              BY <3>7, <6>2, <7>1 DEF Counts
            <7> QED
              BY <1>1, <4>4, <6>2, <7>2 DEF TypeOK
          <6> QED
            BY <4>2, <4>6, <6>1, <6>2
        <5>3. votes'[c][v] <= Cardinality(Senders(new))
          BY <4>1, <5>1, <5>2
        <5> QED
          BY <5>3
      <4> QED
        BY <4>5, <4>6
    <3> QED
      BY <2>4, <3>4, <3>5, <3>6, <3>7
  <2> QED
    BY <2>3, <2>4
<1>12. OwnNodes(counted)'
  <2>1. OwnNodes(taken) /\ UNCHANGED walk
    BY DEF Regular, Counts
  <2>2. \A d \in Client, s \in Server : Asked(d, s)' <=> Asked(d, s)
    BY <1>2 DEF Asked
  <2> QED
    BY <1>2, <1>8, <2>1, <2>2, OwnNodesKept
<1> QED
  BY <1>6, <1>7, <1>10, <1>11, <1>12 DEF Regular

-----------------------------------------------------------------------------
(* The start of an operation. *)
Starts(c, writer, taken, counted) ==
  /\ \A s \in Server, k \in Key :
       /\ Contents(writer, s, k)' = Contents(writer, s, k)
       /\ After(writer, counted, c, s, k)' = {}
  /\ \A d \in Client : d # c =>
       /\ Replies(counted, d)' = Replies(taken, d) /\ Mine(d)' = Mine(d)
       /\ \A s \in Server, k \in Key :
            After(writer, counted, d, s, k)' = After(writer, taken, d, s, k)
       /\ \A k \in Key : /\ Putting(d, k)' <=> Putting(d, k)
                         /\ Reading(d, k)' <=> Reading(d, k)
  /\ Replies(counted, c)' = {}
  /\ \A p \in Puts : p.n <= socket[p.by] =>
       p.n <= socket'[p.by] /\ (Ended(p) => Ended(p)')
  /\ Tally(taken) => Tally(counted)'
  /\ OwnNodes(taken) => OwnNodes(counted)'
  /\ StoredBy(writer) => StoredBy(writer)'

LEMMA StartSame ==
  ASSUME StoreInv, NEW c \in Client, PutStart(c) \/ GetStart(c),
         NEW writer, NEW taken \in [Client -> SUBSET Reply],
         NEW counted, counted = [taken EXCEPT ![c] = {}]
  PROVE  Starts(c, writer, taken, counted)
<1>1. TypeOK /\ DatagramsInv
  BY DEF StoreInv
<1>2. /\ UNCHANGED <<walk, store, inbox>>
      /\ pc[c] = "idle" /\ pc'[c] = "sending"
      /\ socket'[c] = socket[c] + 1 /\ socket[c] \in Nat
      /\ next'[c] = 1 /\ buffer'[c] = {} /\ acks'[c] = 0 /\ votes'[c] = NoVotes
      /\ \A d \in Client : d # c =>
           /\ pc'[d] = pc[d] /\ op'[d] = op[d] /\ socket'[d] = socket[d]
           /\ next'[d] = next[d] /\ buffer'[d] = buffer[d] /\ acks'[d] = acks[d]
           /\ votes'[d] = votes[d]
  BY <1>1, StartEffect
<1>3. /\ counted[c] = {} /\ \A d \in Client : d # c => counted[d] = taken[d]
  OBVIOUS
<1>4. \A s \in Server, k \in Key : Contents(writer, s, k)' = Contents(writer, s, k)
  BY <1>2 DEF Contents, Writes
<1>5. Replies(counted, c)' = {}
  BY <1>2, <1>3 DEF Replies
<1>6. \A s \in Server : \A i \in DOMAIN inbox[s] :
        ~(inbox[s][i].client = c /\ inbox[s][i].socket = socket'[c])
  <2> SUFFICES ASSUME NEW s \in Server, NEW i \in DOMAIN inbox[s], inbox[s][i].client = c
               PROVE  inbox[s][i].socket # socket[c] + 1
    BY <1>2
  <2>1. inbox[s][i].socket <= socket[c] /\ inbox[s][i].socket \in Nat
    BY <1>1, RequestType DEF DatagramsInv, RequestsTrue, RequestTrue
  <2> QED
    BY <1>2, <2>1
<1>7. ASSUME NEW s \in Server, NEW k \in Key
      PROVE  After(writer, counted, c, s, k)' = {}
  <2>1. s \notin Senders(Replies(counted, c))'
    BY <1>5 DEF Senders
  <2>2. \A i : ~AskedBefore(c, s, i)'
    BY <1>2, <1>6 DEF AskedBefore
  <2> QED
    BY <2>1, <2>2 DEF After
<1>8. ASSUME NEW d \in Client, d # c
      PROVE  /\ Replies(counted, d)' = Replies(taken, d) /\ Mine(d)' = Mine(d)
             /\ \A s \in Server, k \in Key :
                  After(writer, counted, d, s, k)' = After(writer, taken, d, s, k)
             /\ \A k \in Key : /\ Putting(d, k)' <=> Putting(d, k)
                               /\ Reading(d, k)' <=> Reading(d, k)
  <2>1. Replies(counted, d)' = Replies(taken, d)
    BY <1>2, <1>3, <1>8 DEF Replies
  <2>2. Senders(Replies(counted, d))' = Senders(Replies(taken, d))
    BY <2>1 DEF Senders
  <2>3. \A s \in Server, k \in Key :
          After(writer, counted, d, s, k)' = After(writer, taken, d, s, k)
    <3>1. inbox' = inbox /\ socket'[d] = socket[d]
      BY <1>2, <1>8
    <3> QED
      BY <2>2, <3>1, SameAfter
  <2> QED
    BY <1>2, <1>8, <2>1, <2>3 DEF Mine, Putting, Reading
<1>9. ASSUME NEW p \in Puts, p.n <= socket[p.by]
      PROVE  p.n <= socket'[p.by] /\ (Ended(p) => Ended(p)')
  <2>1. p.by \in Client /\ p.n \in Nat /\ socket[p.by] \in Nat
    BY <1>1 DEF Puts, TypeOK
  <2>2. CASE p.by = c
    BY <1>2, <1>9, <2>1, <2>2 DEF Ended
  <2>3. CASE p.by # c
    BY <1>2, <1>9, <2>1, <2>3 DEF Ended
  <2> QED
    BY <2>2, <2>3
<1>10. ASSUME Tally(taken) PROVE Tally(counted)'
  <2> SUFFICES ASSUME NEW d \in Client, pc'[d] # "idle"
               PROVE  /\ \A a, b \in buffer'[d] : a.from = b.from => a = b
                      /\ \A a \in counted[d] :
                           /\ a.from \notin Senders(buffer'[d])
                           /\ ~Asked(d, a.from)' /\ ~ToAsk(d, a.from)'
                      /\ op'[d].call = "put" => acks'[d] <= Cardinality(Senders(counted[d]))
                      /\ op'[d].call = "get" => \A v \in Value \cup {Empty} :
                           votes'[d][v] <= Cardinality(Senders({a \in counted[d] : a.type = "value" /\ a.val = v}))
    BY DEF Tally, Senders
  <2>1. CASE d = c
    <3>2. Senders(counted[c]) = {} /\ \A v : Senders({a \in counted[c] : a.type = "value" /\ a.val = v}) = {}
      BY <1>3 DEF Senders
    <3>3. Cardinality({}) = 0
      BY FS_EmptySet
    <3>4. \A v \in Value \cup {Empty} : votes'[c][v] = 0
      BY <1>2 DEF NoVotes
    <3>5. acks'[c] <= Cardinality(Senders(counted[c]))
      <4>1. Senders(counted[c]) = {} /\ acks'[c] = 0
        BY <1>2, <3>2
      <4>2. 0 <= Cardinality({})
        BY <3>3
      <4> QED
        BY <4>1, <4>2, Zenon
    <3>6. \A v \in Value \cup {Empty} :
            votes'[c][v] <= Cardinality(Senders({a \in counted[c] : a.type = "value" /\ a.val = v}))
      <4> SUFFICES ASSUME NEW v \in Value \cup {Empty}
                   PROVE  0 <= Cardinality(Senders({a \in counted[c] : a.type = "value" /\ a.val = v}))
        BY <3>4
      <4>1. Senders({a \in counted[c] : a.type = "value" /\ a.val = v}) = {}
        BY <3>2
      <4> QED
        BY <3>3, <4>1
    <3> QED
      BY <1>2, <1>3, <2>1, <3>5, <3>6
  <2>2. CASE d # c
    <3>1. \A s : Asked(d, s)' <=> Asked(d, s)
      BY <1>2, <2>2 DEF Asked
    <3>2. Nodes(d)' = Nodes(d)
      BY <1>2, <2>2, SameNodes
    <3>3. \A s : ToAsk(d, s)' <=> ToAsk(d, s)
      BY <1>2, <2>2, <3>2 DEF ToAsk
    <3> QED
      BY <1>2, <1>3, <1>10, <2>2, <3>1, <3>3 DEF Tally
  <2> QED
    BY <2>1, <2>2
<1>11. StoredBy(writer) => StoredBy(writer)'
  BY <1>2 DEF StoredBy
<1>12. ASSUME OwnNodes(taken) PROVE OwnNodes(counted)'
  <2> SUFFICES ASSUME NEW d \in Client, pc'[d] # "idle"
               PROVE  /\ \A s \in Server : Asked(d, s)' => s \in Asking(d)'
                      /\ \A m \in Replies(counted, d)' : m.from \in Asking(d)'
    BY DEF OwnNodes
  <2>1. CASE d = c
    <3>1. ASSUME NEW s \in Server PROVE ~Asked(c, s)'
      <4> SUFFICES ASSUME NEW i \in DOMAIN inbox[s], inbox[s][i].client = c,
                          inbox[s][i].socket = socket[c] + 1
                   PROVE  FALSE
        BY <1>2 DEF Asked
      <4>1. inbox[s][i].socket <= socket[c]
        BY <1>1 DEF DatagramsInv, RequestsTrue, RequestTrue
      <4> QED
        BY <1>2, <4>1
    <3>2. Replies(counted, c)' = {}
      BY <1>2, <1>3 DEF Replies
    <3> QED
      BY <2>1, <3>1, <3>2
  <2>2. CASE d # c
    <3>1. \A s : Asked(d, s)' <=> Asked(d, s)
      BY <1>2, <2>2 DEF Asked
    <3>2. Replies(counted, d)' = Replies(taken, d)
      BY <1>2, <1>3, <2>2 DEF Replies
    <3>3. Asking(d)' = Asking(d)
      BY <1>2, <2>2 DEF Asking
    <3> QED
      BY <1>2, <1>12, <2>2, <3>1, <3>2, <3>3 DEF OwnNodes
  <2> QED
    BY <2>1, <2>2
<1> QED
  BY <1>4, <1>5, <1>7, <1>8, <1>9, <1>10, <1>11, <1>12 DEF Starts

LEMMA PutStartKeeps ==
  ASSUME StoreInv, NEW c \in Client, HPutStart(c),
         NEW writer, NEW taken, Regular(writer, taken)
  PROVE  \E counted : Regular(writer, counted)'
<1>1. PICK k \in Key, v \in Value, a \in Args : Start(c, "put", k, v, a)
  BY DEF HPutStart, PutStart
<1>2. PutStart(c) /\ TypeOK
  BY DEF HPutStart, StoreInv
<1>3. /\ op'[c] = [call |-> "put", key |-> k, val |-> v, N |-> a.N, R |-> a.R, W |-> a.W]
      /\ pc[c] = "idle" /\ pc'[c] = "sending" /\ socket'[c] = socket[c] + 1 /\ socket[c] \in Nat
      /\ \A d \in Client : d # c => op'[d] = op[d] /\ pc'[d] = pc[d]
  BY <1>1, <1>2, StartsWith
<1>4. /\ HistoriesOK(writer, taken) /\ StoredBy(writer) /\ Tally(taken) /\ OwnNodes(taken)
      /\ PutsKnown /\ LiveQuorum(writer) /\ HiddenGone(writer, taken) /\ Chained
      /\ LiveAfter(writer, taken) /\ AllowedQuorum(writer, taken)
  BY DEF Regular, QuorumsHold
<1>5. /\ live \in [Key -> SUBSET Puts] /\ hides \in [Client -> SUBSET Puts]
      /\ allowed \in [Client -> SUBSET Puts] /\ taken \in [Client -> SUBSET Reply]
      /\ writer \in [Server -> [Key -> SUBSET Puts]]
  BY <1>4 DEF HistoriesOK
<1>6. PICK counted : counted = [taken EXCEPT ![c] = {}]
  OBVIOUS
<1>7. PICK p : p = PutOf(c, v)
  OBVIOUS
<1>8. /\ p \in Puts /\ p.by = c /\ p.n = socket[c] + 1 /\ Mine(c)' = p
  BY <1>3, <1>7 DEF PutOf, Puts, Mine
<1>9. /\ live' = [live EXCEPT ![k] = @ \cup {p}]
      /\ hides' = [hides EXCEPT ![c] = {q \in live[k] : Ended(q)}]
      /\ allowed' = [d \in Client |-> IF Reading(d, k) THEN allowed[d] \cup {p} ELSE allowed[d]]
  BY <1>3, <1>7 DEF HPutStart
<1>10. /\ \A s \in Server, l \in Key :
            /\ Contents(writer, s, l)' = Contents(writer, s, l)
            /\ After(writer, counted, c, s, l)' = {}
       /\ \A d \in Client : d # c =>
            /\ Replies(counted, d)' = Replies(taken, d) /\ Mine(d)' = Mine(d)
            /\ \A s \in Server, l \in Key :
                 After(writer, counted, d, s, l)' = After(writer, taken, d, s, l)
            /\ \A l \in Key : /\ Putting(d, l)' <=> Putting(d, l)
                              /\ Reading(d, l)' <=> Reading(d, l)
       /\ \A q \in Puts : q.n <= socket[q.by] =>
            q.n <= socket'[q.by] /\ (Ended(q) => Ended(q)')
       /\ Tally(counted)' /\ OwnNodes(counted)' /\ StoredBy(writer)'
  <2>1. Starts(c, writer, taken, counted)
    BY <1>2, <1>5, <1>6, StartSame
  <2> QED
    BY <1>4, <2>1 DEF Starts
<1>11. /\ ~Reading(c, k) /\ allowed[c] = {} /\ hides[c] = {}
       /\ \A l \in Key : /\ Putting(c, l)' <=> l = k
                         /\ ~Reading(c, l)'
  BY <1>3, <1>4 DEF Reading, Putting, HistoriesOK
<1>12. /\ \A l \in Key : live'[l] \subseteq Puts /\ live[l] \subseteq live'[l]
                         /\ live'[l] \subseteq live[l] \cup {p}
       /\ p \in live'[k]
       /\ hides'[c] = {q \in live[k] : Ended(q)}
       /\ \A d \in Client : d # c => hides'[d] = hides[d]
       /\ allowed'[c] = {}
       /\ \A d \in Client : allowed[d] \subseteq allowed'[d] /\ (Reading(d, k) => p \in allowed'[d])
                            /\ (~Reading(d, k) => allowed'[d] = allowed[d])
  BY <1>5, <1>8, <1>9, <1>11
<1>13. HistoriesOK(writer, counted)'
  <2>1. live' \in [Key -> SUBSET Puts] /\ hides' \in [Client -> SUBSET Puts]
        /\ allowed' \in [Client -> SUBSET Puts] /\ counted \in [Client -> SUBSET Reply]
    BY <1>5, <1>6, <1>8, <1>9
  <2>2. ASSUME NEW d \in Client
        PROVE  /\ pc'[d] # "idle" => \E b \in Args :
                    op'[d].N = b.N /\ op'[d].R = b.R /\ op'[d].W = b.W
               /\ hides'[d] # {} => pc'[d] # "idle" /\ op'[d].call = "put"
               /\ allowed'[d] # {} => pc'[d] # "idle" /\ op'[d].call = "get"
    <3>1. CASE d = c
      BY <1>3, <1>12, <3>1
    <3>2. CASE d # c
      BY <1>3, <1>4, <1>12, <3>2 DEF HistoriesOK, Reading
    <3> QED
      BY <3>1, <3>2
  <2> QED
    BY <1>5, <2>1, <2>2 DEF HistoriesOK
<1>14. \A d \in Client : p \notin hides[d]
  <2> SUFFICES ASSUME NEW d \in Client, p \in hides[d] PROVE FALSE
    OBVIOUS
  <2>1. p.n <= socket[p.by]
    BY <1>4 DEF PutsKnown
  <2> QED
    BY <1>3, <1>8, <2>1
<1>15. PutsKnown'
  <2>1. ASSUME NEW l \in Key, NEW q \in live'[l]
        PROVE  q.n <= socket'[q.by]
    <3>1. CASE q = p
      BY <1>3, <1>8, <3>1
    <3>2. CASE q \in live[l]
      BY <1>4, <1>5, <1>10, <3>2 DEF PutsKnown
    <3> QED
      BY <1>12, <3>1, <3>2
  <2>2. ASSUME NEW d \in Client, NEW q \in hides'[d]
        PROVE  q.n <= socket'[q.by] /\ Ended(q)'
    <3>1. q \in Puts /\ q.n <= socket[q.by] /\ Ended(q)
      BY <1>4, <1>5, <1>12 DEF PutsKnown
    <3> QED
      BY <1>10, <3>1
  <2>3. ASSUME NEW d \in Client, NEW l \in Key, Putting(d, l)'
        PROVE  /\ Mine(d)' \in live'[l]
               /\ \A e \in Client : Reading(e, l)' => Mine(d)' \in allowed'[e]
    <3>1. CASE d = c
      BY <1>8, <1>10, <1>11, <1>12, <2>3, <3>1
    <3>2. CASE d # c
      <4>1. Putting(d, l) /\ Mine(d)' = Mine(d)
        BY <1>10, <2>3, <3>2
      <4> QED
        BY <1>4, <1>10, <1>11, <1>12, <4>1 DEF PutsKnown
    <3> QED
      BY <3>1, <3>2
  <2> QED
    BY <2>1, <2>2, <2>3 DEF PutsKnown
<1>16. LiveQuorum(writer)'
  <2> SUFFICES ASSUME NEW l \in Key
               PROVE  \E Q \in SUBSET Server :
                        ReadFrom(l, Q) /\ \A s \in Q : Contents(writer, s, l)' \subseteq live'[l]
    BY DEF LiveQuorum, ReadFrom
  <2>1. PICK Q \in SUBSET Server :
          ReadFrom(l, Q) /\ \A s \in Q : Contents(writer, s, l) \subseteq live[l]
    BY <1>4 DEF LiveQuorum
  <2> QED
    BY <1>10, <1>12, <2>1
<1>17. HiddenGone(writer, counted)'
  <2> SUFFICES ASSUME NEW d \in Client, NEW l \in Key, NEW s \in Server, Putting(d, l)'
               PROVE  After(writer, counted, d, s, l)' \cap hides'[d] = {}
    BY DEF HiddenGone
  <2>1. CASE d = c
    BY <1>10, <2>1
  <2>2. CASE d # c
    BY <1>4, <1>10, <1>12, <2>2 DEF HiddenGone
  <2> QED
    BY <2>1, <2>2
<1>18. Chained'
  <2> SUFFICES ASSUME NEW d \in Client, NEW e \in Client, NEW l \in Key,
                      Putting(d, l)', Putting(e, l)'
               PROVE  \/ hides'[d] \cap live'[l] \subseteq hides'[e]
                      \/ hides'[e] \cap live'[l] \subseteq hides'[d]
    BY DEF Chained
  <2>1. ASSUME NEW x \in Client, x # c, l = k
        PROVE  hides'[x] \cap live'[l] \subseteq hides'[c]
    BY <1>4, <1>12, <1>14, <2>1 DEF PutsKnown
  <2>2. CASE d = c \/ e = c
    <3>1. l = k
      BY <1>11, <2>2
    <3> QED
      BY <2>1, <2>2, <3>1
  <2>3. CASE d # c /\ e # c
    <3>1. \/ hides[d] \cap live[l] \subseteq hides[e]
          \/ hides[e] \cap live[l] \subseteq hides[d]
      BY <1>4, <1>10, <2>3 DEF Chained
    <3> QED
      BY <1>12, <1>14, <2>3, <3>1
  <2> QED
    BY <2>2, <2>3
<1>19. LiveAfter(writer, counted)'
  <2> SUFFICES ASSUME NEW d \in Client, NEW l \in Key, Putting(d, l)'
               PROVE  \/ hides'[d] \cap live'[l] = {}
                      \/ \A s \in Server : After(writer, counted, d, s, l)' \subseteq live'[l]
    BY DEF LiveAfter
  <2>1. CASE d = c
    BY <1>10, <2>1
  <2>2. CASE d # c
    <3>1. \/ hides[d] \cap live[l] = {}
          \/ \A s \in Server : After(writer, taken, d, s, l) \subseteq live[l]
      BY <1>4, <1>10, <2>2 DEF LiveAfter
    <3> QED
      BY <1>10, <1>12, <1>14, <2>2, <3>1
  <2> QED
    BY <2>1, <2>2
<1>20. AllowedQuorum(writer, counted)'
  <2> SUFFICES ASSUME NEW d \in Client, NEW l \in Key, Reading(d, l)'
               PROVE  \E Q \in SUBSET Server :
                        /\ ReadFrom(l, Q)
                        /\ \A s \in Q : Contents(writer, s, l)' \subseteq allowed'[d]
                        /\ \A m \in Replies(counted, d)' : (m.from \in Q /\ m.type = "value") =>
                             \E q \in allowed'[d] : q.val = m.val
    BY DEF AllowedQuorum, ReadFrom
  <2>1. d # c /\ Reading(d, l)
    BY <1>10, <1>11
  <2>2. PICK Q \in SUBSET Server :
          /\ ReadFrom(l, Q)
          /\ \A s \in Q : Contents(writer, s, l) \subseteq allowed[d]
          /\ \A m \in Replies(taken, d) : (m.from \in Q /\ m.type = "value") =>
               \E q \in allowed[d] : q.val = m.val
    BY <1>4, <2>1 DEF AllowedQuorum
  <2> QED
    BY <1>10, <1>12, <2>1, <2>2
<1> QED
  BY <1>10, <1>13, <1>15, <1>16, <1>17, <1>18, <1>19, <1>20 DEF Regular, QuorumsHold

LEMMA GetStartKeeps ==
  ASSUME StoreInv, NEW c \in Client, HGetStart(c),
         NEW writer, NEW taken, Regular(writer, taken)
  PROVE  \E counted : Regular(writer, counted)'
<1>1. PICK k \in Key, a \in Args : Start(c, "get", k, NULL, a)
  BY DEF HGetStart, GetStart
<1>2. GetStart(c) /\ TypeOK
  BY DEF HGetStart, StoreInv
<1>3. /\ op'[c] = [call |-> "get", key |-> k, val |-> NULL, N |-> a.N, R |-> a.R, W |-> a.W]
      /\ pc[c] = "idle" /\ pc'[c] = "sending"
      /\ \A d \in Client : d # c => op'[d] = op[d] /\ pc'[d] = pc[d]
  BY <1>1, <1>2, StartsWith
<1>4. /\ HistoriesOK(writer, taken) /\ StoredBy(writer) /\ Tally(taken) /\ OwnNodes(taken)
      /\ PutsKnown /\ LiveQuorum(writer) /\ HiddenGone(writer, taken) /\ Chained
      /\ LiveAfter(writer, taken) /\ AllowedQuorum(writer, taken)
  BY DEF Regular, QuorumsHold
<1>5. /\ live \in [Key -> SUBSET Puts] /\ hides \in [Client -> SUBSET Puts]
      /\ allowed \in [Client -> SUBSET Puts] /\ taken \in [Client -> SUBSET Reply]
      /\ writer \in [Server -> [Key -> SUBSET Puts]]
  BY <1>4 DEF HistoriesOK
<1>6. PICK counted : counted = [taken EXCEPT ![c] = {}]
  OBVIOUS
<1>7. live' = live /\ hides' = hides /\ allowed' = [allowed EXCEPT ![c] = live[k]]
  BY <1>3 DEF HGetStart
<1>8. /\ \A s \in Server, l \in Key :
           /\ Contents(writer, s, l)' = Contents(writer, s, l)
           /\ After(writer, counted, c, s, l)' = {}
      /\ \A d \in Client : d # c =>
           /\ Replies(counted, d)' = Replies(taken, d) /\ Mine(d)' = Mine(d)
           /\ \A s \in Server, l \in Key :
                After(writer, counted, d, s, l)' = After(writer, taken, d, s, l)
           /\ \A l \in Key : /\ Putting(d, l)' <=> Putting(d, l)
                             /\ Reading(d, l)' <=> Reading(d, l)
      /\ Replies(counted, c)' = {}
      /\ \A q \in Puts : q.n <= socket[q.by] =>
           q.n <= socket'[q.by] /\ (Ended(q) => Ended(q)')
      /\ Tally(counted)' /\ OwnNodes(counted)' /\ StoredBy(writer)'
  <2>1. Starts(c, writer, taken, counted)
    BY <1>2, <1>5, <1>6, StartSame
  <2> QED
    BY <1>4, <2>1 DEF Starts
<1>9. /\ hides[c] = {}
      /\ \A l \in Key : /\ ~Putting(c, l)'
                        /\ Reading(c, l)' <=> l = k
      /\ allowed'[c] = live[k] /\ \A d \in Client : d # c => allowed'[d] = allowed[d]
  BY <1>3, <1>4, <1>5, <1>7 DEF Reading, Putting, HistoriesOK
<1>10. HistoriesOK(writer, counted)'
  <2>1. /\ live' \in [Key -> SUBSET Puts] /\ hides' \in [Client -> SUBSET Puts]
        /\ allowed' \in [Client -> SUBSET Puts] /\ counted \in [Client -> SUBSET Reply]
    <3>1. k \in Key
      OBVIOUS
    <3> QED
      BY <1>5, <1>6, <1>7, <3>1
  <2>2. ASSUME NEW d \in Client
        PROVE  /\ pc'[d] # "idle" => \E b \in Args :
                    op'[d].N = b.N /\ op'[d].R = b.R /\ op'[d].W = b.W
               /\ hides'[d] # {} => pc'[d] # "idle" /\ op'[d].call = "put"
               /\ allowed'[d] # {} => pc'[d] # "idle" /\ op'[d].call = "get"
    <3>1. CASE d = c
      BY <1>3, <1>7, <1>9, <3>1
    <3>2. CASE d # c
      BY <1>3, <1>4, <1>7, <1>9, <3>2 DEF HistoriesOK
    <3> QED
      BY <3>1, <3>2
  <2> QED
    BY <1>5, <2>1, <2>2 DEF HistoriesOK
<1>11. PutsKnown'
  <2>1. ASSUME NEW l \in Key, NEW q \in live'[l]
        PROVE  q.n <= socket'[q.by]
    BY <1>4, <1>5, <1>7, <1>8 DEF PutsKnown
  <2>2. ASSUME NEW d \in Client, NEW q \in hides'[d]
        PROVE  q.n <= socket'[q.by] /\ Ended(q)'
    <3>1. q \in Puts /\ q.n <= socket[q.by] /\ Ended(q)
      BY <1>4, <1>5, <1>7 DEF PutsKnown
    <3> QED
      BY <1>8, <3>1
  <2>3. ASSUME NEW d \in Client, NEW l \in Key, Putting(d, l)'
        PROVE  /\ Mine(d)' \in live'[l]
               /\ \A e \in Client : Reading(e, l)' => Mine(d)' \in allowed'[e]
    <3>1. d # c
      BY <1>9, <2>3
    <3>2. Putting(d, l) /\ Mine(d)' = Mine(d)
      BY <1>8, <2>3, <3>1
    <3> QED
      BY <1>4, <1>7, <1>8, <1>9, <3>2 DEF PutsKnown
  <2> QED
    BY <2>1, <2>2, <2>3 DEF PutsKnown
<1>12. LiveQuorum(writer)'
  <2> SUFFICES ASSUME NEW l \in Key
               PROVE  \E Q \in SUBSET Server :
                        ReadFrom(l, Q) /\ \A s \in Q : Contents(writer, s, l)' \subseteq live'[l]
    BY DEF LiveQuorum, ReadFrom
  <2>1. PICK Q \in SUBSET Server :
          ReadFrom(l, Q) /\ \A s \in Q : Contents(writer, s, l) \subseteq live[l]
    BY <1>4 DEF LiveQuorum
  <2> QED
    BY <1>7, <1>8, <2>1
<1>13. \A d \in Client, l \in Key : Putting(d, l)' =>
         /\ d # c /\ Putting(d, l)
         /\ \A s \in Server : After(writer, counted, d, s, l)' = After(writer, taken, d, s, l)
  BY <1>8, <1>9
<1>14. HiddenGone(writer, counted)'
  BY <1>4, <1>7, <1>13 DEF HiddenGone
<1>15. Chained'
  BY <1>4, <1>7, <1>13 DEF Chained
<1>16. LiveAfter(writer, counted)'
  <2> SUFFICES ASSUME NEW d \in Client, NEW l \in Key, Putting(d, l)'
               PROVE  \/ hides[d] \cap live[l] = {}
                      \/ \A s \in Server : After(writer, counted, d, s, l)' \subseteq live[l]
    BY <1>7 DEF LiveAfter
  <2> QED
    BY <1>4, <1>13 DEF LiveAfter
<1>17. AllowedQuorum(writer, counted)'
  <2> SUFFICES ASSUME NEW d \in Client, NEW l \in Key, Reading(d, l)'
               PROVE  \E Q \in SUBSET Server :
                        /\ ReadFrom(l, Q)
                        /\ \A s \in Q : Contents(writer, s, l)' \subseteq allowed'[d]
                        /\ \A m \in Replies(counted, d)' : (m.from \in Q /\ m.type = "value") =>
                             \E q \in allowed'[d] : q.val = m.val
    BY DEF AllowedQuorum, ReadFrom
  <2>1. CASE d = c
    <3>1. PICK Q \in SUBSET Server :
            ReadFrom(l, Q) /\ \A s \in Q : Contents(writer, s, l) \subseteq live[l]
      BY <1>4 DEF LiveQuorum
    <3> QED
      BY <1>8, <1>9, <2>1, <3>1
  <2>2. CASE d # c
    <3>1. PICK Q \in SUBSET Server :
            /\ ReadFrom(l, Q)
            /\ \A s \in Q : Contents(writer, s, l) \subseteq allowed[d]
            /\ \A m \in Replies(taken, d) : (m.from \in Q /\ m.type = "value") =>
                 \E q \in allowed[d] : q.val = m.val
      BY <1>4, <1>8, <2>2 DEF AllowedQuorum
    <3> QED
      BY <1>8, <1>9, <2>2, <3>1
  <2> QED
    BY <2>1, <2>2
<1> QED
  BY <1>8, <1>10, <1>11, <1>12, <1>14, <1>15, <1>16, <1>17 DEF Regular, QuorumsHold

-----------------------------------------------------------------------------
(* The return of an operation. *)
(* A get returns what enough servers have answered, so what one of them    *)
(* that had only allowed puts has answered.                                *)
LEMMA GetReturnsAllowed ==
  ASSUME StoreInv, QuorumsMeet, NEW c \in Client, pc[c] = "receiving", op[c].call = "get",
         NEW m \in buffer[c], m.type # "missing", Increment(votes[c][Vote(m)]) >= op[c].R,
         NEW writer, NEW taken, Regular(writer, taken)
  PROVE  \E p \in allowed[c] : p.val = Vote(m)
<1>1. /\ TypeOK /\ DatagramsInv /\ Empty \notin Key /\ op[c] \in Op /\ m \in Reply
      /\ HistoriesOK(writer, taken) /\ Tally(taken) /\ OwnNodes(taken)
      /\ AllowedQuorum(writer, taken)
      /\ taken[c] \in SUBSET Reply
  BY NodesFacts DEF StoreInv, QuorumsMeet, Regular, QuorumsHold, HistoriesOK, TypeOK
<1>2. m.type = "value" /\ m.val \in Value /\ Vote(m) = m.val
  BY <1>1, RequestOf DEF DatagramsInv, RepliesTrue, Vote
<1> DEFINE T == {a \in taken[c] : a.type = "value" /\ a.val = m.val}
           S == Senders(T \cup {m})
<1>3. votes[c][m.val] <= Cardinality(Senders(T)) /\ m.from \notin Senders(T)
  <2>1. votes[c][m.val] <= Cardinality(Senders(T))
    <3>1. \A v \in Value \cup {Empty} :
            votes[c][v] <= Cardinality(Senders({a \in taken[c] : a.type = "value" /\ a.val = v}))
      BY <1>1 DEF Tally
    <3> QED
      BY <1>2, <3>1
  <2>2. m.from \notin Senders(T)
    <3>1. \A a \in taken[c] : a.from \notin Senders(buffer[c])
      BY <1>1 DEF Tally
    <3>2. m.from \in Senders(buffer[c])
      BY DEF Senders
    <3>3. \A a \in T : a.from # m.from
      BY <3>1, <3>2
    <3> QED
      BY <3>3 DEF Senders
  <2> QED
    BY <2>1, <2>2
<1>4. T \in SUBSET Reply /\ T \cup {m} \in SUBSET Reply
  BY <1>1
<1> HIDE DEF T
<1>5. /\ Cardinality(S) = Cardinality(Senders(T)) + 1 /\ Cardinality(Senders(T)) \in Nat
  BY <1>1, <1>3, <1>4, SendersFacts
<1>6. S \in SUBSET Asking(c)
  <2>1. \A a \in Replies(taken, c) : a.from \in Asking(c)
    BY <1>1 DEF OwnNodes
  <2>2. \A a \in T \cup {m} : a \in Replies(taken, c)
    BY DEF Replies, T
  <2> QED
    BY <2>1, <2>2 DEF Senders
<1>7. /\ votes[c][m.val] \in -CharMax - 1 .. CharMax /\ votes[c][m.val] \in Int
      /\ Increment(votes[c][m.val]) \in Int
      /\ Increment(votes[c][m.val]) <= votes[c][m.val] + 1
  <2>1. votes[c][m.val] \in -CharMax - 1 .. CharMax
    BY <1>1, <1>2 DEF TypeOK
  <2>2. votes[c][m.val] \in Int
    BY <2>1, StoreAssumption
  <2> QED
    BY <2>1, <2>2, IncrementBound
<1>8. op[c].R \in Nat /\ op[c].R <= Increment(votes[c][m.val])
  BY <1>1, <1>2 DEF Op
<1>9. Cardinality(S) >= op[c].R
  BY <1>3, <1>5, <1>7, <1>8
<1>10. PICK b \in Args : op[c].N = b.N /\ op[c].R = b.R
  BY <1>1 DEF HistoriesOK
<1>11. op[c].key \in Key /\ Reading(c, op[c].key)
  BY <1>1 DEF Op, Reading
<1>12. PICK Q \in SUBSET Server :
         /\ ReadFrom(op[c].key, Q)
         /\ \A a \in Replies(taken, c) : (a.from \in Q /\ a.type = "value") =>
              \E p \in allowed[c] : p.val = a.val
  BY <1>1, <1>11 DEF AllowedQuorum
<1>13. Q \cap S # {}
  <2>1. Asking(c) = Asks(walk[c], op[c].key, b) /\ walk[c] \in Walks
    <3>1. TypeOK
      BY <1>1
    <3>2. walk[c] \in Walks
      BY <3>1 DEF TypeOK
    <3> QED
      BY <1>10, <3>2 DEF Asking, Asks
  <2> HIDE DEF S
  <2> QED
    BY <1>6, <1>9, <1>10, <1>12, <2>1 DEF ReadFrom
<1>14. PICK a \in T \cup {m} : a.from \in Q
  BY <1>13 DEF Senders
<1>15. a \in Replies(taken, c) /\ a.type = "value" /\ a.val = m.val
  BY <1>2, <1>14 DEF T, Replies
<1> QED
  BY <1>2, <1>12, <1>14, <1>15

Leaves(c, writer, taken, counted) ==
  /\ \A s \in Server, k \in Key : Contents(writer, s, k)' = Contents(writer, s, k)
  /\ \A d \in Client, k \in Key :
       /\ Putting(d, k)' <=> d # c /\ Putting(d, k)
       /\ Reading(d, k)' <=> d # c /\ Reading(d, k)
  /\ \A d \in Client : d # c =>
       /\ Replies(counted, d)' = Replies(taken, d)
       /\ \A s \in Server, k \in Key :
            After(writer, counted, d, s, k)' = After(writer, taken, d, s, k)
  /\ \A p \in Puts : Ended(p) => Ended(p)'
  /\ Tally(taken) => Tally(counted)'
  /\ OwnNodes(taken) => OwnNodes(counted)'

LEMMA ReturnSame ==
  ASSUME StoreInv, NEW c \in Client, pc[c] = "receiving", NEW err, NEW v, Return(c, err, v),
         NEW writer, NEW taken \in [Client -> SUBSET Reply],
         NEW counted, counted = [taken EXCEPT ![c] = {}]
  PROVE  Leaves(c, writer, taken, counted)
<1>1. /\ UNCHANGED <<walk, store, inbox, op, socket>>
      /\ pc'[c] = "idle"
      /\ \A d \in Client : d # c =>
           /\ pc'[d] = pc[d] /\ next'[d] = next[d] /\ buffer'[d] = buffer[d]
           /\ acks'[d] = acks[d] /\ votes'[d] = votes[d]
  BY DEF Return, serverVars, StoreInv, TypeOK
<1>2. \A d \in Client : d # c => counted[d] = taken[d]
  OBVIOUS
<1>3. \A s \in Server, k \in Key : Contents(writer, s, k)' = Contents(writer, s, k)
  BY <1>1 DEF Contents, Writes
<1>4. ASSUME NEW d \in Client, d # c
      PROVE  /\ Replies(counted, d)' = Replies(taken, d)
             /\ \A s \in Server, k \in Key :
                  After(writer, counted, d, s, k)' = After(writer, taken, d, s, k)
  <2>1. Replies(counted, d)' = Replies(taken, d)
    BY <1>1, <1>2, <1>4 DEF Replies
  <2>2. Senders(Replies(counted, d))' = Senders(Replies(taken, d))
    BY <2>1 DEF Senders
  <2>3. inbox' = inbox /\ socket'[d] = socket[d]
    BY <1>1
  <2>4. ASSUME NEW s \in Server, NEW k \in Key
        PROVE  After(writer, counted, d, s, k)' = After(writer, taken, d, s, k)
    BY <2>2, <2>3, SameAfter
  <2> QED
    BY <2>1, <2>4
<1>5. \A d \in Client, k \in Key :
        /\ Putting(d, k)' <=> d # c /\ Putting(d, k)
        /\ Reading(d, k)' <=> d # c /\ Reading(d, k)
  BY <1>1 DEF Putting, Reading
<1>6. \A p \in Puts : Ended(p) => Ended(p)'
  <2> SUFFICES ASSUME NEW p \in Puts, Ended(p)
               PROVE  socket'[p.by] # p.n \/ pc'[p.by] = "idle"
    BY DEF Ended
  <2>1. p.by \in Client
    BY DEF Puts
  <2>2. CASE p.by = c
    BY <1>1, <2>2
  <2>3. CASE p.by # c
    BY <1>1, <2>1, <2>3 DEF Ended
  <2> QED
    BY <2>2, <2>3
<1>7. ASSUME Tally(taken) PROVE Tally(counted)'
  <2> SUFFICES ASSUME NEW d \in Client, pc'[d] # "idle"
               PROVE  /\ \A a, b \in buffer'[d] : a.from = b.from => a = b
                      /\ \A a \in counted[d] :
                           /\ a.from \notin Senders(buffer'[d])
                           /\ ~Asked(d, a.from)' /\ ~ToAsk(d, a.from)'
                      /\ op'[d].call = "put" => acks'[d] <= Cardinality(Senders(counted[d]))
                      /\ op'[d].call = "get" => \A w \in Value \cup {Empty} :
                           votes'[d][w] <= Cardinality(Senders({a \in counted[d] : a.type = "value" /\ a.val = w}))
    BY DEF Tally, Senders
  <2>1. d # c
    BY <1>1
  <2>2. \A s : Asked(d, s)' <=> Asked(d, s)
    BY <1>1 DEF Asked
  <2>3. Nodes(d)' = Nodes(d)
    BY <1>1, SameNodes
  <2>4. \A s : ToAsk(d, s)' <=> ToAsk(d, s)
    BY <1>1, <2>1, <2>3 DEF ToAsk
  <2> QED
    BY <1>1, <1>2, <1>7, <2>1, <2>2, <2>4 DEF Tally
<1>8. ASSUME OwnNodes(taken) PROVE OwnNodes(counted)'
  <2>1. ASSUME NEW d \in Client, pc'[d] # "idle"
        PROVE  /\ pc[d] # "idle" /\ op'[d] = op[d]
               /\ \A s \in Server : Asked(d, s)' => Asked(d, s)
               /\ Replies(counted, d)' = Replies(taken, d)
    BY <1>1, <1>4, <2>1 DEF Asked
  <2> QED
    BY <1>1, <1>8, <2>1, OwnNodesKept
<1> QED
  BY <1>3, <1>4, <1>5, <1>6, <1>7, <1>8 DEF Leaves

LEMMA ReturnKeeps ==
  ASSUME StoreInv, QuorumsMeet, NEW c \in Client, pc[c] = "receiving",
         NEW err, NEW v, Returns(c, err, v), HReturn(c),
         NEW writer, NEW taken, Regular(writer, taken)
  PROVE  \E counted : Regular(writer, counted)'
<1>1. /\ TypeOK /\ op[c] \in Op /\ Return(c, err, v)
  BY NodesFacts DEF StoreInv, Returns
<1>2. /\ HistoriesOK(writer, taken) /\ StoredBy(writer) /\ Tally(taken) /\ OwnNodes(taken)
      /\ PutsKnown /\ LiveQuorum(writer) /\ HiddenGone(writer, taken) /\ Chained
      /\ LiveAfter(writer, taken) /\ AllowedQuorum(writer, taken)
  BY DEF Regular, QuorumsHold
<1>3. /\ live \in [Key -> SUBSET Puts] /\ hides \in [Client -> SUBSET Puts]
      /\ allowed \in [Client -> SUBSET Puts] /\ taken \in [Client -> SUBSET Reply]
      /\ writer \in [Server -> [Key -> SUBSET Puts]]
  BY <1>2 DEF HistoriesOK
<1>4. PICK counted : counted = [taken EXCEPT ![c] = {}]
  OBVIOUS
<1>5. /\ UNCHANGED <<store, op, socket>>
      /\ pc'[c] = "idle" /\ \A d \in Client : d # c => pc'[d] = pc[d]
      /\ result'[c].err = err
  BY <1>1 DEF Return, serverVars, TypeOK
<1>6. /\ \A s \in Server, k \in Key : Contents(writer, s, k)' = Contents(writer, s, k)
      /\ \A d \in Client, k \in Key :
           /\ Putting(d, k)' <=> d # c /\ Putting(d, k)
           /\ Reading(d, k)' <=> d # c /\ Reading(d, k)
      /\ \A d \in Client : d # c =>
           /\ Replies(counted, d)' = Replies(taken, d)
           /\ \A s \in Server, k \in Key :
                After(writer, counted, d, s, k)' = After(writer, taken, d, s, k)
      /\ \A p \in Puts : Ended(p) => Ended(p)'
      /\ Tally(counted)' /\ OwnNodes(counted)'
  <2>1. Leaves(c, writer, taken, counted)
    BY <1>1, <1>3, <1>4, ReturnSame
  <2> QED
    BY <1>2, <2>1 DEF Leaves
<1>7. PICK k \in Key : k = op[c].key
  BY <1>1 DEF Op
<1>8. /\ hides' = [hides EXCEPT ![c] = {}] /\ allowed' = [allowed EXCEPT ![c] = {}]
      /\ live' = IF op[c].call = "put" /\ err = "ERR_NONE"
                 THEN [live EXCEPT ![k] = @ \ hides[c]] ELSE live
  BY <1>5, <1>7 DEF HReturn
<1>9. /\ hides'[c] = {} /\ allowed'[c] = {}
      /\ \A d \in Client : d # c => hides'[d] = hides[d] /\ allowed'[d] = allowed[d]
      /\ \A l \in Key : l # k => live'[l] = live[l]
      /\ \A l \in Key : live'[l] \subseteq live[l] /\ live[l] \ hides[c] \subseteq live'[l]
      /\ \/ live'[k] = live[k]
         \/ /\ live'[k] = live[k] \ hides[c] /\ op[c].call = "put" /\ err = "ERR_NONE"
            /\ Putting(c, k) /\ hides[c] \cap live[k] # {}
  BY <1>3, <1>7, <1>8 DEF Putting
<1>10. HistoriesOK(writer, counted)'
  <2>1. live' \in [Key -> SUBSET Puts] /\ hides' \in [Client -> SUBSET Puts]
        /\ allowed' \in [Client -> SUBSET Puts] /\ counted \in [Client -> SUBSET Reply]
    BY <1>3, <1>4, <1>8
  <2>2. ASSUME NEW d \in Client
        PROVE  /\ pc'[d] # "idle" => \E b \in Args :
                    op'[d].N = b.N /\ op'[d].R = b.R /\ op'[d].W = b.W
               /\ hides'[d] # {} => pc'[d] # "idle" /\ op'[d].call = "put"
               /\ allowed'[d] # {} => pc'[d] # "idle" /\ op'[d].call = "get"
    BY <1>2, <1>5, <1>9 DEF HistoriesOK
  <2> QED
    BY <1>3, <2>1, <2>2 DEF HistoriesOK
<1>11. StoredBy(writer)'
  BY <1>2, <1>5 DEF StoredBy
<1>12. PutsKnown'
  <2>1. ASSUME NEW l \in Key, NEW q \in live'[l]
        PROVE  q.n <= socket'[q.by]
    BY <1>2, <1>5, <1>9 DEF PutsKnown
  <2>2. ASSUME NEW d \in Client, NEW q \in hides'[d]
        PROVE  q.n <= socket'[q.by] /\ Ended(q)'
    <3>1. q \in Puts /\ q.n <= socket[q.by] /\ Ended(q)
      BY <1>2, <1>3, <1>9 DEF PutsKnown
    <3> QED
      BY <1>5, <1>6, <3>1
  <2>3. ASSUME NEW d \in Client, NEW l \in Key, Putting(d, l)'
        PROVE  /\ Mine(d)' \in live'[l]
               /\ \A e \in Client : Reading(e, l)' => Mine(d)' \in allowed'[e]
    <3>1. d # c /\ Putting(d, l) /\ Mine(d)' = Mine(d)
      BY <1>5, <1>6, <2>3 DEF Mine
    <3>2. ~Ended(Mine(d))
      BY <3>1 DEF Ended, Mine, Putting
    <3>3. Mine(d) \in live[l] /\ Mine(d) \notin hides[c]
      BY <1>2, <3>1, <3>2 DEF PutsKnown
    <3> QED
      BY <1>2, <1>6, <1>9, <3>1, <3>3 DEF PutsKnown
  <2> QED
    BY <2>1, <2>2, <2>3 DEF PutsKnown
<1>13. HiddenGone(writer, counted)'
  BY <1>2, <1>6, <1>9 DEF HiddenGone
<1>14. Chained'
  <2> SUFFICES ASSUME NEW d \in Client, NEW e \in Client, NEW l \in Key,
                      Putting(d, l)', Putting(e, l)'
               PROVE  \/ hides'[d] \cap live'[l] \subseteq hides'[e]
                      \/ hides'[e] \cap live'[l] \subseteq hides'[d]
    BY DEF Chained
  <2>1. d # c /\ e # c /\ Putting(d, l) /\ Putting(e, l)
    BY <1>6
  <2>2. \/ hides[d] \cap live[l] \subseteq hides[e]
        \/ hides[e] \cap live[l] \subseteq hides[d]
    BY <1>2, <2>1 DEF Chained
  <2> QED
    BY <1>9, <2>1, <2>2
<1>15. LiveAfter(writer, counted)'
  <2> SUFFICES ASSUME NEW d \in Client, NEW l \in Key, Putting(d, l)'
               PROVE  \/ hides'[d] \cap live'[l] = {}
                      \/ \A s \in Server : After(writer, counted, d, s, l)' \subseteq live'[l]
    BY DEF LiveAfter
  <2>1. d # c /\ Putting(d, l) /\ hides'[d] = hides[d]
    BY <1>6, <1>9
  <2>2. \/ hides[d] \cap live[l] = {}
        \/ \A s \in Server : After(writer, taken, d, s, l) \subseteq live[l]
    BY <1>2, <2>1 DEF LiveAfter
  <2>3. CASE live'[l] = live[l]
    BY <1>6, <2>1, <2>2, <2>3
  <2>4. CASE live'[l] # live[l]
    <3>1. l = k /\ live'[k] = live[k] \ hides[c] /\ Putting(c, k)
      BY <1>9, <2>4
    <3>2. CASE hides[d] \cap live[k] = {}
      BY <2>1, <3>1, <3>2
    <3>3. CASE hides[d] \cap live[k] \subseteq hides[c]
      BY <2>1, <3>1, <3>3
    <3>4. CASE /\ hides[c] \cap live[k] \subseteq hides[d]
               /\ \A s \in Server : After(writer, taken, d, s, k) \subseteq live[k]
      <4>1. ASSUME NEW s \in Server, NEW x \in After(writer, taken, d, s, k)
            PROVE  x \in live'[k]
        <5>1. x \in live[k] /\ x \notin hides[d]
          BY <1>2, <2>1, <3>1, <3>4 DEF HiddenGone
        <5> QED
          BY <3>1, <3>4, <5>1
      <4> QED
        BY <1>6, <2>1, <3>1, <4>1
    <3>5. \/ hides[d] \cap live[k] \subseteq hides[c]
          \/ hides[c] \cap live[k] \subseteq hides[d]
      BY <1>2, <2>1, <3>1 DEF Chained
    <3> QED
      BY <2>2, <3>1, <3>2, <3>3, <3>4, <3>5
  <2> QED
    BY <2>3, <2>4
<1>16. LiveQuorum(writer)'
  <2> SUFFICES ASSUME NEW l \in Key
               PROVE  \E Q \in SUBSET Server :
                        ReadFrom(l, Q) /\ \A s \in Q : Contents(writer, s, l) \subseteq live'[l]
    <3>1. \A l, Q : ReadFrom(l, Q)' <=> ReadFrom(l, Q)
      BY DEF ReadFrom
    <3>2. \A s \in Server, l \in Key : Contents(writer, s, l)' = Contents(writer, s, l)
      BY <1>6
    <3> QED
      BY <3>1, <3>2 DEF LiveQuorum
  <2>1. CASE live'[l] = live[l]
    BY <1>2, <2>1 DEF LiveQuorum
  <2>2. CASE live'[l] # live[l]
    <3>1. /\ l = k /\ live'[k] = live[k] \ hides[c] /\ Putting(c, k)
          /\ op[c].call = "put" /\ err = "ERR_NONE" /\ hides[c] \cap live[k] # {}
      BY <1>9, <2>2
    <3>2. PICK m \in buffer[c] : acks[c] + 1 >= op[c].W
      BY <3>1 DEF Returns
    <3> DEFINE Q == Senders(taken[c] \cup {m})
    <3>3. /\ m \in Reply /\ taken[c] \in SUBSET Reply
          /\ m.from \notin Senders(taken[c])
          /\ acks[c] <= Cardinality(Senders(taken[c]))
          /\ acks[c] \in Nat /\ op[c].W \in Nat
      <4>1. m \in Reply /\ taken[c] \in SUBSET Reply /\ acks[c] \in Nat /\ op[c].W \in Nat
        <5>1. buffer \in [Client -> SUBSET Reply] /\ acks \in [Client -> Nat]
          BY <1>1 DEF TypeOK
        <5>2. op[c].W \in Nat
          BY <1>1 DEF Op
        <5> QED
          BY <1>3, <5>1, <5>2
      <4>2. /\ acks[c] <= Cardinality(Senders(taken[c]))
            /\ \A a \in taken[c] : a.from \notin Senders(buffer[c])
        BY <1>2, <3>1 DEF Tally
      <4>3. m.from \notin Senders(taken[c])
        BY <4>2 DEF Senders
      <4> QED
        BY <4>1, <4>2, <4>3
    <3>4. /\ Cardinality(Q) = Cardinality(Senders(taken[c])) + 1
          /\ Cardinality(Senders(taken[c])) \in Nat
      BY <3>3, SendersFacts
    <3>5. Q \in SUBSET Server
      BY <3>3, SendersFacts DEF Senders
    <3>6. Cardinality(Q) >= op[c].W
      BY <3>2, <3>3, <3>4
    <3>7. PICK a \in Args : op[c].N = a.N /\ op[c].W = a.W
      BY <1>2 DEF HistoriesOK
    <3>8. ReadFrom(k, Q)
      <4> SUFFICES ASSUME NEW w \in Walks, NEW b \in Args, NEW T \in SUBSET Asks(w, k, b),
                          Cardinality(T) >= b.R
                   PROVE  Q \cap T # {}
        BY DEF ReadFrom
      <4>1. Asking(c) = Asks(walk[c], k, a) /\ walk[c] \in Walks
        BY <1>1, <1>7, <3>7 DEF Asking, Asks, TypeOK
      <4>2. Q \in SUBSET Asks(walk[c], k, a)
        <5>1. \A r \in Replies(taken, c) : r.from \in Asking(c)
          BY <1>2 DEF OwnNodes
        <5>2. \A r \in taken[c] \cup {m} : r \in Replies(taken, c)
          BY <3>2 DEF Replies
        <5> QED
          BY <4>1, <5>1, <5>2 DEF Senders
      <4> HIDE DEF Q
      <4> QED
        BY <3>6, <3>7, <4>1, <4>2 DEF QuorumsMeet
    <3>9. ASSUME NEW s \in Q, NEW x \in Contents(writer, s, k)
          PROVE  x \in live'[k]
      <4>1. s \in Senders(Replies(taken, c)) /\ s \in Server
        BY <3>5 DEF Senders, Replies
      <4>2. x \in After(writer, taken, c, s, k)
        BY <4>1 DEF After
      <4>3. x \in live[k] /\ x \notin hides[c]
        BY <1>2, <3>1, <4>1, <4>2 DEF LiveAfter, HiddenGone
      <4> QED
        BY <3>1, <4>3
    <3> HIDE DEF Q
    <3> QED
      BY <3>1, <3>5, <3>8, <3>9
  <2> QED
    BY <2>1, <2>2
<1>17. AllowedQuorum(writer, counted)'
  <2> SUFFICES ASSUME NEW d \in Client, NEW l \in Key, Reading(d, l)'
               PROVE  \E Q \in SUBSET Server :
                        /\ ReadFrom(l, Q)
                        /\ \A s \in Q : Contents(writer, s, l)' \subseteq allowed'[d]
                        /\ \A m \in Replies(counted, d)' : (m.from \in Q /\ m.type = "value") =>
                             \E q \in allowed'[d] : q.val = m.val
    BY DEF AllowedQuorum, ReadFrom
  <2>1. d # c /\ Reading(d, l)
    BY <1>6
  <2>2. PICK Q \in SUBSET Server :
          /\ ReadFrom(l, Q)
          /\ \A s \in Q : Contents(writer, s, l) \subseteq allowed[d]
          /\ \A m \in Replies(taken, d) : (m.from \in Q /\ m.type = "value") =>
               \E q \in allowed[d] : q.val = m.val
    BY <1>2, <2>1 DEF AllowedQuorum
  <2> QED
    BY <1>6, <1>9, <2>1, <2>2
<1> QED
  BY <1>6, <1>10, <1>11, <1>12, <1>13, <1>14, <1>15, <1>16, <1>17 DEF Regular, QuorumsHold

-----------------------------------------------------------------------------
(***************************************************************************)
(* What holds in every state: some account of who wrote what the servers   *)
(* have, and of which replies were counted, fits it.                       *)
(***************************************************************************)
RegularInv == StoreInv /\ \E writer, taken : Regular(writer, taken)

LEMMA InitRegular == ASSUME QuorumsMeet, HInit PROVE RegularInv
<1>1. Init /\ StoreInv /\ TypeOK /\ pc = [c \in Client |-> "idle"]
  BY InitStoreInv DEF HInit, Init, StoreInv
<1>2. PICK writer : writer = [s \in Server |-> [k \in Key |-> {}]]
  OBVIOUS
<1>3. PICK taken : taken = [c \in Client |-> {}]
  OBVIOUS
<1>4. HistoriesOK(writer, taken)
  BY <1>1, <1>2, <1>3 DEF HInit, HistoriesOK
<1>5. StoredBy(writer)
  BY <1>1, <1>2 DEF Init, StoredBy
<1>6. Tally(taken) /\ OwnNodes(taken) /\ HiddenGone(writer, taken) /\ Chained /\ LiveAfter(writer, taken)
  BY <1>1 DEF Tally, OwnNodes, HiddenGone, Chained, LiveAfter, Putting
<1>7. AllowedQuorum(writer, taken)
  BY <1>1 DEF AllowedQuorum, Reading
<1>8. PutsKnown
  BY <1>1 DEF HInit, PutsKnown, Putting
<1>9. LiveQuorum(writer)
  <2> SUFFICES ASSUME NEW k \in Key
               PROVE  ReadFrom(k, Server) /\ \A s \in Server : Contents(writer, s, k) \subseteq live[k]
    BY DEF LiveQuorum
  <2>1. ASSUME NEW w \in Walks, NEW a \in Args, NEW T \in SUBSET Asks(w, k, a),
               Cardinality(T) >= a.R
        PROVE  Server \cap T # {}
    <3>1. a.R \in Nat \ {0}
      BY StoreAssumption
    <3>2. Cardinality({}) = 0
      BY FS_EmptySet
    <3>3. T # {} /\ T \subseteq Server
      BY <2>1, <3>1, <3>2, AsksFacts
    <3> QED
      BY <3>3
  <2>2. ASSUME NEW s \in Server PROVE Contents(writer, s, k) = {}
    BY <1>1, <1>2 DEF Init, Contents, Writes
  <2> QED
    BY <2>1, <2>2 DEF ReadFrom
<1> QED
  BY <1>1, <1>4, <1>5, <1>6, <1>7, <1>8, <1>9 DEF RegularInv, Regular, QuorumsHold

(* Nothing changes as long as no operation that runs, no server and no     *)
(* datagram does.                                                          *)
LEMMA RegularSame ==
  ASSUME NEW writer, NEW taken, Regular(writer, taken),
         UNCHANGED <<walk, store, inbox, pc, next, buffer, acks, votes, live, hides, allowed>>,
         \A c \in Client : /\ socket[c] \in Nat /\ socket'[c] \in Nat /\ socket[c] <= socket'[c]
                           /\ pc[c] # "idle" => op'[c] = op[c] /\ socket'[c] = socket[c]
  PROVE  Regular(writer, taken)'
<1>1. HistoriesOK(writer, taken)' /\ StoredBy(writer)'
  BY DEF Regular, HistoriesOK, StoredBy
<1>2. \A c \in Client, k \in Key : /\ Putting(c, k)' <=> Putting(c, k)
                                   /\ Reading(c, k)' <=> Reading(c, k)
                                   /\ Putting(c, k) => Mine(c)' = Mine(c)
  BY DEF Putting, Reading, Mine
<1>3. PutsKnown'
  <2>1. PutsKnown /\ live \in [Key -> SUBSET Puts] /\ hides \in [Client -> SUBSET Puts]
    BY DEF Regular, QuorumsHold, HistoriesOK
  <2>2. \A q \in Puts : q.n <= socket[q.by] => q.n <= socket'[q.by] /\ (Ended(q) => Ended(q)')
    <3> SUFFICES ASSUME NEW q \in Puts, q.n <= socket[q.by]
                 PROVE  q.n <= socket'[q.by] /\ (Ended(q) => Ended(q)')
      OBVIOUS
    <3>1. q.by \in Client /\ q.n \in Nat
      BY DEF Puts
    <3> QED
      BY <3>1 DEF Ended
  <2>3. \A k \in Key : \A q \in live'[k] : q.n <= socket'[q.by]
    BY <2>1, <2>2 DEF PutsKnown
  <2>4. \A c \in Client : \A q \in hides'[c] : q.n <= socket'[q.by] /\ Ended(q)'
    BY <2>1, <2>2 DEF PutsKnown
  <2> QED
    BY <1>2, <2>1, <2>3, <2>4 DEF PutsKnown
<1>4. \A c \in Client : pc[c] # "idle" => \A s : /\ Asked(c, s)' <=> Asked(c, s)
                                                 /\ ToAsk(c, s)' <=> ToAsk(c, s)
  <2> SUFFICES ASSUME NEW c \in Client, pc[c] # "idle"
               PROVE  \A s : (Asked(c, s)' <=> Asked(c, s)) /\ (ToAsk(c, s)' <=> ToAsk(c, s))
    OBVIOUS
  <2>1. Nodes(c)' = Nodes(c)
    BY SameNodes
  <2>2. \A s : Asked(c, s)' <=> Asked(c, s)
    BY DEF Asked
  <2>3. \A s : ToAsk(c, s)' <=> ToAsk(c, s)
    BY <2>1 DEF ToAsk
  <2> QED
    BY <2>2, <2>3
<1>5. \A c \in Client : /\ Senders(buffer[c])' = Senders(buffer[c])
                        /\ Replies(taken, c)' = Replies(taken, c)
  BY DEF Senders, Replies
<1>6. Tally(taken)'
  BY <1>4, <1>5 DEF Regular, Tally
<1>7. \A s \in Server, k \in Key : Contents(writer, s, k)' = Contents(writer, s, k)
  BY DEF Contents, Writes
<1>8. \A c \in Client, s \in Server, k \in Key :
        Putting(c, k) => After(writer, taken, c, s, k)' = After(writer, taken, c, s, k)
  <2> SUFFICES ASSUME NEW c \in Client, NEW s \in Server, NEW k \in Key, Putting(c, k)
               PROVE  After(writer, taken, c, s, k)' = After(writer, taken, c, s, k)
    OBVIOUS
  <2>1. socket'[c] = socket[c]
    BY DEF Putting
  <2>2. Senders(Replies(taken, c))' = Senders(Replies(taken, c))
    BY DEF Senders, Replies
  <2> QED
    BY <2>1, <2>2, SameAfter
<1>9. LiveQuorum(writer)'
  <2> SUFFICES ASSUME NEW k \in Key
               PROVE  \E Q \in SUBSET Server :
                        ReadFrom(k, Q) /\ \A s \in Q : Contents(writer, s, k)' \subseteq live'[k]
    BY DEF LiveQuorum, ReadFrom
  <2> QED
    BY <1>7 DEF Regular, QuorumsHold, LiveQuorum
<1>10. HiddenGone(writer, taken)' /\ Chained' /\ LiveAfter(writer, taken)'
  BY <1>2, <1>8 DEF Regular, QuorumsHold, HiddenGone, Chained, LiveAfter
<1>11. AllowedQuorum(writer, taken)'
  <2> SUFFICES ASSUME NEW c \in Client, NEW k \in Key, Reading(c, k)'
               PROVE  \E Q \in SUBSET Server :
                        /\ ReadFrom(k, Q)
                        /\ \A s \in Q : Contents(writer, s, k)' \subseteq allowed'[c]
                        /\ \A m \in Replies(taken, c)' : (m.from \in Q /\ m.type = "value") =>
                             \E p \in allowed'[c] : p.val = m.val
    BY DEF AllowedQuorum, ReadFrom
  <2> QED
    BY <1>2, <1>5, <1>7 DEF Regular, QuorumsHold, AllowedQuorum
<1>12. OwnNodes(taken)'
  BY <1>4, <1>5, OwnNodesKept DEF Regular
<1> QED
  BY <1>1, <1>3, <1>6, <1>9, <1>10, <1>11, <1>12 DEF Regular, QuorumsHold

LEMMA StutterRegular ==
  ASSUME RegularInv, UNCHANGED hvars
  PROVE  RegularInv'
<1>1. /\ UNCHANGED <<walk, store, inbox, pc, op, socket, next, buffer, acks, votes>>
      /\ UNCHANGED <<live, hides, allowed>> /\ UNCHANGED vars
  BY DEF hvars, vars, history, serverVars, clientVars, tallyVars
<1>2. PICK writer, taken : Regular(writer, taken)
  BY DEF RegularInv
<1>3. StoreInv' /\ StoreInv
  BY <1>1, StepStoreInv DEF RegularInv
<1>4. socket \in [Client -> Nat]
  BY <1>3 DEF StoreInv, TypeOK
<1>5. Regular(writer, taken)'
  BY <1>1, <1>2, <1>4, RegularSame
<1> QED
  BY <1>3, <1>5 DEF RegularInv

(* A call that is refused is one of the register. *)
LEMMA RefusedRefines ==
  ASSUME StoreInv, NEW c \in Client, HRefused(c)
  PROVE  Register!Next
<1>1. TypeOK /\ Refused(c) /\ UNCHANGED history
  BY DEF HRefused, StoreInv
<1>2. /\ UNCHANGED pc /\ pc[c] = "idle" /\ socket'[c] = socket[c] + 1 /\ op'[c] \in Op
      /\ result'[c] = [err |-> "ERR_BAD_PARAMETER", val |-> NULL]
      /\ \A d \in Client : d # c =>
           op'[d] = op[d] /\ socket'[d] = socket[d] /\ result'[d] = result[d]
  BY <1>1, RefusedEffect
<1>3. ~Call[c].busy /\ Call[c].n = socket[c]
  BY <1>2, CallOf
<1>4. Call' = [Call EXCEPT ![c] = Call'[c]]
  BY <1>2, CallStep
<1>5. Call'[c] = [busy |-> FALSE, n |-> Call[c].n + 1, what |-> op'[c].call, key |-> op'[c].key,
                  val |-> op'[c].val, err |-> "ERR_BAD_PARAMETER", got |-> NULL]
  <2>1. (pc'[c] # "idle") = FALSE
    BY <1>2
  <2>2. result'[c].err = "ERR_BAD_PARAMETER" /\ result'[c].val = NULL
    BY <1>2
  <2>3. Call'[c] = [busy |-> pc'[c] # "idle", n |-> socket'[c], what |-> op'[c].call,
                    key |-> op'[c].key, val |-> op'[c].val,
                    err |-> result'[c].err, got |-> result'[c].val]
    BY CallOf
  <2>4. socket'[c] = Call[c].n + 1
    BY <1>2, <1>3
  <2> QED
    BY <2>1, <2>2, <2>3, <2>4, Zenon
<1>6. /\ op'[c].call \in {"put", "get"} /\ op'[c].key \in Key
      /\ op'[c].val \in Value \cup {NULL}
  BY <1>2 DEF Op
<1>7. Call'[c] \in [busy : {FALSE}, n : {Call[c].n + 1}, what : {"put", "get"}, key : Key,
                   val : Value \cup {NULL}, err : {"ERR_BAD_PARAMETER"}, got : {NULL}]
  BY <1>5, <1>6
<1>8. Register!Refuse(c)
  BY <1>1, <1>3, <1>4, <1>7 DEF Register!Refuse, history
<1> QED
  BY <1>8 DEF Register!Next

LEMMA RefusedKeeps ==
  ASSUME StoreInv, NEW c \in Client, HRefused(c),
         NEW writer, NEW taken, Regular(writer, taken)
  PROVE  Regular(writer, taken)'
<1>1. TypeOK /\ Refused(c) /\ UNCHANGED <<live, hides, allowed>>
  BY DEF HRefused, StoreInv, history
<1>2. socket \in [Client -> Nat]
  BY <1>1 DEF TypeOK
<1> QED
  BY <1>1, <1>2, RefusedEffect, RegularSame

(* Where no key is empty no operation asks for a dump: one that a server   *)
(* still sends goes to nobody.                                             *)
LEMMA DumpPacketKeeps ==
  ASSUME StoreInv, Empty \notin Key, NEW s \in Server, DumpPacket(s), UNCHANGED history,
         NEW writer, NEW taken, Regular(writer, taken)
  PROVE  Regular(writer, taken)'
<1>1. TypeOK /\ DumpsTrue /\ UNCHANGED <<live, hides, allowed>>
  BY DEF StoreInv, history
<1>2. PICK p \in dumping[s] :
        /\ p \in Dump
        /\ buffer' = buffer \/ (p.socket = socket[p.client] /\ pc[p.client] # "idle")
  BY <1>1, DumpPacketEffect
<1>3. buffer' = buffer
  <2> SUFFICES ASSUME p.socket = socket[p.client], pc[p.client] # "idle"
               PROVE  FALSE
    BY <1>2
  <2>1. p.client \in Client
    BY <1>2 DEF Dump
  <2>2. op[p.client].key \in Key
    BY <1>1, <2>1, NodesFacts DEF Op
  <2>3. Datagram(op[p.client]).type = "dump"
    BY <1>1 DEF DumpsTrue, DumpTrue
  <2> QED
    BY <2>2, <2>3 DEF Datagram, PutDatagram, GetDatagram
<1>4. UNCHANGED <<walk, store, inbox, pc, op, socket, next, acks, votes>>
  BY <1>1, DumpPacketEffect
<1>5. socket \in [Client -> Nat]
  BY <1>1 DEF TypeOK
<1> QED
  BY <1>1, <1>3, <1>4, <1>5, RegularSame

(* Every step is a step of the register, or one that it does not see.     *)
LEMMA StepRegular ==
  ASSUME QuorumsMeet, RegularInv, HNext
  PROVE  RegularInv' /\ (Register!Next \/ UNCHANGED Register!vars)
<1>1. PICK writer, taken : Regular(writer, taken)
  BY DEF RegularInv
<1>2. /\ StoreInv /\ TypeOK /\ Empty \notin Key
      /\ live \in [Key -> SUBSET Puts] /\ hides \in [Client -> SUBSET Puts]
      /\ allowed \in [Client -> SUBSET Puts]
  BY <1>1 DEF RegularInv, StoreInv, QuorumsMeet, Regular, HistoriesOK
<1>3. StoreInv'
  BY <1>2, StepStoreInv DEF HNext, HPutStart, HGetStart, HRefused, HStep, HServe, Next
<1>4. ~(copies < MaxCopies) /\ ~(crashes < MaxCrash)
  BY <1>2 DEF TypeOK, QuorumsMeet
<1>5. ASSUME NEW c \in Client, HPutStart(c)
      PROVE  Register!Next /\ \E w, t : Regular(w, t)'
  BY <1>1, <1>2, <1>5, PutStartRefines, PutStartKeeps
<1>6. ASSUME NEW c \in Client, HGetStart(c)
      PROVE  Register!Next /\ \E w, t : Regular(w, t)'
  BY <1>1, <1>2, <1>6, GetStartRefines, GetStartKeeps
<1>7. ASSUME NEW c \in Client, HStep(c), Send(c)
      PROVE  UNCHANGED Register!vars /\ \E w, t : Regular(w, t)'
  <2>1. /\ UNCHANGED <<op, socket, result>> /\ pc'[c] # "idle"
        /\ \A d \in Client : pc'[d] = "idle" <=> pc[d] = "idle"
    BY <1>2, <1>7 DEF Send, TypeOK
  <2>2. UNCHANGED history
    BY <1>7, <2>1 DEF HStep
  <2>3. UNCHANGED Register!vars
    BY <2>1, <2>2, QuietRefines
  <2> QED
    BY <1>1, <1>2, <1>7, <2>2, <2>3, SendKeeps
<1>8. ASSUME NEW c \in Client, HStep(c), RecvPut(c) \/ RecvGet(c) \/ Timeout(c)
      PROVE  (Register!Next \/ UNCHANGED Register!vars) /\ \E w, t : Regular(w, t)'
  <2>1. pc[c] = "receiving"
    BY <1>2, <1>8, ReceiveCases
  <2>2. CASE \E m \in buffer[c] : Counts(c, m)
    <3>1. PICK m \in buffer[c] : Counts(c, m)
      BY <2>2
    <3>2. UNCHANGED <<pc, op, socket, result>>
      BY <3>1 DEF Counts
    <3>3. UNCHANGED history
      BY <1>8, <2>1, <3>2 DEF HStep
    <3>4. UNCHANGED Register!vars
      BY <3>2, <3>3, QuietRefines
    <3>5. \E t : Regular(writer, t)'
      BY <1>1, <1>2, <1>8, <3>1, <3>3, CountsKeeps
    <3> QED
      BY <3>4, <3>5
  <2>3. CASE \E err, v : Returns(c, err, v)
    <3>1. PICK err, v : Returns(c, err, v)
      BY <2>3
    <3>2. Return(c, err, v) /\ pc'[c] = "idle"
      BY <1>2, <3>1 DEF Returns, Return, TypeOK
    <3>3. HReturn(c)
      BY <1>8, <3>2 DEF HStep
    <3>4. \E t : Regular(writer, t)'
      BY <1>1, <1>2, <2>1, <3>1, <3>3, ReturnKeeps
    <3>5. op[c].call = "put" => v = NULL /\ err \in {"ERR_NONE", "ERR_NETWORK"}
                                /\ allowed[c] = {}
      BY <1>1, <3>1 DEF Returns, Regular, HistoriesOK
    <3>6. ASSUME op[c].call = "get"
          PROVE  /\ \/ err = "ERR_NONE" /\ \E p \in allowed[c] : p.val = v
                    \/ err \in {"ERR_NETWORK", "ERR_NOT_FOUND"} /\ v = NULL
                 /\ hides[c] = {}
      <4>1. hides[c] = {}
        BY <1>1, <3>6 DEF Regular, HistoriesOK
      <4>2. CASE err = "ERR_NONE" /\ \E m \in buffer[c] :
                   m.type # "missing" /\ v = Vote(m) /\ Increment(votes[c][v]) >= op[c].R
        BY <1>1, <1>2, <2>1, <3>6, <4>1, <4>2, GetReturnsAllowed
      <4> QED
        BY <3>1, <3>6, <4>1, <4>2 DEF Returns
    <3>7. Register!Next
      BY <1>2, <2>1, <3>2, <3>3, <3>5, <3>6, ReturnRefines
    <3> QED
      BY <3>4, <3>7
  <2> QED
    BY <1>2, <1>8, <2>2, <2>3, ReceiveCases
<1>9. ASSUME NEW s \in Server, HServe(s)
      PROVE  UNCHANGED Register!vars /\ \E w, t : Regular(w, t)'
  <2>1. (Handle(s) \/ DumpPacket(s)) /\ UNCHANGED history
    BY <1>4, <1>9 DEF HServe, CopyRequest, CrashRestart
  <2>2. UNCHANGED <<pc, op, socket, result>>
    BY <2>1 DEF Handle, DumpPacket
  <2>3. UNCHANGED Register!vars
    BY <2>1, <2>2, QuietRefines
  <2>4. \E w, t : Regular(w, t)'
    BY <1>1, <1>2, <2>1, HandleKeeps, DumpPacketKeeps
  <2> QED
    BY <2>3, <2>4
<1>10. \A c \in Client : ~CopyReply(c)
  BY <1>4 DEF CopyReply
<1>11. ASSUME NEW c \in Client, HRefused(c)
       PROVE  Register!Next /\ \E w, t : Regular(w, t)'
  BY <1>1, <1>2, <1>11, RefusedRefines, RefusedKeeps
<1>12. /\ Register!Next \/ UNCHANGED Register!vars
       /\ \E w, t : Regular(w, t)'
  BY <1>5, <1>6, <1>7, <1>8, <1>9, <1>10, <1>11 DEF HNext, HStep, Step
<1> QED
  BY <1>3, <1>12 DEF RegularInv

(* The servers asked are at most N. *)
LEMMA AsksCount ==
  ASSUME NEW w \in Walks, NEW k \in Key, NEW a \in Args
  PROVE  IsFiniteSet(Asks(w, k, a)) /\ Cardinality(Asks(w, k, a)) <= a.N
<1> DEFINE D == DOMAIN w[k] \cap 1 .. a.N
           f == [i \in D |-> w[k][i]]
           S == Asks(w, k, a)
<1>1. a.N \in Nat
  BY StoreAssumption
<1>2. IsFiniteSet(1 .. a.N) /\ Cardinality(1 .. a.N) = a.N
  <2>1. /\ IsFiniteSet(1 .. a.N)
        /\ Cardinality(1 .. a.N) = IF 1 > a.N THEN 0 ELSE a.N - 1 + 1
    <3>1. 1 \in Int /\ a.N \in Int
      BY <1>1
    <3> QED
      BY <3>1, FS_Interval, Zenon
  <2>2. (IF 1 > a.N THEN 0 ELSE a.N - 1 + 1) = a.N
    BY <1>1
  <2> QED
    BY <2>1, <2>2
<1>3. D \in SUBSET (1 .. a.N)
  OBVIOUS
<1>4. f \in Surjection(D, S)
  BY DEF Surjection, Asks
<1> HIDE DEF D, f, S
<1>5. IsFiniteSet(D) /\ Cardinality(D) <= a.N /\ Cardinality(D) \in Nat
  BY <1>2, <1>3, FS_Subset, FS_CardinalityType
<1>6. IsFiniteSet(S) /\ Cardinality(S) <= Cardinality(D) /\ Cardinality(S) \in Nat
  BY <1>4, <1>5, FS_Surjection, FS_CardinalityType
<1> QED
  BY <1>1, <1>5, <1>6 DEF S

(***************************************************************************)
(* Where every client has the same ring and the same N, R + W > N is all   *)
(* that the options need; where rings or N may differ, R + W must be above *)
(* the number of servers (the options of client.c, the nodes list of       *)
(* ring.c).                                                                *)
(***************************************************************************)
THEOREM OptionsThatMeet ==
  ASSUME InOrder, MaxCrash = 0, MaxCopies = 0, Empty \notin Key,
         \/ /\ \A v, w \in Walks : v = w
            /\ \A a, b \in Args : a.N = b.N /\ a.R + b.W > a.N
         \/ \A a, b \in Args : a.R + b.W > Cardinality(Server)
  PROVE  QuorumsMeet
<1> SUFFICES ASSUME NEW k \in Key, NEW v \in Walks, NEW w \in Walks, NEW a \in Args, NEW b \in Args,
                    NEW P \in SUBSET Asks(v, k, a), NEW G \in SUBSET Asks(w, k, b),
                    Cardinality(P) >= a.W, Cardinality(G) >= b.R
             PROVE  P \cap G # {}
  BY DEF QuorumsMeet
<1>1. a.N \in Nat /\ b.R \in Nat /\ a.W \in Nat
  BY StoreAssumption
<1>2. \E U : /\ IsFiniteSet(U) /\ P \subseteq U /\ G \subseteq U
             /\ b.R + a.W > Cardinality(U)
  <2>1. CASE /\ \A x, y \in Walks : x = y
             /\ \A x, y \in Args : x.N = y.N /\ x.R + y.W > x.N
    <3>1. v = w /\ a.N = b.N /\ b.R + a.W > b.N
      BY <2>1
    <3>2. Asks(v, k, a) = Asks(w, k, b)
      BY <3>1 DEF Asks
    <3>3. IsFiniteSet(Asks(w, k, b)) /\ Cardinality(Asks(w, k, b)) <= b.N
      BY AsksCount
    <3>4. Cardinality(Asks(w, k, b)) \in Nat
      BY <3>3, FS_CardinalityType
    <3>5. b.R + a.W > Cardinality(Asks(w, k, b))
      BY <1>1, <3>1, <3>3, <3>4
    <3>6. P \subseteq Asks(w, k, b) /\ G \subseteq Asks(w, k, b)
      BY <3>2
    <3> QED
      BY <3>3, <3>5, <3>6
  <2>2. CASE \A x, y \in Args : x.R + y.W > Cardinality(Server)
    <3>1. P \subseteq Server /\ G \subseteq Server
      BY AsksFacts
    <3>2. IsFiniteSet(Server) /\ b.R + a.W > Cardinality(Server)
      BY <2>2, StoreAssumption
    <3> QED
      BY <3>1, <3>2
  <2> QED
    BY <2>1, <2>2
<1>3. PICK U : /\ IsFiniteSet(U) /\ P \subseteq U /\ G \subseteq U
               /\ b.R + a.W > Cardinality(U)
  BY <1>2
<1>4. Cardinality(P) \in Nat /\ Cardinality(G) \in Nat /\ Cardinality(U) \in Nat
  BY <1>3, FS_Subset, FS_CardinalityType
<1>5. Cardinality(P) + Cardinality(G) > Cardinality(U)
  BY <1>1, <1>3, <1>4
<1> QED
  BY <1>3, <1>5, FS_MajoritiesIntersect

(***************************************************************************)
(* Whatever datagrams are lost and whoever runs at the same time, the puts *)
(* and gets of the table implement a regular register per key when every   *)
(* put's quorum meets every get's (network_put, network_get and the loop   *)
(* of the servers).                                                        *)
(***************************************************************************)
THEOREM RegularPutsAndGets ==
  ASSUME QuorumsMeet
  PROVE  HSpec => RegularReads
<1>1. HInit => RegularInv
  BY InitRegular
<1>2. RegularInv /\ [HNext]_hvars => RegularInv'
  BY StepRegular, StutterRegular
<1>3. RegularInv /\ [HNext]_hvars => [Register!Next]_(Register!vars)
  <2>1. ASSUME UNCHANGED hvars PROVE UNCHANGED Register!vars
    BY <2>1, QuietRefines DEF hvars, vars, clientVars, history
  <2> QED
    BY <2>1, StepRegular
<1> QED
  BY <1>1, <1>2, <1>3, InitRefines, PTL DEF HSpec, RegularReads, Register!Spec

=============================================================================
