---------------------------- MODULE QuorumStore ----------------------------
(***************************************************************************)
(* The distributed table: client processes that run network_put and        *)
(* network_get (network.c) one after the other, the servers' receive loop  *)
(* (pps-launch-server.c) and the UDP datagrams between them.               *)
(*                                                                         *)
(* A client is one thread, so an operation is a sequence of sendto calls,  *)
(* then of recv calls, each a step here.  It opens a socket of its own and *)
(* never closes it: a reply to an earlier operation of the same client     *)
(* goes to a socket nobody reads.  The only clock is the timeout of recv.  *)
(*                                                                         *)
(* A server takes one datagram at a time and answers it before the next.   *)
(* What a datagram means is read from its length and its NUL byte alone,   *)
(* so operations on the empty string send something else than they mean:   *)
(* put("", "") asks for a dump, which may take many datagrams or never end *)
(* (module Dump has the sizes that decide it; here it may be either).      *)
(* The servers' tables are the maps of KVMap, which HashTable implements.  *)
(* The memory of an operation (network.c:29-44) and of a server is enough, *)
(* and no caller passes NULL for a key or a value.                         *)
(***************************************************************************)
EXTENDS Integers, Sequences, FiniteSets, Functions

CONSTANTS
  Server,      \* the distinct (ip, port) of servers.txt
  Client,      \* client processes
  Key, Value,  \* strings
  Empty,       \* the empty string, a key or a value or neither
  Long,        \* the strings of more than MAX_MSG_ELEM_SIZE bytes
  NULL,        \* no value
  Walks,       \* the orders in which a ring may list all servers for each key
  Args,        \* the options [N, R, W] the operations are run with
  CharMax,     \* the largest value of a signed char
  Calls,       \* Calls[c][i]: what the i-th operation of c may be, without its options
  InOrder,     \* do datagrams reach a server in the order they were sent?
  Lossy,       \* the kinds of datagrams that may be lost: "request", "reply"
  MaxCrash,    \* how often servers may crash, all of them together
  MaxCopies,   \* how many datagrams the network may deliver twice
  MaxPackets   \* how many datagrams of one dump a server sends here

ASSUME StoreAssumption ==
  /\ IsFiniteSet(Server)
  /\ NULL \notin Value
  /\ Long \subseteq Key \cup Value /\ Empty \notin Long
  /\ Walks \subseteq [Key -> {w \in [1 .. Cardinality(Server) -> Server] :
                                \A i, j \in DOMAIN w : w[i] = w[j] => i = j}]
  /\ Args \subseteq [N : Nat \ {0}, R : Nat \ {0}, W : Nat \ {0}]
  /\ CharMax \in Nat \ {0}
  /\ Calls \in [Client -> Seq(SUBSET ([call : {"put"}, key : Key, val : Value]
                                       \cup [call : {"get"}, key : Key, val : {NULL}]))]
  /\ InOrder \in BOOLEAN
  /\ Lossy \subseteq {"request", "reply"}
  /\ MaxCrash \in Nat /\ MaxCopies \in Nat /\ MaxPackets \in Nat \ {0}

VARIABLES
  walk,     \* the order of the servers in the ring of a client's process
  store,    \* store[s][k]: what server s has for k, or NULL
  inbox,    \* the datagrams on their way to a server
  dumping,  \* dumping[s]: {}, or {p} if s has only sent a part of the dump p
  crashes,
  copies,   \* the datagrams that the network has made a copy of
  pc,       \* "idle", "sending" or "receiving"
  op,       \* the operation: call, key, value and options
  socket,   \* the number of the socket, i.e. of the operation
  next,     \* the loop index of the sends, from 1
  buffer,   \* the replies that wait in the socket
  acks,     \* success in network_put
  votes,    \* local_h_table in network_get: signed characters
  missing,  \* error_not_found in network_get
  result    \* what the last operation returned

serverVars == <<store, inbox, dumping, crashes, copies>>
tallyVars  == <<acks, votes, missing>>
clientVars == <<pc, op, socket, next, buffer, tallyVars, result>>
vars       == <<walk, serverVars, clientVars>>

-----------------------------------------------------------------------------
(* Requests and replies. *)

(* format_put_request: key, NUL, value; one NUL alone asks for a dump. *)
PutDatagram(k, v) ==
  [type |-> IF k = Empty /\ v = Empty THEN "dump" ELSE "write", key |-> k, val |-> v]

(* The key without its NUL; nothing at all is a ping. *)
GetDatagram(k) ==
  [type |-> IF k = Empty THEN "ping" ELSE "read", key |-> k, val |-> NULL]

Datagram(o) == IF o.call = "put" THEN PutDatagram(o.key, o.val) ELSE GetDatagram(o.key)

(* A datagram with the socket it is sent from; a copy of it has a number.  *)
Sent(d, c) == [type |-> d.type, key |-> d.key, val |-> d.val,
               client |-> c, socket |-> socket[c], copy |-> 0]
Replied(m, s, n) == [type |-> m.type, val |-> m.val, from |-> s, copy |-> n, packet |-> 1]

Request == [type : {"dump", "write", "ping", "read"}, key : Key,
            val : Value \cup {NULL}, client : Client, socket : Nat, copy : Nat]

(* The client and the copy of the request that a dump answers, and how     *)
(* many of its datagrams are sent.                                         *)
Dump == [client : Client, socket : Nat, copy : Nat, sent : Nat \ {0}]

(* What a server with table t sends back first: an empty datagram to a     *)
(* ping or a write, the value or a single NUL to a read, as much of the    *)
(* table as fits to a dump; an empty table is an empty datagram.           *)
Answer(t, d) ==
  CASE d.type = "read" ->
         IF t[d.key] = NULL THEN [type |-> "missing", val |-> NULL]
                            ELSE [type |-> "value", val |-> t[d.key]]
    [] d.type = "dump" /\ \E k \in Key : t[k] # NULL ->
         [type |-> "dump", val |-> NULL]
    [] OTHER -> [type |-> "nothing", val |-> NULL]

Reply == [type : {"missing", "value", "dump", "nothing"},
          val : Value \cup {NULL}, from : Server, copy : Nat, packet : Nat]

(* ring_get_nodes_for_key: the first N servers of the walk, or all. *)
Nodes(c) ==
  LET w == walk[c][op[c].key]
  IN  SubSeq(w, 1, IF op[c].N <= Len(w) THEN op[c].N ELSE Len(w))

(* A signed char that is incremented. *)
Increment(n) == IF n = CharMax THEN -CharMax - 1 ELSE n + 1

NoOp     == [call |-> "none", key |-> NULL, val |-> NULL, N |-> 0, R |-> 0, W |-> 0]
NoResult == [err |-> "none", val |-> NULL]
NoVotes  == [v \in Value \cup {Empty} |-> 0]

Init ==
  /\ walk \in [Client -> Walks]
  /\ store = [s \in Server |-> [k \in Key |-> NULL]]
  /\ inbox = [s \in Server |-> <<>>]
  /\ dumping = [s \in Server |-> {}]
  /\ crashes = 0 /\ copies = 0
  /\ pc = [c \in Client |-> "idle"]
  /\ op = [c \in Client |-> NoOp]
  /\ socket = [c \in Client |-> 0]
  /\ next = [c \in Client |-> 1]
  /\ buffer = [c \in Client |-> {}]
  /\ acks = [c \in Client |-> 0]
  /\ votes = [c \in Client |-> NoVotes]
  /\ missing = [c \in Client |-> 0]
  /\ result = [c \in Client |-> NoResult]

-----------------------------------------------------------------------------
(* Clients. *)

(* Both operations open a socket before anything else. *)
Open(c, call, k, v, a) ==
  /\ pc[c] = "idle"
  /\ socket[c] < Len(Calls[c])
  /\ [call |-> call, key |-> k, val |-> v] \in Calls[c][socket[c] + 1]
  /\ op' = [op EXCEPT ![c] =
              [call |-> call, key |-> k, val |-> v, N |-> a.N, R |-> a.R, W |-> a.W]]
  /\ socket' = [socket EXCEPT ![c] = @ + 1]
  /\ UNCHANGED <<walk, serverVars>>

(* M_EXIT_IF_TOO_LONG: the operation returns before it sends anything. *)
Refused(c) ==
  /\ \E call \in {"put", "get"}, k \in Key, v \in Value \cup {NULL}, a \in Args :
       {k, v} \cap Long # {} /\ Open(c, call, k, v, a)
  /\ result' = [result EXCEPT ![c] = [err |-> "ERR_BAD_PARAMETER", val |-> NULL]]
  /\ UNCHANGED <<pc, next, buffer, tallyVars>>

(* Both look up the nodes and start counting. *)
Start(c, call, k, v, a) ==
  /\ {k, v} \cap Long = {}
  /\ Open(c, call, k, v, a)
  /\ pc' = [pc EXCEPT ![c] = "sending"]
  /\ next' = [next EXCEPT ![c] = 1]
  /\ buffer' = [buffer EXCEPT ![c] = {}]
  /\ acks' = [acks EXCEPT ![c] = 0]
  /\ votes' = [votes EXCEPT ![c] = NoVotes]
  /\ missing' = [missing EXCEPT ![c] = 0]
  /\ result' = [result EXCEPT ![c] = NoResult]

PutStart(c) == \E k \in Key, v \in Value, a \in Args : Start(c, "put", k, v, a)

GetStart(c) == \E k \in Key, a \in Args : Start(c, "get", k, NULL, a)

(* Variant with a bug: the loop over the nodes turns once too often. *)
SendOneMore(c) ==
  /\ pc[c] = "sending"
  /\ \/ /\ next[c] <= Len(Nodes(c))
        /\ inbox' = [inbox EXCEPT ![Nodes(c)[next[c]]] =
                       Append(@, Sent(Datagram(op[c]), c))]
     \/ /\ "request" \in Lossy \/ next[c] > Len(Nodes(c))
        /\ UNCHANGED inbox
  /\ next' = [next EXCEPT ![c] = @ + 1]
  /\ pc' = [pc EXCEPT ![c] = IF next[c] > op[c].N THEN "receiving" ELSE @]
  /\ UNCHANGED <<walk, store, dumping, crashes, copies, op, socket, buffer, tallyVars, result>>

(***************************************************************************)
(* One send_packet; its error is ignored.  Past the end of the nodes list  *)
(* the address is all zero and sendto fails.                               *)
(***************************************************************************)
Send(c) ==
  /\ pc[c] = "sending"
  /\ \/ /\ next[c] <= Len(Nodes(c))
        /\ inbox' = [inbox EXCEPT ![Nodes(c)[next[c]]] =
                       Append(@, Sent(Datagram(op[c]), c))]
     \/ /\ "request" \in Lossy \/ next[c] > Len(Nodes(c))
        /\ UNCHANGED inbox
  /\ next' = [next EXCEPT ![c] = @ + 1]
  /\ pc' = [pc EXCEPT ![c] = IF next[c] >= op[c].N THEN "receiving" ELSE @]
  /\ UNCHANGED <<walk, store, dumping, crashes, copies, op, socket, buffer, tallyVars, result>>

(* The operation returns: its locals are gone, its socket is never read. *)
Return(c, err, v) ==
  /\ pc' = [pc EXCEPT ![c] = "idle"]
  /\ result' = [result EXCEPT ![c] = [err |-> err, val |-> v]]
  /\ next' = [next EXCEPT ![c] = 1]
  /\ buffer' = [buffer EXCEPT ![c] = {}]
  /\ acks' = [acks EXCEPT ![c] = 0]
  /\ votes' = [votes EXCEPT ![c] = NoVotes]
  /\ missing' = [missing EXCEPT ![c] = 0]
  /\ UNCHANGED <<walk, serverVars, op, socket>>

(* It goes on receiving. *)
GoOn == UNCHANGED <<walk, serverVars, pc, op, socket, next, result>>

(* Variants with a bug: an ack too few is enough, or one more is needed. *)
RecvPutEarly(c) ==
  /\ pc[c] = "receiving" /\ op[c].call = "put"
  /\ \E m \in buffer[c] :
       \/ /\ acks[c] + 2 >= op[c].W
          /\ Return(c, "ERR_NONE", NULL)
       \/ /\ acks[c] + 2 < op[c].W
          /\ buffer' = [buffer EXCEPT ![c] = @ \ {m}]
          /\ acks' = [acks EXCEPT ![c] = @ + 1]
          /\ UNCHANGED <<votes, missing>>
          /\ GoOn

RecvPutLate(c) ==
  /\ pc[c] = "receiving" /\ op[c].call = "put"
  /\ \E m \in buffer[c] :
       \/ /\ acks[c] >= op[c].W
          /\ Return(c, "ERR_NONE", NULL)
       \/ /\ acks[c] < op[c].W
          /\ buffer' = [buffer EXCEPT ![c] = @ \ {m}]
          /\ acks' = [acks EXCEPT ![c] = @ + 1]
          /\ UNCHANGED <<votes, missing>>
          /\ GoOn

(* network_put's loop: any datagram at all counts as a success. *)
RecvPut(c) ==
  /\ pc[c] = "receiving" /\ op[c].call = "put"
  /\ \E m \in buffer[c] :
       \/ /\ acks[c] + 1 >= op[c].W
          /\ Return(c, "ERR_NONE", NULL)
       \/ /\ acks[c] + 1 < op[c].W
          /\ buffer' = [buffer EXCEPT ![c] = @ \ {m}]
          /\ acks' = [acks EXCEPT ![c] = @ + 1]
          /\ UNCHANGED <<votes, missing>>
          /\ GoOn

(* The string a reply to a get votes for: "" if the datagram is empty. *)
Vote(m) == IF m.type = "value" THEN m.val ELSE Empty

(* Variants with a bug: a miss is a vote for the empty string, and the     *)
(* counter that is not yet R is not stored back.                           *)
RecvGetCountsMisses(c) ==
  /\ pc[c] = "receiving" /\ op[c].call = "get"
  /\ \E m \in buffer[c] :
       \/ /\ Increment(votes[c][Vote(m)]) >= op[c].R
          /\ Return(c, "ERR_NONE", Vote(m))
       \/ /\ Increment(votes[c][Vote(m)]) < op[c].R
          /\ buffer' = [buffer EXCEPT ![c] = @ \ {m}]
          /\ votes' = [votes EXCEPT ![c][Vote(m)] = Increment(@)]
          /\ UNCHANGED <<acks, missing>>
          /\ GoOn

RecvGetForgetsCount(c) ==
  /\ pc[c] = "receiving" /\ op[c].call = "get"
  /\ \E m \in buffer[c] :
       \/ /\ m.type = "missing"
          /\ buffer' = [buffer EXCEPT ![c] = @ \ {m}]
          /\ missing' = [missing EXCEPT ![c] = @ + 1]
          /\ UNCHANGED <<acks, votes>>
          /\ GoOn
       \/ /\ m.type # "missing"
          /\ Increment(votes[c][Vote(m)]) >= op[c].R
          /\ Return(c, "ERR_NONE", Vote(m))
       \/ /\ m.type # "missing"
          /\ Increment(votes[c][Vote(m)]) < op[c].R
          /\ buffer' = [buffer EXCEPT ![c] = @ \ {m}]
          /\ UNCHANGED <<tallyVars>>
          /\ GoOn

(* network_get's loop: a single NUL is a miss, anything else is a vote. *)
RecvGet(c) ==
  /\ pc[c] = "receiving" /\ op[c].call = "get"
  /\ \E m \in buffer[c] :
       \/ /\ m.type = "missing"
          /\ buffer' = [buffer EXCEPT ![c] = @ \ {m}]
          /\ missing' = [missing EXCEPT ![c] = @ + 1]
          /\ UNCHANGED <<acks, votes>>
          /\ GoOn
       \/ /\ m.type # "missing"
          /\ Increment(votes[c][Vote(m)]) >= op[c].R
          /\ Return(c, "ERR_NONE", Vote(m))
       \/ /\ m.type # "missing"
          /\ Increment(votes[c][Vote(m)]) < op[c].R
          /\ buffer' = [buffer EXCEPT ![c] = @ \ {m}]
          /\ votes' = [votes EXCEPT ![c][Vote(m)] = Increment(@)]
          /\ UNCHANGED <<acks, missing>>
          /\ GoOn

(* The requests of c's present operation that no server has handled yet. *)
Outstanding(c) ==
  UNION {{s} \X {m \in Range(inbox[s]) : m.client = c /\ m.socket = socket[c]} : s \in Server}

(* Variant with a bug: recv waits without limit for the first reply. *)
TimeoutAfterFirst(c) ==
  /\ pc[c] = "receiving"
  /\ buffer[c] = {}
  /\ acks[c] + missing[c] > 0
  /\ Return(c, IF op[c].call = "get" /\ missing[c] # 0
               THEN "ERR_NOT_FOUND" ELSE "ERR_NETWORK", NULL)

(* Variant with a bug: a get whose recv times out has found nothing. *)
TimeoutNotFound(c) ==
  /\ pc[c] = "receiving"
  /\ buffer[c] = {}
  /\ Return(c, IF op[c].call = "get" THEN "ERR_NOT_FOUND" ELSE "ERR_NETWORK", NULL)

(* recv finds nothing for a second. *)
Timeout(c) ==
  /\ pc[c] = "receiving"
  /\ buffer[c] = {}
  /\ Return(c, IF op[c].call = "get" /\ missing[c] # 0
               THEN "ERR_NOT_FOUND" ELSE "ERR_NETWORK", NULL)

-----------------------------------------------------------------------------
(* Servers. *)

(* The datagrams recvfrom may return next. *)
Arriving(s) == IF InOrder THEN DOMAIN inbox[s] \cap {1} ELSE DOMAIN inbox[s]

Without(q, i) == SubSeq(q, 1, i - 1) \o SubSeq(q, i + 1, Len(q))

(* A server's sendto to socket n of client c: it arrives, or it is lost, or *)
(* nobody reads that socket any more.                                       *)
Deliver(m, c, n) ==
  \/ /\ n = socket[c] /\ pc[c] # "idle"
     /\ buffer' = [buffer EXCEPT ![c] = @ \cup {m}]
  \/ /\ "reply" \in Lossy \/ n # socket[c] \/ pc[c] = "idle"
     /\ UNCHANGED buffer

(***************************************************************************)
(* The body of the receive loop: handle one datagram and answer it.  Of a  *)
(* dump this is the first datagram, and there may be more.                 *)
(***************************************************************************)
Handle(s) ==
  /\ dumping[s] = {}
  /\ \E i \in Arriving(s) :
       LET d == inbox[s][i]
           a == Answer(store[s], d)
       IN  /\ inbox' = [inbox EXCEPT ![s] = Without(@, i)]
           /\ store' = IF d.type = "write"
                       THEN [store EXCEPT ![s][d.key] = d.val]
                       ELSE store
           /\ Deliver(Replied(a, s, d.copy), d.client, d.socket)
           /\ \/ UNCHANGED dumping
              \/ /\ a.type = "dump" /\ 1 < MaxPackets
                 /\ dumping' = [dumping EXCEPT ![s] =
                      {[client |-> d.client, socket |-> d.socket, copy |-> d.copy, sent |-> 1]}]
  /\ UNCHANGED <<walk, crashes, copies, pc, op, socket, next, tallyVars, result>>

(***************************************************************************)
(* The loop over the table sends one more datagram of its dump, the last   *)
(* or not.  The dump that never ends, of a pair that fits no datagram, is  *)
(* a server that takes no further step.                                    *)
(***************************************************************************)
DumpPacket(s) ==
  /\ \E p \in dumping[s] :
       /\ Deliver([type |-> "dump", val |-> NULL, from |-> s,
                   copy |-> p.copy, packet |-> p.sent + 1], p.client, p.socket)
       /\ \/ dumping' = [dumping EXCEPT ![s] = {}]
          \/ /\ p.sent + 1 < MaxPackets
             /\ dumping' = [dumping EXCEPT ![s] = {[p EXCEPT !.sent = @ + 1]}]
  /\ UNCHANGED <<walk, store, inbox, crashes, copies, pc, op, socket, next, tallyVars, result>>

(* The network delivers a request, or a reply that waits, once more; the    *)
(* copy of a request comes last unless the network reorders.               *)
CopyRequest(s) ==
  /\ copies < MaxCopies
  /\ copies' = copies + 1
  /\ \E i \in DOMAIN inbox[s] :
       inbox' = [inbox EXCEPT ![s] = Append(@, [inbox[s][i] EXCEPT !.copy = copies + 1])]
  /\ UNCHANGED <<walk, store, dumping, crashes, clientVars>>

CopyReply(c) ==
  /\ copies < MaxCopies
  /\ copies' = copies + 1
  /\ \E m \in buffer[c] : buffer' = [buffer EXCEPT ![c] = @ \cup {[m EXCEPT !.copy = copies + 1]}]
  /\ UNCHANGED <<walk, store, inbox, dumping, crashes, pc, op, socket, next, tallyVars, result>>

(* Variant with a bug: a new process has no table. *)
CrashRestartNoTable(s) ==
  /\ crashes < MaxCrash
  /\ crashes' = crashes + 1
  /\ store' = [store EXCEPT ![s] = <<>>]
  /\ inbox' = [inbox EXCEPT ![s] = <<>>]
  /\ dumping' = [dumping EXCEPT ![s] = {}]
  /\ UNCHANGED <<walk, copies, clientVars>>

(* The process dies and is started again: its table was only in memory. *)
CrashRestart(s) ==
  /\ crashes < MaxCrash
  /\ crashes' = crashes + 1
  /\ store' = [store EXCEPT ![s] = [k \in Key |-> NULL]]
  /\ inbox' = [inbox EXCEPT ![s] = <<>>]
  /\ dumping' = [dumping EXCEPT ![s] = {}]
  /\ UNCHANGED <<walk, copies, clientVars>>

-----------------------------------------------------------------------------
Step(c) == Send(c) \/ RecvPut(c) \/ RecvGet(c) \/ Timeout(c)

Next ==
  \/ \E c \in Client : PutStart(c) \/ GetStart(c) \/ Refused(c) \/ Step(c) \/ CopyReply(c)
  \/ \E s \in Server : Handle(s) \/ DumpPacket(s) \/ CopyRequest(s) \/ CrashRestart(s)

(* An operation that runs goes on.  Of the servers nothing is assumed: one  *)
(* may hang in a dump.                                                      *)
Fairness == \A c \in Client : WF_vars(Step(c))

Spec == Init /\ [][Next]_vars /\ Fairness

-----------------------------------------------------------------------------
Op == [call : {"put", "get"}, key : Key, val : Value \cup {NULL},
       N : Nat, R : Nat, W : Nat]

TypeOK ==
  /\ walk \in [Client -> Walks]
  /\ store \in [Server -> [Key -> Value \cup {NULL}]]
  /\ inbox \in [Server -> Seq(Request)]
  /\ dumping \in [Server -> SUBSET Dump]
  /\ \A s \in Server : \A p, q \in dumping[s] : p = q
  /\ crashes \in 0 .. MaxCrash /\ copies \in 0 .. MaxCopies
  /\ pc \in [Client -> {"idle", "sending", "receiving"}]
  /\ op \in [Client -> Op \cup {NoOp}]
  /\ socket \in [Client -> Nat]
  /\ next \in [Client -> Nat \ {0}]
  /\ buffer \in [Client -> SUBSET Reply]
  /\ acks \in [Client -> Nat]
  /\ votes \in [Client -> [Value \cup {Empty} -> -CharMax - 1 .. CharMax]]
  /\ missing \in [Client -> Nat]
  /\ result \in [Client -> [err : {"none", "ERR_NONE", "ERR_NETWORK",
                                   "ERR_NOT_FOUND", "ERR_BAD_PARAMETER"},
                            val : Value \cup {Empty, NULL}]]
  /\ \A c \in Client : pc[c] # "idle" => op[c] # NoOp

(***************************************************************************)
(* network.h:25 says of network_put's key "key to retrieve value later":   *)
(* once every put has returned 0 and every datagram is handled, some value *)
(* of the key is one a get can find, one that R of its servers agree on.   *)
(***************************************************************************)
Retrievable ==
  (/\ \A c \in Client : op[c].call = "put" /\ result[c].err = "ERR_NONE"
   /\ \A s \in Server : inbox[s] = <<>>) =>
    \A c \in Client : \E v \in Value :
      Cardinality({i \in DOMAIN Nodes(c) : store[Nodes(c)[i]][op[c].key] = v}) >= op[c].R

=============================================================================
