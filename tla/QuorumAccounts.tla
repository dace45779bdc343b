-------------------------- MODULE QuorumAccounts --------------------------
(***************************************************************************)
(* QuorumStore with history variables: lost counts the requests and        *)
(* replies of a client's running operation that got nowhere, on the        *)
(* network or with a server that crashed, extra what there was beyond one  *)
(* datagram for each send: the copies the network made, and the datagrams  *)
(* of a dump after its first; written is what was ever put; held are the   *)
(* clients whose get asks servers that all have had a value for its key    *)
(* since it began.                                                         *)
(***************************************************************************)
EXTENDS QuorumStore

VARIABLES lost, extra, written, held

avars == <<vars, lost, extra, written, held>>

AllHold(c) == \A i \in 1 .. Len(Nodes(c)) : store[Nodes(c)[i]][op[c].key] # NULL

Running == {c \in Client : pc[c] # "idle"}

StillHeld == held' = {c \in held : pc'[c] # "idle" => AllHold(c)'}

AInit ==
  /\ Init
  /\ lost = [c \in Client |-> 0] /\ extra = [c \in Client |-> 0]
  /\ written = [k \in Key |-> {}]
  /\ held = {}

(* A call that is refused puts nothing and asks nobody. *)
ARefused(c) == Refused(c) /\ UNCHANGED <<lost, extra, written, held>>

AStart(c) ==
  /\ PutStart(c) \/ GetStart(c)
  /\ UNCHANGED <<lost, extra>>
  /\ written' = IF op'[c].call = "put"
                THEN [written EXCEPT ![op'[c].key] = @ \cup {op'[c].val}]
                ELSE written
  /\ held' = IF op'[c].call = "get" /\ AllHold(c)' THEN held \cup {c} ELSE held \ {c}

ASend(c) ==
  /\ Send(c)
  /\ lost' = [lost EXCEPT ![c] = IF inbox' = inbox THEN @ + 1 ELSE @]
  /\ UNCHANGED <<extra, written, held>>

AReceive(c) ==
  /\ RecvPut(c) \/ RecvGet(c) \/ Timeout(c)
  /\ lost' = [lost EXCEPT ![c] = IF pc'[c] = "idle" THEN 0 ELSE @]
  /\ extra' = [extra EXCEPT ![c] = IF pc'[c] = "idle" THEN 0 ELSE @]
  /\ UNCHANGED <<written, held>>

(* A request that is gone without a reply in the socket is lost. *)
AHandle(s) ==
  /\ Handle(s)
  /\ lost' = [c \in Client |->
                IF c \in Running /\ Outstanding(c)' # Outstanding(c) /\ buffer' = buffer
                THEN lost[c] + 1 ELSE lost[c]]
  /\ StillHeld
  /\ UNCHANGED <<extra, written>>

(* One more datagram of a dump that the client's running put asked for. *)
ADumpPacket(s) ==
  /\ DumpPacket(s)
  /\ LET Asker == {c \in Running :
                     \E p \in dumping[s] : p.client = c /\ p.socket = socket[c]}
     IN  /\ extra' = [c \in Client |-> IF c \in Asker THEN extra[c] + 1 ELSE extra[c]]
         /\ lost' = [c \in Client |-> IF c \in Asker /\ buffer' = buffer
                                      THEN lost[c] + 1 ELSE lost[c]]
  /\ UNCHANGED <<written, held>>

ACrashRestart(s) ==
  /\ CrashRestart(s)
  /\ lost' = [c \in Client |->
                IF c \in Running
                THEN lost[c] + Cardinality(Outstanding(c)) - Cardinality(Outstanding(c)')
                ELSE lost[c]]
  /\ StillHeld
  /\ UNCHANGED <<extra, written>>

ACopy ==
  /\ (\E s \in Server : CopyRequest(s)) \/ (\E c \in Client : CopyReply(c))
  /\ extra' = [c \in Client |->
                 IF c \in Running
                 THEN extra[c] + Cardinality(Outstanding(c)') - Cardinality(Outstanding(c))
                               + Cardinality(buffer'[c]) - Cardinality(buffer[c])
                 ELSE extra[c]]
  /\ UNCHANGED <<lost, written, held>>

AClient(c) == ASend(c) \/ AReceive(c)

ANext ==
  \/ \E c \in Client : ARefused(c) \/ AStart(c) \/ AClient(c)
  \/ \E s \in Server : AHandle(s) \/ ADumpPacket(s) \/ ACrashRestart(s)
  \/ ACopy

(* An operation that runs goes on; of the servers nothing is assumed. *)
AFairness == \A c \in Client : WF_avars(AClient(c))

ASpec == AInit /\ [][ANext]_avars /\ AFairness

-----------------------------------------------------------------------------
(***************************************************************************)
(* A get returns only what was put for its key, whatever is lost, late,    *)
(* reordered or crashes (the empty key is no key to the servers: its read  *)
(* is a ping).                                                             *)
(***************************************************************************)
ReadsOnlyWhatWasPut ==
  \A c \in Client :
    (pc[c] = "idle" /\ op[c].call = "get" /\ result[c].err = "ERR_NONE"
       /\ op[c].key # Empty) => result[c].val \in written[op[c].key]

(***************************************************************************)
(* Durability: after a put of a pair that is not all empty has returned 0, *)
(* at least W servers have a value for its key, less the crashes and less  *)
(* the copies, which are counted as servers (network.c:118); nothing late  *)
(* takes a key away again.                                                 *)
(***************************************************************************)
Durable ==
  \A c \in Client :
    (pc[c] = "idle" /\ op[c].call = "put" /\ result[c].err = "ERR_NONE"
       /\ Datagram(op[c]).type = "write") =>
      Cardinality({s \in Server : store[s][op[c].key] # NULL}) + crashes + copies >= op[c].W

(* The replies c has counted as votes, one element for each. *)
Heard(c) == UNION {{v} \X (1 .. votes[c][v]) : v \in Value \cup {Empty}}

(***************************************************************************)
(* Every send of a running operation, every copy, and every datagram of a  *)
(* dump after its first, is accounted for: it is lost, waits at a server,  *)
(* waits in the socket, or was counted by the client exactly once (the     *)
(* counters of network_put and network_get), as long as there are too few  *)
(* for a vote counter to overflow.                                         *)
(***************************************************************************)
EverySendAccounted ==
  \A c \in Client :
    (pc[c] # "idle" /\ (op[c].call = "put" \/ op[c].N + extra[c] <= CharMax)) =>
      next[c] - 1 + extra[c] = lost[c] + Cardinality(Outstanding(c)) + Cardinality(buffer[c])
                                 + acks[c] + missing[c] + Cardinality(Heard(c))

(***************************************************************************)
(* A put fails only if so many of its datagrams were lost, or are not yet  *)
(* handled when recv gives up, that fewer than W of them, with the copies  *)
(* and the further datagrams of dumps, can have come back.                 *)
(***************************************************************************)
PutFailsOnlyByLoss ==
  [][\A c \in Client :
       (pc[c] = "receiving" /\ op[c].call = "put" /\ result'[c].err = "ERR_NETWORK") =>
         op[c].N + extra[c] - lost[c] - Cardinality(Outstanding(c)) < op[c].W]_avars

(***************************************************************************)
(* A get says that there is no value only if some server it asks had none, *)
(* at some moment since it began: not because answers are late or lost.    *)
(***************************************************************************)
NotFoundIsTrue ==
  \A c \in Client :
    (pc[c] = "idle" /\ op[c].call = "get" /\ result[c].err = "ERR_NOT_FOUND") => c \notin held

(***************************************************************************)
(* Why an operation returns: with each step of its own it comes nearer to  *)
(* its end, and no server, network or other client sends it back.  A put   *)
(* counts whatever arrives, and there may be any number of datagrams of a  *)
(* dump; a get returns because requests and copies run out.                *)
(***************************************************************************)
StepsLeft(c) ==
  IF op[c].call = "put"
  THEN op[c].N + 1 - next[c] + op[c].W - acks[c]
  ELSE 2 * (op[c].N + 1 - next[c]) + Cardinality(Outstanding(c))
         + Cardinality(buffer[c]) + MaxCopies - copies

EachStepNearsTheEnd ==
  [][\A c \in Client : pc[c] # "idle" =>
       \/ pc'[c] = "idle"
       \/ /\ StepsLeft(c)' \in 0 .. StepsLeft(c)
          /\ AClient(c) => StepsLeft(c)' # StepsLeft(c)]_avars

(* Every operation returns: nobody waits for an answer for ever. *)
OperationsReturn == \A c \in Client : pc[c] # "idle" ~> pc[c] = "idle"

=============================================================================
