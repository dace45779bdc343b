------------------------------- MODULE Dump -------------------------------
(***************************************************************************)
(* A dump: the server cuts its table into packets (pps-launch-server.c)    *)
(* and pps-dump-node.c collects and parses them.                           *)
(*                                                                         *)
(* A packet is a sequence of strings with a NUL byte between them, which   *)
(* the parser splits again, so a body is a sequence of fields here.  One   *)
(* empty field is the packet of no bytes.  Bytes of memory that was never  *)
(* written come out as the string Garbage.                                 *)
(***************************************************************************)
EXTENDS Naturals, Sequences, FiniteSets

CONSTANTS
  Key, Value,   \* strings
  Empty,        \* the empty string
  Garbage,      \* a string of unwritten or shifted bytes
  NULL,
  Length,       \* Length[s]: strlen of a key or a value
  MaxMsg,       \* MAX_MSG_SIZE, also the largest UDP payload
  KeyAsSize,    \* the number that the first bytes of a key make as a header
  JunkSizes,    \* the numbers an unwritten header may hold
  MaxQueue,     \* datagrams that fit into the tool's socket buffer
  Lossy         \* may packets be lost?

String == Key \cup Value \cup {Empty, Garbage}
Pair   == String \X String

(* Every pair has come in one datagram.  A key that is read as a number    *)
(* makes one above MAX_MSG_SIZE, far more than any table has pairs.        *)
ASSUME DumpAssumption ==
  /\ IsFiniteSet(Key)
  /\ NULL \notin Nat
  /\ {NULL, Garbage} \cap (Key \cup Value) = {}
  /\ Length \in [Key \cup Value -> Nat]
  /\ Empty \in Key \cup Value => Length[Empty] = 0
  /\ MaxMsg \in Nat /\ MaxQueue \in Nat \ {0}
  /\ JunkSizes \subseteq Nat /\ KeyAsSize \in Nat /\ KeyAsSize > MaxMsg
  /\ Lossy \in BOOLEAN

VARIABLES
  table,        \* the server's table
  asked,        \* is a dump request on its way?
  at,           \* the server: "recvfrom" or "dump"
  node_dump,    \* the list being sent, from index 0
  counter,      \* its next pair
  packet,       \* the fields of the packet being filled
  header,       \* the number in front of them, or NULL
  size_packet,
  queue,        \* packets in the tool's socket
  sent,         \* all packets given to sendto, a history
  pc,           \* the tool: "start", "first", "more" or "done"
  kv_list,      \* what it has parsed: [size, list]
  parsed_kv_pairs,
  status        \* what it has printed: "none", "OK" or "FAIL"

serverVars == <<table, asked, at, node_dump, counter, packet, header, size_packet, sent>>
toolVars   == <<pc, kv_list, parsed_kv_pairs, status>>
vars       == <<serverVars, queue, toolVars>>

NoBytes == <<Empty>>
NoList  == [size |-> 0, list |-> <<>>]

Init ==
  /\ table = [k \in Key |-> NULL]
  /\ asked = FALSE /\ at = "recvfrom"
  /\ node_dump = <<>> /\ counter = 0
  /\ packet = NoBytes /\ header = NULL /\ size_packet = 0
  /\ queue = <<>> /\ sent = <<>>
  /\ pc = "start" /\ kv_list = NoList /\ parsed_kv_pairs = 0 /\ status = "none"

-----------------------------------------------------------------------------
(* The server. *)

(* A write request; it is one datagram: key, NUL, value. *)
Write(k, v) ==
  /\ at = "recvfrom"
  /\ table[k] # v
  /\ Length[k] + Length[v] \in 1 .. MaxMsg - 1
  /\ table' = [table EXCEPT ![k] = v]
  /\ UNCHANGED <<asked, at, node_dump, counter, packet, header, size_packet, sent,
                 queue, toolVars>>

Present == {k \in Key : table[k] # NULL}

(* get_Htable_content lists the pairs in the order of the buckets.         *)
Listings ==
  LET n == Cardinality(Present)
  IN  {[i \in 0 .. n - 1 |-> <<f[i], table[f[i]]>>] :
         f \in {g \in [0 .. n - 1 -> Present] :
                  \A i, j \in 0 .. n - 1 : g[i] = g[j] => i = j}}

DumpRequest ==
  /\ at = "recvfrom"
  /\ asked
  /\ asked' = FALSE
  /\ at' = "dump"
  /\ node_dump' \in Listings
  /\ counter' = 0 /\ packet' = NoBytes /\ header' = NULL /\ size_packet' = 0
  /\ UNCHANGED <<table, sent, queue, toolVars>>

size    == Cardinality(DOMAIN node_dump)
size_kv == Length[node_dump[counter][1]] + 1 + Length[node_dump[counter][2]]
Fits    == size_packet + size_kv < MaxMsg

(* Variant with a bug: only the pair's own size is compared. *)
AddNextUnchecked ==
  /\ at = "dump" /\ counter < size /\ size_kv < MaxMsg /\ counter > 0
  /\ packet' = (IF size_packet = 0 THEN NoBytes ELSE packet) \o node_dump[counter]
  /\ size_packet' = size_packet + size_kv + 1
  /\ counter' = counter + 1
  /\ UNCHANGED <<table, asked, at, node_dump, header, sent, queue, toolVars>>

(* The first pair goes behind the header. *)
AddFirst ==
  /\ at = "dump" /\ counter < size /\ Fits /\ counter = 0
  /\ header' = size
  /\ packet' = node_dump[0]
  /\ size_packet' = 4 + size_kv
  /\ counter' = 1
  /\ UNCHANGED <<table, asked, at, node_dump, sent, queue, toolVars>>

(* Every other one behind a NUL byte, in an empty packet too. *)
AddNext ==
  /\ at = "dump" /\ counter < size /\ Fits /\ counter > 0
  /\ packet' = (IF size_packet = 0 THEN NoBytes ELSE packet) \o node_dump[counter]
  /\ size_packet' = size_packet + size_kv + 1
  /\ counter' = counter + 1
  /\ UNCHANGED <<table, asked, at, node_dump, header, sent, queue, toolVars>>

(* sendto: nothing above the largest payload is sent, a full buffer drops. *)
SendTo ==
  LET p == IF size_packet = 0 THEN [size |-> NULL, body |-> NoBytes]
                              ELSE [size |-> header, body |-> packet]
  IN  IF size_packet > MaxMsg
      THEN UNCHANGED <<sent, queue>>
      ELSE /\ sent' = IF p.body = NoBytes THEN sent ELSE Append(sent, p)
           /\ \/ /\ pc \in {"first", "more"} /\ Len(queue) < MaxQueue
                 /\ queue' = Append(queue, p)
              \/ /\ Lossy \/ pc = "done" \/ Len(queue) = MaxQueue
                 /\ UNCHANGED queue

(* Variant with a bug: the pair that did not fit is skipped. *)
FlushSkips ==
  /\ at = "dump" /\ counter < size /\ ~Fits
  /\ SendTo
  /\ size_packet' = 0 /\ header' = NULL
  /\ counter' = counter + 1
  /\ UNCHANGED <<table, asked, at, node_dump, packet, toolVars>>

(* Variant with a bug: the packet that was sent keeps its size. *)
FlushKeepsSize ==
  /\ at = "dump" /\ counter < size /\ ~Fits
  /\ SendTo
  /\ header' = NULL
  /\ UNCHANGED <<table, asked, at, node_dump, counter, packet, size_packet, toolVars>>

(* The packet is full: send it and try the pair again with an empty one.   *)
Flush ==
  /\ at = "dump" /\ counter < size /\ ~Fits
  /\ SendTo
  /\ size_packet' = 0 /\ header' = NULL
  /\ UNCHANGED <<table, asked, at, node_dump, counter, packet, toolVars>>

(* Variant with a bug: the loop is left only behind a packet with pairs. *)
FinishFilled ==
  /\ at = "dump" /\ counter >= size /\ size_packet > 0
  /\ SendTo
  /\ at' = "recvfrom"
  /\ UNCHANGED <<table, asked, node_dump, counter, packet, header, size_packet, toolVars>>

Finish ==
  /\ at = "dump" /\ counter >= size
  /\ SendTo
  /\ at' = "recvfrom"
  /\ UNCHANGED <<table, asked, node_dump, counter, packet, header, size_packet, toolVars>>

-----------------------------------------------------------------------------
(* The tool. *)

(* Send the request, or fail to; a lost one is never asked for again. *)
Ask ==
  /\ pc = "start"
  /\ \/ pc' = "first" /\ asked' \in {TRUE, ~Lossy} /\ UNCHANGED status
     \/ pc' = "done" /\ status' = "FAIL" /\ UNCHANGED asked
  /\ UNCHANGED <<table, at, node_dump, counter, packet, header, size_packet, sent,
                 queue, kv_list, parsed_kv_pairs>>

Failed == [ok |-> FALSE, count |-> 0, list |-> <<>>]

(* The list with the entries that a packet writes into it. *)
Stored(list, new) ==
  [i \in DOMAIN list \cup DOMAIN new |-> IF i \in DOMAIN new THEN new[i] ELSE list[i]]

(* Variant with a bug: the pair that no NUL byte ends is not stored. *)
ParseForgetsLast(body, start, kv) ==
  LET full == (Len(body) - 1) \div 2
      new  == [i \in start .. start + full |->
                 IF i < start + full
                 THEN <<body[2 * (i - start) + 1], body[2 * (i - start) + 2]>>
                 ELSE <<Garbage, Garbage>>]
  IN  IF full > 0 /\ start + full >= kv.size THEN Failed
      ELSE [ok |-> TRUE, count |-> start + full + 1, list |-> Stored(kv.list, new)]

(***************************************************************************)
(* parse_kv_pairs.  A pair is stored at the NUL byte behind it, and the    *)
(* parser gives up when one so stored was the last of the list; the rest   *)
(* is stored at the end.  An odd rest is a key without its NUL byte and no *)
(* value.  It returns the index behind the last pair, not their number.    *)
(***************************************************************************)
Parse(body, start, kv) ==
  LET full == (Len(body) - 1) \div 2
      rest == IF Len(body) % 2 = 0 THEN <<body[Len(body) - 1], body[Len(body)]>>
                                   ELSE <<Garbage, Empty>>
      new  == [i \in start .. start + full |->
                 IF i < start + full
                 THEN <<body[2 * (i - start) + 1], body[2 * (i - start) + 2]>>
                 ELSE rest]
  IN  IF full > 0 /\ start + full >= kv.size THEN Failed
      ELSE [ok |-> TRUE, count |-> start + full + 1, list |-> Stored(kv.list, new)]

(* The first four bytes are the number of pairs, whatever they are. *)
HeadersOf(m) ==
  IF m.size # NULL THEN {m.size}
  ELSE IF m.body = NoBytes THEN JunkSizes ELSE {KeyAsSize}

BodyOf(m) ==
  IF m.size # NULL \/ m.body = NoBytes THEN m.body
  ELSE <<Garbage>> \o SubSeq(m.body, 3, Len(m.body))

(* After a packet: go on, or stop with an error or with the list printed.  *)
Continue(ok, parsed, kv) ==
  /\ kv_list' = kv
  /\ parsed_kv_pairs' = parsed
  /\ pc' = IF ok /\ parsed < kv.size THEN "more" ELSE "done"
  /\ status' = IF ok /\ parsed < kv.size THEN status
               ELSE IF ok /\ parsed = kv.size THEN "OK" ELSE "FAIL"

RecvFirst ==
  /\ pc = "first" /\ queue # <<>>
  /\ queue' = Tail(queue)
  /\ \E n \in HeadersOf(Head(queue)) :
       LET p == Parse(BodyOf(Head(queue)), 0, [size |-> n, list |-> <<>>])
       IN  Continue(p.ok, p.count, [size |-> n, list |-> p.list])
  /\ UNCHANGED serverVars

RecvMore ==
  /\ pc = "more" /\ queue # <<>>
  /\ queue' = Tail(queue)
  /\ LET p == Parse(Head(queue).body, parsed_kv_pairs, kv_list)
     IN  Continue(p.ok, parsed_kv_pairs + p.count, [size |-> kv_list.size, list |-> p.list])
  /\ UNCHANGED serverVars

(* recv finds nothing for a second. *)
TimeoutFirst ==
  /\ pc = "first" /\ queue = <<>>
  /\ pc' = "done" /\ status' = "FAIL"
  /\ UNCHANGED <<serverVars, queue, kv_list, parsed_kv_pairs>>

(* Variant with a bug: it waits for the missing pairs for ever. *)
TimeoutMoreRetries ==
  /\ pc = "more" /\ queue = <<>>
  /\ UNCHANGED vars

(* A length of -1 is parsed like an empty packet before it is looked at.   *)
TimeoutMore ==
  /\ pc = "more" /\ queue = <<>>
  /\ LET p      == Parse(NoBytes, parsed_kv_pairs, kv_list)
         parsed == parsed_kv_pairs + p.count
     IN  Continue(parsed = kv_list.size, parsed, [size |-> kv_list.size, list |-> p.list])
  /\ UNCHANGED <<serverVars, queue>>

-----------------------------------------------------------------------------
Server == DumpRequest \/ AddFirst \/ AddNext \/ Flush \/ Finish
Tool   == RecvFirst \/ RecvMore \/ TimeoutFirst \/ TimeoutMore

Next == (\E k \in Key, v \in Value : Write(k, v)) \/ Ask \/ Server \/ Tool

(* A server that runs goes on, and the tool's recv has a timeout. *)
Fairness == WF_vars(Server) /\ WF_vars(Tool)

Spec == Init /\ [][Next]_vars /\ Fairness

-----------------------------------------------------------------------------
TypeOK ==
  /\ table \in [Key -> Value \cup {NULL}]
  /\ asked \in BOOLEAN
  /\ at \in {"recvfrom", "dump"}
  /\ node_dump \in [0 .. size - 1 -> Key \X Value]
  /\ counter \in 0 .. size
  /\ packet \in Seq(String)
  /\ header \in Nat \cup {NULL}
  /\ size_packet \in 0 .. MaxMsg + 3
  /\ \A i \in DOMAIN queue : queue[i].body \in Seq(String)
  /\ Len(queue) <= MaxQueue
  /\ pc \in {"start", "first", "more", "done"}
  /\ kv_list.size \in Nat
  /\ \A i \in DOMAIN kv_list.list : kv_list.list[i] \in Pair
  /\ parsed_kv_pairs \in Nat
  /\ status \in {"none", "OK", "FAIL"}

Ended == at = "recvfrom" /\ sent # <<>>

(* What the tool prints: entries never written are NULL pointers. *)
Printed == [i \in 0 .. kv_list.size - 1 |->
              IF i \in DOMAIN kv_list.list THEN kv_list.list[i] ELSE NULL]

(***************************************************************************)
(* The packets of a dump, put together, are the listing: no pair is left   *)
(* out, cut or repeated (pps-launch-server.c:88-137).  A first pair that   *)
(* leaves no room for the header is excepted.                              *)
(***************************************************************************)
Pairs(body) == LET first == Len(body) % 2
               IN  [i \in 1 .. Len(body) \div 2 |->
                      <<body[first + 2 * i - 1], body[first + 2 * i]>>]

(* cut[n] is the number of pairs in the first n packets. *)
Cuts ==
  {cut \in [0 .. Len(sent) -> 0 .. size] :
     /\ cut[0] = 0
     /\ \A n \in 1 .. Len(sent) :
          /\ cut[n - 1] < cut[n]
          /\ Pairs(sent[n].body) =
               [i \in 1 .. cut[n] - cut[n - 1] |-> node_dump[cut[n - 1] + i - 1]]}

EveryPairSentOnce ==
  Ended /\ sent[1].size # NULL => \E cut \in Cuts : cut[Len(sent)] = size

(***************************************************************************)
(* A table that fits into one packet is printed as it is, if the packet    *)
(* reaches the tool in time (pps-dump-node.c:97-139).                      *)
(***************************************************************************)
OnePacketIsExact ==
  (Ended /\ Len(sent) = 1 /\ sent[1].size # NULL /\ pc = "done" /\ kv_list # NoList) =>
    status = "OK" /\ Printed = node_dump

(***************************************************************************)
(* Why a dump ends, and when it does not: each turn of the loop takes a    *)
(* pair or empties the packet before that pair is tried again, unless the  *)
(* pair is too large for an empty packet (pps-launch-server.c:88-137).     *)
(***************************************************************************)
TurnsLeft    == 2 * (size - counter) + (IF size_packet = 0 THEN 0 ELSE 1)
PairTooLarge == counter < size /\ size_packet = 0 /\ size_kv >= MaxMsg

EachTurnNearsTheEnd ==
  [][at = "dump" /\ Server =>
       at' = "recvfrom" \/ TurnsLeft' < TurnsLeft \/ PairTooLarge]_vars

(***************************************************************************)
(* pps-launch-server.c:46 says "Receive messages forever": a server that   *)
(* makes a dump comes back to recvfrom.                                    *)
(***************************************************************************)
ServerReturns == at = "dump" ~> at = "recvfrom"

(* The tool ends, whatever it receives (pps-dump-node.c:114-132). *)
ToolEnds == pc = "first" ~> pc = "done"

(***************************************************************************)
(* pps-dump-node.c:32 says the tool will "Dump content of given node": what *)
(* it prints with success is the table the server listed.                  *)
(***************************************************************************)
PrintsTheTable == status = "OK" => Printed = node_dump

=============================================================================
