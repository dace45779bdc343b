---------------------------- MODULE DumpProofs ----------------------------
(***************************************************************************)
(* Proofs about a dump: its types, that the packets put together are the   *)
(* listing, and that a single packet is printed as it is.                  *)
(***************************************************************************)
EXTENDS Dump, FiniteSetTheorems, SequenceTheorems, TLAPS

USE DumpAssumption

Bodies  == Seq(String) \ {<<>>}
Packets == [size : Nat \cup {NULL}, body : Bodies]

-----------------------------------------------------------------------------
(* Halves of the number of fields. *)
LEMMA Halves == \A n \in Nat :
                  /\ n \div 2 \in Nat /\ n % 2 \in {0, 1}
                  /\ n = 2 * (n \div 2) + (n % 2)
                  /\ (2 * n) \div 2 = n /\ (2 * n) % 2 = 0
                  /\ (2 * n + 1) \div 2 = n /\ (2 * n + 1) % 2 = 1
  OBVIOUS

LEMMA HalfOf == \A a \in Nat : \E n \in Nat : a \in {2 * n, 2 * n + 1}
  <1>. SUFFICES ASSUME NEW a \in Nat
                PROVE  \E n \in Nat : a \in {2 * n, 2 * n + 1}
    OBVIOUS
  <1>1. a \div 2 \in Nat /\ a \in {2 * (a \div 2), 2 * (a \div 2) + 1}
    BY Halves
  <1>. QED BY <1>1

LEMMA NoHalf == \A n \in Nat : 0 \in {2 * n, 2 * n + 1} \/ 1 \in {2 * n, 2 * n + 1} => n = 0
  OBVIOUS

LEMMA IntervalSize == \A n \in Nat : Cardinality(0 .. n - 1) = n
  <1>. SUFFICES ASSUME NEW n \in Nat
                PROVE  Cardinality(0 .. n - 1) = n
    OBVIOUS
  <1>1. Cardinality(0 .. n - 1) = IF 0 > n - 1 THEN 0 ELSE (n - 1) - 0 + 1
    BY FS_Interval
  <1>. QED BY <1>1

(* A listing lists each pair of the table. *)
LEMMA ListingTypes ==
  ASSUME table \in [Key -> Value \cup {NULL}], NEW l \in Listings
  PROVE  /\ Cardinality(Present) \in Nat
         /\ l \in [0 .. Cardinality(Present) - 1 -> Key \X Value]
         /\ Cardinality(DOMAIN l) = Cardinality(Present)
  <1>. DEFINE n == Cardinality(Present)
  <1>1. IsFiniteSet(Present)
    BY FS_Subset DEF Present
  <1>2. n \in Nat
    BY <1>1, FS_CardinalityType
  <1>3. PICK f \in [0 .. n - 1 -> Present] : l = [i \in 0 .. n - 1 |-> <<f[i], table[f[i]]>>]
    BY DEF Listings
  <1>4. \A i \in 0 .. n - 1 : <<f[i], table[f[i]]>> \in Key \X Value
    BY <1>3 DEF Present
  <1>5. l \in [0 .. n - 1 -> Key \X Value]
    BY <1>3, <1>4
  <1>6. DOMAIN l = 0 .. n - 1
    BY <1>3
  <1>7. Cardinality(0 .. n - 1) = n
    BY <1>2, IntervalSize
  <1>. QED BY <1>2, <1>5, <1>6, <1>7

(* What a packet leaves in the tool's list is strings. *)
LEMMA ParseTypes ==
  ASSUME NEW body \in Bodies, NEW start \in Nat, NEW kv, kv.size \in Nat,
         \A i \in DOMAIN kv.list : kv.list[i] \in Pair
  PROVE  LET p == Parse(body, start, kv)
         IN  /\ p.ok \in BOOLEAN /\ p.count \in Nat
             /\ \A i \in DOMAIN p.list : p.list[i] \in Pair
  <1>. DEFINE full == (Len(body) - 1) \div 2
              rest == IF Len(body) % 2 = 0 THEN <<body[Len(body) - 1], body[Len(body)]>>
                                           ELSE <<Garbage, Empty>>
              new  == [i \in start .. start + full |->
                         IF i < start + full
                         THEN <<body[2 * (i - start) + 1], body[2 * (i - start) + 2]>>
                         ELSE rest]
              good == [ok |-> TRUE, count |-> start + full + 1, list |-> Stored(kv.list, new)]
  <1>1. Len(body) \in Nat \ {0} /\ body \in Seq(String)
    BY DEF Bodies
  <1>2. full \in Nat /\ 2 * full <= Len(body) - 1
    <2>1. Len(body) - 1 \in Nat
      BY <1>1
    <2>. QED BY <2>1, Halves
  <1>3. \A i \in 1 .. Len(body) : body[i] \in String
    BY <1>1
  <1>4. rest \in Pair
    <2>1. CASE Len(body) % 2 = 0
      <3>1. Len(body) - 1 \in 1 .. Len(body) /\ Len(body) \in 1 .. Len(body)
        BY <1>1, <2>1, Halves
      <3>2. body[Len(body) - 1] \in String /\ body[Len(body)] \in String
        BY <3>1, <1>3
      <3>. QED BY <3>2, <2>1 DEF Pair
    <2>2. CASE Len(body) % 2 # 0
      BY <2>2 DEF Pair, String
    <2>. QED BY <2>1, <2>2
  <1>5. \A i \in start .. start + full : new[i] \in Pair
    <2>. SUFFICES ASSUME NEW i \in start .. start + full
                  PROVE  new[i] \in Pair
      OBVIOUS
    <2>1. CASE i < start + full
      <3>1. 2 * (i - start) + 1 \in 1 .. Len(body) /\ 2 * (i - start) + 2 \in 1 .. Len(body)
        BY <2>1, <1>1, <1>2
      <3>2. body[2 * (i - start) + 1] \in String /\ body[2 * (i - start) + 2] \in String
        BY <3>1, <1>3
      <3>3. <<body[2 * (i - start) + 1], body[2 * (i - start) + 2]>> \in Pair
        BY <3>2 DEF Pair
      <3>. QED BY <3>3, <2>1
    <2>2. CASE ~(i < start + full)
      BY <2>2, <1>4
    <2>. QED BY <2>1, <2>2
  <1>6. \A i \in DOMAIN Stored(kv.list, new) : Stored(kv.list, new)[i] \in Pair
    <2>. HIDE DEF rest, full
    <2>1. DOMAIN new = start .. start + full
      OBVIOUS
    <2>. HIDE DEF new
    <2>. QED BY <1>5, <2>1 DEF Stored
  <1>7. \/ Parse(body, start, kv) = Failed
        \/ Parse(body, start, kv) = good
    BY DEF Parse
  <1>8. CASE Parse(body, start, kv) = Failed
    BY <1>8 DEF Failed
  <1>9. CASE Parse(body, start, kv) = good
    <2>1. good.ok \in BOOLEAN /\ good.count = start + full + 1 /\ good.list = Stored(kv.list, new)
      OBVIOUS
    <2>. HIDE DEF good, full, new
    <2>2. good.count \in Nat
      BY <2>1, <1>2
    <2>3. \A i \in DOMAIN good.list : good.list[i] \in Pair
      BY <2>1, <1>6
    <2>. QED BY <2>1, <2>2, <2>3, <1>9
  <1>. QED BY <1>7, <1>8, <1>9

-----------------------------------------------------------------------------
(* The types: those of the server, of the tool and of what is between     *)
(* them.  No body is without a field.                                     *)

ServerTypes ==
  /\ table \in [Key -> Value \cup {NULL}]
  /\ asked \in BOOLEAN
  /\ at \in {"recvfrom", "dump"}
  /\ node_dump \in [0 .. size - 1 -> Key \X Value]
  /\ size \in Nat
  /\ counter \in 0 .. size
  /\ packet \in Bodies
  /\ header \in Nat \cup {NULL}
  /\ size_packet \in 0 .. MaxMsg + 3
  /\ sent \in Seq(Packets)

QueueTypes ==
  /\ queue \in Seq(Packets)
  /\ Len(queue) <= MaxQueue

ToolTypes ==
  /\ pc \in {"start", "first", "more", "done"}
  /\ kv_list.size \in Nat
  /\ \A i \in DOMAIN kv_list.list : kv_list.list[i] \in Pair
  /\ parsed_kv_pairs \in Nat
  /\ status \in {"none", "OK", "FAIL"}

AllTypes == ServerTypes /\ QueueTypes /\ ToolTypes

LEMMA AllTypesInclude == AllTypes => TypeOK
  <1>. SUFFICES ASSUME AllTypes
                PROVE  TypeOK
    OBVIOUS
  <1>1. packet \in Seq(String)
    BY DEF AllTypes, ServerTypes, Bodies
  <1>2. \A i \in DOMAIN queue : queue[i].body \in Seq(String)
    <2>1. \A i \in DOMAIN queue : queue[i] \in Packets
      BY DEF AllTypes, QueueTypes
    <2>2. \A m \in Packets : m.body \in Seq(String)
      BY DEF Packets, Bodies
    <2>. QED BY <2>1, <2>2
  <1>. QED BY <1>1, <1>2 DEF AllTypes, ServerTypes, QueueTypes, ToolTypes, TypeOK

(* What sendto leaves of the types. *)
LEMMA SendToTypes ==
  ASSUME AllTypes, SendTo
  PROVE  sent' \in Seq(Packets) /\ QueueTypes'
  <1>. DEFINE p == IF size_packet = 0 THEN [size |-> NULL, body |-> NoBytes]
                                      ELSE [size |-> header, body |-> packet]
  <1>1. sent \in Seq(Packets) /\ queue \in Seq(Packets) /\ Len(queue) <= MaxQueue
    BY DEF AllTypes, ServerTypes, QueueTypes
  <1>2. NoBytes \in Bodies
    BY DEF NoBytes, Bodies, String
  <1>3. p \in Packets
    <2>1. [size |-> NULL, body |-> NoBytes] \in Packets
      BY <1>2 DEF Packets
    <2>2. [size |-> header, body |-> packet] \in Packets
      BY DEF AllTypes, ServerTypes, Packets
    <2>. QED BY <2>1, <2>2
  <1>4. Append(sent, p) \in Seq(Packets) /\ Append(queue, p) \in Seq(Packets)
    <2>. HIDE DEF p
    <2>. QED BY <1>1, <1>3
  <1>5. sent' \in {sent, Append(sent, p)} /\ queue' \in {queue, Append(queue, p)}
    BY DEF SendTo
  <1>6. queue' = Append(queue, p) => Len(queue) < MaxQueue \/ queue' = queue
    BY DEF SendTo
  <1>7. Len(Append(queue, p)) = Len(queue) + 1 /\ Len(queue) \in Nat
    <2>. HIDE DEF p
    <2>. QED BY <1>1, <1>3
  <1>. HIDE DEF p
  <1>8. Len(queue') <= MaxQueue
    BY <1>1, <1>5, <1>6, <1>7
  <1>. QED BY <1>1, <1>4, <1>5, <1>8 DEF QueueTypes

(* What the tool keeps after a packet. *)
LEMMA ContinueTypes ==
  ASSUME ToolTypes, NEW ok, NEW parsed \in Nat, NEW kv, kv.size \in Nat,
         \A i \in DOMAIN kv.list : kv.list[i] \in Pair,
         Continue(ok, parsed, kv)
  PROVE  ToolTypes'
  BY DEF ToolTypes, Continue

LEMMA InitTypes == Init => AllTypes
  <1>. SUFFICES ASSUME Init
                PROVE  AllTypes
    OBVIOUS
  <1>1. NoBytes \in Bodies
    BY DEF NoBytes, Bodies, String
  <1>2. node_dump = <<>> /\ DOMAIN node_dump = {}
    BY DEF Init
  <1>3. size = 0
    BY <1>2, FS_EmptySet DEF size
  <1>4. node_dump \in [0 .. size - 1 -> Key \X Value]
    <2>1. 0 .. size - 1 = {}
      BY <1>3
    <2>. QED BY <1>2, <2>1
  <1>5. ServerTypes
    <2>1. /\ table \in [Key -> Value \cup {NULL}] /\ asked \in BOOLEAN /\ at = "recvfrom"
          /\ header = NULL /\ packet = NoBytes /\ counter = 0 /\ size_packet = 0
      BY DEF Init
    <2>2. counter \in 0 .. size /\ size_packet \in 0 .. MaxMsg + 3 /\ size \in Nat
      BY <1>3, <2>1
    <2>3. sent \in Seq(Packets)
      BY DEF Init
    <2>. QED BY <1>1, <1>4, <2>1, <2>2, <2>3 DEF ServerTypes
  <1>6. QueueTypes
    BY DEF Init, QueueTypes
  <1>7. ToolTypes
    BY DEF Init, ToolTypes, NoList
  <1>. QED BY <1>5, <1>6, <1>7 DEF AllTypes

(* A pair of the listing is one of strings, with a length. *)
LEMMA PairTypes ==
  ASSUME ServerTypes, counter < size
  PROVE  /\ counter \in DOMAIN node_dump
         /\ node_dump[counter] \in Key \X Value
         /\ node_dump[counter] \in Bodies
         /\ size_kv \in Nat \ {0}
  <1>1. counter \in 0 .. size - 1
    BY DEF ServerTypes
  <1>2. node_dump[counter] \in Key \X Value /\ counter \in DOMAIN node_dump
    BY <1>1 DEF ServerTypes
  <1>3. PICK k \in Key, v \in Value : node_dump[counter] = <<k, v>>
    BY <1>2
  <1>4. <<k, v>> \in Bodies
    BY DEF Bodies, String
  <1>5. Length[k] \in Nat /\ Length[v] \in Nat
    OBVIOUS
  <1>6. size_kv = Length[k] + 1 + Length[v]
    BY <1>3 DEF size_kv
  <1>. QED BY <1>2, <1>3, <1>4, <1>5, <1>6

LEMMA ServerStepTypes ==
  ASSUME AllTypes,
         \/ \E k \in Key, v \in Value : Write(k, v)
         \/ Server
  PROVE  AllTypes'
  <1>1. ServerTypes /\ QueueTypes /\ ToolTypes
    BY DEF AllTypes
  <1>2. ASSUME NEW k \in Key, NEW v \in Value, Write(k, v)
        PROVE  AllTypes'
    BY <1>1, <1>2 DEF Write, AllTypes, ServerTypes, QueueTypes, ToolTypes, size, toolVars
  <1>3. CASE DumpRequest
    <2>1. /\ Cardinality(Present) \in Nat
          /\ node_dump' \in [0 .. Cardinality(Present) - 1 -> Key \X Value]
          /\ Cardinality(DOMAIN node_dump') = Cardinality(Present)
      <3>1. table \in [Key -> Value \cup {NULL}] /\ node_dump' \in Listings
        BY <1>1, <1>3 DEF ServerTypes, DumpRequest
      <3>. QED BY <3>1, ListingTypes
    <2>2. size' = Cardinality(Present)
      BY <2>1 DEF size
    <2>3. NoBytes \in Bodies
      BY DEF NoBytes, Bodies, String
    <2>4. asked' \in BOOLEAN
      BY <1>3 DEF DumpRequest
    <2>5. node_dump' \in [0 .. size' - 1 -> Key \X Value] /\ size' \in Nat
      BY <2>1, <2>2
    <2>6. counter' \in 0 .. size' /\ size_packet' \in 0 .. MaxMsg + 3
      BY <1>3, <2>5 DEF DumpRequest
    <2>7. table' = table /\ at' = "dump" /\ packet' = NoBytes /\ header' = NULL /\ sent' = sent
      BY <1>3 DEF DumpRequest
    <2>8. ServerTypes'
      BY <1>1, <2>3, <2>4, <2>5, <2>6, <2>7 DEF ServerTypes
    <2>. QED BY <1>1, <1>3, <2>8 DEF DumpRequest, AllTypes, QueueTypes, ToolTypes, toolVars
  <1>4. CASE AddFirst
    <2>1. size' = size /\ node_dump' = node_dump
      BY <1>4 DEF AddFirst, size
    <2>2. /\ size_kv \in Nat /\ node_dump[0] \in Bodies /\ counter = 0 /\ counter < size
          /\ size_packet + size_kv < MaxMsg
      BY <1>1, <1>4, PairTypes DEF AddFirst, Fits
    <2>3. size_packet' \in 0 .. MaxMsg + 3
      BY <1>1, <1>4, <2>2 DEF AddFirst, ServerTypes
    <2>4. ServerTypes'
      BY <1>1, <1>4, <2>1, <2>2, <2>3 DEF AddFirst, ServerTypes
    <2>. QED BY <1>1, <1>4, <2>4 DEF AddFirst, AllTypes, QueueTypes, ToolTypes, toolVars
  <1>5. CASE AddNext
    <2>1. size' = size /\ node_dump' = node_dump
      BY <1>5 DEF AddNext, size
    <2>2. /\ size_kv \in Nat /\ node_dump[counter] \in Bodies /\ counter < size
          /\ size_packet + size_kv < MaxMsg
      BY <1>1, <1>5, PairTypes DEF AddNext, Fits
    <2>3. size_packet' \in 0 .. MaxMsg + 3 /\ counter' \in 0 .. size
      BY <1>1, <1>5, <2>2 DEF AddNext, ServerTypes
    <2>4. packet' \in Bodies
      <3>1. NoBytes \in Bodies
        BY DEF NoBytes, Bodies, String
      <3>2. (IF size_packet = 0 THEN NoBytes ELSE packet) \in Bodies
        BY <1>1, <3>1 DEF ServerTypes
      <3>3. \A a, b \in Bodies : a \o b \in Bodies
        BY DEF Bodies
      <3>. QED BY <1>5, <2>2, <3>2, <3>3 DEF AddNext
    <2>5. ServerTypes'
      BY <1>1, <1>5, <2>1, <2>3, <2>4 DEF AddNext, ServerTypes
    <2>. QED BY <1>1, <1>5, <2>5 DEF AddNext, AllTypes, QueueTypes, ToolTypes, toolVars
  <1>6. CASE Flush
    <2>1. size' = size /\ node_dump' = node_dump
      BY <1>6 DEF Flush, size
    <2>2. sent' \in Seq(Packets) /\ QueueTypes'
      BY <1>6, SendToTypes DEF Flush
    <2>3. ServerTypes'
      BY <1>1, <1>6, <2>1, <2>2 DEF Flush, ServerTypes
    <2>. QED BY <1>1, <1>6, <2>2, <2>3 DEF Flush, AllTypes, ToolTypes, toolVars
  <1>7. CASE Finish
    <2>1. size' = size /\ node_dump' = node_dump
      BY <1>7 DEF Finish, size
    <2>2. sent' \in Seq(Packets) /\ QueueTypes'
      BY <1>7, SendToTypes DEF Finish
    <2>3. ServerTypes'
      BY <1>1, <1>7, <2>1, <2>2 DEF Finish, ServerTypes
    <2>. QED BY <1>1, <1>7, <2>2, <2>3 DEF Finish, AllTypes, ToolTypes, toolVars
  <1>. QED BY <1>2, <1>3, <1>4, <1>5, <1>6, <1>7 DEF Server

(* A packet in the tool's socket has a body and, perhaps, a header. *)
LEMMA HeadTypes ==
  ASSUME QueueTypes, queue # <<>>
  PROVE  /\ Head(queue).body \in Bodies
         /\ BodyOf(Head(queue)) \in Bodies
         /\ HeadersOf(Head(queue)) \subseteq Nat
         /\ (queue' = Tail(queue) => QueueTypes')
  <1>. DEFINE m == Head(queue)
  <1>1. m \in Packets /\ Tail(queue) \in Seq(Packets) /\ Len(Tail(queue)) <= Len(queue)
    BY DEF QueueTypes
  <1>2. queue' = Tail(queue) => QueueTypes'
    <2>1. Len(queue) \in Nat /\ Len(Tail(queue)) \in Nat
      BY <1>1 DEF QueueTypes
    <2>. QED BY <1>1, <2>1 DEF QueueTypes
  <1>. HIDE DEF m
  <1>3. m.body \in Bodies /\ m.size \in Nat \cup {NULL}
    BY <1>1 DEF Packets
  <1>4. BodyOf(m) \in Bodies
    <2>1. CASE m.size # NULL \/ m.body = NoBytes
      BY <1>3, <2>1 DEF BodyOf
    <2>2. CASE ~(m.size # NULL \/ m.body = NoBytes)
      <3>1. m.body \in Seq(String) /\ Len(m.body) \in Nat
        BY <1>3 DEF Bodies
      <3>2. SubSeq(m.body, 3, Len(m.body)) \in Seq(String)
        BY <3>1, SubSeqProperties
      <3>3. <<Garbage>> \in Seq(String) /\ Len(<<Garbage>>) = 1
        BY DEF String
      <3>4. \A s \in Seq(String) : <<Garbage>> \o s \in Bodies
        BY <3>3 DEF Bodies
      <3>5. BodyOf(m) = <<Garbage>> \o SubSeq(m.body, 3, Len(m.body))
        BY <2>2 DEF BodyOf
      <3>. QED BY <3>2, <3>4, <3>5
    <2>. QED BY <2>1, <2>2
  <1>5. HeadersOf(m) \subseteq Nat
    BY <1>3 DEF HeadersOf
  <1>. QED BY <1>2, <1>3, <1>4, <1>5 DEF m

LEMMA ToolStepTypes == AllTypes /\ (Tool \/ Ask) => AllTypes'
  <1>. SUFFICES ASSUME AllTypes, Tool \/ Ask
                PROVE  AllTypes'
    OBVIOUS
  <1>1. ServerTypes /\ QueueTypes /\ ToolTypes
    BY DEF AllTypes
  <1>2. UNCHANGED serverVars => ServerTypes'
    BY <1>1 DEF serverVars, ServerTypes, size
  <1>3. CASE Ask
    <2>1. size' = size /\ asked' \in BOOLEAN
      BY <1>1, <1>3 DEF Ask, size, ServerTypes
    <2>2. ServerTypes'
      BY <1>1, <1>3, <2>1 DEF Ask, ServerTypes
    <2>. QED BY <1>1, <1>3, <2>2 DEF Ask, AllTypes, QueueTypes, ToolTypes
  <1>4. CASE RecvFirst
    <2>1. queue # <<>> /\ queue' = Tail(queue) /\ UNCHANGED serverVars
      BY <1>4 DEF RecvFirst
    <2>2. PICK n \in HeadersOf(Head(queue)) :
            LET p == Parse(BodyOf(Head(queue)), 0, [size |-> n, list |-> <<>>])
            IN  Continue(p.ok, p.count, [size |-> n, list |-> p.list])
      BY <1>4 DEF RecvFirst
    <2>. DEFINE kv == [size |-> n, list |-> <<>>]
                p  == Parse(BodyOf(Head(queue)), 0, kv)
                kw == [size |-> n, list |-> p.list]
    <2>3. BodyOf(Head(queue)) \in Bodies /\ n \in Nat /\ QueueTypes'
      BY <1>1, <2>1, <2>2, HeadTypes
    <2>4. kv.size \in Nat /\ kv.list = <<>> /\ kw.size \in Nat /\ kw.list = p.list
      BY <2>3
    <2>5. \A i \in DOMAIN kv.list : kv.list[i] \in Pair
      BY <2>4
    <2>6. Continue(p.ok, p.count, kw)
      BY <2>2
    <2>. HIDE DEF kv
    <2>7. p.count \in Nat /\ \A i \in DOMAIN p.list : p.list[i] \in Pair
      BY <2>3, <2>4, <2>5, ParseTypes
    <2>. HIDE DEF p, kw
    <2>8. \A i \in DOMAIN kw.list : kw.list[i] \in Pair
      BY <2>4, <2>7
    <2>9. ToolTypes'
      BY <1>1, <2>4, <2>6, <2>7, <2>8, ContinueTypes
    <2>. QED BY <1>2, <2>1, <2>3, <2>9 DEF AllTypes
  <1>5. CASE RecvMore
    <2>. DEFINE p  == Parse(Head(queue).body, parsed_kv_pairs, kv_list)
                kw == [size |-> kv_list.size, list |-> p.list]
    <2>1. /\ queue # <<>> /\ queue' = Tail(queue) /\ UNCHANGED serverVars
          /\ Continue(p.ok, parsed_kv_pairs + p.count, kw)
      BY <1>5 DEF RecvMore
    <2>2. Head(queue).body \in Bodies /\ QueueTypes'
      BY <1>1, <2>1, HeadTypes
    <2>3. p.count \in Nat /\ \A i \in DOMAIN p.list : p.list[i] \in Pair
      BY <1>1, <2>2, ParseTypes DEF ToolTypes
    <2>4. kw.size \in Nat /\ kw.list = p.list /\ parsed_kv_pairs \in Nat
      BY <1>1 DEF ToolTypes
    <2>. HIDE DEF p, kw
    <2>5. parsed_kv_pairs + p.count \in Nat /\ \A i \in DOMAIN kw.list : kw.list[i] \in Pair
      BY <2>3, <2>4
    <2>6. ToolTypes'
      BY <1>1, <2>1, <2>4, <2>5, ContinueTypes
    <2>. QED BY <1>2, <2>1, <2>2, <2>6 DEF AllTypes
  <1>6. CASE TimeoutFirst
    BY <1>1, <1>2, <1>6 DEF TimeoutFirst, AllTypes, QueueTypes, ToolTypes
  <1>7. CASE TimeoutMore
    <2>. DEFINE p  == Parse(NoBytes, parsed_kv_pairs, kv_list)
                kw == [size |-> kv_list.size, list |-> p.list]
                parsed == parsed_kv_pairs + p.count
    <2>1. UNCHANGED <<serverVars, queue>> /\ Continue(parsed = kv_list.size, parsed, kw)
      BY <1>7 DEF TimeoutMore
    <2>2. NoBytes \in Bodies
      BY DEF NoBytes, Bodies, String
    <2>3. p.count \in Nat /\ \A i \in DOMAIN p.list : p.list[i] \in Pair
      BY <1>1, <2>2, ParseTypes DEF ToolTypes
    <2>4. kw.size \in Nat /\ kw.list = p.list /\ parsed_kv_pairs \in Nat
      BY <1>1 DEF ToolTypes
    <2>. HIDE DEF p, kw
    <2>5. parsed \in Nat /\ \A i \in DOMAIN kw.list : kw.list[i] \in Pair
      BY <2>3, <2>4
    <2>. HIDE DEF parsed
    <2>6. ToolTypes'
      BY <1>1, <2>1, <2>4, <2>5, ContinueTypes
    <2>. QED BY <1>1, <1>2, <2>1, <2>6 DEF AllTypes, QueueTypes
  <1>. QED BY <1>3, <1>4, <1>5, <1>6, <1>7 DEF Tool

LEMMA TypesPreserved == AllTypes /\ [Next]_vars => AllTypes'
  <1>1. AllTypes /\ UNCHANGED vars => AllTypes'
    BY DEF vars, serverVars, toolVars, AllTypes, ServerTypes, QueueTypes, ToolTypes, size
  <1>. QED BY <1>1, ServerStepTypes, ToolStepTypes DEF Next

(***************************************************************************)
(* The server's and the tool's variables keep their types: a packet never  *)
(* grows above MAX_MSG_SIZE by more than the header (pps-launch-server.c:  *)
(* 87-131), and the parser reads no field that a packet does not have      *)
(* (pps-dump-node.c:164-210).                                              *)
(***************************************************************************)
THEOREM DumpTypes == Spec => []TypeOK
  <1>1. Spec => []AllTypes
    BY InitTypes, TypesPreserved, PTL DEF Spec
  <1>. QED BY <1>1, AllTypesInclude, PTL

-----------------------------------------------------------------------------
LEMMA TurnNearsTheEnd ==
  ASSUME AllTypes, at = "dump", Server
  PROVE  at' = "recvfrom" \/ TurnsLeft' < TurnsLeft \/ PairTooLarge
  <1>1. /\ ServerTypes /\ size \in Nat /\ counter \in 0 .. size
        /\ size_packet \in Nat /\ MaxMsg \in Nat
    BY DEF AllTypes, ServerTypes
  <1>2. ~DumpRequest
    BY DEF DumpRequest
  <1>3. ASSUME UNCHANGED node_dump, counter' = counter + 1, counter < size, size_packet' # 0
        PROVE  TurnsLeft' < TurnsLeft
    <2>1. size' = size
      BY <1>3 DEF size
    <2>. QED BY <1>1, <1>3, <2>1 DEF TurnsLeft
  <1>4. CASE AddFirst
    <2>1. size_kv \in Nat
      BY <1>1, <1>4, PairTypes DEF AddFirst
    <2>. QED BY <1>1, <1>3, <1>4, <2>1 DEF AddFirst
  <1>5. CASE AddNext
    <2>1. size_kv \in Nat
      BY <1>1, <1>5, PairTypes DEF AddNext
    <2>. QED BY <1>1, <1>3, <1>5, <2>1 DEF AddNext
  <1>6. CASE Flush
    <2>1. size_kv \in Nat /\ counter < size /\ ~Fits
      BY <1>1, <1>6, PairTypes DEF Flush
    <2>2. CASE size_packet = 0
      BY <1>1, <2>1, <2>2 DEF Fits, PairTooLarge
    <2>3. CASE size_packet # 0
      <3>1. size' = size /\ counter' = counter /\ size_packet' = 0
        BY <1>6 DEF Flush, size
      <3>. QED BY <1>1, <2>3, <3>1 DEF TurnsLeft
    <2>. QED BY <2>2, <2>3
  <1>7. CASE Finish
    BY <1>7 DEF Finish
  <1>. QED BY <1>2, <1>4, <1>5, <1>6, <1>7 DEF Server

(***************************************************************************)
(* A dump of pairs that fit into empty packets ends after at most two      *)
(* turns of the loop for each pair; what the server may hang on is a pair  *)
(* too large for an empty packet, and nothing else                         *)
(* (pps-launch-server.c:88-137).                                           *)
(***************************************************************************)
THEOREM TurnsNearTheEnd == Spec => EachTurnNearsTheEnd
  <1>. DEFINE A == at = "dump" /\ Server =>
                     at' = "recvfrom" \/ TurnsLeft' < TurnsLeft \/ PairTooLarge
  <1>1. Spec => []AllTypes
    BY InitTypes, TypesPreserved, PTL DEF Spec
  <1>2. AllTypes /\ [Next]_vars => [A]_vars
    BY TurnNearsTheEnd
  <1>3. Spec => [][A]_vars
    BY <1>1, <1>2, PTL DEF Spec
  <1>. QED BY <1>3 DEF EachTurnNearsTheEnd

-----------------------------------------------------------------------------
(* The tool asks once, so there is one dump. *)
Once ==
  /\ pc = "start" => ~asked
  /\ (pc = "start" \/ asked) => at = "recvfrom" /\ sent = <<>>

(* The pairs of body are those of the listing from index from up to to.    *)
Slice(body, from, to) ==
  /\ from < to
  /\ Pairs(body) = [i \in 1 .. to - from |-> node_dump[from + i - 1]]

(***************************************************************************)
(* The packet being filled.  With its header the first one holds all pairs *)
(* so far.  It alone may be too large to be sent.                          *)
(***************************************************************************)
PacketInv ==
  at = "dump" =>
    /\ counter = 0 => size_packet = 0 /\ sent = <<>>
    /\ size_packet = 0 => header = NULL /\ (counter = size => size = 0)
    /\ header # NULL => header = size /\ Len(packet) = 2 * counter /\ sent = <<>>
    /\ size_packet # 0 => Len(packet) >= 2
    /\ size_packet > MaxMsg => header # NULL

(* No pair has been lost with a first packet that was too large. *)
NoneLost ==
  IF sent = <<>> THEN counter = 0 \/ header # NULL ELSE sent[1].size # NULL

(* Then the packets that are gone and the one being filled make up the     *)
(* listing as far as counter.                                              *)
FillingInv ==
  at = "dump" /\ NoneLost =>
    \E cut \in Cuts : IF size_packet = 0 THEN cut[Len(sent)] = counter
                      ELSE Slice(packet, cut[Len(sent)], counter)

SlicesInv == AllTypes /\ Once /\ PacketInv /\ FillingInv /\ EveryPairSentOnce

LEMMA EvenPairs ==
  ASSUME NEW body \in Seq(String), NEW n \in Nat, Len(body) = 2 * n
  PROVE  Pairs(body) = [i \in 1 .. n |-> <<body[2 * i - 1], body[2 * i]>>]
  <1>1. Len(body) % 2 = 0 /\ Len(body) \div 2 = n
    BY Halves
  <1>. DEFINE first == Len(body) % 2
  <1>2. \A i \in 1 .. n : first + 2 * i - 1 = 2 * i - 1 /\ first + 2 * i = 2 * i
    BY <1>1
  <1>3. Pairs(body) = [i \in 1 .. n |-> <<body[first + 2 * i - 1], body[first + 2 * i]>>]
    BY <1>1 DEF Pairs
  <1>. HIDE DEF first
  <1>. QED BY <1>2, <1>3

LEMMA OddPairs ==
  ASSUME NEW body \in Seq(String), NEW n \in Nat, Len(body) = 2 * n + 1
  PROVE  Pairs(body) = [i \in 1 .. n |-> <<body[2 * i], body[2 * i + 1]>>]
  <1>1. Len(body) % 2 = 1 /\ Len(body) \div 2 = n
    BY Halves
  <1>. DEFINE first == Len(body) % 2
  <1>2. \A i \in 1 .. n : first + 2 * i - 1 = 2 * i /\ first + 2 * i = 2 * i + 1
    BY <1>1
  <1>3. Pairs(body) = [i \in 1 .. n |-> <<body[first + 2 * i - 1], body[first + 2 * i]>>]
    BY <1>1 DEF Pairs
  <1>. HIDE DEF first
  <1>. QED BY <1>2, <1>3

(* A pair put behind a body is its next pair. *)
Extends(body, k, v, n) ==
  /\ \A i \in 1 .. n : Pairs(body \o <<k, v>>)[i] = Pairs(body)[i]
  /\ Pairs(body \o <<k, v>>)[n + 1] = <<k, v>>
  /\ DOMAIN Pairs(body \o <<k, v>>) = 1 .. n + 1
  /\ DOMAIN Pairs(body) = 1 .. n

LEMMA PairAppended ==
  ASSUME NEW body \in Seq(String), NEW k \in String, NEW v \in String, NEW n \in Nat,
         Len(body) \in {2 * n, 2 * n + 1}
  PROVE  Extends(body, k, v, n)
  <1>. DEFINE more == body \o <<k, v>>
  <1>1. /\ more \in Seq(String) /\ Len(more) = Len(body) + 2
        /\ \A i \in 1 .. Len(body) : more[i] = body[i]
        /\ more[Len(body) + 1] = k /\ more[Len(body) + 2] = v
    OBVIOUS
  <1>. HIDE DEF more
  <1>2. CASE Len(body) = 2 * n
    <2>1. Pairs(body) = [i \in 1 .. n |-> <<body[2 * i - 1], body[2 * i]>>]
      BY <1>2, EvenPairs
    <2>2. n + 1 \in Nat /\ Len(more) = 2 * (n + 1)
      BY <1>1, <1>2
    <2>3. Pairs(more) = [i \in 1 .. n + 1 |-> <<more[2 * i - 1], more[2 * i]>>]
      BY <1>1, <2>2, EvenPairs
    <2>4. \A i \in 1 .. n : more[2 * i - 1] = body[2 * i - 1] /\ more[2 * i] = body[2 * i]
      BY <1>1, <1>2
    <2>5. Pairs(more)[n + 1] = <<k, v>>
      <3>1. 2 * (n + 1) - 1 = Len(body) + 1 /\ 2 * (n + 1) = Len(body) + 2 /\ n + 1 \in 1 .. n + 1
        BY <1>2
      <3>. QED BY <1>1, <2>3, <3>1
    <2>6. \A i \in 1 .. n : Pairs(more)[i] = Pairs(body)[i]
      BY <2>1, <2>3, <2>4
    <2>. QED BY <2>1, <2>3, <2>5, <2>6 DEF more, Extends
  <1>3. CASE Len(body) = 2 * n + 1
    <2>1. Pairs(body) = [i \in 1 .. n |-> <<body[2 * i], body[2 * i + 1]>>]
      BY <1>3, OddPairs
    <2>2. n + 1 \in Nat /\ Len(more) = 2 * (n + 1) + 1
      BY <1>1, <1>3
    <2>3. Pairs(more) = [i \in 1 .. n + 1 |-> <<more[2 * i], more[2 * i + 1]>>]
      BY <1>1, <2>2, OddPairs
    <2>4. \A i \in 1 .. n : more[2 * i] = body[2 * i] /\ more[2 * i + 1] = body[2 * i + 1]
      BY <1>1, <1>3
    <2>5. Pairs(more)[n + 1] = <<k, v>>
      <3>1. 2 * (n + 1) = Len(body) + 1 /\ 2 * (n + 1) + 1 = Len(body) + 2 /\ n + 1 \in 1 .. n + 1
        BY <1>3
      <3>. QED BY <1>1, <2>3, <3>1
    <2>6. \A i \in 1 .. n : Pairs(more)[i] = Pairs(body)[i]
      BY <2>1, <2>3, <2>4
    <2>. QED BY <2>1, <2>3, <2>5, <2>6 DEF more, Extends
  <1>. QED BY <1>2, <1>3

(* A slice grows by the next pair of the listing. *)
LEMMA SliceGrows ==
  ASSUME ServerTypes, counter < size, NEW body \in Seq(String), NEW from \in Nat,
         (from = counter /\ body \in {<<>>, NoBytes}) \/ Slice(body, from, counter)
  PROVE  Slice(body \o node_dump[counter], from, counter + 1)
  <1>1. PICK k \in Key, v \in Value : node_dump[counter] = <<k, v>>
    BY PairTypes
  <1>. DEFINE more == body \o <<k, v>>
  <1>2. k \in String /\ v \in String /\ counter \in Nat
    BY DEF String, ServerTypes
  <1>3. PICK n \in Nat : Len(body) \in {2 * n, 2 * n + 1}
    <2>1. Len(body) \in Nat
      OBVIOUS
    <2>. QED BY <2>1, HalfOf
  <1>. SUFFICES Slice(more, from, counter + 1)
    BY <1>1
  <1>4. /\ \A i \in 1 .. n : Pairs(more)[i] = Pairs(body)[i]
        /\ Pairs(more)[n + 1] = <<k, v>>
        /\ DOMAIN Pairs(more) = 1 .. n + 1
        /\ DOMAIN Pairs(body) = 1 .. n
    <2>1. Extends(body, k, v, n)
      BY <1>2, <1>3, PairAppended
    <2>. QED BY <2>1 DEF Extends
  <1>5. Pairs(more) = [i \in 1 .. n + 1 |-> Pairs(more)[i]]
    BY <1>4 DEF Pairs
  <1>. HIDE DEF more
  <1>6. CASE from = counter /\ body \in {<<>>, NoBytes}
    <2>1. Len(body) = 0 \/ Len(body) = 1
      BY <1>6 DEF NoBytes
    <2>2. n = 0
      BY <2>1, <1>3, NoHalf
    <2>3. Pairs(more) = [i \in 1 .. 1 |-> node_dump[counter + i - 1]]
      <3>1. Pairs(more)[1] = node_dump[counter] /\ counter + 1 - 1 = counter
        BY <1>1, <1>2, <1>4, <2>2
      <3>2. \A i \in 1 .. 1 : Pairs(more)[i] = node_dump[counter + i - 1]
        BY <3>1
      <3>3. Pairs(more) = [i \in 1 .. 1 |-> Pairs(more)[i]]
        BY <1>5, <2>2
      <3>. QED BY <3>2, <3>3
    <2>4. (counter + 1) - from = 1 /\ from < counter + 1
      BY <1>2, <1>6
    <2>. QED BY <1>6, <2>3, <2>4 DEF Slice
  <1>7. CASE Slice(body, from, counter)
    <2>1. from < counter /\ Pairs(body) = [i \in 1 .. counter - from |-> node_dump[from + i - 1]]
      BY <1>7 DEF Slice
    <2>2. DOMAIN Pairs(body) = 1 .. counter - from
      BY <2>1
    <2>3. n = counter - from
      <3>1. 1 .. n = 1 .. counter - from /\ counter - from \in Nat
        BY <1>2, <1>4, <2>1, <2>2
      <3>. QED BY <3>1
    <2>4. \A i \in 1 .. n : Pairs(more)[i] = node_dump[from + i - 1]
      BY <1>4, <2>1, <2>3
    <2>5. Pairs(more)[n + 1] = node_dump[from + (n + 1) - 1]
      BY <1>1, <1>2, <1>4, <2>3
    <2>6. \A i \in 1 .. n + 1 : Pairs(more)[i] = node_dump[from + i - 1]
      <3>1. \A i \in 1 .. n + 1 : i \in 1 .. n \/ i = n + 1
        OBVIOUS
      <3>. QED BY <2>4, <2>5, <3>1
    <2>7. (counter + 1) - from = n + 1 /\ from < counter + 1
      BY <1>2, <2>1, <2>3
    <2>8. Pairs(more) = [i \in 1 .. n + 1 |-> node_dump[from + i - 1]]
      BY <1>5, <2>6
    <2>9. Pairs(more) = [i \in 1 .. (counter + 1) - from |-> node_dump[from + i - 1]]
      BY <2>7, <2>8
    <2>. HIDE DEF more
    <2>. QED BY <2>7, <2>9 DEF Slice
  <1>. QED BY <1>6, <1>7

(* A packet that sendto takes is the next one of the sent ones. *)
LEMMA SendToSends ==
  ASSUME AllTypes, SendTo, size_packet # 0 => Len(packet) >= 2
  PROVE  sent' = IF size_packet = 0 \/ size_packet > MaxMsg THEN sent
                 ELSE Append(sent, [size |-> header, body |-> packet])
  <1>1. size_packet \in Nat
    BY DEF AllTypes, ServerTypes
  <1>2. CASE size_packet = 0
    BY <1>2 DEF SendTo
  <1>3. CASE size_packet > MaxMsg
    BY <1>1, <1>3 DEF SendTo
  <1>4. CASE size_packet # 0 /\ ~(size_packet > MaxMsg)
    <2>1. packet # NoBytes
      <3>1. Len(NoBytes) = 1
        BY DEF NoBytes
      <3>2. ~(1 >= 2)
        OBVIOUS
      <3>. QED BY <1>4, <3>1, <3>2
    <2>. QED BY <1>4, <2>1 DEF SendTo
  <1>. QED BY <1>2, <1>3, <1>4

LEMMA OnceKept == AllTypes /\ Once /\ [Next]_vars => Once'
  <1>. SUFFICES ASSUME AllTypes, Once, [Next]_vars
                PROVE  Once'
    OBVIOUS
  <1>1. ASSUME NEW k \in Key, NEW v \in Value, Write(k, v)
        PROVE  Once'
    BY <1>1 DEF Write, Once, toolVars
  <1>2. CASE Ask
    BY <1>2 DEF Ask, Once
  <1>3. CASE DumpRequest
    <2>1. asked /\ ~asked' /\ pc' = pc
      BY <1>3 DEF DumpRequest, toolVars
    <2>. QED BY <2>1 DEF Once
  <1>4. CASE AddFirst \/ AddNext \/ Flush \/ Finish
    <2>1. at = "dump" /\ asked' = asked /\ pc' = pc
      BY <1>4 DEF AddFirst, AddNext, Flush, Finish, toolVars
    <2>. QED BY <2>1 DEF Once
  <1>5. CASE Tool
    <2>1. pc' # "start" /\ UNCHANGED <<asked, at, sent>>
      BY <1>5 DEF Tool, RecvFirst, RecvMore, TimeoutFirst, TimeoutMore, Continue, serverVars
    <2>. QED BY <2>1 DEF Once
  <1>6. CASE UNCHANGED vars
    BY <1>6 DEF vars, serverVars, toolVars, Once
  <1>. QED BY <1>1, <1>2, <1>3, <1>4, <1>5, <1>6 DEF Next, Server

LEMMA PacketKept == AllTypes /\ Once /\ PacketInv /\ [Next]_vars => PacketInv'
  <1>. SUFFICES ASSUME AllTypes, Once, PacketInv, [Next]_vars
                PROVE  PacketInv'
    OBVIOUS
  <1>1. ServerTypes /\ size \in Nat /\ counter \in 0 .. size /\ size_packet \in Nat
        /\ packet \in Bodies
    BY DEF AllTypes, ServerTypes
  <1>2. ASSUME NEW k \in Key, NEW v \in Value, Write(k, v)
        PROVE  PacketInv'
    BY <1>2 DEF Write, PacketInv
  <1>3. CASE Ask
    BY <1>3 DEF Ask, Once, PacketInv
  <1>4. CASE DumpRequest
    <2>1. /\ counter' = 0 /\ size_packet' = 0 /\ header' = NULL /\ sent' = <<>>
      BY <1>4 DEF DumpRequest, Once
    <2>2. MaxMsg \in Nat
      OBVIOUS
    <2>. QED BY <2>1, <2>2 DEF PacketInv
  <1>5. CASE AddFirst
    <2>1. /\ counter = 0 /\ counter < size /\ at = "dump" /\ size' = size /\ counter' = 1
          /\ header' = size /\ packet' = node_dump[0] /\ size_packet' = 4 + size_kv /\ sent' = sent
      BY <1>5 DEF AddFirst, size
    <2>2. size_kv \in Nat /\ node_dump[0] \in Key \X Value
      BY <1>1, <2>1, PairTypes
    <2>3. Len(packet') = 2
      BY <2>1, <2>2
    <2>4. sent' = <<>> /\ header' # NULL
      BY <1>1, <2>1 DEF PacketInv
    <2>5. size_packet' # 0
      BY <2>1, <2>2
    <2>. QED BY <2>1, <2>3, <2>4, <2>5 DEF PacketInv
  <1>6. CASE AddNext
    <2>. DEFINE front == IF size_packet = 0 THEN NoBytes ELSE packet
    <2>1. /\ counter > 0 /\ counter < size /\ at = "dump" /\ size' = size /\ counter' = counter + 1
          /\ header' = header /\ packet' = front \o node_dump[counter]
          /\ size_packet' = size_packet + size_kv + 1 /\ sent' = sent
          /\ size_packet + size_kv < MaxMsg
      BY <1>6 DEF AddNext, Fits, size
    <2>2. size_kv \in Nat /\ node_dump[counter] \in Key \X Value
      BY <1>1, <2>1, PairTypes
    <2>3. Len(node_dump[counter]) = 2 /\ node_dump[counter] \in Seq(String)
      <3>1. PICK k \in Key, v \in Value : node_dump[counter] = <<k, v>>
        BY <2>2
      <3>2. k \in String /\ v \in String
        BY DEF String
      <3>. QED BY <3>1, <3>2
    <2>4. front \in Seq(String)
      <3>1. NoBytes \in Seq(String)
        BY DEF NoBytes, String
      <3>2. packet \in Seq(String)
        BY <1>1 DEF Bodies
      <3>. QED BY <3>1, <3>2
    <2>5. Len(packet') = Len(front) + 2 /\ Len(front) \in Nat
      <3>. HIDE DEF front
      <3>1. packet' = front \o node_dump[counter]
        BY <2>1
      <3>2. \A a, b \in Seq(String) : Len(a \o b) = Len(a) + Len(b) /\ Len(a) \in Nat
        OBVIOUS
      <3>3. Len(packet') = Len(front) + Len(node_dump[counter]) /\ Len(front) \in Nat
        BY <2>3, <2>4, <3>1, <3>2
      <3>. QED BY <2>3, <3>3
    <2>6. size_packet' # 0 /\ ~(size_packet' > MaxMsg) /\ counter' # 0
      BY <1>1, <2>1, <2>2
    <2>7. header' # NULL => header' = size /\ Len(packet') = 2 * (counter + 1) /\ sent' = <<>>
      <3>1. header # NULL => front = packet
        BY <2>1 DEF PacketInv
      <3>2. header # NULL => header = size /\ Len(packet) = 2 * counter /\ sent = <<>>
        BY <2>1 DEF PacketInv
      <3>3. header # NULL => Len(packet') = 2 * counter + 2
        BY <2>5, <3>1, <3>2
      <3>4. 2 * counter + 2 = 2 * (counter + 1)
        BY <1>1
      <3>. QED BY <2>1, <3>2, <3>3, <3>4
    <2>8. Len(packet') >= 2
      BY <2>5
    <2>. QED BY <2>1, <2>6, <2>7, <2>8 DEF PacketInv
  <1>7. CASE Flush
    <2>1. /\ counter < size /\ at = "dump" /\ size' = size /\ counter' = counter
          /\ header' = NULL /\ size_packet' = 0 /\ SendTo
      BY <1>7 DEF Flush, size
    <2>2. counter = 0 => sent' = <<>>
      BY <2>1, SendToSends DEF PacketInv
    <2>3. counter' # size' /\ ~(size_packet' > MaxMsg)
      BY <1>1, <2>1
    <2>. QED BY <2>1, <2>2, <2>3 DEF PacketInv
  <1>8. CASE Finish
    BY <1>8 DEF Finish, PacketInv
  <1>9. CASE UNCHANGED serverVars
    BY <1>9 DEF serverVars, PacketInv, size
  <1>. QED BY <1>2, <1>3, <1>4, <1>5, <1>6, <1>7, <1>8, <1>9
           DEF Next, Server, Tool, RecvFirst, RecvMore, TimeoutFirst, TimeoutMore, vars

-----------------------------------------------------------------------------
(* The cuts. *)
LEMMA CutsKept == UNCHANGED <<sent, node_dump>> => Cuts' = Cuts
  BY DEF Cuts, size

(* A packet that is sent when it is full makes one more cut. *)
LEMMA CutMade ==
  ASSUME ServerTypes, NEW cut \in Cuts, NEW m \in Packets,
         sent' = Append(sent, m), node_dump' = node_dump,
         Slice(m.body, cut[Len(sent)], counter)
  PROVE  \E c \in Cuts' : c[Len(sent')] = counter
  <1>. DEFINE n == Len(sent)
              c == [i \in 0 .. n + 1 |-> IF i <= n THEN cut[i] ELSE counter]
  <1>1. sent \in Seq(Packets) /\ n \in Nat /\ size \in Nat /\ counter \in 0 .. size /\ size' = size
    BY DEF ServerTypes, size
  <1>2. /\ Len(sent') = n + 1 /\ sent'[n + 1] = m
        /\ \A i \in 1 .. n : sent'[i] = sent[i]
    <2>. HIDE DEF c
    <2>. QED BY <1>1
  <1>3. /\ cut \in [0 .. n -> 0 .. size] /\ cut[0] = 0
        /\ \A i \in 1 .. n : Slice(sent[i].body, cut[i - 1], cut[i])
    BY DEF Cuts, Slice
  <1>. HIDE DEF n
  <1>4. c \in [0 .. n + 1 -> 0 .. size] /\ c[0] = 0 /\ c[n + 1] = counter
        /\ \A i \in 0 .. n : c[i] = cut[i]
    BY <1>1, <1>3
  <1>. HIDE DEF c
  <1>5. \A i \in 1 .. n + 1 : Slice(sent'[i].body, c[i - 1], c[i])
    <2>. SUFFICES ASSUME NEW i \in 1 .. n + 1
                  PROVE  Slice(sent'[i].body, c[i - 1], c[i])
      OBVIOUS
    <2>1. CASE i = n + 1
      <3>1. i - 1 = n /\ n \in 0 .. n
        BY <1>1, <2>1
      <3>2. c[i - 1] = cut[n] /\ c[i] = counter /\ sent'[i] = m
        BY <1>2, <1>4, <2>1, <3>1
      <3>. QED BY <3>2 DEF n
    <2>2. CASE i # n + 1
      <3>1. i \in 1 .. n /\ i - 1 \in 0 .. n /\ i \in 0 .. n
        BY <1>1, <2>2
      <3>2. c[i - 1] = cut[i - 1] /\ c[i] = cut[i] /\ sent'[i] = sent[i]
        BY <1>2, <1>4, <3>1
      <3>. QED BY <1>3, <3>1, <3>2
    <2>. QED BY <2>1, <2>2
  <1>6. \A i \in 1 .. n + 1 :
          /\ c[i - 1] < c[i]
          /\ Pairs(sent'[i].body) = [j \in 1 .. c[i] - c[i - 1] |-> node_dump[c[i - 1] + j - 1]]
    BY <1>5 DEF Slice
  <1>7. c \in Cuts'
    <2>1. \A i \in 1 .. n + 1 :
            /\ c[i - 1] < c[i]
            /\ Pairs(sent'[i].body) = [j \in 1 .. c[i] - c[i - 1] |-> node_dump'[c[i - 1] + j - 1]]
      <3>1. node_dump' = node_dump
        OBVIOUS
      <3>. QED BY <1>6, <3>1, Zenon
    <2>. QED BY <1>1, <1>2, <1>4, <2>1 DEF Cuts
  <1>. QED BY <1>2, <1>4, <1>7

LEMMA CutTypes ==
  ASSUME ServerTypes, NEW cut \in Cuts
  PROVE  /\ Len(sent) \in Nat /\ cut[Len(sent)] \in 0 .. size
         /\ sent = <<>> => Len(sent) = 0 /\ cut[Len(sent)] = 0
  <1>1. Len(sent) \in Nat /\ Len(sent) \in 0 .. Len(sent)
    BY DEF ServerTypes
  <1>. QED BY <1>1 DEF Cuts

(* sendto of a filled packet completes the cuts. *)
LEMMA CutAtSend ==
  ASSUME AllTypes, PacketInv, FillingInv, at = "dump", NoneLost, SendTo,
         node_dump' = node_dump, size_packet > MaxMsg => FALSE
  PROVE  \E c \in Cuts' : c[Len(sent')] = counter
  <1>1. PICK cut \in Cuts : IF size_packet = 0 THEN cut[Len(sent)] = counter
                            ELSE Slice(packet, cut[Len(sent)], counter)
    BY DEF FillingInv
  <1>2. CASE size_packet = 0
    <2>1. sent' = sent
      BY <1>2, SendToSends DEF PacketInv
    <2>. QED BY <1>1, <1>2, <2>1, CutsKept
  <1>3. CASE size_packet # 0
    <2>. DEFINE m == [size |-> header, body |-> packet]
    <2>1. sent' = Append(sent, m)
      BY <1>3, SendToSends DEF PacketInv
    <2>2. m \in Packets /\ m.body = packet
      BY DEF AllTypes, ServerTypes, Packets
    <2>. HIDE DEF m
    <2>3. Slice(m.body, cut[Len(sent)], counter)
      BY <1>1, <1>3, <2>2
    <2>. QED BY <2>1, <2>2, <2>3, CutMade DEF AllTypes
  <1>. QED BY <1>2, <1>3

LEMMA FillingKept ==
  AllTypes /\ Once /\ PacketInv /\ FillingInv /\ [Next]_vars => FillingInv'
  <1>. SUFFICES ASSUME AllTypes, Once, PacketInv, FillingInv, [Next]_vars
                PROVE  FillingInv'
    OBVIOUS
  <1>1. ServerTypes /\ size \in Nat /\ counter \in 0 .. size /\ size_packet \in Nat
        /\ packet \in Bodies /\ MaxMsg \in Nat
    BY DEF AllTypes, ServerTypes
  <1>2. ASSUME NEW k \in Key, NEW v \in Value, Write(k, v)
        PROVE  FillingInv'
    BY <1>2 DEF Write, FillingInv
  <1>3. CASE Ask
    BY <1>3 DEF Ask, Once, FillingInv
  <1>4. CASE DumpRequest
    <2>1. counter' = 0 /\ size_packet' = 0 /\ sent' = <<>>
      BY <1>4 DEF DumpRequest, Once
    <2>2. AllTypes'
      BY <1>4, ServerStepTypes DEF Server
    <2>3. Len(sent') = 0 /\ size' \in Nat
      BY <2>1, <2>2 DEF AllTypes, ServerTypes
    <2>. DEFINE c == [i \in 0 .. 0 |-> 0]
    <2>4. c \in [0 .. 0 -> 0 .. size'] /\ c[0] = 0 /\ 1 .. 0 = {}
      BY <2>3
    <2>. HIDE DEF c
    <2>5. c \in Cuts'
      BY <2>3, <2>4 DEF Cuts
    <2>. QED BY <2>1, <2>3, <2>4, <2>5 DEF FillingInv
  <1>5. CASE AddFirst
    <2>1. /\ counter = 0 /\ counter < size /\ at = "dump" /\ counter' = 1
          /\ packet' = node_dump[0] /\ size_packet' = 4 + size_kv
          /\ UNCHANGED <<sent, node_dump>>
      BY <1>5 DEF AddFirst
    <2>2. size_packet = 0 /\ sent = <<>> /\ NoneLost
      BY <2>1 DEF PacketInv, NoneLost
    <2>3. PICK cut \in Cuts : cut[Len(sent)] = counter
      BY <2>1, <2>2 DEF FillingInv
    <2>4. Slice(<<>> \o node_dump[0], 0, 0 + 1)
      <3>1. <<>> \in Seq(String) /\ 0 \in Nat
        OBVIOUS
      <3>. QED BY <1>1, <2>1, <3>1, SliceGrows
    <2>5. <<>> \o node_dump[0] = node_dump[0] /\ 0 + 1 = 1
      <3>1. node_dump[0] \in Seq(String)
        BY <1>1, <2>1, PairTypes DEF Bodies
      <3>. QED BY <3>1
    <2>6. size_packet' # 0
      BY <1>1, <2>1, PairTypes
    <2>7. Cuts' = Cuts
      BY <2>1, CutsKept
    <2>8. Slice(packet', cut[Len(sent)], counter')
      BY <2>1, <2>3, <2>4, <2>5
    <2>9. Slice(packet, cut[Len(sent)], counter)' = Slice(packet', cut[Len(sent)], counter')
      BY <2>1 DEF Slice
    <2>. QED BY <2>1, <2>6, <2>7, <2>8, <2>9 DEF FillingInv
  <1>6. CASE AddNext
    <2>. DEFINE front == IF size_packet = 0 THEN NoBytes ELSE packet
    <2>1. /\ counter > 0 /\ counter < size /\ at = "dump" /\ counter' = counter + 1
          /\ header' = header /\ packet' = front \o node_dump[counter]
          /\ size_packet' = size_packet + size_kv + 1
          /\ UNCHANGED <<sent, node_dump>>
      BY <1>6 DEF AddNext
    <2>2. size_packet' # 0
      BY <1>1, <2>1, PairTypes
    <2>. SUFFICES ASSUME NoneLost'
                  PROVE  \E cut \in Cuts : Slice(packet', cut[Len(sent)], counter')
      <3>1. Cuts' = Cuts
        BY <2>1, CutsKept
      <3>2. \A cut : Slice(packet, cut[Len(sent)], counter)' = Slice(packet', cut[Len(sent)], counter')
        BY <2>1 DEF Slice
      <3>. QED BY <2>1, <2>2, <3>1, <3>2 DEF FillingInv
    <2>3. NoneLost
      BY <1>1, <2>1 DEF NoneLost
    <2>4. PICK cut \in Cuts : IF size_packet = 0 THEN cut[Len(sent)] = counter
                              ELSE Slice(packet, cut[Len(sent)], counter)
      BY <2>1, <2>3 DEF FillingInv
    <2>5. cut[Len(sent)] \in Nat
      BY <1>1, CutTypes
    <2>6. front \in Seq(String)
      <3>1. NoBytes \in Seq(String)
        BY DEF NoBytes, String
      <3>2. packet \in Seq(String)
        BY <1>1 DEF Bodies
      <3>. QED BY <3>1, <3>2
    <2>7. \/ cut[Len(sent)] = counter /\ front \in {<<>>, NoBytes}
          \/ Slice(front, cut[Len(sent)], counter)
      BY <2>4
    <2>. HIDE DEF front
    <2>8. Slice(front \o node_dump[counter], cut[Len(sent)], counter + 1)
      BY <1>1, <2>1, <2>5, <2>6, <2>7, SliceGrows
    <2>. QED BY <2>1, <2>8
  <1>7. CASE Flush
    <2>1. /\ at = "dump" /\ counter < size /\ counter' = counter /\ header' = NULL
          /\ size_packet' = 0 /\ SendTo /\ node_dump' = node_dump
      BY <1>7 DEF Flush
    <2>. SUFFICES ASSUME NoneLost'
                  PROVE  \E c \in Cuts' : c[Len(sent')] = counter
      BY <2>1 DEF FillingInv
    <2>2. sent' = IF size_packet = 0 \/ size_packet > MaxMsg THEN sent
                  ELSE Append(sent, [size |-> header, body |-> packet])
      BY <2>1, SendToSends DEF PacketInv
    <2>3. ~(size_packet > MaxMsg)
      <3>. SUFFICES ASSUME size_packet > MaxMsg
                    PROVE  FALSE
        OBVIOUS
      <3>1. header # NULL /\ sent = <<>> /\ counter # 0
        <4>1. header # NULL
          BY <2>1 DEF PacketInv
        <4>2. size_packet # 0
          BY <1>1
        <4>. QED BY <2>1, <4>1, <4>2 DEF PacketInv
      <3>. QED BY <2>1, <2>2, <3>1 DEF NoneLost
    <2>4. NoneLost
      <3>1. CASE size_packet = 0
        BY <2>1, <2>2, <3>1 DEF NoneLost
      <3>2. CASE size_packet # 0
        <4>. DEFINE m == [size |-> header, body |-> packet]
        <4>1. sent' = Append(sent, m) /\ m.size = header /\ sent \in Seq(Packets)
          BY <1>1, <2>2, <2>3, <3>2 DEF ServerTypes
        <4>. HIDE DEF m
        <4>2. m \in Packets
          BY <1>1 DEF m, ServerTypes, Packets
        <4>3. sent' # <<>> /\ sent'[1] = IF sent = <<>> THEN m ELSE sent[1]
          BY <4>1, <4>2
        <4>. QED BY <4>1, <4>3 DEF NoneLost
      <3>. QED BY <3>1, <3>2
    <2>. QED BY <2>1, <2>3, <2>4, CutAtSend
  <1>8. CASE Finish
    BY <1>8 DEF Finish, FillingInv
  <1>9. CASE UNCHANGED serverVars
    <2>1. Cuts' = Cuts
      BY <1>9, CutsKept DEF serverVars
    <2>2. \A cut : Slice(packet, cut[Len(sent)], counter)' = Slice(packet, cut[Len(sent)], counter)
      BY <1>9 DEF Slice, serverVars
    <2>. QED BY <1>9, <2>1, <2>2 DEF serverVars, FillingInv, NoneLost
  <1>. QED BY <1>2, <1>3, <1>4, <1>5, <1>6, <1>7, <1>8, <1>9
           DEF Next, Server, Tool, RecvFirst, RecvMore, TimeoutFirst, TimeoutMore, vars

LEMMA SentOnceKept ==
  AllTypes /\ Once /\ PacketInv /\ FillingInv /\ EveryPairSentOnce /\ [Next]_vars
    => EveryPairSentOnce'
  <1>. SUFFICES ASSUME AllTypes, Once, PacketInv, FillingInv, EveryPairSentOnce, [Next]_vars
                PROVE  EveryPairSentOnce'
    OBVIOUS
  <1>1. ASSUME UNCHANGED <<at, sent, node_dump>>
        PROVE  EveryPairSentOnce'
    <2>1. Cuts' = Cuts /\ size' = size
      BY <1>1, CutsKept DEF size
    <2>. QED BY <1>1, <2>1 DEF EveryPairSentOnce, Ended
  <1>2. ASSUME NEW k \in Key, NEW v \in Value, Write(k, v)
        PROVE  EveryPairSentOnce'
    BY <1>1, <1>2 DEF Write
  <1>3. CASE Ask
    BY <1>1, <1>3 DEF Ask
  <1>4. CASE DumpRequest \/ AddFirst \/ AddNext \/ Flush
    <2>1. at' = "dump"
      BY <1>4 DEF DumpRequest, AddFirst, AddNext, Flush
    <2>. QED BY <2>1 DEF EveryPairSentOnce, Ended
  <1>5. CASE Finish
    <2>1. at = "dump" /\ counter >= size /\ SendTo /\ node_dump' = node_dump
      BY <1>5 DEF Finish
    <2>2. counter = size /\ size' = size /\ sent \in Seq(Packets)
      BY <2>1 DEF AllTypes, ServerTypes, size
    <2>. SUFFICES ASSUME sent' # <<>>, sent'[1].size # NULL
                  PROVE  \E c \in Cuts' : c[Len(sent')] = counter
      BY <2>2 DEF EveryPairSentOnce, Ended
    <2>3. sent' = IF size_packet = 0 \/ size_packet > MaxMsg THEN sent
                  ELSE Append(sent, [size |-> header, body |-> packet])
      BY <2>1, SendToSends DEF PacketInv
    <2>4. size_packet > MaxMsg => FALSE
      BY <2>1, <2>3 DEF PacketInv
    <2>5. NoneLost
      <3>1. CASE size_packet = 0
        BY <2>3, <3>1 DEF NoneLost
      <3>2. CASE size_packet # 0
        <4>. DEFINE m == [size |-> header, body |-> packet]
        <4>1. sent' = Append(sent, m) /\ m.size = header
          BY <2>3, <2>4, <3>2
        <4>. HIDE DEF m
        <4>2. m \in Packets
          BY DEF m, AllTypes, ServerTypes, Packets
        <4>3. sent'[1] = IF sent = <<>> THEN m ELSE sent[1]
          BY <2>2, <4>1, <4>2
        <4>. QED BY <4>1, <4>3 DEF NoneLost
      <3>. QED BY <3>1, <3>2
    <2>. QED BY <2>1, <2>4, <2>5, CutAtSend
  <1>6. CASE UNCHANGED serverVars
    BY <1>1, <1>6 DEF serverVars
  <1>. QED BY <1>2, <1>3, <1>4, <1>5, <1>6
           DEF Next, Server, Tool, RecvFirst, RecvMore, TimeoutFirst, TimeoutMore, vars

LEMMA InitSlices == Init => SlicesInv
  <1>. SUFFICES ASSUME Init
                PROVE  SlicesInv
    OBVIOUS
  <1>1. at = "recvfrom" /\ sent = <<>> /\ ~asked
    BY DEF Init
  <1>2. Once /\ PacketInv /\ FillingInv /\ EveryPairSentOnce
    BY <1>1 DEF Once, PacketInv, FillingInv, EveryPairSentOnce, Ended
  <1>. QED BY <1>2, InitTypes DEF SlicesInv

LEMMA SlicesKept == SlicesInv /\ [Next]_vars => SlicesInv'
  BY TypesPreserved, OnceKept, PacketKept, FillingKept, SentOnceKept DEF SlicesInv

(***************************************************************************)
(* The packets of a dump, put together, are the listing, whatever its      *)
(* length and that of its pairs: no pair is left out, cut or repeated      *)
(* (pps-launch-server.c:88-137), if the first one went out with its header.*)
(***************************************************************************)
THEOREM PacketsMakeTheListing == Spec => []EveryPairSentOnce
  <1>1. Spec => []SlicesInv
    BY InitSlices, SlicesKept, PTL DEF Spec
  <1>2. SlicesInv => EveryPairSentOnce
    BY DEF SlicesInv
  <1>. QED BY <1>1, <1>2, PTL

-----------------------------------------------------------------------------
(* A dump of one packet.  It holds the whole listing, and the tool has not *)
(* looked at it yet, or has printed it.  Other dumps send more packets, or *)
(* none, or lose the header; one that gets stuck sends nothing any more.   *)
Whole(m) == m.size = size /\ Len(m.body) = 2 * size /\ Slice(m.body, 0, size)

Untouched == kv_list = NoList /\ pc # "more"

WholeInv ==
  /\ Whole(sent[1])
  /\ \/ queue \in {<<>>, <<sent[1]>>} /\ Untouched
     \/ queue = <<>> /\ pc = "done" /\ status = "OK" /\ Printed = node_dump

OneInv ==
  \/ Len(sent) > 1 \/ (Len(sent) = 1 /\ at = "dump")
  \/ at = "dump" /\ counter < size /\ size_kv >= MaxMsg
  \/ sent = <<>> /\ queue = <<>> /\ Untouched
  \/ /\ ~asked /\ pc # "start" /\ at = "recvfrom"
     /\ sent = <<>> \/ (Len(sent) = 1 /\ (sent[1].size = NULL \/ WholeInv))

(* The parser makes the listing of a packet that holds all of it. *)
LEMMA WholeParse ==
  ASSUME ServerTypes, size # 0, NEW body \in Seq(String), Len(body) = 2 * size,
         Slice(body, 0, size), NEW kv, kv.size = size, kv.list = <<>>
  PROVE  Parse(body, 0, kv) = [ok |-> TRUE, count |-> size, list |-> node_dump]
  <1>. DEFINE full == (Len(body) - 1) \div 2
              rest == IF Len(body) % 2 = 0 THEN <<body[Len(body) - 1], body[Len(body)]>>
                                           ELSE <<Garbage, Empty>>
              new  == [i \in 0 .. 0 + full |->
                         IF i < 0 + full
                         THEN <<body[2 * (i - 0) + 1], body[2 * (i - 0) + 2]>>
                         ELSE rest]
  <1>1. size \in Nat \ {0} /\ node_dump \in [0 .. size - 1 -> Key \X Value]
    BY DEF ServerTypes
  <1>2. full = size - 1
    <2>1. Len(body) - 1 = 2 * (size - 1) + 1 /\ size - 1 \in Nat
      BY <1>1
    <2>. QED BY <2>1, Halves
  <1>3. rest = <<body[2 * size - 1], body[2 * size]>>
    <2>1. Len(body) % 2 = 0
      BY <1>1, Halves
    <2>. QED BY <2>1
  <1>4. Pairs(body) = [i \in 1 .. size |-> <<body[2 * i - 1], body[2 * i]>>]
    BY <1>1, EvenPairs
  <1>5. \A i \in 1 .. size : Pairs(body)[i] = node_dump[i - 1]
    <2>1. Pairs(body) = [i \in 1 .. size - 0 |-> node_dump[0 + i - 1]]
      BY DEF Slice
    <2>2. size - 0 = size /\ \A i \in 1 .. size : 0 + i - 1 = i - 1
      BY <1>1
    <2>. QED BY <2>1, <2>2
  <1>6. \A i \in 0 .. size - 1 : <<body[2 * i + 1], body[2 * i + 2]>> = node_dump[i]
    <2>. SUFFICES ASSUME NEW i \in 0 .. size - 1
                  PROVE  <<body[2 * i + 1], body[2 * i + 2]>> = node_dump[i]
      OBVIOUS
    <2>1. i + 1 \in 1 .. size /\ 2 * (i + 1) - 1 = 2 * i + 1 /\ 2 * (i + 1) = 2 * i + 2
          /\ (i + 1) - 1 = i
      BY <1>1
    <2>2. Pairs(body)[i + 1] = <<body[2 * (i + 1) - 1], body[2 * (i + 1)]>>
      BY <1>4, <2>1
    <2>3. Pairs(body)[i + 1] = node_dump[(i + 1) - 1]
      BY <1>5, <2>1
    <2>. QED BY <2>1, <2>2, <2>3
  <1>7. \A i \in 0 .. size - 1 : new[i] = node_dump[i]
    <2>. SUFFICES ASSUME NEW i \in 0 .. size - 1
                  PROVE  new[i] = node_dump[i]
      OBVIOUS
    <2>. HIDE DEF full
    <2>1. i \in 0 .. 0 + full /\ 2 * (i - 0) + 1 = 2 * i + 1 /\ 2 * (i - 0) + 2 = 2 * i + 2
      BY <1>1, <1>2
    <2>2. CASE i < full
      <3>1. i < 0 + full
        BY <1>1, <1>2, <2>2
      <3>2. new[i] = <<body[2 * i + 1], body[2 * i + 2]>>
        BY <2>1, <3>1
      <3>. QED BY <1>6, <3>2
    <2>3. CASE ~(i < full)
      <3>1. ~(i < 0 + full) /\ 2 * i + 1 = 2 * size - 1 /\ 2 * i + 2 = 2 * size
        BY <1>1, <1>2, <2>3
      <3>2. new[i] = rest
        BY <2>1, <3>1
      <3>3. new[i] = <<body[2 * i + 1], body[2 * i + 2]>>
        BY <1>3, <3>1, <3>2
      <3>. QED BY <1>6, <3>3
    <2>. QED BY <2>2, <2>3
  <1>8. DOMAIN new = 0 .. size - 1 /\ new = [i \in 0 .. size - 1 |-> new[i]]
    <2>. HIDE DEF full, rest
    <2>1. 0 .. 0 + full = 0 .. size - 1
      BY <1>1, <1>2
    <2>2. DOMAIN new = 0 .. 0 + full /\ new = [i \in 0 .. 0 + full |-> new[i]]
      OBVIOUS
    <2>. HIDE DEF new
    <2>. QED BY <2>1, <2>2
  <1>9. Stored(kv.list, new) = node_dump
    <2>. HIDE DEF full, rest, new
    <2>1. DOMAIN kv.list \cup DOMAIN new = 0 .. size - 1
      BY <1>8
    <2>2. Stored(kv.list, new) = [i \in 0 .. size - 1 |-> new[i]]
      BY <1>8, <2>1 DEF Stored
    <2>3. node_dump = [i \in 0 .. size - 1 |-> node_dump[i]]
      BY <1>1
    <2>. QED BY <1>7, <2>2, <2>3
  <1>10. Parse(body, 0, kv) =
           IF full > 0 /\ 0 + full >= kv.size THEN Failed
           ELSE [ok |-> TRUE, count |-> 0 + full + 1, list |-> Stored(kv.list, new)]
    BY DEF Parse
  <1>11. ~(0 + full >= kv.size) /\ 0 + full + 1 = size
    <2>. HIDE DEF full
    <2>. QED BY <1>1, <1>2
  <1>. HIDE DEF full, rest, new
  <1>. QED BY <1>9, <1>10, <1>11

(* What sendto does to a tool that has received nothing. *)
LEMMA SendToQueues ==
  ASSUME AllTypes, SendTo, size_packet # 0, ~(size_packet > MaxMsg), queue = <<>>
  PROVE  queue' \in {<<>>, <<[size |-> header, body |-> packet]>>}
  <1>. DEFINE m == [size |-> header, body |-> packet]
  <1>1. queue' \in {queue, Append(queue, m)}
    BY DEF SendTo
  <1>. HIDE DEF m
  <1>2. Append(<<>>, m) = <<m>>
    OBVIOUS
  <1>. QED BY <1>1, <1>2 DEF m

(* The last packet of a dump, if it is also the first. *)
LEMMA OnlyPacketIsWhole ==
  ASSUME AllTypes, PacketInv, FillingInv, at = "dump", counter = size, size_packet # 0,
         header # NULL
  PROVE  Whole([size |-> header, body |-> packet])
  <1>1. header = size /\ Len(packet) = 2 * size /\ sent = <<>>
    BY DEF PacketInv
  <1>2. PICK cut \in Cuts : Slice(packet, cut[Len(sent)], counter)
    BY <1>1 DEF FillingInv, NoneLost
  <1>3. cut[Len(sent)] = 0
    BY <1>1, CutTypes DEF AllTypes
  <1>. QED BY <1>1, <1>2, <1>3 DEF Whole

LEMMA OneKeptByServer ==
  ASSUME SlicesInv, OneInv, Server
  PROVE  OneInv'
  <1>1. /\ AllTypes /\ ServerTypes /\ PacketInv /\ FillingInv /\ Once
        /\ sent \in Seq(Packets) /\ size_packet \in Nat /\ size \in Nat /\ counter \in 0 .. size
        /\ MaxMsg \in Nat
    BY DEF SlicesInv, AllTypes, ServerTypes
  <1>2. Len(<<>>) = 0
    OBVIOUS
  <1>3. CASE DumpRequest
    <2>1. asked /\ UNCHANGED <<sent, queue, kv_list, pc>>
      BY <1>3 DEF DumpRequest, toolVars
    <2>2. at = "recvfrom" /\ sent = <<>>
      BY <1>1, <2>1 DEF Once
    <2>3. queue = <<>> /\ Untouched
      BY <1>2, <2>1, <2>2 DEF OneInv
    <2>. QED BY <2>1, <2>2, <2>3 DEF OneInv, Untouched
  <1>4. CASE AddFirst \/ AddNext
    <2>1. /\ at = "dump" /\ counter < size /\ size_packet + size_kv < MaxMsg
          /\ UNCHANGED <<at, sent, queue, kv_list, pc>>
      BY <1>4 DEF AddFirst, AddNext, Fits, toolVars
    <2>2. ~(size_kv >= MaxMsg)
      <3>1. size_kv \in Nat
        BY <1>1, <2>1, PairTypes
      <3>. QED BY <1>1, <2>1, <3>1
    <2>3. Len(sent) > 1 \/ Len(sent) = 1 \/ (sent = <<>> /\ queue = <<>> /\ Untouched)
      BY <2>1, <2>2 DEF OneInv
    <2>. QED BY <2>1, <2>3 DEF OneInv, Untouched
  <1>5. CASE Flush
    <2>1. /\ at = "dump" /\ counter < size /\ ~(size_packet + size_kv < MaxMsg)
          /\ UNCHANGED <<at, counter, node_dump, kv_list, pc>> /\ SendTo
      BY <1>5 DEF Flush, Fits, toolVars
    <2>2. size_kv' = size_kv /\ size' = size /\ size_kv \in Nat
      BY <1>1, <2>1, PairTypes DEF size_kv, size
    <2>3. sent' = IF size_packet = 0 \/ size_packet > MaxMsg THEN sent
                  ELSE Append(sent, [size |-> header, body |-> packet])
      BY <1>1, <2>1, SendToSends DEF PacketInv
    <2>4. CASE size_packet = 0
      <3>1. size_kv >= MaxMsg
        BY <1>1, <2>1, <2>2, <2>4
      <3>. QED BY <2>1, <2>2, <3>1 DEF OneInv
    <2>5. CASE size_packet # 0 /\ size_packet > MaxMsg
      <3>1. sent' = sent /\ queue' = queue /\ sent = <<>>
        BY <1>1, <2>1, <2>3, <2>5 DEF SendTo, PacketInv
      <3>2. Len(sent) = 0
        BY <1>2, <3>1
      <3>. QED BY <2>1, <2>2, <3>1, <3>2 DEF OneInv, Untouched
    <2>6. CASE size_packet # 0 /\ ~(size_packet > MaxMsg)
      <3>. DEFINE m == [size |-> header, body |-> packet]
      <3>1. sent' = Append(sent, m) /\ m \in Packets
        BY <1>1, <2>3, <2>6 DEF ServerTypes, Packets
      <3>. HIDE DEF m
      <3>2. Len(sent') = Len(sent) + 1 /\ Len(sent) \in Nat
        BY <1>1, <3>1
      <3>. QED BY <2>1, <3>2 DEF OneInv
    <2>. QED BY <2>4, <2>5, <2>6
  <1>6. CASE Finish
    <2>1. /\ at = "dump" /\ counter = size /\ at' = "recvfrom" /\ SendTo
          /\ UNCHANGED <<asked, node_dump, kv_list, pc>>
      BY <1>1, <1>6 DEF Finish, toolVars
    <2>2. ~asked /\ pc # "start" /\ size' = size
      BY <1>1, <2>1 DEF Once, size
    <2>3. sent' = IF size_packet = 0 \/ size_packet > MaxMsg THEN sent
                  ELSE Append(sent, [size |-> header, body |-> packet])
      BY <1>1, <2>1, SendToSends DEF PacketInv
    <2>4. CASE size_packet = 0 \/ size_packet > MaxMsg
      <3>1. sent = <<>>
        BY <1>1, <2>1, <2>4 DEF PacketInv
      <3>. QED BY <2>1, <2>2, <2>3, <2>4, <3>1 DEF OneInv
    <2>5. CASE size_packet # 0 /\ ~(size_packet > MaxMsg)
      <3>. DEFINE m == [size |-> header, body |-> packet]
      <3>1. sent' = Append(sent, m) /\ m \in Packets /\ m.size = header
        BY <1>1, <2>3, <2>5 DEF ServerTypes, Packets
      <3>2. header # NULL => Whole(m)
        BY <1>1, <2>1, <2>5, OnlyPacketIsWhole
      <3>3. queue = <<>> => queue' \in {<<>>, <<m>>}
        BY <1>1, <2>1, <2>5, SendToQueues
      <3>. HIDE DEF m
      <3>4. Len(sent') = Len(sent) + 1 /\ Len(sent) \in Nat
            /\ (sent = <<>> => sent'[1] = m)
        BY <1>1, <3>1
      <3>5. CASE sent = <<>>
        <4>1. queue = <<>> /\ Untouched
          BY <1>1, <1>2, <2>1, <3>5 DEF OneInv
        <4>2. Untouched' /\ Len(sent') = 1 /\ sent'[1] = m
          BY <1>2, <2>1, <3>4, <3>5, <4>1 DEF Untouched
        <4>3. Whole(m) => Whole(sent[1])'
          BY <2>1, <2>2, <4>2 DEF Whole, Slice
        <4>. QED BY <2>1, <2>2, <3>1, <3>2, <3>3, <4>1, <4>2, <4>3 DEF OneInv, WholeInv
      <3>6. CASE sent # <<>>
        <4>1. Len(sent) # 0
          BY <1>1, <3>6
        <4>. QED BY <3>4, <4>1 DEF OneInv
      <3>. QED BY <3>5, <3>6
    <2>. QED BY <2>4, <2>5
  <1>. QED BY <1>3, <1>4, <1>5, <1>6 DEF Server

(* The tool looks at the packet that holds the listing. *)
LEMMA WholePrinted ==
  ASSUME SlicesInv, size # 0, sent \in Seq(Packets), Whole(sent[1]), Len(sent) = 1,
         queue = <<sent[1]>>, RecvFirst
  PROVE  queue' = <<>> /\ pc' = "done" /\ status' = "OK" /\ Printed' = node_dump
  <1>. DEFINE m == sent[1]
  <1>1. m \in Packets /\ m.size = size /\ Len(m.body) = 2 * size /\ Slice(m.body, 0, size)
    <2>1. m \in Packets
      <3>1. 1 \in DOMAIN sent
        OBVIOUS
      <3>. QED BY <3>1
    <2>2. Whole(m)
      OBVIOUS
    <2>. QED BY <2>1, <2>2 DEF Whole
  <1>2. Head(queue) = m /\ queue' = <<>>
    BY DEF RecvFirst
  <1>. HIDE DEF m
  <1>3. ServerTypes /\ size \in Nat /\ m.size # NULL /\ m.body \in Seq(String)
    BY <1>1 DEF SlicesInv, AllTypes, ServerTypes, Packets, Bodies
  <1>4. HeadersOf(m) = {size} /\ BodyOf(m) = m.body
    BY <1>1, <1>3 DEF HeadersOf, BodyOf
  <1>. DEFINE kv == [size |-> size, list |-> <<>>]
              p  == Parse(m.body, 0, kv)
              kw == [size |-> size, list |-> p.list]
  <1>5. Continue(p.ok, p.count, kw)
    BY <1>2, <1>4 DEF RecvFirst
  <1>6. kv.size = size /\ kv.list = <<>>
    OBVIOUS
  <1>. HIDE DEF kv
  <1>7. p = [ok |-> TRUE, count |-> size, list |-> node_dump]
    BY <1>1, <1>3, <1>6, WholeParse
  <1>. HIDE DEF p
  <1>8. p.ok /\ p.count = size /\ p.list = node_dump
    BY <1>7
  <1>9. kw.size = size /\ kw.list = node_dump
    BY <1>8
  <1>. HIDE DEF kw
  <1>10. kv_list' = kw /\ pc' = "done" /\ status' = "OK"
    BY <1>3, <1>5, <1>8, <1>9 DEF Continue
  <1>11. Printed' = node_dump
    <2>1. node_dump = [i \in 0 .. size - 1 |-> node_dump[i]] /\ DOMAIN node_dump = 0 .. size - 1
      BY <1>3 DEF ServerTypes
    <2>2. Printed' = [i \in 0 .. size - 1 |-> IF i \in DOMAIN node_dump THEN node_dump[i] ELSE NULL]
      BY <1>9, <1>10 DEF Printed
    <2>. QED BY <2>1, <2>2
  <1>. QED BY <1>2, <1>10, <1>11

LEMMA OneKept == SlicesInv /\ OneInv /\ [Next]_vars => OneInv'
  <1>. SUFFICES ASSUME SlicesInv, OneInv, [Next]_vars
                PROVE  OneInv'
    OBVIOUS
  <1>1. Once /\ sent \in Seq(Packets) /\ Len(<<>>) = 0
    BY DEF SlicesInv, AllTypes, ServerTypes
  <1>2. ASSUME UNCHANGED <<asked, at, node_dump, counter, sent, queue, toolVars>>
        PROVE  OneInv'
    BY <1>2 DEF OneInv, WholeInv, Whole, Slice, Untouched, Printed, size, size_kv, toolVars
  <1>3. ASSUME NEW k \in Key, NEW v \in Value, Write(k, v)
        PROVE  OneInv'
    BY <1>2, <1>3 DEF Write
  <1>4. CASE UNCHANGED vars
    BY <1>2, <1>4 DEF vars, serverVars
  <1>5. CASE Ask
    <2>1. pc = "start" /\ pc' # "more" /\ UNCHANGED <<sent, queue, kv_list>>
      BY <1>5 DEF Ask
    <2>2. sent = <<>> /\ at = "recvfrom"
      BY <1>1, <2>1 DEF Once
    <2>3. queue = <<>> /\ Untouched
      BY <1>1, <2>1, <2>2 DEF OneInv
    <2>. QED BY <2>1, <2>2, <2>3 DEF OneInv, Untouched
  <1>6. CASE Tool
    <2>1. UNCHANGED <<asked, at, node_dump, counter, sent, size, size_kv>> /\ pc' # "start"
      BY <1>6 DEF Tool, RecvFirst, RecvMore, TimeoutFirst, TimeoutMore, Continue,
                  serverVars, size, size_kv
    <2>2. CASE \/ Len(sent) > 1 \/ (Len(sent) = 1 /\ at = "dump")
               \/ at = "dump" /\ counter < size /\ size_kv >= MaxMsg
               \/ ~asked /\ at = "recvfrom" /\ sent = <<>> /\ pc # "start"
               \/ ~asked /\ at = "recvfrom" /\ Len(sent) = 1 /\ sent[1].size = NULL /\ pc # "start"
      BY <2>1, <2>2 DEF OneInv
    <2>3. CASE sent = <<>> /\ queue = <<>> /\ Untouched
      <3>1. TimeoutFirst
        BY <1>6, <2>3 DEF Tool, RecvFirst, RecvMore, TimeoutMore, Untouched
      <3>. QED BY <2>1, <2>3, <3>1 DEF TimeoutFirst, OneInv, Untouched
    <2>4. CASE ~asked /\ pc # "start" /\ at = "recvfrom" /\ Len(sent) = 1 /\ WholeInv
      <3>1. size # 0 /\ size \in Nat
        BY <2>4 DEF WholeInv, Whole, Slice, SlicesInv, AllTypes, ServerTypes
      <3>2. Whole(sent[1])' = Whole(sent[1])
        BY <2>1 DEF Whole, Slice
      <3>3. CASE queue = <<>> /\ pc = "done" /\ status = "OK" /\ Printed = node_dump
        BY <1>6, <3>3 DEF Tool, RecvFirst, RecvMore, TimeoutFirst, TimeoutMore
      <3>4. CASE queue \in {<<>>, <<sent[1]>>} /\ Untouched
        <4>1. CASE RecvFirst
          <5>1. queue = <<sent[1]>>
            BY <3>4, <4>1 DEF RecvFirst
          <5>2. queue' = <<>> /\ pc' = "done" /\ status' = "OK" /\ Printed' = node_dump
            BY <1>1, <2>4, <3>1, <4>1, <5>1, WholePrinted DEF WholeInv
          <5>. QED BY <2>1, <2>4, <3>2, <5>2 DEF OneInv, WholeInv
        <4>2. CASE TimeoutFirst
          BY <2>1, <2>4, <3>2, <3>4, <4>2 DEF TimeoutFirst, OneInv, WholeInv, Untouched
        <4>. QED BY <1>6, <3>4, <4>1, <4>2 DEF Tool, RecvMore, TimeoutMore, Untouched
      <3>. QED BY <2>4, <3>3, <3>4 DEF WholeInv
    <2>. QED BY <2>2, <2>3, <2>4 DEF OneInv
  <1>7. CASE Server
    BY <1>7, OneKeptByServer
  <1>. QED BY <1>3, <1>4, <1>5, <1>6, <1>7 DEF Next

LEMMA InitOne == Init => OneInv
  BY DEF Init, OneInv, Untouched

(***************************************************************************)
(* A table that fits into one packet is printed as it is, if the packet    *)
(* reaches the tool in time (pps-dump-node.c:97-139), for every table and  *)
(* every size of packets.                                                  *)
(***************************************************************************)
THEOREM OnePacketIsPrinted == Spec => []OnePacketIsExact
  <1>1. SlicesInv /\ OneInv => OnePacketIsExact
    BY DEF OneInv, WholeInv, Untouched, OnePacketIsExact, Ended
  <1>2. Spec => []SlicesInv
    BY InitSlices, SlicesKept, PTL DEF Spec
  <1>3. Spec => []OneInv
    BY <1>2, InitOne, OneKept, PTL DEF Spec
  <1>. QED BY <1>1, <1>2, <1>3, PTL

=============================================================================
