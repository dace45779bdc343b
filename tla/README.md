# Verification of the distributed hash table

TLA+ models of the DHT in `src/`: a key-value store whose servers keep tables in
memory, and whose clients write to and read from quorums of servers over UDP.
Line numbers refer to the files of this commit.

## The system

| component | state | operations | interacts with |
|---|---|---|---|
| local hash table (`hashtable.c`) | array of chained buckets, key and value strings on the heap | add, get, list content, free list, delete | the server's store; `network_get` counts votes in one |
| ring (`ring.c`, `node.c`, `node_list.c`) | sorted array of virtual nodes, digests | build from `servers.txt`, nodes for a key | every client operation asks it for N servers |
| client operations (`network.c`, `network-utils.c`) | the locals of one operation: socket, counters, votes | `network_put`, `network_get` | datagrams to servers, the ring |
| server (`pps-launch-server.c`) | one table | ping, read, write, dump; start prompt | answers one datagram at a time |
| client start-up (`client.c`, `args.c`) | options N, R, W; ring | parse, check, cap N | every tool |
| tools (`pps-client-*.c`, `scenario_1.c`) | values read | put, get, cat, find, substr, n puts then n gets | sequences of client operations |
| dump (`pps-dump-node.c` and the server's side) | packets, list being parsed | send table in packets, parse | server |
| list nodes (`pps-list-nodes.c`) | table of addresses that answered | ping all, count | server |
| sockets (`system.c`) | receive timeout of one second | socket, bind | all |

There are no threads. Concurrency is between processes: clients that run at the
same time, servers, and datagrams under way. What makes the system hard:

- a put is N separate sends, so concurrent puts reach servers in different orders;
- values carry no versions, so the last datagram handled wins at each server;
- UDP loses, reorders and duplicates datagrams; an operation that fails by timeout
  may still take effect, and replies are counted whoever they come from;
- nothing is persisted: a restarted server is empty;
- requests are told apart by length and NUL byte only, so operations on the
  empty string mean something else to the server;
- every process builds its own ring, and the digests of its nodes include stack
  bytes of that process (`node.c:28`, see *Divergences*);
- the prompt of a server binds its socket whatever has been typed;
- the table shares pairs with the lists it hands out, and drops an error code.

What makes each part correct: the table behaves as a map and never holds freed
memory; the ring gives for each key the nearest distinct servers, the same in
every process, moving few keys when a server leaves; operations count each
answer once and end; puts and gets with meeting quorums give a regular register
per key; an acknowledged put survives everything but crashes. PROJECT.json lists
the hazards line by line.

## Modules

| module | models | 
|---|---|
| `KVMap` | what `hashtable.h` promises: a map and the result of the last call |
| `HashTable` | `hashtable.c` with the memory of its pairs; implements `KVMap` |
| `HashTableProofs` | TLAPS proofs about `HashTable` |
| `Ring` | `ring_init` and `ring_get_nodes_for_key`, loop iteration by loop iteration, in every process |
| `RingProofs` | TLAPS proofs about `Ring` |
| `QuorumStore` | client operations, servers, datagrams, crashes |
| `RegularRegister` | abstract: one regular multi-writer register per key |
| `QuorumHistory` | `QuorumStore` with history variables; implements `RegularRegister` |
| `QuorumAccounts` | `QuorumStore` with counts of lost datagrams, the written values and the gets whose key all servers asked hold |
| `QuorumStoreProofs`, `QuorumAccountsProofs`, `QuorumHistoryProofs` | TLAPS proofs about the three |
| `Dump` | a dump: the server's packets, the tool's parser |
| `DumpProofs` | TLAPS proofs about `Dump` |
| `ClientStart` | options, `servers.txt` and the cap on N, at the start of every tool |
| `Tools` | put, get, cat, find, substr and scenario_1 after their start; EXTENDS `ClientStart` |
| `ServerStart` | the prompt of the server processes and `bind_server` |
| `ListNodes` | the list of nodes and the servers it pings; EXTENDS `ClientStart`, `ServerStart` |
| `Commands` | all tools with what goes on around them; EXTENDS `Tools`, `ListNodes` |
| `CommandsProofs` | TLAPS proofs about `Commands`: start, cat, substr, find |
| `ServersProofs` | TLAPS proofs about `Commands`: prompts, list of nodes, types |
| `MC*` | finite instances for TLC |

Definitions named "Variant with a bug" stand beside some operations. No
specification uses them: each is a plausible mistake in that operation, and
replacing the operation by it makes the property named in PROJECT.json fail.

### HashTable and KVMap

`heap[b]` is what an address holds: a *block* is the pair of strings that
`create_kv_pair` allocates and `kv_pair_free` frees together. `chain[i]` are the
blocks of bucket i; its first slot lies in the buckets array, which is why a
first insertion cannot fail for lack of a `struct bucket` and every further one
can. `list` is the `kv_list_t` a caller holds, kept by bucket, `table` says
whether the table is in use, `ret` what the last call returned.

- `AddNew`, `AddNoMem`, `AddReplace`, `AddNull` are the outcomes of
  `add_Htable_value`. In `AddNoMem` `create_bucket` fails: the strings are
  already copied and leak. The error code is lost if the last slot is reached by
  recursion (`hashtable.c:161`).
- `GetContent` is `get_Htable_content`: all pairs of a chain but the last are
  shared with the table. In `GetContentNoMem` a `malloc` fails and it returns NULL, as
  `hashtable.h:113` says (`ContentFails` of `KVMap`); the server does not look and reads
  the size of that list (`pps-launch-server.c:82`). `DropList` is what the server does with the list,
  `KvListFree` what a test does, after which the table is not used again.
- `DeleteTable` is `delete_Htable_and_content`.

The content of the table is listed bucket by bucket and slot by slot: the n-th entry
is the slot with n slots up to it (`Rank`), which says the same as the code's running
index without a recursion.

Strings are abstract. A failing allocation of strings, which the code does not
check, ends the process and is not modelled. `Block` bounds the heap: an
operation that needs a block and finds none is not taken.

`ImplementsMap` maps the table to a map by looking up every key; once the table
is given up the map is empty. `KVMap` leaves open which error a failed add
returns, since the code does not keep the promise of the header: whether a failure is
reported is the subject of `htable_nomem`, not of `ImplementsMap`.

### Ring

Each process p has its `file[p]`, `junk[p]` (the stack bytes hashed with its
nodes), `ring[p]` and the locals of one search. `RingInit` picks any sorted
arrangement, since `qsort` may leave ties in any order; digests tie when they
agree up to their first zero byte (`strcmp`). `Ask`, `Place`, `First`, `Walk`,
`WalkEnds` are the early return, the iterations of the first loop, the first
node, the iterations and the end of the second loop. Digests are numbers.

### QuorumStore

One client is one process; `Calls[c]` gives the operations it runs. `Open` is the
beginning of each, `Refused` its end for a string of more than `MAX_MSG_ELEM_SIZE`
bytes (`Long`), `Start` everything else before the first send; `Send` one `sendto`, which for an index past
the end of the nodes list fails (zero address); `RecvPut` and `RecvGet` one
`recv`; `Timeout` a `recv` without an answer for a second. Datagrams carry the
number of the operation, standing for the socket, since every operation opens
its own. `Handle` is one turn of the server's loop: dispatch, table, reply.
`CrashRestart` empties a server.

`put("", "")` sends a single NUL, which asks for a dump. The server answers an empty table
with one empty datagram, any other with as many as its table takes
(`pps-launch-server.c:87-135`), and the client counts each as an acknowledgement
(`network.c:116-118`). `Handle` sends the first, `DumpPacket` each further one, while
`dumping[s]` keeps whom they are for; the server handles nothing else meanwhile. Strings have no
sizes here, so a dump of a table that is not empty has any number of datagrams up to
`MaxPackets`. A dump that never ends, of a pair that fits no datagram, sends them
endlessly: the proofs, for every `MaxPackets`, cover all its beginnings, and since
no fairness is assumed of servers they may stop anywhere.

`walk[c]` is the order in which the ring of c's process lists all servers for
each key: it may differ from process to process. The counters and buffer are
locals, so `Return` resets them. Votes are signed characters (`CharMax` = 127).

The network: `InOrder` says whether a server receives datagrams in the order
they were sent (as on a loopback), `Lossy` which kinds may be lost, requests or replies
(`Deliver`). A reply may
be overtaken by any other: the buffer is a set. `CopyRequest` and `CopyReply`
duplicate a datagram; its copies are told apart by `copy`, and there are at most
`MaxCopies`. A datagram may wait arbitrarily long, so timeouts happen at any
moment. An operation that gets no socket (none is ever closed) fails at once, and
acts like one all of whose requests are lost.

`QuorumAccounts` says what each fault can cost. `Durable`: the key of an
acknowledged put has a value at W servers at least, less one for each crash and
each copy; a `put("", "")` is excepted. `EverySendAccounted`: every send, every copy and
every datagram of a dump after its first (`extra` counts the last two) is lost, under way, or
counted once, as an acknowledgement, a missing value or a vote (`Heard`); a get
whose answers can outnumber `CharMax` is excepted, because its vote counters overflow.
`PutFailsOnlyByLoss`: a put fails only if its requests and what `extra` counts, less those
lost or not yet answered, were fewer than W. `NotFoundIsTrue`: a get reports a missing key
only if a server that it asks had no value at some moment since it began (`held` are the
gets of which that is not so); one such server is enough, even if W servers have the key.
`EachStepNearsTheEnd`: what is left of an operation (`StepsLeft`) never
grows and shrinks with each step of its own. For a put these are its sends and the
acknowledgements it still wants, however many datagrams come back; for a get its sends, each worth two,
its requests under way, its replies waiting and the copies the network may still make.

`QuorumHistory` adds `live`, `hides`, `allowed`. A put that succeeds hides, from
gets that start later, every put that had *ended* when it started, failed ones
included; everything else stays readable. `RegularRegister` is that rule alone,
and `RegularReads` says that the system implements it. It does so under
`QuorumsMeet`: datagrams arrive in order, no server crashes, none is duplicated, no key
is empty, and any W servers that a put asks meet any R that a get asks.

### Dump

The server's variables are the locals of its dump branch: `node_dump`, `counter`,
`packet`, `header`, `size_packet`. `AddFirst`, `AddNext`, `Flush` are the three
ways through its loop, `Finish` the `sendto` behind it. Only lengths and NUL
bytes matter to the parser, so a packet is a sequence of fields, and sizes are
computed as in the code. A request that cannot be sent ends the tool (`Ask`). A packet above the largest payload is not sent
(`EMSGSIZE`, ignored); a full socket buffer drops (`MaxQueue`). `Parse` is
`parse_kv_pairs` in closed form: all pairs but the last are ended by a NUL byte
each; an odd last field leaves a key without one, whose buffer holds unwritten
bytes (`Garbage`); `Stored` is the list with what a packet writes into it. `EveryPairSentOnce`
says there are `Cuts` of the listing whose pieces are the packets sent. `EachTurnNearsTheEnd`
says why a dump ends and when not: each turn of the loop takes a pair or empties the packet
before the same pair, unless the pair is too large for an empty packet. `RecvFirst`, `RecvMore`, `TimeoutFirst`, `TimeoutMore` are the
two `recv` calls. Datagrams may be lost or late but keep their order. Write
requests go on around a dump, never inside it, since the server has one thread.

### ClientStart and Tools

`argv` holds the arguments that are left. `CheckArgc`, `ParseOption`,
`ParseEnd`, `NodesFail`, `NodesLine`, `NodesEnd`, `Cap` are the steps of
`client_init`. A line of `servers.txt` is an address with the number of its
virtual nodes, or one of two bad kinds; `ring` is the address of each node. `Cap`
may fail for lack of a socket. `strtol` and the numbers of substr are functions on the
finite set of arguments. A crash is the status "crash".

`Tools` goes on where `client_init` returns. A get or a put is one step on a table of
current values, and may fail; other clients' puts come in between
(`OtherPut`). `check_bounds` accepts options with R + W <= N, and other clients have options
of their own (`OthersN`, `OthersW`): where the R servers of a get need not include one of the last put
(`Meet` fails), it returns any value the key has had, those `Before` the tool began included
(`Readable`); where they meet, the current one. `Key` are the keys that may have values, so that a get of another argument
fails; values are sequences of `Char`. That is coarser than `QuorumStore`: what overlapping operations may
return is the subject of `RegularRegister`, and a write that arrives late is a later put here.
Other clients are assumed to have read the same `servers.txt`. Reads and writes outside arrays
(substr, cat) and of pointers never set (find, scenario_1) have every outcome:
any bytes, or a crash.

### ServerStart, ListNodes and Commands

Each server process has what is `typed` at it, the `words` it has not read,
`last` (its variables ip and port, with any content at first) and the address its
socket is `bound` to. `Prompt` is one turn of the loop in `pps-launch-server.c`:
`Scan` is what `scanf(" %15s %d")` does, which leaves a word that is no number, or
what follows the number, to be read again (`RestOfNumber`, which starts with no digit and
is no IP that bind takes); bind is tried in any case, and only a
whole answer with which it succeeds leaves the loop. stdin may block, end behind a
blank, or end with a word, in which case `feof` stops the server that has just
started. `Kill` is the end of a process.

`ListNodes` counts the pings under way to each address and keeps the answers that have
arrived (`inbox`), the keys of the hash table (`ok`) and `nbr_response`
(`count`). Only a process that serves answers. A ping or an answer that is lost is never
delivered; `Duplicate` delivers an answer again, at most `MaxDuplicates` times.
`recvfrom` times out only when nothing has arrived. `printed` are the lines, one for each virtual
node of the ring (`pps-list-nodes.c:94-110`), without the digest and in the order of the ring instead of
that of `node_list_sort`. The lengths of addresses are left out: "255.255.255.255 65535" with its
NUL does not fit into the 20 bytes of `key`.

In `Commands` one tool runs from `client_init` to its end. Around
`pps-list-nodes` the processes of `ServerStart` run; around the others there is the
table of current values, since what they see of the servers is in `QuorumStore`.
The dump tool, whose own part is `Dump`, is not among them.

## Runs

| run | bounds | shows |
|---|---|---|
| `htable` | 4 keys (3 in one chain), 2 values, 5 blocks, 2 buckets | types, live and separate slots, keys in place, map |
| `htable_nomem` | same | divergence: a lost error code |
| `htable_alias` | same | divergence: a freed list takes pairs of the table with it |
| `ring` | 2 processes, 3 servers, 4 nodes, 3 files, ties | bounds of the array, distinct and nearest servers, consistency when a server leaves, termination |
| `ring_processes` | two different junk values | divergence: processes disagree on the nodes of a key |
| `register` | 2 clients, 3 operations, 3 servers, N=3 R=W=2, 2 walks, both kinds of loss, 1 value too long | refinement of a regular register |
| `accounts` | 2 clients, 2 servers, N=3, empty strings, both kinds of loss, 1 crash, 1 duplicated datagram, dumps of 2 datagrams, 1 value too long | nothing from thin air, durability, accounting, blame, true misses, progress, termination |
| `dump` | 3 keys, packets of 21 bytes, lossy | packets hold each pair once, one packet is printed exactly, each turn makes progress, both sides end |
| `dump_packets` | 4 keys, no loss | divergence: several packets are printed with pairs the table does not hold |
| `dump_hang` | a pair of the largest request | divergence: the server never returns to `recvfrom` |
| `tools` | 7 tools, 9 option lists, 6 servers files, 2 keys, 2 values put by others, 1 of them overwritten before; others' N=3 W=2; 2 server processes, 2 addresses, 4 things typed, 1 duplicate | options as given; cat, substr, find and the list of nodes make what they say; servers serve where they were told; tools end, good answers are taken |
| `split` | 3 clients, 3 servers, 3 values | divergence: successful puts leave an unreadable key |

Why the bounds are enough. *htable*: chains of three slots are the shortest where
the error code is lost and where a slot is neither first nor last; a second bucket
makes lists span chains; five blocks leave room for leaked and copied pairs.
*ring*: a server with two virtual nodes, a wanted size above the number of
servers, a key on a node's digest and one past the last. *register*: a put that may reach a
minority, a put that overtakes it and a get are the shortest story in which a
hidden value could return; with R=1 the same run finds it. The rings of its two processes list
the servers in the same or in opposite orders, so that the middle one is reached second
by both; the first walk and its reverse are each other's image under the symmetry. *accounts*: the third
send of N=3 fails, so that every quorum needs both servers, or one of them and a copy; two datagrams are the fewest with which one server's dump is counted twice,
which here makes up the whole quorum. *dump*: of the listings of three pairs some fit into one packet, some need two or
three, and one has a first pair that leaves no room for the header; 21 bytes stand
for `MAX_MSG_SIZE`. *tools*: each option once, twice, unsupported, without value
and last, with which quorums meet or not (`-r 4 -r 1`, `-n 1`); positions inside, at both ends of and outside a value of one or two
characters; scenario_1 with up to two keys, the fewest with a stale value to print;
two prompts that want the same address, an answer that is refused, one without a
port, one cut in two, and ports beyond 16 bits; a server with two virtual nodes
whose duplicate takes the place of the other server's answer. Symmetry is used only
in runs without liveness, on sets whose elements the specification does not tell
apart. Deadlock is not checked where the system stops: clients have run their
operations and servers wait in `recvfrom`.

Fairness: a running search or operation goes on (a process is scheduled, `recv`
has a timeout). Of the servers of `QuorumStore` nothing is assumed, not even that they handle
what has arrived, since one may hang in a dump. Starting an
operation, losing a datagram and crashing are never forced. In `Dump` the server, and
a started tool, go on likewise, and so does a prompt that has something to
read; puts of others, answers and the end of a server process are never forced. `Step(c)` includes
`Timeout(c)`, so an operation whose answers never come returns all the same.

## Divergences between code and documentation

1. `hashtable.c:161` drops an error code (`htable_nomem`).
2. `hashtable.c:304` hands out the table's own pairs (`htable_alias`).
3. `node.c:28` hashes bytes behind an unterminated array (`ring_processes`). With
   the Makefile's flags these hold a stack address, so processes place nodes
   differently whenever addresses are randomised; an optimised build may hash an
   empty string instead. While every key's N nodes are all servers of the file,
   the order does not matter, which is the situation of `register`.
4. Three concurrent puts can leave a key unreadable (`split`).
5. `pps-dump-node.c:120` adds an index to a count, and line 113 parses the
   length -1 of a timeout: dumps of several packets are printed wrong or not at
   all (`dump_packets`). All packets after the first begin with a NUL byte.
6. A pair of the largest size keeps the server in its dump for ever (`dump_hang`).

Seen while modelling, without a run of their own: `args.c:39` says that
`check_bounds` returns false "If N is smaller than the quorum", but line 47
evaluates `PUT_NEEDED & GET_NEEDED`, which is 0, and R goes unchecked in the tools
with both quorums; the cap of N comes after the check. `args.c:22` compares the
wrong pointer with NULL, so an option at the end of the command line crashes the
tool. `pps-client-find.c:17` promises -1 on abnormal exit, but find returns 0
after FAIL. `pps-client-substr.c:117` lets negative lengths and positions pass.
`pps-list-nodes.c:68` says "Sort the servers by port", but `node_cmp_server_addr`
(`node.c:68`) compares addresses first, then ports in network byte order, and is
never negative. A server whose prompt was answered without a port may
hold an address and never serve it (`pps-launch-server.c:37`); at the end of
stdin the prompt loops for ever. `node_list.c:123` copies a digest, which has no
NUL of its own, with `strcpy` into a block one byte too short. `port_str[5]`
(`pps-list-nodes.c:38`) is too short for a port of five digits and its NUL.
`pps-launch-server.c:165` sends more bytes than a value has.

## Proofs

All theorems are checked by TLAPS (SMT, Zenon, LS4) for every value of the constants
under the named assumptions of the modules. Together they state every invariant, every
action property and both refinements that the passing runs check; what remains is
liveness.

| module | theorem | states |
|---|---|---|
| `HashTableProofs` | `TypeCorrect`, `TableStaysLive`, `KeysStayInPlace`, `TableIsAMap` | `TypeOK`, `TableLive`, `KeysInPlace`, `ImplementsMap` |
| `RingProofs` | `SearchTypes`, `ReadsInsideTheRing`, `SearchReturnsEnough`, `SearchReturnsNearest`, `RemovalMovesLittle`, `SearchesNearTheEnd` | `TypeOK`, `IteratorInRange`, `EnoughDistinctServers`, `NearestServers`, `RemovalKeepsTheOthers`, and a bound on the steps of a search |
| `QuorumStoreProofs` | `StoreTypes`, `StoreInvariant` | `TypeOK`, the invariant the next two modules start from |
| `QuorumAccountsProofs` | `AccountsTypes`, `ReadsWerePut`, `PutsAreDurable`, `SendsAreAccounted`, `PutFailuresAreLosses`, `MissesAreTrue`, `OperationsNearTheEnd` | `TypeOK`, `ReadsOnlyWhatWasPut`, `Durable`, `EverySendAccounted`, `PutFailsOnlyByLoss`, `NotFoundIsTrue`, `EachStepNearsTheEnd` |
| `QuorumHistoryProofs` | `RegularPutsAndGets`, `OptionsThatMeet` | `RegularReads` where `QuorumsMeet`, and when that is |
| `DumpProofs` | `DumpTypes`, `PacketsMakeTheListing`, `OnePacketIsPrinted`, `TurnsNearTheEnd` | `TypeOK`, `EveryPairSentOnce`, `OnePacketIsExact`, `EachTurnNearsTheEnd` |
| `CommandsProofs` | `OptionsCorrect`, `CatIsRight`, `SubstrIsRight`, `FindIsRight` | `OptionsAsGiven`, `CatJoinsValues`, `SubstrIsPart`, `FindLocates` |
| `ServersProofs` | `ServersServeAsTold`, `ListTellsWhoAnswered`, `CommandTypes` | `ServesWhatWasGiven`, `ListedAsAnswered`, `TypeOK` |

### Hash table

From `TableAssumption` (at least one bucket, hashes in range, NULL is no pair). The
inductive invariant `TableInv` is the conjunction of the first three. None of the
last two is inductive alone with what it says of other slots: replacing a pair
frees one block, and the other slots keep theirs only because slots are distinct
and allocated; that a key stays unique needs that the slots keep their pairs. The
lemma `WritesFreeMemory` covers all steps that write to unallocated memory only.

`TableIsAMap` is the refinement of `KVMap`. `Stored(k, v)` says that some slot holds the
pair; under the invariant that is what a search for k finds (`LookupStored`), so each
operation need only say which slots it changes. Listings are compared by ranks: the
slots are numbered without gaps, every pair is at one of them, and no key is at two.

### Ring

From `RingAssumption` (servers files are finite sets, each server has a positive number
of virtual nodes, digests are numbers). The
inductive invariant is `RingInv`: the types and, for each process, `SearchInv`.
It says that the array holds every node of the file (`Built`); that in the first loop every node before the iterator is below the
key (`Placing`); that the search then starts at the key's place (`Placed`); and
that in the second loop the nodes from there to the iterator, round the end of
the array, have been visited, the servers taken are exactly the servers of the
visited nodes, and each was taken at its first visited node, in order
(`Walked`). `NearestServers` is not inductive: only with the visited segment is
a server that was left out known to lie behind all that were taken. When the
walk ends by the count of wraps, the segment is the whole array, hence every
server has been met.

`RemovalMovesLittle` compares two processes. Once the arrays are known to be sorted
(`RingsSorted`), which of two servers is nearer to a key is decided by the digests of
their nodes alone (`NearerIn`), the same in both files. The place of a server among those
found is the number of servers at most as far away, so that losing one server moves
those behind it by one place and no others. It needs that digests do not tie.

`SearchesNearTheEnd` bounds a search: `Ahead(p)`, at most 3 n + 2 in a ring of n nodes, is a natural number
that each step of the search lowers and nobody else changes. That is all of `SearchEnds` but
that a running process is scheduled.

### Quorum operations

From `StoreAssumption` (finitely many servers, every walk lists each server once, N, R
and W positive). `StoreInv` adds to the types that the locals of an operation agree with
how far it has come (`Phases`), that requests and replies say what their operation asks
for (`RequestsTrue`, `RepliesTrue`), that copies are told apart (`CopiesDiffer`), and that
an operation asks each server once: its request there is still to be sent, under way
or answered, never two of them (`AskedOnce`), and that a dump under way answers a request
of `put("", "")` that is no longer on its way, with datagrams that are all new (`DumpsTrue`). Types alone are not inductive, since a vote's type
depends on what a late datagram says.

`AccountsInv` adds the counts. A put's acknowledgements, its waiting replies and the copies
under way are at most the servers that hold the key and were asked before, plus the
crashes and copies so far (`AcksHeld`); `Durable` follows when the operation ends, and
stays because nothing takes a key away but a crash. The balance of
`EverySendAccounted` is inductive with the finiteness of what it counts, for operations
whose vote counters cannot overflow. The bounds on crashes and copies are arbitrary.

`MissesAreTrue` needs `GetsInv`: requests are at servers that their operation asks
(`RequestsAtNodes`), and a get in `held` has counted no miss and has none waiting in its socket
(`HeldGet`). `NotFoundIsTrue` says nothing of a running get and is not inductive without them.
`OperationsNearTheEnd` shows for each kind
of step what it does to the sizes that `StepsLeft` adds; that none of its terms is negative
comes from `Phases`, where a running put has fewer than W acknowledgements. A put that starts has
N + W left, a get 2 N and the copies. A datagram of a dump changes neither: a put does not count
what is under way, and a get asks for no dump.

`RegularPutsAndGets` assumes `QuorumsMeet`. `OptionsThatMeet` says when that is: all clients
have one walk and one N, and each R and W have R + W > N; or R + W is above the number of servers,
whatever the walks. The instance of the run `register` has it, which TLC checks. The
invariant needs to know who wrote what a server holds and which replies an operation has
counted. The code keeps neither, so `RegularInv` says that *some* `writer` and `taken`
fit (`\E writer, taken : Regular(writer, taken)`), and each step shows what they
become. Then:

- of every key some set of servers that each get must hear from holds, or will be asked to hold, only
  puts that are live (`LiveQuorum`);
- where a put has been, what it hides does not come back (`HiddenGone`): its request is
  behind the hidden ones in every queue, because datagrams arrive in order and a
  hidden put had ended, with all its sends, before this one started;
- what overlapping puts hide is ordered by inclusion (`Chained`), so that two puts that
  end in either order leave one such set (`LiveAfter`);
- a get asks servers that have answered, or will answer, only what it may return
  (`AllowedQuorum`), and its votes come from as many different servers as it counts (`Tally`).

### Dump

From `DumpAssumption` (a finite table, lengths are numbers, a key read as a number is above
`MaxMsg`). `PacketInv` relates the packet, its size and its header to the counter;
`FillingInv` says that the packets sent and the one being filled are consecutive pieces of
the listing up to the counter, unless the first packet, which alone may be too
large to be sent, has been dropped. `EveryPairSentOnce` speaks of the end only and needs
both. `OneInv` follows a dump of one packet to the tool: it is in the socket, or printed. It
lists the ways to be another kind of dump (more packets, a lost header, stuck for ever), because a dump is
known to be of one packet only when it is over. `TurnsNearTheEnd` needs the types only.

### Tools, prompts and the list of nodes

From `StartAssumption` and `ToolsAssumption` (arguments and lines have their types, the tables of
`client_init` have find with two and substr with four arguments, values are sequences),
`ServerAssumption` (IPs are strings, ports below 2^16, the rest of a number is no IP) and
`ListAssumption`.

- `OptionsInv`: while the options are parsed, the first m pairs of the arguments are options,
  `argv` is the rest, and each field of `args` is what the last of its options asks for, or the default
  (`ReadOptions`, `LastAsked`). At the first argument that is no option m is
  the number of all options.
- `ArgsInv`: from then on `argv` are the arguments behind the options, as many as the tool wants.
  `ReadsInv`: the i-th value is one that could be read of the i-th key; what can be read
  only grows (`ReadableGrows`), since the options stay what they are. cat, substr and find end from there, by lemmas about subsequences
  and strstr.
- `ServersInv`: the words a prompt has not read are the end of what was typed, but for the
  first one, which may be the rest of a number. Hence a bound address that is taken came of two neighbouring words.
- `ListInv`: `pings` counts the nodes of some set D whose pings are under way; answers counted,
  answers waiting and D are at most the nodes of the ring and the duplicates. So when the
  count is reached, what still waits is at most the duplicates, and D, unlike the counts, makes
  the sum over all addresses provable without induction.

### Only model-checked

All liveness (`SearchEnds`, `OperationsReturn`, `ServerReturns`, the two `ToolEnds`,
`GoodAnswerServes`), which rests on fairness and ENABLED and is out of the
prover's reach. Of three of them the part that needs no fairness is proved: the number of steps left of a
search, of an operation and of a dump goes down with each step (`SearchesNearTheEnd`,
`OperationsNearTheEnd`, `TurnsNearTheEnd`). The violations are what they are by a finite behaviour, which TLC
shows. Induction over data is possible only through the well-foundedness of finite
subsets in the library (`LeastNatural`: a set of numbers has a least one), so no
theorem says what a recursive function computes; the models the theorems are
about use none, except that `cat` puts `FlattenSeq` of its values on both sides of
its property.

## Plan

1. Done: all modules of the list above with their abstract specifications, the runs, and
   proofs of every safety property, action property and refinement.
2. Left: a bound on the steps of the tools and of the list of nodes, as for searches and
   operations; the start of the dump tool composed with `Dump`.

## Not modelled

Error texts and output; how numbers and addresses are parsed; truncation at
`MAX_MSG_ELEM_SIZE`; most of the clients' memory; the start of the dump tool; the
LD_PRELOAD logger; `del_Htable_key` and `network_del`, which are declared and
never defined; the tests, which run the same operations.
