------------------------------- MODULE Ring -------------------------------
(***************************************************************************)
(* ring.c with what it uses of node.c and node_list.c: how a client        *)
(* process builds the ring of virtual nodes from servers.txt (ring_init)   *)
(* and finds the servers of a key in it (ring_get_nodes_for_key).          *)
(*                                                                         *)
(* Every process builds its own ring.  servers.txt may be edited between   *)
(* two starts, so each process reads one of Files.  node_init hashes a     *)
(* text in which it has copied a one character array that no NUL byte      *)
(* ends, so the bytes that follow it on the stack are hashed too: they are *)
(* the same for all nodes of one process and may differ from process to    *)
(* process.  Junk is the set of their possible values.                     *)
(***************************************************************************)
EXTENDS Naturals, Sequences, FiniteSets

CONSTANTS
  Process,  \* running clients
  Server,   \* addresses, (ip, port)
  Files,    \* the contents servers.txt may have: sets of servers
  Copies,   \* Copies[s]: the number of virtual nodes of s in servers.txt
  Junk,     \* the stack bytes node_init may hash with a node
  Sha,      \* Sha[<<s, i, j>>]: the digest of node i of s hashed with junk j
  Key,
  KeySha,   \* the digest of a key
  Wanted    \* the sizes callers ask for (args->N)

VirtualNode == {n \in [addr : Server, id : Nat \ {0}] : n.id <= Copies[n.addr]}

(* Digests are compared as numbers: strcmp orders them totally, up to ties *)
(* between digests that are equal as far as their first zero byte.         *)
ASSUME RingAssumption ==
  /\ Files \subseteq (SUBSET Server) \ {{}}
  /\ \A f \in Files : IsFiniteSet(f)
  /\ Copies \in [Server -> Nat \ {0}]
  /\ \A s \in Server, j \in Junk : \A i \in 1 .. Copies[s] : Sha[<<s, i, j>>] \in Nat
  /\ KeySha \in [Key -> Nat]
  /\ Wanted \subseteq Nat

VARIABLES
  file,     \* the servers.txt a process has read
  junk,     \* the junk it hashes with its nodes
  ring,     \* ring->nodes, from index 0
  pc,       \* "start", "idle", "place", "first", "walk" or "done"
  key, wanted,                     \* the arguments of ring_get_nodes_for_key
  iterator, left, looped, nodes    \* and its locals

args   == <<file, junk, ring, key, wanted>>
locals == <<iterator, left, looped, nodes>>
vars   == <<args, pc, locals>>

size(p) == Cardinality(DOMAIN ring[p])

(* The nodes get_nodes makes of a file, and their digests in process p. *)
NodesOf(f)     == {n \in [addr : f, id : UNION {1 .. Copies[s] : s \in f}] :
                     n.id <= Copies[n.addr]}
Digest(n, j)   == Sha[<<n.addr, n.id, j>>]
sha(p, i)      == Digest(ring[p][i], junk[p])

(* node_list_sort with node_cmp_sha: qsort may leave ties in any order. *)
SortedRings(f, j) ==
  LET last == Cardinality(NodesOf(f)) - 1
  IN  {r \in [0 .. last -> NodesOf(f)] :
         /\ \A a, b \in 0 .. last : r[a] = r[b] => a = b
         /\ \A a, b \in 0 .. last : a < b => Digest(r[a], j) <= Digest(r[b], j)}

(* node_list_contains: the same address, whatever the id. *)
Contains(list, n) == \E i \in DOMAIN list : list[i].addr = n.addr

Init ==
  /\ file = [p \in Process |-> {}]
  /\ junk \in [Process -> Junk]
  /\ ring = [p \in Process |-> <<>>]
  /\ pc = [p \in Process |-> "start"]
  /\ key \in [Process -> Key]
  /\ wanted \in [Process -> Wanted]
  /\ iterator = [p \in Process |-> 0]
  /\ left = [p \in Process |-> 0]
  /\ looped = [p \in Process |-> 0]
  /\ nodes = [p \in Process |-> <<>>]

-----------------------------------------------------------------------------
(* ring_init: read the file and sort its nodes. *)
RingInit(p) ==
  /\ pc[p] = "start"
  /\ \E f \in Files :
       /\ file' = [file EXCEPT ![p] = f]
       /\ \E r \in SortedRings(f, junk[p]) : ring' = [ring EXCEPT ![p] = r]
  /\ pc' = [pc EXCEPT ![p] = "idle"]
  /\ UNCHANGED <<junk, key, wanted, locals>>

(* Variant with a bug: no check for a call that wants no node. *)
AskWithoutCheck(p) ==
  /\ pc[p] = "idle"
  /\ pc' = [pc EXCEPT ![p] = "place"]
  /\ nodes' = [nodes EXCEPT ![p] = <<>>]
  /\ iterator' = [iterator EXCEPT ![p] = 0]
  /\ UNCHANGED <<args, left, looped>>

(* The call: no node is wanted, or the search for the key's place starts. *)
Ask(p) ==
  /\ pc[p] = "idle"
  /\ pc' = [pc EXCEPT ![p] = IF wanted[p] = 0 THEN "done" ELSE "place"]
  /\ nodes' = [nodes EXCEPT ![p] = <<>>]
  /\ iterator' = [iterator EXCEPT ![p] = 0]
  /\ UNCHANGED <<args, left, looped>>

(* Variants with a bug: the place is the digest modulo the size, the end   *)
(* is tested one too late, a node whose digest equals the key's is passed. *)
PlaceModulo(p) ==
  /\ pc[p] = "place"
  /\ iterator' = [iterator EXCEPT ![p] = KeySha[key[p]] % size(p)]
  /\ pc' = [pc EXCEPT ![p] = "first"]
  /\ UNCHANGED <<args, left, looped, nodes>>

PlaceLateWrap(p) ==
  /\ pc[p] = "place"
  /\ IF KeySha[key[p]] > sha(p, iterator[p])
     THEN IF iterator[p] + 1 > size(p)
          THEN /\ iterator' = [iterator EXCEPT ![p] = 0]
               /\ pc' = [pc EXCEPT ![p] = "first"]
          ELSE /\ iterator' = [iterator EXCEPT ![p] = @ + 1]
               /\ UNCHANGED pc
     ELSE /\ pc' = [pc EXCEPT ![p] = "first"]
          /\ UNCHANGED iterator
  /\ UNCHANGED <<args, left, looped, nodes>>

PlaceAfterEqual(p) ==
  /\ pc[p] = "place"
  /\ IF KeySha[key[p]] >= sha(p, iterator[p])
     THEN IF iterator[p] + 1 >= size(p)
          THEN /\ iterator' = [iterator EXCEPT ![p] = 0]
               /\ pc' = [pc EXCEPT ![p] = "first"]
          ELSE /\ iterator' = [iterator EXCEPT ![p] = @ + 1]
               /\ UNCHANGED pc
     ELSE /\ pc' = [pc EXCEPT ![p] = "first"]
          /\ UNCHANGED iterator
  /\ UNCHANGED <<args, left, looped, nodes>>

(* The first loop, one test: past the last node the key belongs to node 0. *)
Place(p) ==
  /\ pc[p] = "place"
  /\ IF KeySha[key[p]] > sha(p, iterator[p])
     THEN IF iterator[p] + 1 >= size(p)
          THEN /\ iterator' = [iterator EXCEPT ![p] = 0]
               /\ pc' = [pc EXCEPT ![p] = "first"]
          ELSE /\ iterator' = [iterator EXCEPT ![p] = @ + 1]
               /\ UNCHANGED pc
     ELSE /\ pc' = [pc EXCEPT ![p] = "first"]
          /\ UNCHANGED iterator
  /\ UNCHANGED <<args, left, looped, nodes>>

First(p) ==
  /\ pc[p] = "first"
  /\ nodes' = [nodes EXCEPT ![p] = <<ring[p][iterator[p]]>>]
  /\ left' = [left EXCEPT ![p] = wanted[p] - 1]
  /\ looped' = [looped EXCEPT ![p] = 0]
  /\ pc' = [pc EXCEPT ![p] = "walk"]
  /\ UNCHANGED <<args, iterator>>

(* The body of the second loop: take the node unless its server is taken. *)
Take(p) ==
  LET n == ring[p][iterator[p]]
  IN  IF Contains(nodes[p], n)
      THEN UNCHANGED <<nodes, left>>
      ELSE /\ nodes' = [nodes EXCEPT ![p] = Append(@, n)]
           /\ left' = [left EXCEPT ![p] = @ - 1]

(* Variants with a bug: the end of the array is passed for ever, or never. *)
AdvanceForever(p) ==
  /\ iterator' = [iterator EXCEPT ![p] = IF @ + 1 >= size(p) THEN 0 ELSE @ + 1]
  /\ UNCHANGED <<looped, pc>>

AdvanceOnePass(p) ==
  IF iterator[p] + 1 >= size(p)
  THEN /\ iterator' = [iterator EXCEPT ![p] = @ + 1]
       /\ pc' = [pc EXCEPT ![p] = "done"]
       /\ UNCHANGED looped
  ELSE /\ iterator' = [iterator EXCEPT ![p] = @ + 1]
       /\ UNCHANGED <<looped, pc>>

(* Step to the next node; the end of the array is passed at most once. *)
Advance(p) ==
  IF iterator[p] + 1 >= size(p)
  THEN IF looped[p] # 0
       THEN /\ iterator' = [iterator EXCEPT ![p] = @ + 1]
            /\ pc' = [pc EXCEPT ![p] = "done"]
            /\ UNCHANGED looped
       ELSE /\ looped' = [looped EXCEPT ![p] = @ + 1]
            /\ iterator' = [iterator EXCEPT ![p] = 0]
            /\ UNCHANGED pc
  ELSE /\ iterator' = [iterator EXCEPT ![p] = @ + 1]
       /\ UNCHANGED <<looped, pc>>

Walk(p) ==
  /\ pc[p] = "walk"
  /\ left[p] # 0
  /\ Take(p)
  /\ Advance(p)
  /\ UNCHANGED args

WalkEnds(p) ==
  /\ pc[p] = "walk"
  /\ left[p] = 0
  /\ pc' = [pc EXCEPT ![p] = "done"]
  /\ UNCHANGED <<args, locals>>

Lookup(p) == Place(p) \/ First(p) \/ Walk(p) \/ WalkEnds(p)

Next == \E p \in Process : RingInit(p) \/ Ask(p) \/ Lookup(p)

(* A process that runs keeps running: its loops are not left halfway. *)
Fairness == \A p \in Process : WF_vars(Lookup(p))

Spec == Init /\ [][Next]_vars /\ Fairness

-----------------------------------------------------------------------------
Index(p) == DOMAIN ring[p]

TypeOK ==
  /\ file \in [Process -> SUBSET Server]
  /\ junk \in [Process -> Junk]
  /\ pc \in [Process -> {"start", "idle", "place", "first", "walk", "done"}]
  /\ key \in [Process -> Key]
  /\ wanted \in [Process -> Wanted]
  /\ iterator \in [Process -> Nat]
  /\ left \in [Process -> Nat]
  /\ looped \in [Process -> {0, 1}]
  /\ nodes \in [Process -> Seq(VirtualNode)]
  /\ DOMAIN ring = Process
  /\ \A p \in Process : pc[p] # "start" =>
       /\ file[p] \in Files
       /\ ring[p] \in [0 .. size(p) - 1 -> NodesOf(file[p])]

(* The array is only read inside its bounds (ring.c:52, 62, 70). *)
IteratorInRange ==
  \A p \in Process : pc[p] \in {"place", "first", "walk"} => iterator[p] \in Index(p)

(* The place of the key: the first node whose digest is not below it.      *)
KeyPlace(p) ==
  LET above == {i \in Index(p) : sha(p, i) >= KeySha[key[p]]}
  IN  IF above = {} THEN 0 ELSE CHOOSE i \in above : \A j \in above : i <= j

(* How far node i is from there, going up the ring, and the nearest node   *)
(* of a server.                                                            *)
Distance(p, i) == IF i >= KeyPlace(p) THEN i - KeyPlace(p)
                  ELSE size(p) - KeyPlace(p) + i
Nearer(p, s, t) ==
  \E i \in Index(p) :
    /\ ring[p][i].addr = s
    /\ \A j \in Index(p) : ring[p][j].addr = t => Distance(p, i) < Distance(p, j)

Addresses(p) == {nodes[p][i].addr : i \in DOMAIN nodes[p]}

(***************************************************************************)
(* ring_get_nodes_for_key returns distinct servers, as many as are wanted  *)
(* or all there are, although virtual nodes repeat them (ring.c:69-82).    *)
(***************************************************************************)
EnoughDistinctServers ==
  \A p \in Process : pc[p] = "done" =>
    /\ \A i, j \in DOMAIN nodes[p] : nodes[p][i].addr = nodes[p][j].addr => i = j
    /\ \/ Len(nodes[p]) = wanted[p]
       \/ Len(nodes[p]) < wanted[p] /\ Addresses(p) = file[p]

(***************************************************************************)
(* They are the servers that follow the key in the ring, nearest first,    *)
(* and no server that was left out is nearer than one that was taken.      *)
(***************************************************************************)
NearestServers ==
  \A p \in Process : pc[p] = "done" =>
    /\ \A i, j \in DOMAIN nodes[p] :
         i < j => Nearer(p, nodes[p][i].addr, nodes[p][j].addr)
    /\ \A i \in DOMAIN nodes[p] : \A s \in file[p] \ Addresses(p) :
         Nearer(p, nodes[p][i].addr, s)

SameCall(p, q) ==
  /\ pc[p] = "done" /\ pc[q] = "done"
  /\ key[p] = key[q] /\ wanted[p] = wanted[q]

(* No two nodes of the file have digests that compare as equal. *)
NoTies(p) ==
  \A m, n \in NodesOf(file[p]) : Digest(m, junk[p]) = Digest(n, junk[p]) => m = n

(* How many of the first i servers p found are not the one that is gone. *)
Kept(p, i, gone) == Cardinality({j \in 1 .. i : nodes[p][j].addr # gone})

(***************************************************************************)
(* Consistent hashing: when a server leaves the file, a process started    *)
(* after that keeps for each key the servers an older process has, in the  *)
(* same order, and only fills the gap (the reason for a ring at all).      *)
(* Digests that tie may be sorted either way and are left out.             *)
(***************************************************************************)
RemovalKeepsTheOthers ==
  \A p, q \in Process : \A gone \in Server :
    (SameCall(p, q) /\ junk[p] = junk[q] /\ NoTies(p)
       /\ file[q] = file[p] \ {gone}) =>
      \A i \in DOMAIN nodes[p] : nodes[p][i].addr # gone =>
        /\ Kept(p, i, gone) \in DOMAIN nodes[q]
        /\ nodes[q][Kept(p, i, gone)].addr = nodes[p][i].addr

(* Every search ends, also when more servers are wanted than there are. *)
SearchEnds == \A p \in Process : pc[p] = "place" ~> pc[p] = "done"

(***************************************************************************)
(* ring.h:46 says ring_get_nodes_for_key returns "the list of all nodes    *)
(* storing the key": two processes that read the same servers.txt get the  *)
(* same servers.                                                           *)
(***************************************************************************)
SameNodesInEveryProcess ==
  \A p, q \in Process :
    (SameCall(p, q) /\ file[p] = file[q] /\ NoTies(p) /\ NoTies(q)) =>
      Addresses(p) = Addresses(q)

=============================================================================
