---------------------------- MODULE RingProofs ----------------------------
(***************************************************************************)
(* ring_get_nodes_for_key returns the nearest distinct servers, for every  *)
(* set of processes, files, digests and keys.  The invariant follows one   *)
(* search: the nodes below the iterator are below the key, the place found *)
(* is KeyPlace, and the walk has visited a segment of the ring that starts *)
(* there and has taken every server of it, each at its nearest node.       *)
(***************************************************************************)
EXTENDS Ring, FiniteSetTheorems, WellFoundedInduction, TLAPS

Built(p) ==
  pc[p] # "start" =>
    /\ size(p) \in Nat \ {0}
    /\ \A n \in NodesOf(file[p]) : \E i \in Index(p) : ring[p][i] = n

Placing(p) ==
  pc[p] = "place" =>
    /\ wanted[p] # 0
    /\ iterator[p] \in Index(p)
    /\ \A i \in 0 .. iterator[p] - 1 : sha(p, i) < KeySha[key[p]]

Placed(p) ==
  pc[p] = "first" =>
    /\ wanted[p] # 0
    /\ iterator[p] \in Index(p)
    /\ iterator[p] = KeyPlace(p)

(* What the walk has visited.  Its first node counts from the beginning,   *)
(* since the server of it is taken before the loop.                        *)
Visited(p) ==
  {i \in Index(p) :
     \/ i = KeyPlace(p)
     \/ looped[p] = 1 /\ (i >= KeyPlace(p) \/ i < iterator[p])
     \/ looped[p] = 0 /\ i >= KeyPlace(p) /\ i < iterator[p]}

Distinct(p) ==
  \A i, j \in DOMAIN nodes[p] : nodes[p][i].addr = nodes[p][j].addr => i = j

NearestFirst(p) ==
  \A i, j \in DOMAIN nodes[p] :
    i < j => Nearer(p, nodes[p][i].addr, nodes[p][j].addr)

VisitedTaken(p) == \A i \in Visited(p) : ring[p][i].addr \in Addresses(p)
TakenVisited(p) == \A s \in Addresses(p) : \E i \in Visited(p) : ring[p][i].addr = s

Position(p) ==
  /\ KeyPlace(p) \in Index(p)
  /\ looped[p] = 0 => iterator[p] >= KeyPlace(p)
  /\ pc[p] = "walk" => iterator[p] \in Index(p)

Walked(p) ==
  pc[p] = "walk" \/ (pc[p] = "done" /\ wanted[p] # 0) =>
    /\ Position(p)
    /\ Len(nodes[p]) + left[p] = wanted[p]
    /\ Distinct(p)
    /\ NearestFirst(p)
    /\ VisitedTaken(p)
    /\ TakenVisited(p)
    /\ pc[p] = "done" => left[p] = 0 \/ Visited(p) = Index(p)

NothingWanted(p) == pc[p] = "done" /\ wanted[p] = 0 => nodes[p] = <<>>

SearchInv(p) == Built(p) /\ Placing(p) /\ Placed(p) /\ Walked(p) /\ NothingWanted(p)

RingInv == TypeOK /\ \A p \in Process : SearchInv(p)

-----------------------------------------------------------------------------
(* servers.txt describes finitely many virtual nodes. *)
LEMMA NodesFinite ==
  ASSUME NEW f \in Files
  PROVE  IsFiniteSet(NodesOf(f)) /\ NodesOf(f) # {}
<1> DEFINE Counts == {1 .. Copies[s] : s \in f}
           Ids    == UNION Counts
           All    == [addr : f, id : Ids]
           g      == [s \in f |-> 1 .. Copies[s]]
           h      == [x \in f \X Ids |-> [addr |-> x[1], id |-> x[2]]]
<1>1. f \subseteq Server /\ f # {} /\ IsFiniteSet(f)
  BY RingAssumption
<1>2. \A s \in f : Copies[s] \in Nat \ {0}
  BY <1>1, RingAssumption
<1>3. IsFiniteSet(Counts)
  <2>1. g \in Surjection(f, Counts)
    BY DEF Surjection
  <2> QED
    BY <2>1, <1>1, FS_Surjection
<1>4. \A T \in Counts : IsFiniteSet(T)
  <2> SUFFICES ASSUME NEW s \in f PROVE IsFiniteSet(1 .. Copies[s])
    OBVIOUS
  <2>1. Copies[s] \in Int
    BY <1>2
  <2> QED
    BY <2>1, FS_Interval
<1>5. IsFiniteSet(Ids)
  BY <1>3, <1>4, FS_UNION
<1>6. IsFiniteSet(All)
  <2>1. h \in Surjection(f \X Ids, All)
    <3>1. h \in [f \X Ids -> All]
      OBVIOUS
    <3>2. ASSUME NEW n \in All PROVE \E x \in f \X Ids : h[x] = n
      <4>1. <<n.addr, n.id>> \in f \X Ids /\ n = [addr |-> n.addr, id |-> n.id]
        OBVIOUS
      <4> QED
        BY <4>1
    <3> QED
      BY <3>1, <3>2 DEF Surjection
  <2>2. IsFiniteSet(f \X Ids)
    BY <1>1, <1>5, FS_Product
  <2> QED
    BY <2>1, <2>2, FS_Surjection
<1>7. NodesOf(f) \subseteq All
  BY DEF NodesOf
<1>8. IsFiniteSet(NodesOf(f))
  BY <1>6, <1>7, FS_Subset
<1>9. NodesOf(f) # {}
  <2>1. PICK s \in f : TRUE
    BY <1>1
  <2>2. [addr |-> s, id |-> 1] \in NodesOf(f)
    BY <1>2 DEF NodesOf
  <2> QED
    BY <2>2
<1> QED
  BY <1>8, <1>9

(* Every server of the file has a node. *)
LEMMA ServerHasNode ==
  ASSUME NEW f \in Files, NEW s \in f
  PROVE  \E n \in NodesOf(f) : n.addr = s
<1>1. Copies[s] \in Nat \ {0}
  BY RingAssumption
<1>2. [addr |-> s, id |-> 1] \in NodesOf(f)
  BY <1>1 DEF NodesOf
<1> QED
  BY <1>2

(* A sorted array has a place for every node, and at least one. *)
LEMMA SortedFacts ==
  ASSUME NEW f \in Files, NEW j, NEW r \in SortedRings(f, j)
  PROVE  /\ Cardinality(DOMAIN r) \in Nat \ {0}
         /\ r \in [0 .. Cardinality(DOMAIN r) - 1 -> NodesOf(f)]
         /\ \A n \in NodesOf(f) : \E i \in DOMAIN r : r[i] = n
<1> DEFINE c == Cardinality(NodesOf(f))
           D == 0 .. c - 1
<1>1. IsFiniteSet(NodesOf(f)) /\ c \in Nat \ {0}
  BY NodesFinite, FS_CardinalityType, FS_EmptySet
<1>2. r \in [D -> NodesOf(f)] /\ \A a, b \in D : r[a] = r[b] => a = b
  BY DEF SortedRings
<1>3. DOMAIN r = D
  BY <1>2
<1>4. IsFiniteSet(D) /\ Cardinality(D) = c
  <2> HIDE DEF c
  <2>1. 0 \in Int /\ c - 1 \in Int /\ ~(0 > c - 1) /\ c - 1 - 0 + 1 = c
    BY <1>1
  <2> QED
    BY <2>1, FS_Interval
<1>5. r \in Injection(D, NodesOf(f))
  BY <1>2 DEF Injection, IsInjective
<1>6. r \in Surjection(D, NodesOf(f))
  BY <1>1, <1>4, <1>5, FS_Injection
<1> QED
  BY <1>1, <1>2, <1>3, <1>4, <1>6 DEF Surjection

-----------------------------------------------------------------------------
(* What TypeOK and Built say of a process that has a ring. *)
LEMMA RingFacts ==
  ASSUME TypeOK, NEW p \in Process, Built(p), pc[p] # "start"
  PROVE  /\ size(p) \in Nat \ {0}
         /\ Index(p) = 0 .. size(p) - 1
         /\ KeySha[key[p]] \in Nat
         /\ file[p] \in Files
         /\ \A i \in Index(p) : /\ ring[p][i] \in VirtualNode
                                /\ ring[p][i].addr \in file[p]
                                /\ sha(p, i) \in Nat
<1>1. /\ size(p) \in Nat \ {0}
      /\ file[p] \in Files
      /\ ring[p] \in [0 .. size(p) - 1 -> NodesOf(file[p])]
  BY DEF TypeOK, Built
<1>2. Index(p) = 0 .. size(p) - 1
  BY <1>1 DEF Index
<1>3. KeySha[key[p]] \in Nat
  BY RingAssumption DEF TypeOK
<1>4. ASSUME NEW i \in Index(p)
      PROVE  /\ ring[p][i] \in VirtualNode
             /\ ring[p][i].addr \in file[p]
             /\ sha(p, i) \in Nat
  <2> DEFINE n == ring[p][i]
  <2>1. n \in NodesOf(file[p])
    BY <1>1, <1>2, <1>4
  <2>2. file[p] \subseteq Server
    BY <1>1, RingAssumption
  <2>3. /\ n.addr \in file[p] /\ n.id <= Copies[n.addr]
        /\ n \in [addr : file[p], id : UNION {1 .. Copies[s] : s \in file[p]}]
    BY <2>1 DEF NodesOf
  <2>4. n.addr \in Server /\ n.id \in Nat \ {0} /\ Copies[n.addr] \in Nat
    BY <2>2, <2>3, RingAssumption
  <2>5. n \in VirtualNode
    BY <2>3, <2>4 DEF VirtualNode
  <2>6. n.id \in 1 .. Copies[n.addr]
    BY <2>3, <2>4
  <2>7. junk[p] \in Junk
    BY DEF TypeOK
  <2>8. sha(p, i) \in Nat
    BY <2>4, <2>6, <2>7, RingAssumption DEF sha, Digest
  <2> QED
    BY <2>3, <2>5, <2>8
<1> QED
  BY <1>1, <1>2, <1>3, <1>4

(* KeyPlace is the first node that is not below the key, or node 0.        *)
LEMMA KeyPlaceFacts ==
  ASSUME TypeOK, NEW p \in Process, Built(p), pc[p] # "start"
  PROVE  /\ \A i \in Index(p) :
              /\ sha(p, i) >= KeySha[key[p]]
              /\ \A j \in 0 .. i - 1 : sha(p, j) < KeySha[key[p]]
              => KeyPlace(p) = i
         /\ (\A i \in Index(p) : sha(p, i) < KeySha[key[p]]) => KeyPlace(p) = 0
<1> DEFINE above == {i \in Index(p) : sha(p, i) >= KeySha[key[p]]}
<1>0. /\ Index(p) = 0 .. size(p) - 1
      /\ size(p) \in Nat
      /\ KeySha[key[p]] \in Nat
      /\ \A i \in Index(p) : sha(p, i) \in Nat
  BY RingFacts
<1>1. ASSUME NEW i \in Index(p), sha(p, i) >= KeySha[key[p]],
             \A j \in 0 .. i - 1 : sha(p, j) < KeySha[key[p]]
      PROVE  KeyPlace(p) = i
  <2>1. i \in above /\ \A j \in above : i <= j
    BY <1>0, <1>1
  <2>2. \A m \in above : (\A j \in above : m <= j) => m = i
    <3> SUFFICES ASSUME NEW m \in above, \A j \in above : m <= j PROVE m = i
      OBVIOUS
    <3>1. m <= i /\ i <= m
      BY <2>1
    <3>2. m \in Nat /\ i \in Nat
      BY <1>0
    <3> HIDE DEF above
    <3> QED
      BY <3>1, <3>2
  <2>3. KeyPlace(p) = CHOOSE m \in above : \A j \in above : m <= j
    BY <2>1 DEF KeyPlace
  <2> HIDE DEF above
  <2> QED
    BY <2>1, <2>2, <2>3
<1>2. ASSUME \A i \in Index(p) : sha(p, i) < KeySha[key[p]]
      PROVE  KeyPlace(p) = 0
  <2>1. above = {}
    BY <1>0, <1>2
  <2> QED
    BY <2>1 DEF KeyPlace
<1> QED
  BY <1>1, <1>2

(* A visited node is nearer than one that is not, and the node to visit    *)
(* next is the nearest of those.                                           *)
LEMMA VisitedNearer ==
  ASSUME TypeOK, NEW p \in Process, Built(p), pc[p] # "start", Position(p)
  PROVE  /\ \A i \in Visited(p), j \in Index(p) \ Visited(p) :
              Distance(p, i) < Distance(p, j)
         /\ iterator[p] \in Index(p) \ Visited(p) =>
              \A j \in Index(p) \ Visited(p) : Distance(p, iterator[p]) <= Distance(p, j)
<1>1. /\ Index(p) = 0 .. size(p) - 1 /\ size(p) \in Nat \ {0}
      /\ KeyPlace(p) \in Index(p)
      /\ looped[p] = 0 => iterator[p] >= KeyPlace(p)
      /\ looped[p] \in {0, 1} /\ iterator[p] \in Nat
  BY RingFacts DEF TypeOK, Position
<1>2. ASSUME NEW i \in Visited(p), NEW j \in Index(p) \ Visited(p)
      PROVE  Distance(p, i) < Distance(p, j)
  BY <1>1 DEF Visited, Distance
<1>3. ASSUME iterator[p] \in Index(p) \ Visited(p), NEW j \in Index(p) \ Visited(p)
      PROVE  Distance(p, iterator[p]) <= Distance(p, j)
  BY <1>1, <1>3 DEF Visited, Distance
<1> QED
  BY <1>2, <1>3

-----------------------------------------------------------------------------
(* A step of another process does not touch the search of p. *)
Untouched(p) ==
  /\ file'[p] = file[p] /\ junk'[p] = junk[p] /\ ring'[p] = ring[p]
  /\ pc'[p] = pc[p] /\ key'[p] = key[p] /\ wanted'[p] = wanted[p]
  /\ iterator'[p] = iterator[p] /\ left'[p] = left[p]
  /\ looped'[p] = looped[p] /\ nodes'[p] = nodes[p]

(* What depends on the arguments of a search alone stays while they stay. *)
LEMMA SameArgs ==
  ASSUME NEW p, ring'[p] = ring[p], file'[p] = file[p], junk'[p] = junk[p],
         key'[p] = key[p], wanted'[p] = wanted[p]
  PROVE  /\ Index(p)' = Index(p)
         /\ size(p)' = size(p)
         /\ KeyPlace(p)' = KeyPlace(p)
         /\ \A i : sha(p, i)' = sha(p, i)
         /\ \A i : Distance(p, i)' = Distance(p, i)
         /\ \A s, t : Nearer(p, s, t)' = Nearer(p, s, t)
<1>1. Index(p)' = Index(p) /\ size(p)' = size(p)
  BY DEF Index, size
<1>2. \A i : sha(p, i)' = sha(p, i)
  BY DEF sha, Digest
<1>3. KeyPlace(p)' = KeyPlace(p)
  <2> DEFINE above == {i \in Index(p) : sha(p, i) >= KeySha[key[p]]}
  <2>1. above' = above
    BY <1>1, <1>2
  <2>2. KeyPlace(p) = IF above = {} THEN 0
                      ELSE CHOOSE i \in above : \A j \in above : i <= j
    BY DEF KeyPlace
  <2>3. KeyPlace(p)' = IF above' = {} THEN 0
                       ELSE CHOOSE i \in above' : \A j \in above' : i <= j
    BY DEF KeyPlace
  <2> HIDE DEF above
  <2> QED
    BY <2>1, <2>2, <2>3
<1>4. \A i : Distance(p, i)' = Distance(p, i)
  BY <1>1, <1>3 DEF Distance
<1>5. \A s, t : Nearer(p, s, t)' = Nearer(p, s, t)
  BY <1>1, <1>4 DEF Nearer
<1> QED
  BY <1>1, <1>2, <1>3, <1>4, <1>5

LEMMA SameWalk ==
  ASSUME NEW p, ring'[p] = ring[p], file'[p] = file[p], junk'[p] = junk[p],
         key'[p] = key[p], wanted'[p] = wanted[p],
         looped'[p] = looped[p], iterator'[p] = iterator[p], nodes'[p] = nodes[p]
  PROVE  /\ Visited(p)' = Visited(p)
         /\ Addresses(p)' = Addresses(p)
         /\ Distinct(p)' = Distinct(p)
         /\ NearestFirst(p)' = NearestFirst(p)
         /\ VisitedTaken(p)' = VisitedTaken(p)
         /\ TakenVisited(p)' = TakenVisited(p)
<1>1. Visited(p)' = Visited(p)
  BY SameArgs DEF Visited
<1>2. Addresses(p)' = Addresses(p) /\ Distinct(p)' = Distinct(p)
  BY DEF Addresses, Distinct
<1>3. NearestFirst(p)' = NearestFirst(p)
  BY SameArgs DEF NearestFirst
<1>4. VisitedTaken(p)' = VisitedTaken(p) /\ TakenVisited(p)' = TakenVisited(p)
  BY <1>1, <1>2 DEF VisitedTaken, TakenVisited
<1> QED
  BY <1>1, <1>2, <1>3, <1>4

LEMMA UntouchedInv ==
  ASSUME NEW p, Untouched(p), SearchInv(p)
  PROVE  SearchInv(p)'
<1> USE DEF Untouched, SearchInv
<1>1. Built(p)'
  BY SameArgs DEF Built
<1>2. Placing(p)'
  BY SameArgs DEF Placing
<1>3. Placed(p)'
  BY SameArgs DEF Placed
<1>4. Position(p)' = Position(p)
  BY SameArgs DEF Position
<1>5. Walked(p)'
  BY <1>4, SameArgs, SameWalk DEF Walked
<1>6. NothingWanted(p)'
  BY DEF NothingWanted
<1> QED
  BY <1>1, <1>2, <1>3, <1>5, <1>6

-----------------------------------------------------------------------------
LEMMA InitInv == Init => RingInv
<1> SUFFICES ASSUME Init PROVE RingInv
  OBVIOUS
<1>1. TypeOK
  <2>1. <<>> \in Seq(VirtualNode)
    OBVIOUS
  <2> QED
    BY <2>1 DEF Init, TypeOK
<1>2. ASSUME NEW p \in Process PROVE SearchInv(p)
  <2>1. pc[p] = "start"
    BY DEF Init
  <2> QED
    BY <2>1 DEF SearchInv, Built, Placing, Placed, Walked, NothingWanted
<1> QED
  BY <1>1, <1>2 DEF RingInv

(* The step of p keeps the invariant if it keeps the types and p's part.   *)
LEMMA LocalStep ==
  ASSUME RingInv, TypeOK', NEW p \in Process, SearchInv(p)',
         \A q \in Process \ {p} : Untouched(q)
  PROVE  RingInv'
BY UntouchedInv DEF RingInv

LEMMA RingInitInv ==
  ASSUME RingInv, NEW p \in Process, RingInit(p)
  PROVE  RingInv'
<1>1. PICK f \in Files :
        /\ file' = [file EXCEPT ![p] = f]
        /\ \E r \in SortedRings(f, junk[p]) : ring' = [ring EXCEPT ![p] = r]
  BY DEF RingInit
<1>2. PICK r \in SortedRings(f, junk[p]) : ring' = [ring EXCEPT ![p] = r]
  BY <1>1
<1>3. /\ TypeOK /\ pc[p] = "start" /\ pc' = [pc EXCEPT ![p] = "idle"]
      /\ junk' = junk /\ key' = key /\ wanted' = wanted
      /\ iterator' = iterator /\ left' = left /\ looped' = looped /\ nodes' = nodes
  BY DEF RingInit, RingInv, locals
<1>4. f \in SUBSET Server
  BY RingAssumption
<1>5. /\ ring'[p] = r /\ file'[p] = f /\ pc'[p] = "idle"
      /\ \A q \in Process \ {p} : ring'[q] = ring[q] /\ file'[q] = file[q] /\ pc'[q] = pc[q]
  BY <1>1, <1>2, <1>3 DEF TypeOK
<1>6. size(p)' = Cardinality(DOMAIN r) /\ Index(p)' = DOMAIN r
  BY <1>5 DEF size, Index
<1>7. \A q \in Process \ {p} : Untouched(q) /\ size(q)' = size(q)
  BY <1>3, <1>5 DEF Untouched, size
<1>8. TypeOK'
  <2>1. \A q \in Process : pc'[q] # "start" =>
          file'[q] \in Files /\ ring'[q] \in [0 .. size(q)' - 1 -> NodesOf(file'[q])]
    <3>1. file'[p] \in Files /\ ring'[p] \in [0 .. size(p)' - 1 -> NodesOf(file'[p])]
      BY <1>5, <1>6, SortedFacts
    <3> QED
      BY <3>1, <1>3, <1>5, <1>7 DEF TypeOK
  <2>2. DOMAIN ring' = Process
    BY <1>2, <1>3 DEF TypeOK
  <2> QED
    BY <1>1, <1>3, <1>4, <2>1, <2>2 DEF TypeOK
<1>9. SearchInv(p)'
  <2>1. Built(p)'
    BY <1>5, <1>6, SortedFacts DEF Built
  <2> QED
    BY <2>1, <1>5 DEF SearchInv, Placing, Placed, Walked, NothingWanted
<1> QED
  BY <1>7, <1>8, <1>9, LocalStep

LEMMA AskInv ==
  ASSUME RingInv, NEW p \in Process, Ask(p)
  PROVE  RingInv'
<1>1. /\ TypeOK /\ SearchInv(p) /\ pc[p] = "idle"
      /\ pc' = [pc EXCEPT ![p] = IF wanted[p] = 0 THEN "done" ELSE "place"]
      /\ nodes' = [nodes EXCEPT ![p] = <<>>]
      /\ iterator' = [iterator EXCEPT ![p] = 0]
      /\ UNCHANGED <<file, junk, ring, key, wanted, left, looped>>
  BY DEF Ask, RingInv, args
<1>2. /\ pc'[p] = IF wanted[p] = 0 THEN "done" ELSE "place"
      /\ nodes'[p] = <<>> /\ iterator'[p] = 0
      /\ \A q \in Process \ {p} : /\ pc'[q] = pc[q] /\ nodes'[q] = nodes[q]
                                  /\ iterator'[q] = iterator[q]
  BY <1>1 DEF TypeOK
<1>3. \A q \in Process \ {p} : Untouched(q)
  BY <1>1, <1>2 DEF Untouched
<1>4. TypeOK'
  <2>1. <<>> \in Seq(VirtualNode)
    OBVIOUS
  <2>2. nodes' \in [Process -> Seq(VirtualNode)]
    BY <2>1, <1>1 DEF TypeOK
  <2>3. \A q \in Process : size(q)' = size(q)
    BY <1>1 DEF size
  <2>4. \A q \in Process : pc'[q] # "start" => pc[q] # "start"
    BY <1>1, <1>2
  <2> QED
    BY <1>1, <2>2, <2>3, <2>4 DEF TypeOK
<1>5. SearchInv(p)'
  <2>1. size(p) \in Nat \ {0} /\ Index(p) = 0 .. size(p) - 1
    BY <1>1, RingFacts DEF SearchInv
  <2>2. Index(p)' = Index(p) /\ size(p)' = size(p)
    BY <1>1, SameArgs
  <2>3. Built(p)'
    BY <1>1, <2>2 DEF SearchInv, Built
  <2>4. Placing(p)'
    BY <1>1, <1>2, <2>1, <2>2 DEF Placing
  <2>5. Placed(p)' /\ Walked(p)' /\ NothingWanted(p)'
    BY <1>1, <1>2 DEF Placed, Walked, NothingWanted
  <2> QED
    BY <2>3, <2>4, <2>5 DEF SearchInv
<1> QED
  BY <1>3, <1>4, <1>5, LocalStep

LEMMA PlaceInv ==
  ASSUME RingInv, NEW p \in Process, Place(p)
  PROVE  RingInv'
<1> DEFINE it == iterator[p]
           above == KeySha[key[p]] > sha(p, it)
           last == it + 1 >= size(p)
<1>1. /\ TypeOK /\ SearchInv(p) /\ pc[p] = "place"
      /\ iterator' = IF above THEN [iterator EXCEPT ![p] = IF last THEN 0 ELSE @ + 1]
                     ELSE iterator
      /\ pc' = IF above /\ ~last THEN pc ELSE [pc EXCEPT ![p] = "first"]
      /\ UNCHANGED <<file, junk, ring, key, wanted, left, looped, nodes>>
  BY DEF Place, RingInv, args
<1>2. /\ iterator'[p] = IF above THEN IF last THEN 0 ELSE it + 1 ELSE it
      /\ pc'[p] = IF above /\ ~last THEN "place" ELSE "first"
      /\ \A q \in Process \ {p} : pc'[q] = pc[q] /\ iterator'[q] = iterator[q]
      /\ it \in Nat
  BY <1>1 DEF TypeOK
<1>3. \A q \in Process \ {p} : Untouched(q)
  BY <1>1, <1>2 DEF Untouched
<1>4. TypeOK'
  <2>1. iterator' \in [Process -> Nat]
    BY <1>1 DEF TypeOK
  <2>2. pc' \in [Process -> {"start", "idle", "place", "first", "walk", "done"}]
    BY <1>1 DEF TypeOK
  <2>3. \A q \in Process : size(q)' = size(q)
    BY <1>1 DEF size
  <2>4. \A q \in Process : pc'[q] # "start" => pc[q] # "start"
    BY <1>1, <1>2
  <2> QED
    BY <1>1, <2>1, <2>2, <2>3, <2>4 DEF TypeOK
<1>5. SearchInv(p)'
  <2>1. /\ Built(p) /\ Placing(p) /\ wanted[p] # 0 /\ it \in Index(p)
        /\ \A i \in 0 .. it - 1 : sha(p, i) < KeySha[key[p]]
    BY <1>1 DEF SearchInv, Placing
  <2>2. /\ size(p) \in Nat \ {0} /\ Index(p) = 0 .. size(p) - 1
        /\ KeySha[key[p]] \in Nat
        /\ \A i \in Index(p) : sha(p, i) \in Nat
    BY <1>1, <2>1, RingFacts
  <2>3. /\ Index(p)' = Index(p) /\ size(p)' = size(p) /\ KeyPlace(p)' = KeyPlace(p)
        /\ \A i : sha(p, i)' = sha(p, i)
    BY <1>1, SameArgs
  <2>4. Built(p)'
    BY <1>1, <2>1, <2>3 DEF Built
  <2>5. Placing(p)'
    <3> SUFFICES ASSUME above, ~last
                 PROVE  /\ it + 1 \in Index(p)
                        /\ \A i \in 0 .. it : sha(p, i) < KeySha[key[p]]
      BY <1>1, <1>2, <2>1, <2>3 DEF Placing
    <3>1. sha(p, it) < KeySha[key[p]]
      BY <2>1, <2>2
    <3> QED
      BY <3>1, <2>1, <2>2
  <2>6. Placed(p)'
    <3>1. CASE above /\ ~last
      BY <3>1, <1>2 DEF Placed
    <3>2. CASE above /\ last
      <4>1. \A i \in Index(p) : i \in 0 .. it - 1 \/ i = it
        BY <3>2, <2>1, <2>2
      <4>2. \A i \in Index(p) : sha(p, i) < KeySha[key[p]]
        BY <4>1, <3>2, <2>1, <2>2
      <4>3. KeyPlace(p) = 0
        BY <1>1, <2>1, <4>2, KeyPlaceFacts
      <4> QED
        BY <3>2, <4>3, <1>1, <1>2, <2>1, <2>2, <2>3 DEF Placed
    <3>3. CASE ~above
      <4>1. sha(p, it) >= KeySha[key[p]]
        BY <3>3, <2>1, <2>2
      <4>2. KeyPlace(p) = it
        BY <1>1, <2>1, <4>1, KeyPlaceFacts
      <4> QED
        BY <3>3, <4>2, <1>1, <1>2, <2>1, <2>3 DEF Placed
    <3> QED
      BY <3>1, <3>2, <3>3
  <2>7. Walked(p)' /\ NothingWanted(p)'
    BY <1>2 DEF Walked, NothingWanted
  <2> QED
    BY <2>4, <2>5, <2>6, <2>7 DEF SearchInv
<1> QED
  BY <1>3, <1>4, <1>5, LocalStep

LEMMA FirstInv ==
  ASSUME RingInv, NEW p \in Process, First(p)
  PROVE  RingInv'
<1> DEFINE it == iterator[p]
           n == ring[p][it]
<1>1. /\ TypeOK /\ SearchInv(p) /\ pc[p] = "first"
      /\ nodes' = [nodes EXCEPT ![p] = <<n>>]
      /\ left' = [left EXCEPT ![p] = wanted[p] - 1]
      /\ looped' = [looped EXCEPT ![p] = 0]
      /\ pc' = [pc EXCEPT ![p] = "walk"]
      /\ UNCHANGED <<file, junk, ring, key, wanted, iterator>>
  BY DEF First, RingInv, args
<1>2. /\ nodes'[p] = <<n>> /\ left'[p] = wanted[p] - 1 /\ looped'[p] = 0
      /\ pc'[p] = "walk"
      /\ \A q \in Process \ {p} : /\ nodes'[q] = nodes[q] /\ left'[q] = left[q]
                                  /\ looped'[q] = looped[q] /\ pc'[q] = pc[q]
      /\ it \in Nat
  BY <1>1 DEF TypeOK
<1>3. \A q \in Process \ {p} : Untouched(q)
  BY <1>1, <1>2 DEF Untouched
<1>4. /\ Built(p) /\ wanted[p] # 0 /\ wanted[p] \in Nat
      /\ it \in Index(p) /\ it = KeyPlace(p)
  BY <1>1, RingAssumption DEF SearchInv, Placed, TypeOK
<1>5. n \in VirtualNode
  BY <1>1, <1>4, RingFacts
<1>6. TypeOK'
  <2>1. <<n>> \in Seq(VirtualNode)
    BY <1>5
  <2>2. nodes' \in [Process -> Seq(VirtualNode)]
    BY <2>1, <1>1 DEF TypeOK
  <2>3. left' \in [Process -> Nat]
    BY <1>1, <1>4 DEF TypeOK
  <2>4. \A q \in Process : size(q)' = size(q)
    BY <1>1 DEF size
  <2>5. \A q \in Process : pc'[q] # "start" => pc[q] # "start"
    BY <1>1, <1>2
  <2> QED
    BY <1>1, <2>2, <2>3, <2>4, <2>5 DEF TypeOK
<1>7. SearchInv(p)'
  <2>1. /\ Index(p)' = Index(p) /\ size(p)' = size(p) /\ KeyPlace(p)' = KeyPlace(p)
    BY <1>1, SameArgs
  <2>2. Built(p)'
    BY <1>1, <1>4, <2>1 DEF Built
  <2>3. Placing(p)' /\ Placed(p)' /\ NothingWanted(p)'
    BY <1>2 DEF Placing, Placed, NothingWanted
  <2>4. Position(p)'
    BY <1>1, <1>2, <1>4, <2>1 DEF Position
  <2>5. Visited(p)' = {it}
    <3>1. Index(p) \subseteq Nat
      BY <1>1, <1>4, RingFacts
    <3>2. Visited(p)' = {i \in Index(p) : i = it \/ (i >= it /\ i < it)}
      BY <1>1, <1>2, <1>4, <2>1 DEF Visited
    <3> QED
      BY <3>1, <3>2, <1>4
  <2>6. DOMAIN nodes'[p] = {1} /\ Len(nodes'[p]) = 1 /\ nodes'[p][1] = n
    BY <1>2
  <2>7. Addresses(p)' = {n.addr}
    BY <2>6 DEF Addresses
  <2>8. Distinct(p)' /\ NearestFirst(p)'
    BY <2>6 DEF Distinct, NearestFirst
  <2>9. VisitedTaken(p)' /\ TakenVisited(p)'
    BY <2>5, <2>7, <1>1 DEF VisitedTaken, TakenVisited
  <2>10. Len(nodes'[p]) + left'[p] = wanted'[p]
    <3>1. wanted'[p] = wanted[p] /\ 1 + (wanted[p] - 1) = wanted[p]
      BY <1>1, <1>4
    <3> QED
      BY <3>1, <1>2, <2>6
  <2>11. Walked(p)'
    BY <1>2, <2>4, <2>8, <2>9, <2>10 DEF Walked
  <2> QED
    BY <2>2, <2>3, <2>11 DEF SearchInv
<1> QED
  BY <1>3, <1>6, <1>7, LocalStep

LEMMA WalkEndsInv ==
  ASSUME RingInv, NEW p \in Process, WalkEnds(p)
  PROVE  RingInv'
<1>1. /\ TypeOK /\ SearchInv(p) /\ pc[p] = "walk" /\ left[p] = 0
      /\ pc' = [pc EXCEPT ![p] = "done"]
      /\ UNCHANGED <<file, junk, ring, key, wanted, iterator, left, looped, nodes>>
  BY DEF WalkEnds, RingInv, args, locals
<1>2. pc'[p] = "done" /\ \A q \in Process \ {p} : pc'[q] = pc[q]
  BY <1>1 DEF TypeOK
<1>3. \A q \in Process \ {p} : Untouched(q)
  BY <1>1, <1>2 DEF Untouched
<1>4. TypeOK'
  <2>1. \A q \in Process : size(q)' = size(q)
    BY <1>1 DEF size
  <2>2. \A q \in Process : pc'[q] # "start" => pc[q] # "start"
    BY <1>1, <1>2
  <2> QED
    BY <1>1, <2>1, <2>2 DEF TypeOK
<1>5. SearchInv(p)'
  <2>1. Index(p)' = Index(p) /\ size(p)' = size(p) /\ KeyPlace(p)' = KeyPlace(p)
    BY <1>1, SameArgs
  <2>2. Built(p)'
    BY <1>1, <2>1 DEF SearchInv, Built
  <2>3. Placing(p)' /\ Placed(p)'
    BY <1>2 DEF Placing, Placed
  <2>4. Walked(p) /\ Position(p)
    BY <1>1 DEF SearchInv, Walked
  <2>5. Position(p)'
    BY <1>1, <1>2, <2>1, <2>4 DEF Position
  <2>6. Walked(p)'
    BY <1>1, <1>2, <2>4, <2>5, SameWalk DEF Walked
  <2>7. NothingWanted(p)'
    <3>1. nodes[p] \in Seq(VirtualNode) /\ Len(nodes[p]) + 0 = wanted[p]
      BY <1>1, <2>4 DEF Walked, TypeOK
    <3>2. wanted[p] = 0 => nodes[p] = <<>>
      BY <3>1
    <3> QED
      BY <3>2, <1>1 DEF NothingWanted
  <2> QED
    BY <2>2, <2>3, <2>6, <2>7 DEF SearchInv
<1> QED
  BY <1>3, <1>4, <1>5, LocalStep

(* An iteration of the walk: what it does to p's locals.                   *)
LEMMA WalkFacts ==
  ASSUME RingInv, NEW p \in Process, Walk(p)
  PROVE  /\ TypeOK /\ SearchInv(p) /\ pc[p] = "walk" /\ left[p] \in Nat \ {0}
         /\ UNCHANGED <<file, junk, ring, key, wanted>>
         /\ TypeOK'
         /\ \A q \in Process \ {p} : Untouched(q)
         /\ LET n == ring[p][iterator[p]]
            IN  \/ Contains(nodes[p], n) /\ nodes'[p] = nodes[p] /\ left'[p] = left[p]
                \/ /\ ~Contains(nodes[p], n)
                   /\ nodes'[p] = Append(nodes[p], n)
                   /\ left'[p] = left[p] - 1
         /\ \/ /\ iterator[p] + 1 < size(p) /\ iterator'[p] = iterator[p] + 1
               /\ looped'[p] = looped[p] /\ pc'[p] = "walk"
            \/ /\ iterator[p] + 1 = size(p) /\ looped[p] = 0
               /\ iterator'[p] = 0 /\ looped'[p] = 1 /\ pc'[p] = "walk"
            \/ /\ iterator[p] + 1 = size(p) /\ looped[p] = 1
               /\ iterator'[p] = size(p) /\ looped'[p] = 1 /\ pc'[p] = "done"
<1> DEFINE it == iterator[p]
           n == ring[p][it]
           last == it + 1 >= size(p)
<1>1. /\ TypeOK /\ SearchInv(p) /\ pc[p] = "walk" /\ left[p] # 0
      /\ UNCHANGED <<file, junk, ring, key, wanted>>
  BY DEF Walk, RingInv, args
<1>2. Take(p) /\ Advance(p)
  BY DEF Walk
<1>3. /\ nodes' = IF Contains(nodes[p], n) THEN nodes
                  ELSE [nodes EXCEPT ![p] = Append(@, n)]
      /\ left' = IF Contains(nodes[p], n) THEN left ELSE [left EXCEPT ![p] = @ - 1]
  BY <1>2 DEF Take
<1>4. /\ iterator' = [iterator EXCEPT ![p] = IF last /\ looped[p] = 0 THEN 0 ELSE @ + 1]
      /\ looped' = IF last /\ looped[p] = 0 THEN [looped EXCEPT ![p] = @ + 1] ELSE looped
      /\ pc' = IF last /\ looped[p] # 0 THEN [pc EXCEPT ![p] = "done"] ELSE pc
  BY <1>2 DEF Advance
<1>5. /\ it \in Nat /\ left[p] \in Nat /\ looped[p] \in {0, 1}
      /\ nodes[p] \in Seq(VirtualNode)
  BY <1>1 DEF TypeOK
<1>6. /\ size(p) \in Nat \ {0} /\ it \in 0 .. size(p) - 1 /\ n \in VirtualNode
  BY <1>1, RingFacts DEF SearchInv, Walked, Position
<1>7. last <=> it + 1 = size(p)
  BY <1>6
<1>8. /\ nodes'[p] = IF Contains(nodes[p], n) THEN nodes[p] ELSE Append(nodes[p], n)
      /\ left'[p] = IF Contains(nodes[p], n) THEN left[p] ELSE left[p] - 1
      /\ \A q \in Process \ {p} : nodes'[q] = nodes[q] /\ left'[q] = left[q]
  BY <1>1, <1>3 DEF TypeOK
<1>9. /\ iterator'[p] = IF last /\ looped[p] = 0 THEN 0 ELSE it + 1
      /\ looped'[p] = IF last /\ looped[p] = 0 THEN 1 ELSE looped[p]
      /\ pc'[p] = IF last /\ looped[p] # 0 THEN "done" ELSE "walk"
      /\ \A q \in Process \ {p} : /\ iterator'[q] = iterator[q]
                                  /\ looped'[q] = looped[q] /\ pc'[q] = pc[q]
  BY <1>1, <1>4, <1>5 DEF TypeOK
<1>10. \A q \in Process \ {p} : Untouched(q)
  BY <1>1, <1>8, <1>9 DEF Untouched
<1>11. TypeOK'
  <2>1. nodes' \in [Process -> Seq(VirtualNode)]
    <3>1. Append(nodes[p], n) \in Seq(VirtualNode)
      BY <1>5, <1>6
    <3> QED
      BY <3>1, <1>1, <1>3 DEF TypeOK
  <2>2. left' \in [Process -> Nat]
    <3>1. left[p] - 1 \in Nat
      BY <1>1, <1>5
    <3> QED
      BY <3>1, <1>1, <1>3 DEF TypeOK
  <2>3. iterator' \in [Process -> Nat] /\ looped' \in [Process -> {0, 1}]
    BY <1>1, <1>4, <1>5 DEF TypeOK
  <2>4. pc' \in [Process -> {"start", "idle", "place", "first", "walk", "done"}]
    BY <1>1, <1>4 DEF TypeOK
  <2>5. \A q \in Process : size(q)' = size(q)
    BY <1>1 DEF size
  <2>6. \A q \in Process : pc'[q] # "start" => pc[q] # "start"
    BY <1>1, <1>9
  <2> QED
    BY <1>1, <2>1, <2>2, <2>3, <2>4, <2>5, <2>6 DEF TypeOK
<1>12. left[p] \in Nat \ {0}
  BY <1>1, <1>5
<1>13. \/ /\ it + 1 < size(p) /\ iterator'[p] = it + 1
          /\ looped'[p] = looped[p] /\ pc'[p] = "walk"
       \/ /\ it + 1 = size(p) /\ looped[p] = 0
          /\ iterator'[p] = 0 /\ looped'[p] = 1 /\ pc'[p] = "walk"
       \/ /\ it + 1 = size(p) /\ looped[p] = 1
          /\ iterator'[p] = size(p) /\ looped'[p] = 1 /\ pc'[p] = "done"
  <2>1. it + 1 < size(p) \/ it + 1 = size(p)
    BY <1>6
  <2>2. it + 1 < size(p) => ~last
    BY <1>5, <1>6
  <2> QED
    BY <2>1, <2>2, <1>5, <1>7, <1>9
<1> QED
  BY <1>1, <1>8, <1>10, <1>11, <1>12, <1>13

(* The iteration visits the node at the iterator and no other. *)
LEMMA WalkVisits ==
  ASSUME RingInv, NEW p \in Process, Walk(p)
  PROVE  /\ Visited(p)' = Visited(p) \cup {iterator[p]}
         /\ Position(p)'
         /\ pc'[p] = "done" => Visited(p)' = Index(p)'
<1>1. /\ Index(p) = 0 .. size(p) - 1 /\ size(p) \in Nat \ {0}
      /\ KeyPlace(p) \in Index(p) /\ iterator[p] \in Index(p)
      /\ looped[p] = 0 => iterator[p] >= KeyPlace(p)
      /\ looped[p] \in {0, 1}
  BY WalkFacts, RingFacts DEF TypeOK, SearchInv, Walked, Position
<1>2. Index(p)' = Index(p) /\ size(p)' = size(p) /\ KeyPlace(p)' = KeyPlace(p)
  BY WalkFacts, SameArgs
<1> DEFINE it == iterator[p]
           k == KeyPlace(p)
           s == size(p)
<1>3. Visited(p)' = {i \in Index(p) :
                       \/ i = k
                       \/ looped'[p] = 1 /\ (i >= k \/ i < iterator'[p])
                       \/ looped'[p] = 0 /\ i >= k /\ i < iterator'[p]}
  BY <1>2 DEF Visited
<1>4. Visited(p) = {i \in Index(p) :
                      \/ i = k
                      \/ looped[p] = 1 /\ (i >= k \/ i < it)
                      \/ looped[p] = 0 /\ i >= k /\ i < it}
  BY DEF Visited
<1>5. Position(p)' <=> /\ k \in Index(p)
                       /\ looped'[p] = 0 => iterator'[p] >= k
                       /\ pc'[p] = "walk" => iterator'[p] \in Index(p)
  BY <1>2 DEF Position
<1> HIDE DEF it, k, s
<1>6. /\ Index(p) = 0 .. s - 1 /\ s \in Nat \ {0} /\ k \in Index(p) /\ it \in Index(p)
      /\ looped[p] = 0 => it >= k
      /\ looped[p] \in {0, 1}
  BY <1>1 DEF it, k, s
<1>7. CASE it + 1 < s /\ iterator'[p] = it + 1 /\ looped'[p] = looped[p] /\ pc'[p] = "walk"
  <2>1. Visited(p)' = Visited(p) \cup {it}
    BY <1>3, <1>4, <1>6, <1>7
  <2>2. Position(p)'
    BY <1>5, <1>6, <1>7
  <2> QED
    BY <2>1, <2>2, <1>7 DEF it
<1>8. CASE it + 1 = s /\ looped[p] = 0 /\ iterator'[p] = 0 /\ looped'[p] = 1 /\ pc'[p] = "walk"
  <2>1. Visited(p)' = Visited(p) \cup {it}
    BY <1>3, <1>4, <1>6, <1>8
  <2>2. Position(p)'
    BY <1>5, <1>6, <1>8
  <2> QED
    BY <2>1, <2>2, <1>8 DEF it
<1>9. CASE it + 1 = s /\ looped[p] = 1 /\ iterator'[p] = s /\ looped'[p] = 1 /\ pc'[p] = "done"
  <2>1. Visited(p)' = Index(p)
    BY <1>3, <1>6, <1>9
  <2>2. Visited(p)' = Visited(p) \cup {it}
    BY <2>1, <1>4, <1>6, <1>9
  <2>3. Position(p)'
    BY <1>5, <1>6, <1>9
  <2> QED
    BY <2>1, <2>2, <2>3, <1>2 DEF it
<1> QED
  BY <1>7, <1>8, <1>9, WalkFacts DEF it, s

LEMMA WalkInv ==
  ASSUME RingInv, NEW p \in Process, Walk(p)
  PROVE  RingInv'
<1> DEFINE it == iterator[p]
           n == ring[p][it]
<1>1. /\ TypeOK /\ Built(p) /\ Position(p) /\ pc[p] = "walk"
      /\ it \in Index(p) /\ left[p] \in Nat \ {0}
      /\ Len(nodes[p]) + left[p] = wanted[p]
      /\ Distinct(p) /\ NearestFirst(p) /\ VisitedTaken(p) /\ TakenVisited(p)
      /\ UNCHANGED <<file, junk, ring, key, wanted>>
      /\ pc'[p] \in {"walk", "done"}
      /\ nodes[p] \in Seq(VirtualNode) /\ wanted[p] # 0
  <2>1. TypeOK /\ SearchInv(p) /\ pc[p] = "walk" /\ left[p] \in Nat \ {0}
    BY WalkFacts
  <2>2. /\ Built(p) /\ Position(p) /\ Len(nodes[p]) + left[p] = wanted[p]
        /\ Distinct(p) /\ NearestFirst(p) /\ VisitedTaken(p) /\ TakenVisited(p)
    BY <2>1 DEF SearchInv, Walked
  <2>3. nodes[p] \in Seq(VirtualNode)
    BY <2>1 DEF TypeOK
  <2>4. Len(nodes[p]) \in Nat
    BY <2>3
  <2>5. wanted[p] # 0
    BY <2>1, <2>2, <2>4
  <2>6. pc'[p] \in {"walk", "done"}
    BY WalkFacts
  <2>7. UNCHANGED <<file, junk, ring, key, wanted>>
    BY WalkFacts
  <2> QED
    BY <2>1, <2>2, <2>3, <2>5, <2>6, <2>7 DEF Position
<1>2. /\ Index(p)' = Index(p) /\ size(p)' = size(p)
      /\ \A x, y : Nearer(p, x, y)' = Nearer(p, x, y)
  BY <1>1, SameArgs
<1>3. Visited(p)' = Visited(p) \cup {it} /\ Position(p)'
  BY WalkVisits
<1>4. /\ DOMAIN nodes[p] = 1 .. Len(nodes[p]) /\ Len(nodes[p]) \in Nat
      /\ n \in VirtualNode
  BY <1>1, RingFacts
<1>5. Contains(nodes[p], n) <=> n.addr \in Addresses(p)
  BY DEF Contains, Addresses
<1>6. /\ Len(nodes'[p]) + left'[p] = wanted'[p]
      /\ Distinct(p)' /\ NearestFirst(p)' /\ VisitedTaken(p)' /\ TakenVisited(p)'
  <2>1. CASE Contains(nodes[p], n)
    <3>1. nodes'[p] = nodes[p] /\ left'[p] = left[p]
      BY <2>1, WalkFacts
    <3>2. Addresses(p)' = Addresses(p) /\ Distinct(p)'
      BY <3>1, <1>1 DEF Addresses, Distinct
    <3>3. NearestFirst(p)'
      BY <3>1, <1>1, <1>2 DEF NearestFirst
    <3>4. VisitedTaken(p)'
      BY <3>2, <2>1, <1>1, <1>3, <1>5 DEF VisitedTaken
    <3>5. TakenVisited(p)'
      BY <3>2, <1>1, <1>3 DEF TakenVisited
    <3> QED
      BY <3>1, <3>2, <3>3, <3>4, <3>5, <1>1
  <2>2. CASE ~Contains(nodes[p], n)
    <3> DEFINE len == Len(nodes[p])
    <3>1. nodes'[p] = Append(nodes[p], n) /\ left'[p] = left[p] - 1
      BY <2>2, WalkFacts
    <3>2. /\ DOMAIN nodes'[p] = 1 .. len + 1 /\ Len(nodes'[p]) = len + 1
          /\ \A i \in 1 .. len : nodes'[p][i] = nodes[p][i]
          /\ nodes'[p][len + 1] = n
      BY <3>1, <1>1, <1>4
    <3>3. n.addr \notin Addresses(p)
      BY <2>2, <1>5
    <3>4. \A i \in DOMAIN nodes'[p] : i \in DOMAIN nodes[p] \/ i = len + 1
      BY <3>2, <1>4
    <3>5. Addresses(p)' = Addresses(p) \cup {n.addr}
      <4>1. \A i \in DOMAIN nodes[p] : i \in DOMAIN nodes'[p] /\ nodes'[p][i] = nodes[p][i]
        BY <3>2, <1>4
      <4>2. len + 1 \in DOMAIN nodes'[p]
        BY <3>2, <1>4
      <4> QED
        BY <4>1, <4>2, <3>2, <3>4, <1>4 DEF Addresses
    <3>6. Len(nodes'[p]) + left'[p] = wanted'[p]
      <4>1. left[p] \in Nat /\ len \in Nat /\ wanted'[p] = wanted[p]
        BY <1>1, <1>4
      <4>2. (len + 1) + (left[p] - 1) = len + left[p]
        BY <4>1
      <4> QED
        BY <4>1, <4>2, <3>1, <3>2, <1>1
    <3>7. \A i \in DOMAIN nodes[p] : nodes[p][i].addr \in Addresses(p)
      BY DEF Addresses
    <3>8. Distinct(p)'
      <4> SUFFICES ASSUME NEW i \in DOMAIN nodes'[p], NEW j \in DOMAIN nodes'[p],
                          nodes'[p][i].addr = nodes'[p][j].addr
                   PROVE  i = j
        BY DEF Distinct
      <4>1. CASE i \in DOMAIN nodes[p] /\ j \in DOMAIN nodes[p]
        BY <4>1, <3>2, <1>1, <1>4 DEF Distinct
      <4>2. CASE i = len + 1 /\ j \in DOMAIN nodes[p]
        BY <4>2, <3>2, <3>3, <3>7, <1>4
      <4>3. CASE j = len + 1 /\ i \in DOMAIN nodes[p]
        BY <4>3, <3>2, <3>3, <3>7, <1>4
      <4> QED
        BY <4>1, <4>2, <4>3, <3>4
    <3>9. it \in Index(p) \ Visited(p)
      BY <3>3, <1>1 DEF VisitedTaken
    (* Every server taken before is nearer than the new one. *)
    <3>10. ASSUME NEW s \in Addresses(p) PROVE Nearer(p, s, n.addr)
      <4>1. PICK i \in Visited(p) : ring[p][i].addr = s
        BY <1>1 DEF TakenVisited
      <4>2. i \in Index(p)
        BY DEF Visited
      <4>3. \A j \in Index(p) : ring[p][j].addr = n.addr => j \notin Visited(p)
        BY <3>3, <1>1 DEF VisitedTaken
      <4>4. \A j \in Index(p) \ Visited(p) : Distance(p, i) < Distance(p, j)
        BY <1>1, VisitedNearer
      <4> QED
        BY <4>1, <4>2, <4>3, <4>4 DEF Nearer
    <3>11. NearestFirst(p)'
      <4> SUFFICES ASSUME NEW i \in DOMAIN nodes'[p], NEW j \in DOMAIN nodes'[p], i < j
                   PROVE  Nearer(p, nodes'[p][i].addr, nodes'[p][j].addr)
        BY <1>2 DEF NearestFirst
      <4>1. i \in 1 .. len
        BY <3>2, <1>4
      <4>2. nodes'[p][i] = nodes[p][i] /\ nodes[p][i].addr \in Addresses(p)
        BY <4>1, <3>2, <3>7, <1>4
      <4>3. CASE j \in DOMAIN nodes[p]
        BY <4>1, <4>3, <3>2, <1>1, <1>4 DEF NearestFirst
      <4>4. CASE j = len + 1
        BY <4>2, <4>4, <3>2, <3>10
      <4> QED
        BY <4>3, <4>4, <3>4
    <3>12. VisitedTaken(p)'
      BY <3>5, <1>1, <1>3 DEF VisitedTaken
    <3>13. TakenVisited(p)'
      BY <3>5, <1>1, <1>3 DEF TakenVisited
    <3> QED
      BY <3>6, <3>8, <3>11, <3>12, <3>13
  <2> QED
    BY <2>1, <2>2
<1>7. SearchInv(p)'
  <2>1. Built(p)'
    BY <1>1, <1>2 DEF Built
  <2>2. Placing(p)' /\ Placed(p)'
    BY <1>1 DEF Placing, Placed
  <2>3. Walked(p)'
    BY <1>3, <1>6, WalkVisits DEF Walked
  <2>4. NothingWanted(p)'
    BY <1>1 DEF NothingWanted
  <2> QED
    BY <2>1, <2>2, <2>3, <2>4 DEF SearchInv
<1> QED
  BY <1>7, WalkFacts, LocalStep

-----------------------------------------------------------------------------
LEMMA StutterInv == RingInv /\ UNCHANGED vars => RingInv'
<1> SUFFICES ASSUME RingInv, UNCHANGED vars PROVE RingInv'
  OBVIOUS
<1>1. UNCHANGED <<file, junk, ring, key, wanted, pc, iterator, left, looped, nodes>>
  BY DEF vars, args, locals
<1>2. \A p \in Process : Untouched(p)
  BY <1>1 DEF Untouched
<1>3. \A q \in Process : size(q)' = size(q)
  BY <1>1 DEF size
<1>4. TypeOK'
  BY <1>1, <1>3 DEF RingInv, TypeOK
<1> QED
  BY <1>2, <1>4, UntouchedInv DEF RingInv

LEMMA NextInv == RingInv /\ [Next]_vars => RingInv'
<1> SUFFICES ASSUME RingInv, [Next]_vars PROVE RingInv'
  OBVIOUS
<1>1. ASSUME NEW p \in Process, RingInit(p) PROVE RingInv'
  BY <1>1, RingInitInv
<1>2. ASSUME NEW p \in Process, Ask(p) PROVE RingInv'
  BY <1>2, AskInv
<1>3. ASSUME NEW p \in Process, Lookup(p) PROVE RingInv'
  BY <1>3, PlaceInv, FirstInv, WalkInv, WalkEndsInv DEF Lookup
<1>4. CASE UNCHANGED vars
  BY <1>4, StutterInv
<1> QED
  BY <1>1, <1>2, <1>3, <1>4 DEF Next

THEOREM RingInvariant == Spec => []RingInv
<1>1. Init => RingInv
  BY InitInv
<1>2. RingInv /\ [Next]_vars => RingInv'
  BY NextInv
<1> QED
  BY <1>1, <1>2, PTL DEF Spec

(***************************************************************************)
(* The variables of a search keep their types; left, which is unsigned in  *)
(* the code, never passes below zero (ring.c:65, 73).                      *)
(***************************************************************************)
THEOREM SearchTypes == Spec => []TypeOK
<1>1. RingInv => TypeOK
  BY DEF RingInv
<1> QED
  BY <1>1, RingInvariant, PTL

(* The array of nodes is only read inside its bounds (ring.c:52, 62, 70).  *)
THEOREM ReadsInsideTheRing == Spec => []IteratorInRange
<1>1. RingInv => IteratorInRange
  BY DEF RingInv, SearchInv, Placing, Placed, Walked, Position, IteratorInRange
<1> QED
  BY <1>1, RingInvariant, PTL

(***************************************************************************)
(* A search returns distinct servers, as many as are wanted or all of the  *)
(* file, whatever the digests and however often a server has virtual nodes *)
(* (ring.c:69-84).                                                         *)
(***************************************************************************)
THEOREM SearchReturnsEnough == Spec => []EnoughDistinctServers
<1>1. RingInv => EnoughDistinctServers
  <2> SUFFICES ASSUME RingInv, NEW p \in Process, pc[p] = "done"
               PROVE  /\ Distinct(p)
                      /\ \/ Len(nodes[p]) = wanted[p]
                         \/ Len(nodes[p]) < wanted[p] /\ Addresses(p) = file[p]
    BY DEF EnoughDistinctServers, Distinct
  <2>1. /\ TypeOK /\ Built(p) /\ Walked(p) /\ NothingWanted(p)
        /\ left[p] \in Nat /\ wanted[p] \in Nat /\ nodes[p] \in Seq(VirtualNode)
    BY RingAssumption DEF RingInv, SearchInv, TypeOK
  <2>2. CASE wanted[p] = 0
    <3>1. nodes[p] = <<>>
      BY <2>1, <2>2 DEF NothingWanted
    <3> QED
      BY <3>1, <2>2 DEF Distinct
  <2>3. CASE wanted[p] # 0
    <3>1. /\ Distinct(p) /\ VisitedTaken(p) /\ TakenVisited(p)
          /\ Len(nodes[p]) + left[p] = wanted[p]
          /\ left[p] = 0 \/ Visited(p) = Index(p)
      BY <2>1, <2>3 DEF Walked
    <3>2. Len(nodes[p]) \in Nat
      BY <2>1
    <3>3. CASE left[p] = 0
      BY <3>1, <3>2, <3>3
    <3>4. CASE left[p] # 0
      <4>1. Len(nodes[p]) < wanted[p]
        BY <2>1, <3>1, <3>2, <3>4
      <4>2. file[p] \in Files /\ \A i \in Index(p) : ring[p][i].addr \in file[p]
        BY <2>1, RingFacts
      <4>3. Addresses(p) \subseteq file[p]
        BY <3>1, <4>2 DEF TakenVisited, Visited
      <4>4. file[p] \subseteq Addresses(p)
        <5> SUFFICES ASSUME NEW s \in file[p] PROVE s \in Addresses(p)
          OBVIOUS
        <5>1. PICK n \in NodesOf(file[p]) : n.addr = s
          BY <4>2, ServerHasNode
        <5>2. PICK i \in Index(p) : ring[p][i] = n
          BY <2>1 DEF Built
        <5> QED
          BY <5>1, <5>2, <3>1, <3>4 DEF VisitedTaken
      <4> QED
        BY <3>1, <4>1, <4>3, <4>4
    <3> QED
      BY <3>3, <3>4
  <2> QED
    BY <2>2, <2>3
<1> QED
  BY <1>1, RingInvariant, PTL

(***************************************************************************)
(* They are the servers that follow the key's place in the ring, nearest   *)
(* first, and every server left out is further (ring.c:51-82).             *)
(***************************************************************************)
THEOREM SearchReturnsNearest == Spec => []NearestServers
<1>1. RingInv => NearestServers
  <2> SUFFICES ASSUME RingInv, NEW p \in Process, pc[p] = "done"
               PROVE  /\ NearestFirst(p)
                      /\ \A i \in DOMAIN nodes[p] : \A s \in file[p] \ Addresses(p) :
                           Nearer(p, nodes[p][i].addr, s)
    BY DEF NearestServers, NearestFirst
  <2>1. TypeOK /\ Built(p) /\ Walked(p) /\ NothingWanted(p)
    BY DEF RingInv, SearchInv
  <2>2. CASE wanted[p] = 0
    <3>1. DOMAIN nodes[p] = {}
      BY <2>1, <2>2 DEF NothingWanted
    <3> QED
      BY <3>1 DEF NearestFirst
  <2>3. CASE wanted[p] # 0
    <3>1. Position(p) /\ NearestFirst(p) /\ VisitedTaken(p) /\ TakenVisited(p)
      BY <2>1, <2>3 DEF Walked
    <3>2. ASSUME NEW m \in DOMAIN nodes[p], NEW s \in file[p] \ Addresses(p)
          PROVE  Nearer(p, nodes[p][m].addr, s)
      <4>1. PICK i \in Visited(p) : ring[p][i].addr = nodes[p][m].addr
        BY <3>1 DEF TakenVisited, Addresses
      <4>2. i \in Index(p)
        BY DEF Visited
      <4>3. \A j \in Index(p) : ring[p][j].addr = s => j \notin Visited(p)
        BY <3>1 DEF VisitedTaken
      <4>4. \A j \in Index(p) \ Visited(p) : Distance(p, i) < Distance(p, j)
        BY <2>1, <3>1, VisitedNearer
      <4> QED
        BY <4>1, <4>2, <4>3, <4>4 DEF Nearer
    <3> QED
      BY <3>1, <3>2
  <2> QED
    BY <2>2, <2>3
<1> QED
  BY <1>1, RingInvariant, PTL


-----------------------------------------------------------------------------
(* Rings of files that differ in one server. *)

(* The least number of a set.  The library's induction theorems take an    *)
(* operator; that strict inclusion is well founded on finite sets needs none. *)
LEMMA LeastNatural ==
  ASSUME NEW T \in SUBSET Nat, T # {}
  PROVE  \E m \in T : \A k \in T : m <= k
<1> DEFINE F == {0 .. n : n \in T}
           R == StrictSubsetOrdering(Nat)
           S == FiniteSubsetsOf(Nat)
<1>1. \A n \in T : IsFiniteSet(0 .. n)
  <2> SUFFICES ASSUME NEW n \in T PROVE IsFiniteSet(0 .. n)
    OBVIOUS
  <2>1. 0 \in Int /\ n \in Int
    OBVIOUS
  <2> QED
    BY <2>1, FS_Interval
<1>2. F \subseteq S /\ F # {}
  <2>1. \A n \in T : 0 .. n \in SUBSET Nat
    OBVIOUS
  <2>2. \A n \in T : 0 .. n \in S
    BY <2>1, <1>1 DEF FiniteSubsetsOf
  <2> HIDE DEF S
  <2> QED
    BY <2>2
<1>3. IsWellFoundedOn(R, S)
  BY FS_StrictSubsetOrderingWellFounded
<1>4. \E x \in F : \A y \in F : ~(<<y, x>> \in R)
  <2> HIDE DEF R, S, F
  <2> QED
    BY <1>2, <1>3, WFMin
<1>5. PICK m \in T : \A n \in T : ~(<<0 .. n, 0 .. m>> \in R)
  BY <1>4
<1>6. ASSUME NEW k \in T, k < m PROVE FALSE
  <2>1. 0 .. k \subseteq 0 .. m /\ m \in 0 .. m /\ m \notin 0 .. k
    BY <1>6
  <2>2. 0 .. k # 0 .. m
    BY <2>1
  <2>3. 0 .. k \in SUBSET Nat /\ 0 .. m \in SUBSET Nat
    OBVIOUS
  <2>4. <<0 .. k, 0 .. m>> \in R
    BY <2>1, <2>2, <2>3, <1>1 DEF StrictSubsetOrdering
  <2> QED
    BY <2>4, <1>5
<1> QED
  BY <1>6

Sorted(p)   == pc[p] # "start" => ring[p] \in SortedRings(file[p], junk[p])
RingsSorted == \A p \in Process : Sorted(p)

LEMMA SortedStep == RingInv /\ RingsSorted /\ [Next]_vars => RingsSorted'
<1> SUFFICES ASSUME RingInv, RingsSorted, [Next]_vars PROVE RingsSorted'
  OBVIOUS
<1>1. TypeOK
  BY DEF RingInv
<1>2. ASSUME NEW p \in Process, RingInit(p) PROVE RingsSorted'
  <2>1. PICK f \in Files :
          /\ file' = [file EXCEPT ![p] = f]
          /\ \E r \in SortedRings(f, junk[p]) : ring' = [ring EXCEPT ![p] = r]
    BY <1>2 DEF RingInit
  <2>2. PICK r \in SortedRings(f, junk[p]) : ring' = [ring EXCEPT ![p] = r]
    BY <2>1
  <2>3. junk' = junk /\ pc' = [pc EXCEPT ![p] = "idle"]
    BY <1>2 DEF RingInit
  <2>4. /\ ring'[p] = r /\ file'[p] = f
        /\ \A q \in Process \ {p} : ring'[q] = ring[q] /\ file'[q] = file[q] /\ pc'[q] = pc[q]
    BY <1>1, <2>1, <2>2, <2>3 DEF TypeOK
  <2>5. ASSUME NEW q \in Process, pc'[q] # "start"
        PROVE  ring'[q] \in SortedRings(file'[q], junk'[q])
    <3>1. CASE q = p
      BY <3>1, <2>2, <2>3, <2>4
    <3>2. CASE q # p
      BY <3>2, <2>3, <2>4, <2>5 DEF RingsSorted, Sorted
    <3> QED
      BY <3>1, <3>2
  <2> QED
    BY <2>5 DEF RingsSorted, Sorted
<1>3. ASSUME UNCHANGED args, \A q \in Process : pc'[q] # "start" => pc[q] # "start"
      PROVE  RingsSorted'
  BY <1>3 DEF RingsSorted, Sorted, args
<1>4. ASSUME NEW p \in Process, Ask(p) \/ Lookup(p) PROVE RingsSorted'
  <2>1. pc[p] # "start" /\ UNCHANGED args
    BY <1>4 DEF Ask, Lookup, Place, First, Walk, WalkEnds
  <2>2. \A q \in Process \ {p} : pc'[q] = pc[q]
    BY <1>1, <1>4 DEF TypeOK, Ask, Lookup, Place, First, Walk, Advance, WalkEnds
  <2> QED
    BY <2>1, <2>2, <1>3
<1>5. CASE UNCHANGED vars
  BY <1>5, <1>3 DEF vars
<1> QED
  BY <1>2, <1>4, <1>5 DEF Next

THEOREM RingsStaySorted == Spec => [](RingInv /\ RingsSorted)
<1>1. Init => RingsSorted
  BY DEF Init, RingsSorted, Sorted
<1> QED
  BY <1>1, InitInv, NextInv, SortedStep, PTL DEF Spec

(* A process that has a sorted ring without ties. *)
Ready(p) ==
  /\ TypeOK /\ Built(p) /\ Sorted(p)
  /\ pc[p] # "start" /\ NoTies(p)

LEMMA IndexOrder ==
  ASSUME NEW p \in Process, Ready(p), NEW i \in Index(p), NEW j \in Index(p)
  PROVE  i < j <=> sha(p, i) < sha(p, j)
<1>1. /\ Index(p) = 0 .. size(p) - 1 /\ size(p) \in Nat
      /\ \A a \in Index(p) : sha(p, a) \in Nat
  BY RingFacts DEF Ready
<1>2. ring[p] \in SortedRings(file[p], junk[p])
  BY DEF Ready, Sorted
<1>3. /\ \A a \in Index(p) : ring[p][a] \in NodesOf(file[p])
      /\ \A a, b \in Index(p) : ring[p][a] = ring[p][b] => a = b
      /\ \A a, b \in Index(p) : a < b => sha(p, a) <= sha(p, b)
  BY <1>2 DEF SortedRings, Index, sha
<1>4. \A a, b \in Index(p) : sha(p, a) = sha(p, b) => a = b
  BY <1>3 DEF Ready, NoTies, sha
<1> QED
  BY <1>1, <1>3, <1>4

(* KeyPlace divides the nodes that are below the key from the others. *)
LEMMA KeyPlaceSplits ==
  ASSUME NEW p \in Process, Ready(p)
  PROVE  /\ KeyPlace(p) \in Index(p)
         /\ \/ /\ KeyPlace(p) = 0
               /\ \A i \in Index(p) : sha(p, i) < KeySha[key[p]]
            \/ \A i \in Index(p) : i >= KeyPlace(p) <=> sha(p, i) >= KeySha[key[p]]
<1> DEFINE above == {i \in Index(p) : sha(p, i) >= KeySha[key[p]]}
<1>1. /\ Index(p) = 0 .. size(p) - 1 /\ size(p) \in Nat \ {0}
      /\ KeySha[key[p]] \in Nat
      /\ \A i \in Index(p) : sha(p, i) \in Nat
  BY RingFacts DEF Ready
<1>2. CASE above = {}
  <2>1. KeyPlace(p) = 0
    BY <1>2 DEF KeyPlace
  <2> QED
    BY <1>1, <1>2, <2>1
<1>3. CASE above # {}
  <2>1. above \in SUBSET Nat
    BY <1>1
  <2>2. \E m \in above : \A k \in above : m <= k
    <3> HIDE DEF above
    <3> QED
      BY <1>3, <2>1, LeastNatural
  <2>3. KeyPlace(p) = CHOOSE i \in above : \A j \in above : i <= j
    BY <1>3 DEF KeyPlace
  <2>4. KeyPlace(p) \in above /\ \A k \in above : KeyPlace(p) <= k
    <3> HIDE DEF above
    <3> QED
      BY <2>2, <2>3
  <2>5. ASSUME NEW i \in Index(p)
        PROVE  i >= KeyPlace(p) <=> sha(p, i) >= KeySha[key[p]]
    <3> DEFINE k == KeyPlace(p)
    <3>1. k \in Index(p) /\ sha(p, k) >= KeySha[key[p]]
      BY <2>4
    <3>2. sha(p, i) >= KeySha[key[p]] => k <= i
      BY <2>4
    <3>3. k < i => sha(p, k) < sha(p, i)
      BY <3>1, IndexOrder
    <3>4. k = i => sha(p, i) = sha(p, k)
      OBVIOUS
    <3>5. /\ i \in Nat /\ k \in Nat /\ sha(p, i) \in Nat /\ sha(p, k) \in Nat
          /\ KeySha[key[p]] \in Nat
      BY <1>1, <3>1
    <3> HIDE DEF k
    <3>6. i >= k => sha(p, i) >= KeySha[key[p]]
      BY <3>1, <3>3, <3>4, <3>5
    <3>7. k <= i => i >= k
      BY <3>5
    <3> QED
      BY <3>2, <3>6, <3>7 DEF k
  <2> QED
    BY <2>4, <2>5
<1> QED
  BY <1>2, <1>3

(* The order of digests from the key's on, round the ring. *)
Clockwise(d, e, k) == \/ d >= k /\ (e >= k => d < e)
                      \/ d < k /\ e < k /\ d < e

LEMMA DistanceOrder ==
  ASSUME NEW p \in Process, Ready(p), NEW i \in Index(p), NEW j \in Index(p)
  PROVE  Distance(p, i) < Distance(p, j)
           <=> Clockwise(sha(p, i), sha(p, j), KeySha[key[p]])
<1>1. /\ Index(p) = 0 .. size(p) - 1 /\ size(p) \in Nat
      /\ KeySha[key[p]] \in Nat /\ sha(p, i) \in Nat /\ sha(p, j) \in Nat
  BY RingFacts DEF Ready
<1>2. i < j <=> sha(p, i) < sha(p, j)
  BY IndexOrder
<1>3. PICK kp : kp = KeyPlace(p)
  OBVIOUS
<1>4. PICK k : k = KeySha[key[p]]
  OBVIOUS
<1>5. PICK d : d = sha(p, i)
  OBVIOUS
<1>6. PICK e : e = sha(p, j)
  OBVIOUS
<1>7. /\ i \in Nat /\ j \in Nat /\ kp \in Nat /\ k \in Nat /\ d \in Nat /\ e \in Nat
      /\ i < size(p) /\ j < size(p) /\ size(p) \in Nat
      /\ i < j <=> d < e
      /\ \/ kp = 0 /\ d < k /\ e < k
         \/ (i >= kp <=> d >= k) /\ (j >= kp <=> e >= k)
  BY <1>1, <1>2, <1>3, <1>4, <1>5, <1>6, KeyPlaceSplits
<1>8. /\ Distance(p, i) = IF i >= kp THEN i - kp ELSE size(p) - kp + i
      /\ Distance(p, j) = IF j >= kp THEN j - kp ELSE size(p) - kp + j
  BY <1>3 DEF Distance
<1>9. Distance(p, i) < Distance(p, j) <=> Clockwise(d, e, k)
  BY <1>7, <1>8 DEF Clockwise
<1> QED
  BY <1>4, <1>5, <1>6, <1>9

(* Nearer, as the nodes of the file and their digests have it. *)
NearerIn(f, j, k, s, t) ==
  \E n \in NodesOf(f) :
    /\ n.addr = s
    /\ \A m \in NodesOf(f) : m.addr = t => Clockwise(Digest(n, j), Digest(m, j), k)

LEMMA NearerNodes ==
  ASSUME NEW p \in Process, Ready(p), NEW s, NEW t
  PROVE  Nearer(p, s, t) <=> NearerIn(file[p], junk[p], KeySha[key[p]], s, t)
<1> DEFINE f == file[p]
           g == junk[p]
           k == KeySha[key[p]]
<1>1. /\ \A i \in Index(p) : ring[p][i] \in NodesOf(f) /\ sha(p, i) = Digest(ring[p][i], g)
      /\ \A n \in NodesOf(f) : \E i \in Index(p) : ring[p][i] = n
  <2>1. ring[p] \in SortedRings(f, g)
    BY DEF Ready, Sorted
  <2> QED
    BY <2>1 DEF SortedRings, Index, sha, Ready, Built
<1>2. \A i, j \in Index(p) :
        Distance(p, i) < Distance(p, j)
          <=> Clockwise(Digest(ring[p][i], g), Digest(ring[p][j], g), k)
  BY <1>1, DistanceOrder
<1>3. ASSUME Nearer(p, s, t) PROVE NearerIn(f, g, k, s, t)
  <2>1. PICK i \in Index(p) :
          /\ ring[p][i].addr = s
          /\ \A j \in Index(p) : ring[p][j].addr = t => Distance(p, i) < Distance(p, j)
    BY <1>3 DEF Nearer
  <2>2. ASSUME NEW m \in NodesOf(f), m.addr = t
        PROVE  Clockwise(Digest(ring[p][i], g), Digest(m, g), k)
    <3>1. PICK j \in Index(p) : ring[p][j] = m
      BY <1>1
    <3>2. Distance(p, i) < Distance(p, j)
      BY <2>1, <2>2, <3>1
    <3>3. Clockwise(Digest(ring[p][i], g), Digest(ring[p][j], g), k)
      BY <1>2, <3>2, Zenon
    <3> QED
      BY <3>1, <3>3, Zenon
  <2>3. ring[p][i] \in NodesOf(f)
    BY <1>1
  <2> QED
    BY <2>1, <2>2, <2>3 DEF NearerIn
<1>4. ASSUME NearerIn(f, g, k, s, t) PROVE Nearer(p, s, t)
  <2>1. PICK n \in NodesOf(f) :
          /\ n.addr = s
          /\ \A m \in NodesOf(f) : m.addr = t => Clockwise(Digest(n, g), Digest(m, g), k)
    BY <1>4 DEF NearerIn
  <2>2. PICK i \in Index(p) : ring[p][i] = n
    BY <1>1
  <2>3. ASSUME NEW j \in Index(p), ring[p][j].addr = t
        PROVE  Distance(p, i) < Distance(p, j)
    <3>1. Clockwise(Digest(n, g), Digest(ring[p][j], g), k)
      BY <1>1, <2>1, <2>3
    <3>2. Clockwise(Digest(ring[p][i], g), Digest(ring[p][j], g), k)
      BY <2>2, <3>1, Zenon
    <3> QED
      BY <1>2, <3>2, Zenon
  <2> QED
    BY <2>1, <2>2, <2>3 DEF Nearer
<1> QED
  BY <1>3, <1>4

(* The nodes of a server are the same in every file that has the server. *)
LEMMA NodesOfServer ==
  ASSUME NEW f, NEW h, h \subseteq f, f \in Files, h \in Files
  PROVE  \A n : n \in NodesOf(h) <=> n \in NodesOf(f) /\ n.addr \in h
<1>1. h \subseteq Server /\ f \subseteq Server
  BY RingAssumption
<1>2. \A s \in Server : Copies[s] \in Nat \ {0}
  BY RingAssumption
<1>3. ASSUME NEW n \in NodesOf(h) PROVE n \in NodesOf(f) /\ n.addr \in h
  BY <1>1 DEF NodesOf
<1>4. ASSUME NEW n \in NodesOf(f), n.addr \in h PROVE n \in NodesOf(h)
  <2>1. /\ n = [addr |-> n.addr, id |-> n.id] /\ n.addr \in f /\ n.id <= Copies[n.addr]
        /\ \E s \in f : n.id \in 1 .. Copies[s]
    BY DEF NodesOf
  <2>2. n.id \in 1 .. Copies[n.addr]
    BY <1>1, <1>2, <1>4, <2>1
  <2> QED
    BY <1>4, <2>1, <2>2 DEF NodesOf
<1> QED
  BY <1>3, <1>4

(* So other servers that come or go do not change which of two is nearer. *)
LEMMA NearerStays ==
  ASSUME NEW p \in Process, NEW q \in Process, Ready(p), Ready(q),
         key[p] = key[q], junk[p] = junk[q], file[q] \subseteq file[p],
         NEW s \in file[q], NEW t \in file[q]
  PROVE  Nearer(p, s, t) <=> Nearer(q, s, t)
<1>1. file[p] \in Files /\ file[q] \in Files
  BY RingFacts DEF Ready
<1>2. \A n : n \in NodesOf(file[q]) <=> n \in NodesOf(file[p]) /\ n.addr \in file[q]
  BY <1>1, NodesOfServer
<1>3. NearerIn(file[p], junk[p], KeySha[key[p]], s, t)
        <=> NearerIn(file[q], junk[p], KeySha[key[p]], s, t)
  BY <1>2 DEF NearerIn
<1> QED
  BY <1>3, NearerNodes

LEMMA NotBothNearer ==
  ASSUME NEW p \in Process, Ready(p), NEW s, NEW t, Nearer(p, s, t)
  PROVE  ~Nearer(p, t, s)
<1> SUFFICES ASSUME Nearer(p, t, s) PROVE FALSE
  OBVIOUS
<1>1. PICK i \in Index(p) :
        /\ ring[p][i].addr = s
        /\ \A j \in Index(p) : ring[p][j].addr = t => Distance(p, i) < Distance(p, j)
  BY DEF Nearer
<1>2. PICK j \in Index(p) :
        /\ ring[p][j].addr = t
        /\ \A n \in Index(p) : ring[p][n].addr = s => Distance(p, j) < Distance(p, n)
  BY DEF Nearer
<1>3. Distance(p, i) < Distance(p, j) /\ Distance(p, j) < Distance(p, i)
  BY <1>1, <1>2
<1>4. Distance(p, i) \in Int /\ Distance(p, j) \in Int
  <2>1. /\ Index(p) = 0 .. size(p) - 1 /\ size(p) \in Nat
        /\ KeyPlace(p) \in Index(p)
    BY RingFacts, KeyPlaceSplits DEF Ready
  <2> QED
    BY <2>1 DEF Distance
<1> QED
  BY <1>3, <1>4

(***************************************************************************)
(* The place of a server among those of F that a search has found is the   *)
(* number of servers of F up to it.                                        *)
(***************************************************************************)
LEMMA PlaceInList ==
  ASSUME NEW p \in Process, Ready(p), pc[p] = "done",
         EnoughDistinctServers, NearestServers,
         NEW F \in SUBSET file[p], NEW i \in DOMAIN nodes[p], nodes[p][i].addr \in F
  PROVE  LET upTo  == {t \in F : t = nodes[p][i].addr \/ Nearer(p, t, nodes[p][i].addr)}
             found == {j \in 1 .. i : nodes[p][j].addr \in F}
         IN  /\ IsFiniteSet(found) /\ IsFiniteSet(upTo)
             /\ Cardinality(found) = Cardinality(upTo)
             /\ Cardinality(found) \in Nat /\ Cardinality(found) <= i
<1> DEFINE s     == nodes[p][i].addr
           upTo  == {t \in F : t = s \/ Nearer(p, t, s)}
           found == {j \in 1 .. i : nodes[p][j].addr \in F}
           g     == [j \in found |-> nodes[p][j].addr]
<1>1. DOMAIN nodes[p] = 1 .. Len(nodes[p]) /\ Len(nodes[p]) \in Nat
  BY DEF Ready, TypeOK
<1>2. /\ \A j, m \in DOMAIN nodes[p] : nodes[p][j].addr = nodes[p][m].addr => j = m
      /\ \A j, m \in DOMAIN nodes[p] :
           j < m => Nearer(p, nodes[p][j].addr, nodes[p][m].addr)
      /\ \A j \in DOMAIN nodes[p] : \A t \in file[p] \ Addresses(p) :
           Nearer(p, nodes[p][j].addr, t)
  BY DEF EnoughDistinctServers, NearestServers
<1>3. \A j \in 1 .. i : j \in DOMAIN nodes[p]
  BY <1>1
<1>4. IsFiniteSet(found) /\ Cardinality(found) \in Nat /\ Cardinality(found) <= i
  <2>1. 1 \in Int /\ i \in Int /\ i >= 1
    BY <1>1
  <2>2. IsFiniteSet(1 .. i) /\ Cardinality(1 .. i) = IF 1 > i THEN 0 ELSE i - 1 + 1
    BY <2>1, FS_Interval
  <2>3. Cardinality(1 .. i) = i
    BY <2>1, <2>2
  <2>4. found \in SUBSET (1 .. i)
    OBVIOUS
  <2> HIDE DEF found
  <2> QED
    BY <2>2, <2>3, <2>4, FS_Subset, FS_CardinalityType
<1>5. \A j \in found : g[j] \in upTo
  <2> SUFFICES ASSUME NEW j \in found PROVE nodes[p][j].addr \in upTo
    OBVIOUS
  <2>1. j = i \/ j < i
    BY <1>1
  <2> QED
    BY <2>1, <1>2, <1>3
<1>6. ASSUME NEW t \in upTo PROVE \E j \in found : g[j] = t
  <2>1. t \in file[p] /\ t \in F
    OBVIOUS
  <2>2. CASE t = s
    <3>1. i \in found
      BY <1>1
    <3> QED
      BY <2>2, <3>1
  <2>3. CASE t # s
    <3>1. ~Nearer(p, s, t)
      BY <2>3, NotBothNearer
    <3>2. t \in Addresses(p)
      BY <2>1, <3>1, <1>2
    <3>3. PICK j \in DOMAIN nodes[p] : nodes[p][j].addr = t
      BY <3>2 DEF Addresses
    <3>4. ~(i < j)
      BY <3>1, <3>3, <1>2
    <3>5. j \in found
      BY <2>1, <3>3, <3>4, <1>1
    <3> QED
      BY <3>3, <3>5
  <2> QED
    BY <2>2, <2>3
<1>7. g \in Bijection(found, upTo)
  <2>1. \A j, m \in found : g[j] = g[m] => j = m
    BY <1>2, <1>3
  <2>2. g \in [found -> upTo]
    BY <1>5
  <2> HIDE DEF g, found, upTo
  <2> QED
    BY <2>1, <2>2, <1>6 DEF Bijection, Injection, Surjection, IsInjective
<1>8. IsFiniteSet(upTo) /\ Cardinality(found) = Cardinality(upTo)
  <2> HIDE DEF g, found, upTo
  <2>1. ExistsBijection(found, upTo)
    BY <1>7 DEF ExistsBijection
  <2> QED
    BY <2>1, <1>4, FS_Bijection
<1> QED
  BY <1>4, <1>8

(* A search only finds servers of its file. *)
LEMMA FoundInFile ==
  ASSUME RingInv, NEW p \in Process, pc[p] = "done"
  PROVE  \A i \in DOMAIN nodes[p] : nodes[p][i].addr \in file[p]
<1>1. TypeOK /\ Built(p) /\ Walked(p) /\ NothingWanted(p)
  BY DEF RingInv, SearchInv
<1>2. CASE wanted[p] = 0
  BY <1>1, <1>2 DEF NothingWanted
<1>3. CASE wanted[p] # 0
  <2>1. TakenVisited(p)
    BY <1>1, <1>3 DEF Walked
  <2>2. \A i \in Index(p) : ring[p][i].addr \in file[p]
    BY <1>1, RingFacts
  <2> QED
    BY <2>1, <2>2 DEF TakenVisited, Addresses, Visited
<1> QED
  BY <1>2, <1>3

LEMMA RemovalKeeps ==
  ASSUME RingInv, RingsSorted, EnoughDistinctServers, NearestServers,
         NEW p \in Process, NEW q \in Process, NEW gone \in Server,
         SameCall(p, q), junk[p] = junk[q], NoTies(p), file[q] = file[p] \ {gone},
         NEW i \in DOMAIN nodes[p], nodes[p][i].addr # gone
  PROVE  /\ Kept(p, i, gone) \in DOMAIN nodes[q]
         /\ nodes[q][Kept(p, i, gone)].addr = nodes[p][i].addr
<1> DEFINE s     == nodes[p][i].addr
           F     == file[q]
           upTo  == {t \in F : t = s \/ Nearer(q, t, s)}
           c     == Kept(p, i, gone)
<1>1. /\ pc[p] = "done" /\ pc[q] = "done" /\ key[p] = key[q] /\ wanted[p] = wanted[q]
      /\ TypeOK /\ Built(p) /\ Built(q) /\ Sorted(p) /\ Sorted(q)
  BY DEF SameCall, RingInv, SearchInv, RingsSorted
<1>2. Ready(p)
  BY <1>1 DEF Ready
<1>3. Ready(q)
  <2>1. file[p] \in Files /\ file[q] \in Files
    BY <1>1, RingFacts
  <2>2. \A n \in NodesOf(file[q]) : n \in NodesOf(file[p])
    BY <2>1, NodesOfServer
  <2>3. NoTies(q)
    BY <2>2 DEF NoTies
  <2> QED
    BY <1>1, <2>3 DEF Ready
<1>4. /\ \A j \in DOMAIN nodes[p] : nodes[p][j].addr \in file[p]
      /\ \A j \in DOMAIN nodes[q] : nodes[q][j].addr \in F
  BY <1>1, FoundInFile
<1>5. /\ DOMAIN nodes[p] = 1 .. Len(nodes[p]) /\ Len(nodes[p]) \in Nat
      /\ DOMAIN nodes[q] = 1 .. Len(nodes[q]) /\ Len(nodes[q]) \in Nat
      /\ wanted[q] \in Nat
  <2>1. nodes[p] \in Seq(VirtualNode) /\ nodes[q] \in Seq(VirtualNode)
    BY <1>1 DEF TypeOK
  <2>2. wanted[q] \in Nat
    BY <1>1, RingAssumption DEF TypeOK
  <2> QED
    BY <2>1, <2>2
<1>6. s \in F /\ F \in SUBSET file[p]
  BY <1>4
<1>7. c = Cardinality(upTo) /\ IsFiniteSet(upTo) /\ c \in Nat /\ c <= i
  <2> DEFINE found == {j \in 1 .. i : nodes[p][j].addr \in F}
             upToP == {t \in F : t = s \/ Nearer(p, t, s)}
  <2>1. upToP = upTo
    <3>1. \A t \in F : Nearer(p, t, s) <=> Nearer(q, t, s)
      BY <1>1, <1>2, <1>3, <1>6, NearerStays
    <3> QED
      BY <3>1
  <2>2. found = {j \in 1 .. i : nodes[p][j].addr # gone}
    <3>1. \A j \in 1 .. i : nodes[p][j].addr \in file[p]
      BY <1>4, <1>5
    <3> QED
      BY <3>1
  <2>3. /\ IsFiniteSet(upToP) /\ Cardinality(found) = Cardinality(upToP)
        /\ Cardinality(found) \in Nat /\ Cardinality(found) <= i
    BY <1>1, <1>2, <1>6, PlaceInList
  <2>4. c = Cardinality(found)
    BY <2>2 DEF Kept
  <2> HIDE DEF found, upToP, upTo, c
  <2> QED
    BY <2>1, <2>3, <2>4
<1>8. CASE s \in Addresses(q)
  <2>1. PICK m \in DOMAIN nodes[q] : nodes[q][m].addr = s
    BY <1>8 DEF Addresses
  <2> DEFINE found == {j \in 1 .. m : nodes[q][j].addr \in F}
  <2>2. found = 1 .. m
    BY <1>4, <1>5
  <2>3. Cardinality(found) = m
    <3>1. 1 \in Int /\ m \in Int /\ m >= 1
      BY <1>5
    <3>2. Cardinality(1 .. m) = IF 1 > m THEN 0 ELSE m - 1 + 1
      BY <3>1, FS_Interval
    <3>3. Cardinality(1 .. m) = m
      BY <3>1, <3>2
    <3> QED
      BY <2>2, <3>3
  <2>4. Cardinality(found) = Cardinality({t \in F : t = nodes[q][m].addr \/ Nearer(q, t, nodes[q][m].addr)})
    BY <1>1, <1>3, <1>4, PlaceInList
  <2>5. c = m
    BY <2>1, <2>3, <2>4, <1>7
  <2> HIDE DEF c
  <2> QED
    BY <2>1, <2>5 DEF c
(* If q had not found the server, it would have found enough others before. *)
<1>9. CASE s \notin Addresses(q)
  <2>1. /\ \A j, m \in DOMAIN nodes[q] : nodes[q][j].addr = nodes[q][m].addr => j = m
        /\ Len(nodes[q]) = wanted[q]
        /\ Len(nodes[p]) <= wanted[p]
        /\ \A j \in DOMAIN nodes[q] : Nearer(q, nodes[q][j].addr, s)
    <3>1. /\ \A j, m \in DOMAIN nodes[q] : nodes[q][j].addr = nodes[q][m].addr => j = m
          /\ Len(nodes[q]) = wanted[q] \/ Addresses(q) = file[q]
          /\ Len(nodes[p]) = wanted[p] \/ Len(nodes[p]) < wanted[p]
      BY <1>1 DEF EnoughDistinctServers
    <3>2. \A j \in DOMAIN nodes[q] : Nearer(q, nodes[q][j].addr, s)
      BY <1>1, <1>6, <1>9 DEF NearestServers
    <3> QED
      BY <3>1, <3>2, <1>1, <1>5, <1>6, <1>9
  <2> DEFINE G == Addresses(q)
             g == [j \in 1 .. Len(nodes[q]) |-> nodes[q][j].addr]
  <2>2. g \in Bijection(1 .. Len(nodes[q]), G)
    <3>1. g \in [1 .. Len(nodes[q]) -> G]
      BY <1>5 DEF Addresses
    <3>2. \A j, m \in 1 .. Len(nodes[q]) : g[j] = g[m] => j = m
      BY <2>1, <1>5
    <3>3. \A t \in G : \E j \in 1 .. Len(nodes[q]) : g[j] = t
      BY <1>5 DEF Addresses
    <3> HIDE DEF g, G
    <3> QED
      BY <3>1, <3>2, <3>3 DEF Bijection, Injection, Surjection, IsInjective
  <2>3. IsFiniteSet(G) /\ Cardinality(G) = wanted[q]
    <3> HIDE DEF g, G
    <3>1. ExistsBijection(1 .. Len(nodes[q]), G)
      BY <2>2 DEF ExistsBijection
    <3>2. G = G /\ Len(nodes[q]) = wanted[q]
      BY <2>1
    <3> QED
      BY <3>1, <3>2, <1>5, FS_CountingElements, FS_NatBijection
  <2>4. G \cup {s} \subseteq upTo /\ s \notin G
    BY <2>1, <1>4, <1>6, <1>9 DEF Addresses
  <2>5. IsFiniteSet(G \cup {s}) /\ Cardinality(G \cup {s}) = wanted[q] + 1
    <3> HIDE DEF G
    <3>1. /\ IsFiniteSet(G \cup {s})
          /\ Cardinality(G \cup {s}) = IF s \in G THEN Cardinality(G) ELSE Cardinality(G) + 1
      BY <2>3, FS_AddElement
    <3> QED
      BY <2>3, <2>4, <3>1, Zenon
  <2>6. wanted[q] + 1 <= c
    <3> HIDE DEF G, upTo, c, s
    <3> QED
      BY <2>4, <2>5, <1>7, FS_Subset
  <2>7. i <= Len(nodes[p])
    BY <1>5
  <2> HIDE DEF c
  <2> QED
    BY <2>1, <2>6, <2>7, <1>1, <1>5, <1>7
<1> QED
  BY <1>8, <1>9

(***************************************************************************)
(* Consistent hashing: when a server leaves, every search of a process     *)
(* that starts after finds the other servers of the search before, in the  *)
(* same order and without a gap, for every file, digest and key            *)
(* (ring_init, ring_get_nodes_for_key).                                    *)
(***************************************************************************)
THEOREM RemovalMovesLittle == Spec => []RemovalKeepsTheOthers
<1>1. RingInv /\ RingsSorted /\ EnoughDistinctServers /\ NearestServers
        => RemovalKeepsTheOthers
  BY RemovalKeeps DEF RemovalKeepsTheOthers
<1> QED
  BY <1>1, RingsStaySorted, SearchReturnsEnough, SearchReturnsNearest, PTL

-----------------------------------------------------------------------------
(* The end of a search. *)

Searching(p) == pc[p] \in {"place", "first", "walk"}

(* At most size iterations of the first loop, two passes of the second,    *)
(* the node between them and the return.                                   *)
Ahead(p) ==
  CASE pc[p] = "place" -> 3 * size(p) + 2 - iterator[p]
    [] pc[p] = "first" -> 2 * size(p) + 2
    [] pc[p] = "walk"  -> 2 * size(p) + 1 - (iterator[p] + (IF looped[p] = 0 THEN 0 ELSE size(p)))
    [] OTHER           -> 0

LEMMA AheadNat ==
  ASSUME RingInv, NEW p \in Process, Searching(p)
  PROVE  /\ size(p) \in Nat \ {0} /\ iterator[p] \in 0 .. size(p) - 1
         /\ looped[p] \in {0, 1} /\ Ahead(p) \in Nat \ {0}
<1>1. TypeOK /\ Built(p) /\ pc[p] # "start" /\ iterator[p] \in Index(p)
  BY DEF RingInv, SearchInv, Searching, Placing, Placed, Walked, Position
<1>2. /\ size(p) \in Nat \ {0} /\ iterator[p] \in 0 .. size(p) - 1
      /\ looped[p] \in {0, 1}
  BY <1>1, RingFacts DEF TypeOK
<1> QED
  BY <1>2 DEF Searching, Ahead

LEMMA SearchStep ==
  ASSUME RingInv, NEW p \in Process, Lookup(p)
  PROVE  Ahead(p)' \in Nat /\ Ahead(p)' < Ahead(p)
<1>1. Searching(p) /\ UNCHANGED ring
  BY DEF Lookup, Place, First, Walk, WalkEnds, Searching, args
<1>2. size(p)' = size(p)
  BY <1>1 DEF size
<1>3. /\ size(p) \in Nat \ {0} /\ iterator[p] \in 0 .. size(p) - 1
      /\ looped[p] \in {0, 1} /\ Ahead(p) \in Nat \ {0} /\ TypeOK
  BY <1>1, AheadNat DEF RingInv
<1>4. CASE Place(p)
  <2>1. /\ pc[p] = "place"
        /\ \/ pc'[p] = "first"
           \/ /\ pc'[p] = "place" /\ iterator'[p] = iterator[p] + 1
              /\ ~(iterator[p] + 1 >= size(p))
    BY <1>3, <1>4 DEF Place, TypeOK
  <2> QED
    BY <1>2, <1>3, <2>1 DEF Ahead
<1>5. CASE First(p)
  <2>1. /\ pc[p] = "first" /\ pc'[p] = "walk"
        /\ looped'[p] = 0 /\ iterator'[p] = iterator[p]
    BY <1>3, <1>5 DEF First, TypeOK
  <2> QED
    BY <1>2, <1>3, <2>1 DEF Ahead
<1>6. CASE Walk(p)
  <2>1. /\ pc[p] = "walk"
        /\ \/ /\ iterator[p] + 1 < size(p) /\ iterator'[p] = iterator[p] + 1
              /\ looped'[p] = looped[p] /\ pc'[p] = "walk"
           \/ /\ iterator[p] + 1 = size(p) /\ looped[p] = 0
              /\ iterator'[p] = 0 /\ looped'[p] = 1 /\ pc'[p] = "walk"
           \/ pc'[p] = "done"
    BY <1>6, WalkFacts
  <2> QED
    BY <1>2, <1>3, <2>1 DEF Ahead
<1>7. CASE WalkEnds(p)
  <2>1. pc'[p] = "done"
    BY <1>3, <1>7 DEF WalkEnds, TypeOK
  <2> QED
    BY <1>3, <2>1 DEF Ahead
<1> QED
  BY <1>4, <1>5, <1>6, <1>7 DEF Lookup

LEMMA OthersStay ==
  ASSUME RingInv, NEW p \in Process, Searching(p), Next, ~Lookup(p)
  PROVE  Ahead(p)' = Ahead(p)
<1>1. TypeOK
  BY DEF RingInv
<1>2. PICK q \in Process : RingInit(q) \/ Ask(q) \/ Lookup(q)
  BY DEF Next
<1>3. q # p
  BY <1>2 DEF RingInit, Ask, Searching
<1>4. /\ ring'[p] = ring[p] /\ pc'[p] = pc[p]
      /\ iterator'[p] = iterator[p] /\ looped'[p] = looped[p]
  <2>1. CASE RingInit(q)
    BY <1>1, <1>3, <2>1 DEF RingInit, TypeOK, locals
  <2>2. CASE Ask(q)
    BY <1>1, <1>3, <2>2 DEF Ask, TypeOK, args
  <2>3. CASE Place(q)
    BY <1>1, <1>3, <2>3 DEF Place, TypeOK, args
  <2>4. CASE First(q)
    BY <1>1, <1>3, <2>4 DEF First, TypeOK, args
  <2>5. CASE Walk(q)
    BY <1>1, <1>3, <2>5 DEF Walk, Advance, TypeOK, args
  <2>6. CASE WalkEnds(q)
    BY <1>1, <1>3, <2>6 DEF WalkEnds, TypeOK, args, locals
  <2> QED
    BY <1>2, <2>1, <2>2, <2>3, <2>4, <2>5, <2>6 DEF Lookup
<1> QED
  BY <1>4 DEF Ahead, size

(***************************************************************************)
(* A search that is called returns after at most 3 * size + 2 iterations   *)
(* of its loops, whatever the keys and digests and however many servers    *)
(* are wanted; what other processes do does not matter (ring.c:50-82).     *)
(***************************************************************************)
SearchNearsTheEnd ==
  [][\A p \in Process : Searching(p) =>
       /\ Ahead(p)' \in 0 .. Ahead(p)
       /\ Lookup(p) => Ahead(p)' # Ahead(p)]_vars

THEOREM SearchesNearTheEnd == Spec => SearchNearsTheEnd
<1> DEFINE Nears(p) == Searching(p) => /\ Ahead(p)' \in 0 .. Ahead(p)
                                       /\ Lookup(p) => Ahead(p)' # Ahead(p)
<1>1. ASSUME RingInv, Next, NEW p \in Process PROVE Nears(p)
  <2> SUFFICES ASSUME Searching(p)
               PROVE  /\ Ahead(p)' \in 0 .. Ahead(p)
                      /\ Lookup(p) => Ahead(p)' # Ahead(p)
    OBVIOUS
  <2>1. Ahead(p) \in Nat
    BY <1>1, AheadNat
  <2>2. CASE Lookup(p)
    BY <1>1, <2>1, <2>2, SearchStep
  <2>3. CASE ~Lookup(p)
    BY <1>1, <2>1, <2>3, OthersStay
  <2> QED
    BY <2>2, <2>3
<1>2. RingInv /\ [Next]_vars => [\A p \in Process : Nears(p)]_vars
  BY <1>1
<1>3. Spec => [][\A p \in Process : Nears(p)]_vars
  BY RingInvariant, <1>2, PTL DEF Spec
<1> QED
  BY <1>3 DEF SearchNearsTheEnd

=============================================================================
