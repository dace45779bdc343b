-------------------------- MODULE HashTableProofs --------------------------
(***************************************************************************)
(* The table's memory invariant, for every set of keys and values, every   *)
(* number of buckets, every hash function and every heap.  TableLive and   *)
(* KeysInPlace are not inductive apart: that a slot keeps its pair when    *)
(* another is freed needs both, so they are proved together.               *)
(***************************************************************************)
EXTENDS HashTable, FiniteSetTheorems, TLAPS

TableInv == TypeOK /\ TableLive /\ KeysInPlace

(* Some slot has the pair <<k, v>>. *)
Stored(k, v) == \E i \in Bucket : \E p \in DOMAIN chain[i] :
                  heap[chain[i][p]] = [key |-> k, value |-> v]

(* What add_value_to_bucket's append does to a chain. *)
LEMMA AppendFacts ==
  ASSUME NEW S, NEW s \in Seq(S), NEW e \in S
  PROVE  /\ Append(s, e) \in Seq(S)
         /\ DOMAIN Append(s, e) = 1 .. Len(s) + 1
         /\ DOMAIN s = 1 .. Len(s)
         /\ Len(s) \in Nat
         /\ \A p \in 1 .. Len(s) : Append(s, e)[p] = s[p]
         /\ Append(s, e)[Len(s) + 1] = e
  OBVIOUS

(* A chain with one slot overwritten is still a chain, as long as before. *)
LEMMA ExceptFacts ==
  ASSUME NEW S, NEW s \in Seq(S), NEW e \in S, NEW i \in DOMAIN s
  PROVE  /\ [s EXCEPT ![i] = e] \in Seq(S)
         /\ DOMAIN [s EXCEPT ![i] = e] = DOMAIN s
         /\ [s EXCEPT ![i] = e][i] = e
         /\ \A p \in DOMAIN s : p # i => [s EXCEPT ![i] = e][p] = s[p]
  OBVIOUS

(* hash_function returns the index of a bucket. *)
LEMMA HashInBucket ==
  ASSUME NEW k \in Key
  PROVE  Hash[k] \in Bucket
  BY TableAssumption DEF Bucket

LEMMA InitInv == Init => TableInv
<1> SUFFICES ASSUME Init PROVE TableInv
  OBVIOUS
<1>1. TypeOK
  BY DEF Init, TypeOK, Pair
<1>2. \A i \in Bucket : chain[i] = <<>>
  BY DEF Init
<1>3. TableLive
  BY <1>2 DEF TableLive, SlotsAllocated, SlotsDistinct
<1>4. KeysInPlace
  BY <1>2 DEF KeysInPlace
<1> QED
  BY <1>1, <1>3, <1>4 DEF TableInv

LEMMA AddNewInv ==
  ASSUME TableInv, NEW k \in Key, NEW v \in Value, AddNew(k, v)
  PROVE  /\ TableInv'
         /\ \A j, w : Stored(j, w)' <=> IF j = k THEN w = v ELSE Stored(j, w)
<1> DEFINE h == Hash[k]
<1>1. PICK b \in Free :
        /\ heap' = [heap EXCEPT ![b] = [key |-> k, value |-> v]]
        /\ chain' = [chain EXCEPT ![h] = Append(@, b)]
  BY DEF AddNew
<1>2. /\ TypeOK /\ table = "open" /\ table' = table /\ list' = list
      /\ SlotsAllocated /\ SlotsDistinct /\ KeysInPlace
      /\ Matches(k) = {}
  BY DEF AddNew, Idle, TableInv, TableLive
<1>3. h \in Bucket /\ b \in Block /\ heap[b] = NULL
  BY HashInBucket DEF Free
<1>4. [key |-> k, value |-> v] \in Pair /\ [key |-> k, value |-> v] # NULL
  BY TableAssumption DEF Pair
<1>5. /\ chain[h] \in Seq(Block)
      /\ chain'[h] = Append(chain[h], b)
      /\ \A i \in Bucket : i # h => chain'[i] = chain[i]
  BY <1>1, <1>2, <1>3 DEF TypeOK
<1>6. /\ chain'[h] \in Seq(Block)
      /\ DOMAIN chain'[h] = 1 .. Len(chain[h]) + 1
      /\ DOMAIN chain[h] = 1 .. Len(chain[h])
      /\ Len(chain[h]) \in Nat
      /\ \A p \in DOMAIN chain[h] : chain'[h][p] = chain[h][p]
      /\ chain'[h][Len(chain[h]) + 1] = b
  BY <1>3, <1>5, AppendFacts
<1>7. TypeOK'
  BY <1>1, <1>2, <1>3, <1>4, <1>6 DEF TypeOK
<1>8. /\ heap'[b] = [key |-> k, value |-> v]
      /\ \A c \in Block : c # b => heap'[c] = heap[c]
  BY <1>1, <1>2, <1>3 DEF TypeOK
<1> DEFINE new(i, p) == i = h /\ p = Len(chain[h]) + 1
(* Every slot is the new one or an old one with its old content. *)
<1>9. ASSUME NEW i \in Bucket, NEW p \in DOMAIN chain'[i], ~new(i, p)
      PROVE  /\ p \in DOMAIN chain[i]
             /\ chain'[i][p] = chain[i][p]
             /\ chain[i][p] \in Block
             /\ chain[i][p] # b
             /\ heap'[chain'[i][p]] = heap[chain[i][p]]
  <2>1. p \in DOMAIN chain[i] /\ chain'[i][p] = chain[i][p]
    BY <1>9, <1>5, <1>6
  <2>2. chain[i][p] \in Block
    BY <2>1, <1>2 DEF TypeOK
  <2>3. heap[chain[i][p]] # NULL
    BY <2>1, <1>2 DEF SlotsAllocated
  <2> QED
    BY <2>1, <2>2, <2>3, <1>3, <1>8
<1>10. ASSUME NEW i \in Bucket, NEW p \in DOMAIN chain'[i], new(i, p)
       PROVE  chain'[i][p] = b /\ heap'[chain'[i][p]] = [key |-> k, value |-> v]
  BY <1>10, <1>6, <1>8
<1>11. SlotsAllocated'
  <2> SUFFICES ASSUME NEW i \in Bucket, NEW p \in DOMAIN chain'[i]
               PROVE  heap'[chain'[i][p]] # NULL
    BY DEF SlotsAllocated
  <2>1. CASE new(i, p)
    BY <2>1, <1>10, <1>4
  <2>2. CASE ~new(i, p)
    BY <2>2, <1>9, <1>2 DEF SlotsAllocated
  <2> QED
    BY <2>1, <2>2
<1>12. SlotsDistinct'
  <2> SUFFICES ASSUME NEW i \in Bucket, NEW j \in Bucket,
                      NEW p \in DOMAIN chain'[i], NEW q \in DOMAIN chain'[j],
                      chain'[i][p] = chain'[j][q]
               PROVE  i = j /\ p = q
    BY DEF SlotsDistinct
  <2>1. CASE new(i, p) /\ new(j, q)
    BY <2>1
  <2>2. CASE ~new(i, p) /\ ~new(j, q)
    <3>1. /\ p \in DOMAIN chain[i] /\ chain'[i][p] = chain[i][p]
          /\ q \in DOMAIN chain[j] /\ chain'[j][q] = chain[j][q]
      BY <2>2, <1>9
    <3>2. chain[i][p] = chain[j][q]
      BY <3>1
    <3> QED
      BY <3>1, <3>2, <1>2 DEF SlotsDistinct
  <2>3. CASE new(i, p) /\ ~new(j, q)
    BY <2>3, <1>9, <1>10
  <2>4. CASE ~new(i, p) /\ new(j, q)
    BY <2>4, <1>9, <1>10
  <2> QED
    BY <2>1, <2>2, <2>3, <2>4
<1>13. KeysInPlace'
  <2>1. ASSUME NEW i \in Bucket, NEW p \in DOMAIN chain'[i]
        PROVE  Hash[heap'[chain'[i][p]].key] = i
    <3>1. CASE new(i, p)
      BY <3>1, <1>10
    <3>2. CASE ~new(i, p)
      BY <3>2, <1>9, <1>2 DEF KeysInPlace
    <3> QED
      BY <3>1, <3>2
  <2>2. ASSUME NEW i \in Bucket, NEW p \in DOMAIN chain'[i], NEW q \in DOMAIN chain'[i],
               heap'[chain'[i][p]].key = heap'[chain'[i][q]].key
        PROVE  p = q
    <3>1. \A s \in DOMAIN chain[h] : heap[chain[h][s]].key # k
      BY <1>2 DEF Matches, Row
    <3>2. CASE new(i, p) /\ new(i, q)
      BY <3>2
    <3>3. CASE ~new(i, p) /\ ~new(i, q)
      <4>1. /\ p \in DOMAIN chain[i] /\ heap'[chain'[i][p]] = heap[chain[i][p]]
            /\ q \in DOMAIN chain[i] /\ heap'[chain'[i][q]] = heap[chain[i][q]]
        BY <3>3, <1>9
      <4> QED
        BY <4>1, <2>2, <1>2 DEF KeysInPlace
    <3>4. CASE new(i, p) /\ ~new(i, q)
      <4>1. i = h /\ q \in DOMAIN chain[h] /\ heap'[chain'[i][q]] = heap[chain[h][q]]
        BY <3>4, <1>9
      <4>2. heap'[chain'[i][p]].key = k
        BY <3>4, <1>10
      <4>3. heap'[chain'[i][q]].key = k
        BY <4>2, <2>2
      <4>4. heap[chain[h][q]].key = k
        BY <4>1, <4>3
      <4> QED
        BY <4>1, <4>4, <3>1
    <3>5. CASE ~new(i, p) /\ new(i, q)
      <4>1. i = h /\ p \in DOMAIN chain[h] /\ heap'[chain'[i][p]] = heap[chain[h][p]]
        BY <3>5, <1>9
      <4>2. heap'[chain'[i][q]].key = k
        BY <3>5, <1>10
      <4>3. heap'[chain'[i][p]].key = k
        BY <4>2, <2>2
      <4>4. heap[chain[h][p]].key = k
        BY <4>1, <4>3
      <4> QED
        BY <4>1, <4>4, <3>1
    <3> QED
      BY <3>2, <3>3, <3>4, <3>5
  <2> QED
    BY <2>1, <2>2 DEF KeysInPlace
<1>14. ASSUME NEW j, NEW w
       PROVE  Stored(j, w)' <=> IF j = k THEN w = v ELSE Stored(j, w)
  <2>1. Stored(k, v)'
    <3>1. Len(chain[h]) + 1 \in DOMAIN chain'[h]
      BY <1>6
    <3> QED
      BY <3>1, <1>3, <1>10 DEF Stored
  <2>2. ~Stored(k, w)
    <3> SUFFICES ASSUME NEW i \in Bucket, NEW p \in DOMAIN chain[i],
                        heap[chain[i][p]] = [key |-> k, value |-> w]
                 PROVE  FALSE
      BY DEF Stored
    <3>1. heap[chain[i][p]].key = k
      OBVIOUS
    <3>2. i = h
      BY <3>1, <1>2 DEF KeysInPlace
    <3> QED
      BY <3>1, <3>2, <1>2 DEF Matches, Row
  <2>3. ASSUME Stored(j, w) PROVE Stored(j, w)'
    <3>1. PICK i \in Bucket : \E p \in DOMAIN chain[i] :
                 heap[chain[i][p]] = [key |-> j, value |-> w]
      BY <2>3 DEF Stored
    <3>2. PICK p \in DOMAIN chain[i] : heap[chain[i][p]] = [key |-> j, value |-> w]
      BY <3>1
    <3>3. p \in DOMAIN chain'[i] /\ ~new(i, p)
      BY <1>5, <1>6
    <3>4. heap'[chain'[i][p]] = [key |-> j, value |-> w]
      BY <3>2, <3>3, <1>9
    <3> QED
      BY <3>3, <3>4 DEF Stored
  <2>4. ASSUME Stored(j, w)' PROVE Stored(j, w) \/ (j = k /\ w = v)
    <3>1. PICK i \in Bucket : \E p \in DOMAIN chain'[i] :
                 heap'[chain'[i][p]] = [key |-> j, value |-> w]
      BY <2>4 DEF Stored
    <3>2. PICK p \in DOMAIN chain'[i] : heap'[chain'[i][p]] = [key |-> j, value |-> w]
      BY <3>1
    <3>3. CASE new(i, p)
      <4>1. [key |-> k, value |-> v] = [key |-> j, value |-> w]
        BY <3>2, <3>3, <1>10
      <4> QED
        BY <4>1
    <3>4. CASE ~new(i, p)
      BY <3>2, <3>4, <1>9 DEF Stored
    <3> QED
      BY <3>3, <3>4
  <2> QED
    BY <2>1, <2>2, <2>3, <2>4
<1> QED
  BY <1>7, <1>11, <1>12, <1>13, <1>14 DEF TableInv, TableLive

(***************************************************************************)
(* A step that leaves the chains alone and writes only to memory that was  *)
(* not allocated cannot break the table.                                   *)
(***************************************************************************)
LEMMA WritesFreeMemory ==
  ASSUME TableInv, table = "open", UNCHANGED <<chain, table>>,
         \A b \in Block : heap[b] # NULL => heap'[b] = heap[b]
  PROVE  /\ TableLive' /\ KeysInPlace'
         /\ \A k, v : Stored(k, v)' <=> Stored(k, v)
<1>1. TypeOK /\ SlotsAllocated /\ SlotsDistinct /\ KeysInPlace
  BY DEF TableInv, TableLive
<1>2. ASSUME NEW i \in Bucket, NEW p \in DOMAIN chain[i]
      PROVE  heap'[chain[i][p]] = heap[chain[i][p]] /\ heap[chain[i][p]] # NULL
  <2>1. chain[i][p] \in Block
    BY <1>1 DEF TypeOK
  <2> QED
    BY <2>1, <1>1 DEF SlotsAllocated
<1>3. SlotsAllocated' /\ SlotsDistinct'
  BY <1>1, <1>2 DEF SlotsAllocated, SlotsDistinct
<1>4. KeysInPlace'
  BY <1>1, <1>2 DEF KeysInPlace
<1>5. \A k, v : Stored(k, v)' <=> Stored(k, v)
  BY <1>2 DEF Stored
<1> QED
  BY <1>3, <1>4, <1>5 DEF TableLive

LEMMA AddNoMemInv ==
  ASSUME TableInv, NEW k \in Key, NEW v \in Value, AddNoMem(k, v)
  PROVE  /\ TableInv'
         /\ \A j, w : Stored(j, w)' <=> Stored(j, w)
<1>1. PICK b \in Free : heap' = [heap EXCEPT ![b] = [key |-> k, value |-> v]]
  BY DEF AddNoMem
<1>2. TypeOK /\ table = "open" /\ UNCHANGED <<chain, list, table>>
  BY DEF AddNoMem, Idle, TableInv
<1>3. b \in Block /\ heap[b] = NULL /\ [key |-> k, value |-> v] \in Pair
  BY DEF Free, Pair
<1>4. TypeOK'
  BY <1>1, <1>2, <1>3 DEF TypeOK
<1>5. \A c \in Block : heap[c] # NULL => heap'[c] = heap[c]
  BY <1>1, <1>2, <1>3 DEF TypeOK
<1>6. /\ TableLive' /\ KeysInPlace'
      /\ \A j, w : Stored(j, w)' <=> Stored(j, w)
  BY <1>2, <1>5, WritesFreeMemory
<1> QED
  BY <1>4, <1>6 DEF TableInv

LEMMA GetContentInv ==
  ASSUME TableInv, GetContent
  PROVE  /\ TableInv'
         /\ \A k, v : Stored(k, v)' <=> Stored(k, v)
         /\ \A i \in Bucket : /\ list'[i] \in Seq(Block)
                              /\ DOMAIN list'[i] = DOMAIN chain[i]
                              /\ \A p \in DOMAIN chain[i] :
                                   heap'[list'[i][p]] = heap[chain[i][p]]
<1>1. PICK copy \in [NonEmpty -> Free] :
        /\ \A i, j \in NonEmpty : copy[i] = copy[j] => i = j
        /\ heap' = [b \in Block |->
                     IF \E i \in NonEmpty : copy[i] = b
                     THEN LET r == chain[CHOOSE i \in NonEmpty : copy[i] = b]
                          IN  heap[r[Len(r)]]
                     ELSE heap[b]]
        /\ list' = [i \in Bucket |->
                     IF i \in NonEmpty
                     THEN [chain[i] EXCEPT ![Len(chain[i])] = copy[i]]
                     ELSE <<>>]
  BY DEF GetContent
<1>2. TypeOK /\ table = "open" /\ UNCHANGED <<chain, table>>
  BY DEF GetContent, Idle, TableInv
<1>3. ASSUME NEW i \in NonEmpty
      PROVE  /\ i \in Bucket /\ chain[i] \in Seq(Block)
             /\ Len(chain[i]) \in DOMAIN chain[i]
             /\ heap[chain[i][Len(chain[i])]] \in Pair \cup {NULL}
             /\ copy[i] \in Block /\ heap[copy[i]] = NULL
  <2>1. i \in Bucket /\ chain[i] \in Seq(Block) /\ chain[i] # <<>>
    BY <1>2 DEF NonEmpty, TypeOK
  <2>2. Len(chain[i]) \in DOMAIN chain[i]
    BY <2>1
  <2>3. chain[i][Len(chain[i])] \in Block
    BY <2>1, <2>2
  <2>4. copy[i] \in Free
    OBVIOUS
  <2> QED
    BY <2>1, <2>2, <2>3, <2>4, <1>2 DEF TypeOK, Free
<1>4. ASSUME NEW b \in Block
      PROVE  /\ heap'[b] \in Pair \cup {NULL}
             /\ heap[b] # NULL => heap'[b] = heap[b]
  <2>1. CASE \E i \in NonEmpty : copy[i] = b
    <3> DEFINE i == CHOOSE i \in NonEmpty : copy[i] = b
    <3>1. i \in NonEmpty /\ copy[i] = b
      BY <2>1
    <3>2. heap'[b] = heap[chain[i][Len(chain[i])]]
      BY <1>1, <2>1
    <3> QED
      BY <3>1, <3>2, <1>3
  <2>2. CASE ~ \E i \in NonEmpty : copy[i] = b
    BY <2>2, <1>1, <1>2 DEF TypeOK
  <2> QED
    BY <2>1, <2>2
<1>5. ASSUME NEW i \in Bucket
      PROVE  list'[i] \in Seq(Block)
  <2>1. CASE i \in NonEmpty
    <3>1. list'[i] = [chain[i] EXCEPT ![Len(chain[i])] = copy[i]]
      BY <1>1, <2>1
    <3> QED
      BY <3>1, <2>1, <1>3, ExceptFacts
  <2>2. CASE i \notin NonEmpty
    BY <2>2, <1>1
  <2> QED
    BY <2>1, <2>2
<1>6. TypeOK'
  <2>1. heap' \in [Block -> Pair \cup {NULL}]
    BY <1>1, <1>4
  <2>2. list' \in [Bucket -> Seq(Block)]
    BY <1>1, <1>5
  <2> QED
    BY <2>1, <2>2, <1>2 DEF TypeOK
<1>7. /\ TableLive' /\ KeysInPlace'
      /\ \A k, v : Stored(k, v)' <=> Stored(k, v)
  BY <1>2, <1>4, WritesFreeMemory
<1>8. ASSUME NEW i \in Bucket
      PROVE  DOMAIN list'[i] = DOMAIN chain[i]
  <2>1. CASE i \in NonEmpty
    <3>1. list'[i] = [chain[i] EXCEPT ![Len(chain[i])] = copy[i]]
      BY <1>1, <2>1
    <3> QED
      BY <3>1, <2>1, <1>3, ExceptFacts
  <2>2. CASE i \notin NonEmpty
    BY <2>2, <1>1 DEF NonEmpty
  <2> QED
    BY <2>1, <2>2
(* Each slot's pair is in the list, the last one of a chain as a copy. *)
<1>9. ASSUME NEW i \in Bucket, NEW p \in DOMAIN chain[i]
      PROVE  heap'[list'[i][p]] = heap[chain[i][p]]
  <2>1. i \in NonEmpty
    BY <1>2 DEF NonEmpty, TypeOK
  <2>2. list'[i] = [chain[i] EXCEPT ![Len(chain[i])] = copy[i]]
    BY <1>1, <2>1
  <2>3. CASE p = Len(chain[i])
    <3>1. list'[i][p] = copy[i] /\ copy[i] \in Block
      BY <2>1, <2>2, <2>3, <1>3, ExceptFacts
    <3>2. \A j \in NonEmpty : copy[j] = copy[i] => j = i
      BY <1>1, <2>1
    <3>3. (CHOOSE j \in NonEmpty : copy[j] = copy[i]) = i
      BY <3>2, <2>1
    <3>4. heap'[copy[i]] = heap[chain[i][Len(chain[i])]]
      BY <3>1, <3>3, <1>1, <2>1
    <3> QED
      BY <3>1, <3>4, <2>3
  <2>4. CASE p # Len(chain[i])
    <3>1. list'[i][p] = chain[i][p] /\ chain[i][p] \in Block
      BY <2>1, <2>2, <2>4, <1>3, ExceptFacts
    <3>2. heap[chain[i][p]] # NULL
      BY <1>2 DEF TableInv, TableLive, SlotsAllocated
    <3> QED
      BY <3>1, <3>2, <1>4
  <2> QED
    BY <2>3, <2>4
<1> QED
  BY <1>5, <1>6, <1>7, <1>8, <1>9 DEF TableInv

LEMMA AddReplaceInv ==
  ASSUME TableInv, NEW k \in Key, NEW v \in Value, AddReplace(k, v)
  PROVE  /\ TableInv'
         /\ \A j, w : Stored(j, w)' <=> IF j = k THEN w = v ELSE Stored(j, w)
<1> DEFINE h    == Hash[k]
           pair == [key |-> k, value |-> v]
<1>1. PICK r \in DOMAIN chain[h] :
        /\ IsFirstMatch(k, r)
        /\ \E b \in Free \cup {chain[h][r]} :
             /\ heap' = [[heap EXCEPT ![chain[h][r]] = NULL] EXCEPT ![b] = pair]
             /\ chain' = [chain EXCEPT ![h][r] = b]
  BY DEF AddReplace, Row
<1> DEFINE old == chain[h][r]
<1>2. PICK b \in Free \cup {old} :
             /\ heap' = [[heap EXCEPT ![old] = NULL] EXCEPT ![b] = pair]
             /\ chain' = [chain EXCEPT ![h][r] = b]
  BY <1>1
<1>3. /\ TypeOK /\ table = "open" /\ table' = table /\ list' = list
      /\ SlotsAllocated /\ SlotsDistinct /\ KeysInPlace
  BY DEF AddReplace, Idle, TableInv, TableLive
<1>4. h \in Bucket /\ chain[h] \in Seq(Block) /\ old \in Block /\ heap[old].key = k
  <2>1. h \in Bucket
    BY HashInBucket
  <2>2. chain[h] \in Seq(Block)
    BY <2>1, <1>3 DEF TypeOK
  <2>3. heap[old].key = k
    BY <1>1 DEF IsFirstMatch, Matches, Row
  <2> QED
    BY <2>1, <2>2, <2>3
<1>5. b \in Block /\ (b # old => heap[b] = NULL)
  BY <1>4 DEF Free
<1>6. pair \in Pair /\ pair # NULL
  BY TableAssumption DEF Pair
<1>7. /\ chain'[h] = [chain[h] EXCEPT ![r] = b]
      /\ \A i \in Bucket : i # h => chain'[i] = chain[i]
  BY <1>2, <1>3, <1>4 DEF TypeOK
<1>8. /\ chain'[h] \in Seq(Block)
      /\ DOMAIN chain'[h] = DOMAIN chain[h]
      /\ chain'[h][r] = b
      /\ \A p \in DOMAIN chain[h] : p # r => chain'[h][p] = chain[h][p]
  BY <1>4, <1>5, <1>7, ExceptFacts
<1>9. TypeOK'
  <2>1. heap' \in [Block -> Pair \cup {NULL}]
    BY <1>2, <1>3, <1>4, <1>5, <1>6 DEF TypeOK
  <2>2. chain' \in [Bucket -> Seq(Block)]
    BY <1>2, <1>3, <1>7, <1>8 DEF TypeOK
  <2> QED
    BY <2>1, <2>2, <1>3 DEF TypeOK
<1>10. /\ heap'[b] = pair
       /\ \A c \in Block : c # b /\ c # old => heap'[c] = heap[c]
  BY <1>2, <1>3, <1>4, <1>5 DEF TypeOK
<1> DEFINE here(i, p) == i = h /\ p = r
(* The slots are the old ones; all but the one written keep their pair. *)
<1>11. ASSUME NEW i \in Bucket, NEW p \in DOMAIN chain'[i]
       PROVE  p \in DOMAIN chain[i] /\ chain[i][p] \in Block
  <2>1. p \in DOMAIN chain[i]
    BY <1>7, <1>8
  <2> QED
    BY <2>1, <1>3 DEF TypeOK
<1>12. ASSUME NEW i \in Bucket, NEW p \in DOMAIN chain'[i], ~here(i, p)
       PROVE  /\ chain'[i][p] = chain[i][p]
              /\ chain[i][p] # b
              /\ heap'[chain'[i][p]] = heap[chain[i][p]]
  <2>1. p \in DOMAIN chain[i] /\ chain[i][p] \in Block
    BY <1>11
  <2>2. chain'[i][p] = chain[i][p]
    BY <2>1, <1>12, <1>7, <1>8
  <2>3. chain[i][p] # old
    BY <2>1, <1>12, <1>3, <1>4 DEF SlotsDistinct
  <2>4. heap[chain[i][p]] # NULL
    BY <2>1, <1>3 DEF SlotsAllocated
  <2> QED
    BY <2>1, <2>2, <2>3, <2>4, <1>5, <1>10
<1>13. ASSUME NEW i \in Bucket, NEW p \in DOMAIN chain'[i], here(i, p)
       PROVE  chain'[i][p] = b /\ heap'[chain'[i][p]] = pair
  BY <1>13, <1>8, <1>10
<1>14. SlotsAllocated'
  <2> SUFFICES ASSUME NEW i \in Bucket, NEW p \in DOMAIN chain'[i]
               PROVE  heap'[chain'[i][p]] # NULL
    BY DEF SlotsAllocated
  <2>1. CASE here(i, p)
    BY <2>1, <1>13, <1>6
  <2>2. CASE ~here(i, p)
    BY <2>2, <1>11, <1>12, <1>3 DEF SlotsAllocated
  <2> QED
    BY <2>1, <2>2
<1>15. SlotsDistinct'
  <2> SUFFICES ASSUME NEW i \in Bucket, NEW j \in Bucket,
                      NEW p \in DOMAIN chain'[i], NEW q \in DOMAIN chain'[j],
                      chain'[i][p] = chain'[j][q]
               PROVE  i = j /\ p = q
    BY DEF SlotsDistinct
  <2>1. CASE here(i, p) /\ here(j, q)
    BY <2>1
  <2>2. CASE ~here(i, p) /\ ~here(j, q)
    <3>1. p \in DOMAIN chain[i] /\ q \in DOMAIN chain[j] /\ chain[i][p] = chain[j][q]
      BY <2>2, <1>11, <1>12
    <3> QED
      BY <3>1, <1>3 DEF SlotsDistinct
  <2>3. CASE here(i, p) /\ ~here(j, q)
    BY <2>3, <1>12, <1>13
  <2>4. CASE ~here(i, p) /\ here(j, q)
    BY <2>4, <1>12, <1>13
  <2> QED
    BY <2>1, <2>2, <2>3, <2>4
(* The slot written holds the key it held before, so every slot does. *)
<1>16. ASSUME NEW i \in Bucket, NEW p \in DOMAIN chain'[i]
       PROVE  heap'[chain'[i][p]].key = heap[chain[i][p]].key
  <2>1. CASE here(i, p)
    BY <2>1, <1>13, <1>4
  <2>2. CASE ~here(i, p)
    BY <2>2, <1>12
  <2> QED
    BY <2>1, <2>2
<1>17. KeysInPlace'
  BY <1>3, <1>11, <1>16 DEF KeysInPlace
<1>18. ASSUME NEW j, NEW w
       PROVE  Stored(j, w)' <=> IF j = k THEN w = v ELSE Stored(j, w)
  <2>1. r \in DOMAIN chain'[h] /\ heap'[chain'[h][r]] = pair
    BY <1>8, <1>10
  <2>2. ASSUME NEW x, Stored(k, x)' PROVE x = v
    <3>1. PICK i \in Bucket : \E p \in DOMAIN chain'[i] :
                 heap'[chain'[i][p]] = [key |-> k, value |-> x]
      BY <2>2 DEF Stored
    <3>2. PICK p \in DOMAIN chain'[i] : heap'[chain'[i][p]] = [key |-> k, value |-> x]
      BY <3>1
    <3>3. heap[chain[i][p]].key = k /\ p \in DOMAIN chain[i]
      BY <3>2, <1>11, <1>16
    <3>4. i = h /\ p = r
      BY <3>3, <1>3, <1>4 DEF KeysInPlace
    <3>5. pair = [key |-> k, value |-> x]
      BY <3>2, <3>4, <1>13
    <3> QED
      BY <3>5
  <2>3. ASSUME j # k, Stored(j, w) PROVE Stored(j, w)'
    <3>1. PICK i \in Bucket : \E p \in DOMAIN chain[i] :
                 heap[chain[i][p]] = [key |-> j, value |-> w]
      BY <2>3 DEF Stored
    <3>2. PICK p \in DOMAIN chain[i] : heap[chain[i][p]] = [key |-> j, value |-> w]
      BY <3>1
    <3>3. heap[chain[i][p]].key = j
      BY <3>2
    <3>4. p \in DOMAIN chain'[i] /\ ~here(i, p)
      BY <3>3, <2>3, <1>4, <1>7, <1>8
    <3>5. heap'[chain'[i][p]] = [key |-> j, value |-> w]
      BY <3>2, <3>4, <1>12
    <3> QED
      BY <3>4, <3>5 DEF Stored
  <2>4. ASSUME j # k, Stored(j, w)' PROVE Stored(j, w)
    <3>1. PICK i \in Bucket : \E p \in DOMAIN chain'[i] :
                 heap'[chain'[i][p]] = [key |-> j, value |-> w]
      BY <2>4 DEF Stored
    <3>2. PICK p \in DOMAIN chain'[i] : heap'[chain'[i][p]] = [key |-> j, value |-> w]
      BY <3>1
    <3>3. heap'[chain'[i][p]].key = j
      BY <3>2
    <3>4. ~here(i, p)
      BY <3>3, <2>4, <1>13
    <3> QED
      BY <3>2, <3>4, <1>11, <1>12 DEF Stored
  <2>5. Stored(k, v)'
    BY <2>1, <1>4 DEF Stored
  <2> QED
    BY <2>2, <2>3, <2>4, <2>5
<1> QED
  BY <1>9, <1>14, <1>15, <1>17, <1>18 DEF TableInv, TableLive

(* Memory is freed only where the type allows NULL. *)
LEMMA KvListFreeInv ==
  ASSUME TableInv, KvListFree
  PROVE  TableInv'
<1>1. TypeOK'
  BY DEF TableInv, KvListFree, TypeOK
<1>2. table' = "abandoned"
  BY DEF KvListFree
<1> QED
  BY <1>1, <1>2 DEF TableInv, TableLive, KeysInPlace

LEMMA DeleteTableInv ==
  ASSUME TableInv, DeleteTable
  PROVE  TableInv'
<1>1. TypeOK'
  BY DEF TableInv, DeleteTable, TypeOK
<1>2. table' = "deleted"
  BY DEF DeleteTable
<1> QED
  BY <1>1, <1>2 DEF TableInv, TableLive, KeysInPlace

LEMMA ReadersInv ==
  ASSUME TableInv, UNCHANGED <<heap, chain, table>>, list' \in {list, NoList}
  PROVE  TableInv'
BY DEF TableInv, TypeOK, TableLive, SlotsAllocated, SlotsDistinct, KeysInPlace

(***************************************************************************)
(* Each operation of the table, and a step that is none, keeps the         *)
(* invariant.                                                              *)
(***************************************************************************)
LEMMA NextInv == TableInv /\ [Next]_vars => TableInv'
<1> SUFFICES ASSUME TableInv, [Next]_vars PROVE TableInv'
  OBVIOUS
<1>1. CASE \E k \in Key, v \in Value : AddNew(k, v) \/ AddNoMem(k, v) \/ AddReplace(k, v)
  BY <1>1, AddNewInv, AddNoMemInv, AddReplaceInv
<1>2. CASE \E k \in Key : AddNull(k)
  BY <1>2, ReadersInv DEF AddNull
<1>3. CASE \E k \in Key \cup {NULL} : GetValue(k)
  BY <1>3, ReadersInv DEF GetValue
<1>4. CASE GetContent \/ GetContentNoMem
  BY <1>4, GetContentInv, ReadersInv DEF GetContentNoMem
<1>5. CASE DropList
  BY <1>5, ReadersInv DEF DropList
<1>6. CASE KvListFree
  BY <1>6, KvListFreeInv
<1>7. CASE DeleteTable
  BY <1>7, DeleteTableInv
<1>8. CASE UNCHANGED vars
  BY <1>8, ReadersInv DEF vars
<1> QED
  BY <1>1, <1>2, <1>3, <1>4, <1>5, <1>6, <1>7, <1>8 DEF Next

THEOREM TableInvariant == Spec => []TableInv
<1>1. Init => TableInv
  BY InitInv
<1>2. TableInv /\ [Next]_vars => TableInv'
  BY NextInv
<1> QED
  BY <1>1, <1>2, PTL DEF Spec

(***************************************************************************)
(* The variables keep their types (hashtable.c, all operations).           *)
(***************************************************************************)
THEOREM TypeCorrect == Spec => []TypeOK
<1>1. TableInv => TypeOK
  BY DEF TableInv
<1> QED
  BY <1>1, TableInvariant, PTL

(***************************************************************************)
(* While the table is in use, every slot has an allocated pair of its own: *)
(* no add, get, listing or failed allocation leaves a dangling or a shared *)
(* one behind.                                                             *)
(***************************************************************************)
THEOREM TableStaysLive == Spec => []TableLive
<1>1. TableInv => TableLive
  BY DEF TableInv
<1> QED
  BY <1>1, TableInvariant, PTL

(***************************************************************************)
(* Every key is in the chain of its bucket, and once at most.              *)
(***************************************************************************)
THEOREM KeysStayInPlace == Spec => []KeysInPlace
<1>1. TableInv => KeysInPlace
  BY DEF TableInv
<1> QED
  BY <1>1, TableInvariant, PTL
-----------------------------------------------------------------------------
(* The table as a map. *)

View == [k \in Key |-> IF table = "open" THEN Lookup(k) ELSE NULL]

(* A search finds what some slot holds. *)
LEMMA LookupStored ==
  ASSUME TableInv, table = "open", NEW k \in Key
  PROVE  /\ Lookup(k) \in Value \cup {NULL}
         /\ \A v \in Value : Stored(k, v) <=> Lookup(k) = v
         /\ Lookup(k) # NULL <=> \E i \in Bucket : \E p \in DOMAIN chain[i] : heap[chain[i][p]].key = k
<1> DEFINE h == Hash[k]
<1>1. TypeOK /\ SlotsAllocated /\ KeysInPlace /\ h \in Bucket /\ NULL \notin Value
  BY HashInBucket, TableAssumption DEF TableInv, TableLive
<1>2. ASSUME NEW i \in Bucket, NEW p \in DOMAIN chain[i]
      PROVE  /\ heap[chain[i][p]] \in Pair
             /\ heap[chain[i][p]].value \in Value
             /\ heap[chain[i][p]] = [key |-> heap[chain[i][p]].key, value |-> heap[chain[i][p]].value]
  <2>1. chain[i][p] \in Block /\ heap[chain[i][p]] # NULL
    BY <1>1 DEF TypeOK, SlotsAllocated
  <2>2. heap[chain[i][p]] \in Pair
    BY <2>1, <1>1 DEF TypeOK
  <2> QED
    BY <2>2 DEF Pair
<1>3. ASSUME NEW i \in Bucket, NEW p \in DOMAIN chain[i], heap[chain[i][p]].key = k
      PROVE  /\ i = h
             /\ Lookup(k) = heap[chain[i][p]].value
  <2>1. i = h
    BY <1>3, <1>1 DEF KeysInPlace
  <2>2. p \in Matches(k) /\ \A q \in Matches(k) : q = p
    BY <1>1, <1>3, <2>1 DEF Matches, Row, KeysInPlace
  <2>3. p <= p
    BY <2>1, <1>1 DEF TypeOK
  <2>4. \A q \in DOMAIN Row(k) : IsFirstMatch(k, q) <=> q = p
    BY <2>2, <2>3 DEF IsFirstMatch
  <2>5. (CHOOSE q \in DOMAIN Row(k) : IsFirstMatch(k, q)) = p
    BY <2>2, <2>4 DEF Matches
  <2> QED
    BY <2>1, <2>2, <2>5 DEF Lookup, Row
<1>4. CASE \E i \in Bucket : \E p \in DOMAIN chain[i] : heap[chain[i][p]].key = k
  <2>1. PICK i \in Bucket : \E p \in DOMAIN chain[i] : heap[chain[i][p]].key = k
    BY <1>4
  <2>2. PICK p \in DOMAIN chain[i] : heap[chain[i][p]].key = k
    BY <2>1
  <2>3. Lookup(k) = heap[chain[i][p]].value /\ Lookup(k) \in Value
    BY <2>2, <1>2, <1>3
  <2>4. Stored(k, Lookup(k))
    BY <2>2, <2>3, <1>2 DEF Stored
  <2>5. ASSUME NEW v \in Value, Stored(k, v) PROVE Lookup(k) = v
    <3>1. PICK j \in Bucket : \E q \in DOMAIN chain[j] :
                 heap[chain[j][q]] = [key |-> k, value |-> v]
      BY <2>5 DEF Stored
    <3>2. PICK q \in DOMAIN chain[j] : heap[chain[j][q]] = [key |-> k, value |-> v]
      BY <3>1
    <3>3. heap[chain[j][q]].key = k /\ heap[chain[j][q]].value = v
      BY <3>2
    <3> QED
      BY <3>3, <1>3
  <2> QED
    BY <1>4, <1>1, <2>3, <2>4, <2>5
<1>5. CASE ~ \E i \in Bucket : \E p \in DOMAIN chain[i] : heap[chain[i][p]].key = k
  <2>1. Matches(k) = {}
    BY <1>1, <1>5 DEF Matches, Row
  <2>2. Lookup(k) = NULL
    BY <2>1 DEF Lookup
  <2>3. ASSUME NEW v, Stored(k, v) PROVE FALSE
    <3>1. PICK j \in Bucket : \E q \in DOMAIN chain[j] :
                 heap[chain[j][q]] = [key |-> k, value |-> v]
      BY <2>3 DEF Stored
    <3>2. PICK q \in DOMAIN chain[j] : heap[chain[j][q]] = [key |-> k, value |-> v]
      BY <3>1
    <3>3. heap[chain[j][q]].key = k
      BY <3>2
    <3> QED
      BY <3>3, <1>5
  <2> QED
    BY <1>1, <1>5, <2>2, <2>3
<1> QED
  BY <1>4, <1>5

(* The same of every key, to be read in the next state too. *)
LookupsTrue ==
  \A k \in Key : /\ Lookup(k) \in Value \cup {NULL}
                 /\ \A v \in Value : Stored(k, v) <=> Lookup(k) = v

Open == table = "open"

LEMMA LookupsStored == TableInv /\ Open => LookupsTrue
  BY LookupStored DEF LookupsTrue, Open

(* So the view changes as what is stored does. *)
LEMMA ViewUnchanged ==
  ASSUME TableInv, TableInv', Open, Open',
         \A j, w : Stored(j, w)' <=> Stored(j, w)
  PROVE  View' = View
<1>0. LookupsTrue'
  BY LookupsStored, PTL
<1>1. ASSUME NEW k \in Key PROVE Lookup(k)' = Lookup(k)
  <2>1. /\ Lookup(k) \in Value \cup {NULL}
        /\ \A v \in Value : Stored(k, v) <=> Lookup(k) = v
    BY LookupStored DEF Open
  <2>2. /\ Lookup(k)' \in Value \cup {NULL}
        /\ \A v \in Value : Stored(k, v)' <=> Lookup(k)' = v
    BY <1>0 DEF LookupsTrue
  <2>3. \A v \in Value : Lookup(k)' = v <=> Lookup(k) = v
    BY <2>1, <2>2
  <2> QED
    BY <2>1, <2>2, <2>3
<1> QED
  BY <1>1 DEF View, Open

LEMMA ViewReplaced ==
  ASSUME TableInv, TableInv', Open, Open',
         NEW k \in Key, NEW v \in Value,
         \A j, w : Stored(j, w)' <=> IF j = k THEN w = v ELSE Stored(j, w)
  PROVE  View' = [View EXCEPT ![k] = v]
<1>0. LookupsTrue'
  BY LookupsStored, PTL
<1>1. ASSUME NEW j \in Key PROVE Lookup(j)' = IF j = k THEN v ELSE Lookup(j)
  <2>1. /\ Lookup(j) \in Value \cup {NULL}
        /\ \A w \in Value : Stored(j, w) <=> Lookup(j) = w
    BY LookupStored DEF Open
  <2>2. /\ Lookup(j)' \in Value \cup {NULL}
        /\ \A w \in Value : Stored(j, w)' <=> Lookup(j)' = w
    BY <1>0 DEF LookupsTrue
  <2>3. CASE j = k
    BY <2>2, <2>3
  <2>4. CASE j # k
    <3>1. \A w \in Value : Lookup(j)' = w <=> Lookup(j) = w
      BY <2>1, <2>2, <2>4
    <3> QED
      BY <2>1, <2>2, <2>4, <3>1
  <2> QED
    BY <2>3, <2>4
<1> QED
  BY <1>1 DEF View, Open

-----------------------------------------------------------------------------
(* The listing. *)

LEMMA PlacesElements ==
  ASSUME NEW l, NEW s
  PROVE  s \in Places(l) <=> \E i \in Bucket : \E p \in DOMAIN l[i] : s = <<i, p>>
  BY DEF Places

LEMMA PlacesFinite ==
  ASSUME NEW l, \A i \in Bucket : l[i] \in Seq(Block)
  PROVE  IsFiniteSet(Places(l)) /\ Cardinality(Places(l)) \in Nat
<1> DEFINE Rows == {{i} \X DOMAIN l[i] : i \in Bucket}
           f    == [i \in Bucket |-> {i} \X DOMAIN l[i]]
<1>1. IsFiniteSet(Bucket)
  <2>1. 0 \in Int /\ Size - 1 \in Int
    BY TableAssumption
  <2> QED
    BY <2>1, FS_Interval DEF Bucket
<1>2. IsFiniteSet(Rows)
  <2>1. f \in Surjection(Bucket, Rows)
    BY DEF Surjection
  <2> QED
    BY <2>1, <1>1, FS_Surjection
<1>3. ASSUME NEW i \in Bucket PROVE IsFiniteSet({i} \X DOMAIN l[i])
  <2>1. DOMAIN l[i] = 1 .. Len(l[i]) /\ 1 \in Int /\ Len(l[i]) \in Int
    OBVIOUS
  <2>2. IsFiniteSet(DOMAIN l[i])
    BY <2>1, FS_Interval
  <2>3. IsFiniteSet({i})
    BY FS_Singleton
  <2> QED
    BY <2>2, <2>3, FS_Product
<1>4. \A T \in Rows : IsFiniteSet(T)
  BY <1>3
<1> QED
  BY <1>2, <1>4, FS_UNION, FS_CardinalityType DEF Places

(* Places are numbered from 1 on, each with a number of its own. *)
LEMMA RankFacts ==
  ASSUME NEW l, \A i \in Bucket : l[i] \in Seq(Block), NEW s \in Places(l)
  PROVE  /\ Rank(l, s) \in 1 .. Cardinality(Places(l))
         /\ \A t \in Places(l) : Rank(l, t) = Rank(l, s) => t = s
<1> DEFINE U(x) == {t \in Places(l) : UpTo(x, t)}
<1>1. IsFiniteSet(Places(l)) /\ Cardinality(Places(l)) \in Nat
  BY PlacesFinite
<1>2. ASSUME NEW x \in Places(l)
      PROVE  x[1] \in Nat /\ x[2] \in Nat /\ x = <<x[1], x[2]>>
  <2>1. PICK i \in Bucket : \E p \in DOMAIN l[i] : x = <<i, p>>
    BY PlacesElements
  <2>2. PICK p \in DOMAIN l[i] : x = <<i, p>>
    BY <2>1
  <2>3. l[i] \in Seq(Block) /\ i \in Nat
    BY TableAssumption DEF Bucket
  <2>4. p \in Nat
    BY <2>3
  <2> QED
    BY <2>2, <2>3, <2>4
<1>3. ASSUME NEW x \in Places(l)
      PROVE  /\ x \in U(x) /\ U(x) \subseteq Places(l) /\ IsFiniteSet(U(x))
             /\ Cardinality(U(x)) \in Nat
             /\ Cardinality(U(x)) <= Cardinality(Places(l))
             /\ Cardinality(U(x)) # 0
  <2>1. x \in U(x)
    BY <1>2 DEF UpTo
  <2> QED
    BY <2>1, <1>1, FS_Subset, FS_CardinalityType, FS_EmptySet
<1>4. ASSUME NEW x \in Places(l), NEW y \in Places(l), ~UpTo(x, y)
      PROVE  Cardinality(U(x)) # Cardinality(U(y))
  <2>1. U(x) \subseteq U(y)
    <3> SUFFICES ASSUME NEW z \in Places(l), UpTo(x, z) PROVE UpTo(y, z)
      OBVIOUS
    <3>1. /\ x[1] \in Nat /\ x[2] \in Nat /\ y[1] \in Nat /\ y[2] \in Nat
          /\ z[1] \in Nat /\ z[2] \in Nat
      BY <1>2
    <3> QED
      BY <3>1, <1>4 DEF UpTo
  <2>2. y \in U(y) /\ y \notin U(x)
    BY <1>3, <1>4
  <2> QED
    BY <2>1, <2>2, <1>3, FS_Subset
<1>5. ASSUME NEW t \in Places(l), Rank(l, t) = Rank(l, s)
      PROVE  t = s
  <2>1. UpTo(s, t) /\ UpTo(t, s)
    BY <1>4, <1>5 DEF Rank
  <2>2. /\ s[1] \in Nat /\ s[2] \in Nat /\ s = <<s[1], s[2]>>
        /\ t[1] \in Nat /\ t[2] \in Nat /\ t = <<t[1], t[2]>>
    BY <1>2
  <2>3. s[1] = t[1] /\ s[2] = t[2]
    BY <2>1, <2>2 DEF UpTo
  <2> QED
    BY <2>2, <2>3
<1>6. Rank(l, s) \in 1 .. Cardinality(Places(l))
  BY <1>1, <1>3 DEF Rank
<1> QED
  BY <1>5, <1>6

(* A list that holds the pairs of the table slot by slot lists the map. *)
LEMMA ListsTheMap ==
  ASSUME TableInv, Open, NEW l, NEW m,
         \A i \in Bucket : /\ l[i] \in Seq(Block)
                           /\ DOMAIN l[i] = DOMAIN chain[i]
                           /\ \A p \in DOMAIN chain[i] : m[l[i][p]] = heap[chain[i][p]]
  PROVE  LET stored == {k \in Key : View[k] # NULL}
             c      == Contents(l, m)
         IN  /\ DOMAIN c = 1 .. Cardinality(stored)
             /\ \A k \in stored : \E n \in DOMAIN c : c[n] = [key |-> k, value |-> View[k]]
<1> DEFINE stored  == {k \in Key : View[k] # NULL}
           c       == Contents(l, m)
           slot(s) == heap[chain[s[1]][s[2]]]
           f       == [s \in Places(l) |-> slot(s).key]
<1>1. TypeOK /\ SlotsAllocated /\ KeysInPlace
  BY DEF TableInv, TableLive, Open
<1>2. ASSUME NEW s \in Places(l)
      PROVE  /\ s[1] \in Bucket /\ s[2] \in DOMAIN chain[s[1]] /\ s = <<s[1], s[2]>>
             /\ m[l[s[1]][s[2]]] = slot(s)
             /\ slot(s).key \in Key /\ slot(s).value \in Value
             /\ slot(s) = [key |-> slot(s).key, value |-> slot(s).value]
             /\ View[slot(s).key] = slot(s).value
  <2>1. PICK i \in Bucket : \E p \in DOMAIN l[i] : s = <<i, p>>
    BY PlacesElements
  <2>2. PICK p \in DOMAIN l[i] : s = <<i, p>>
    BY <2>1
  <2>3. p \in DOMAIN chain[i] /\ chain[i][p] \in Block
    BY <2>2, <1>1 DEF TypeOK
  <2>4. heap[chain[i][p]] \in Pair
    BY <2>3, <1>1 DEF TypeOK, SlotsAllocated
  <2>5. /\ slot(s) = heap[chain[i][p]] /\ slot(s).key \in Key /\ slot(s).value \in Value
        /\ slot(s) = [key |-> slot(s).key, value |-> slot(s).value]
    BY <2>2, <2>4 DEF Pair
  <2>6. Stored(slot(s).key, slot(s).value)
    BY <2>3, <2>5 DEF Stored
  <2>7. Lookup(slot(s).key) = slot(s).value
    BY <2>5, <2>6, LookupStored DEF Open
  <2> QED
    BY <2>2, <2>3, <2>5, <2>7 DEF View, Open
<1>3. f \in Bijection(Places(l), stored)
  <2>1. f \in [Places(l) -> stored]
    <3> SUFFICES ASSUME NEW s \in Places(l) PROVE slot(s).key \in stored
      OBVIOUS
    <3> QED
      BY <1>2, TableAssumption
  <2>2. ASSUME NEW s \in Places(l), NEW t \in Places(l), f[s] = f[t]
        PROVE  s = t
    <3>1. slot(s).key = slot(t).key
      BY <2>2
    <3>2. /\ s[1] \in Bucket /\ s[2] \in DOMAIN chain[s[1]] /\ s = <<s[1], s[2]>>
          /\ t[1] \in Bucket /\ t[2] \in DOMAIN chain[t[1]] /\ t = <<t[1], t[2]>>
      BY <1>2
    <3>3. /\ \A i \in Bucket : \A p \in DOMAIN chain[i] : Hash[heap[chain[i][p]].key] = i
          /\ \A i \in Bucket : \A p, q \in DOMAIN chain[i] :
               heap[chain[i][p]].key = heap[chain[i][q]].key => p = q
      BY <1>1 DEF KeysInPlace, Open
    <3>4. s[1] = t[1]
      BY <3>1, <3>2, <3>3
    <3>5. s[2] = t[2]
      BY <3>1, <3>2, <3>3, <3>4
    <3> QED
      BY <3>2, <3>4, <3>5
  <2>3. ASSUME NEW k \in stored PROVE \E s \in Places(l) : f[s] = k
    <3>1. Lookup(k) # NULL
      BY DEF View, Open
    <3>2. PICK i \in Bucket : \E p \in DOMAIN chain[i] : heap[chain[i][p]].key = k
      BY <3>1, LookupStored DEF Open
    <3>3. PICK p \in DOMAIN chain[i] : heap[chain[i][p]].key = k
      BY <3>2
    <3>4. <<i, p>> \in Places(l)
      BY PlacesElements
    <3> QED
      BY <3>3, <3>4
  <2> QED
    BY <2>1, <2>2, <2>3 DEF Bijection, Injection, Surjection, IsInjective
<1>4. Cardinality(stored) = Cardinality(Places(l))
  <2>1. ExistsBijection(Places(l), stored)
    BY <1>3 DEF ExistsBijection
  <2> QED
    BY <2>1, PlacesFinite, FS_Bijection
<1>5. DOMAIN c = 1 .. Cardinality(stored)
  BY <1>4 DEF Contents
<1>6. ASSUME NEW k \in stored
      PROVE  \E n \in DOMAIN c : c[n] = [key |-> k, value |-> View[k]]
  <2>1. PICK s \in Places(l) : slot(s).key = k
    BY <1>3 DEF Bijection, Surjection
  <2> DEFINE n == Rank(l, s)
  <2>2. n \in DOMAIN c /\ \A t \in Places(l) : Rank(l, t) = n => t = s
    BY <1>4, <1>5, RankFacts
  <2>3. (CHOOSE t \in Places(l) : Rank(l, t) = n) = s
    BY <2>2
  <2>4. c[n] = m[l[s[1]][s[2]]]
    BY <2>2, <2>3, <1>4, <1>5 DEF Contents
  <2> QED
    BY <2>1, <2>2, <2>4, <1>2
<1> QED
  BY <1>5, <1>6

-----------------------------------------------------------------------------
(* The refinement, call by call. *)

LEMMA InitMaps == Init => Map!Init
<1> SUFFICES ASSUME Init PROVE Map!Init
  OBVIOUS
<1>1. \A k \in Key : Matches(k) = {}
  BY HashInBucket DEF Init, Matches, Row
<1>2. \A k \in Key : Lookup(k) = NULL
  BY <1>1 DEF Lookup
<1> QED
  BY <1>2 DEF Init, NoCall, Result, Map!Init, Map!NoCall, Map!Result

LEMMA AddMaps ==
  ASSUME TableInv, NEW k \in Key, NEW v \in Value, AddNew(k, v) \/ AddReplace(k, v)
  PROVE  Map!Add(k, v)
<1>1. Open /\ Open' /\ ret' = Result("add", k, v, "ERR_NONE", <<>>)
  BY DEF AddNew, AddReplace, Idle, Open
<1>2. TableInv' /\ \A j, w : Stored(j, w)' <=> IF j = k THEN w = v ELSE Stored(j, w)
  BY AddNewInv, AddReplaceInv
<1>3. View' = [View EXCEPT ![k] = v]
  BY <1>1, <1>2, ViewReplaced
<1> QED
  BY <1>1, <1>3 DEF Map!Add, Map!Result, Result, View

LEMMA AddNoMemMaps ==
  ASSUME TableInv, NEW k \in Key, NEW v \in Value, AddNoMem(k, v)
  PROVE  Map!AddFails(k, v)
<1>1. /\ Open /\ Open'
      /\ \E err \in {"ERR_NOMEM", "ERR_NONE"} : ret' = Result("add", k, v, err, <<>>)
  BY DEF AddNoMem, Idle, Open
<1>2. TableInv' /\ \A j, w : Stored(j, w)' <=> Stored(j, w)
  BY AddNoMemInv
<1>3. View' = View
  BY <1>1, <1>2, ViewUnchanged
<1> QED
  BY <1>1, <1>3 DEF Map!AddFails, Map!Result, Result, View

(* Nothing that the view looks at is written. *)
LEMMA QuietMaps ==
  ASSUME UNCHANGED <<heap, chain, table>>
  PROVE  View' = View
  BY DEF View, Lookup, Matches, IsFirstMatch, Row

LEMMA GetMaps ==
  ASSUME NEW k \in Key \cup {NULL}, GetValue(k)
  PROVE  Map!Get(k)
<1>1. View' = View
  BY QuietMaps DEF GetValue
<1>2. (IF k = NULL THEN NULL ELSE Lookup(k)) = (IF k = NULL THEN NULL ELSE View[k])
  BY DEF View, GetValue, Idle
<1>3. ret' = Result("get", k, IF k = NULL THEN NULL ELSE Lookup(k), "ERR_NONE", <<>>)
  BY DEF GetValue
<1>4. ret' = Result("get", k, IF k = NULL THEN NULL ELSE View[k], "ERR_NONE", <<>>)
  BY <1>2, <1>3
<1> QED
  BY <1>1, <1>4 DEF Map!Get, Map!Result, Result, View

LEMMA ContentMaps ==
  ASSUME TableInv, GetContent
  PROVE  Map!Content
<1>1. /\ Open /\ Open'
      /\ ret' = Result("content", NULL, NULL, "ERR_NONE", Contents(list', heap'))
  BY DEF GetContent, Idle, Open
<1>2. /\ TableInv'
      /\ \A k, v : Stored(k, v)' <=> Stored(k, v)
      /\ \A i \in Bucket : /\ list'[i] \in Seq(Block)
                           /\ DOMAIN list'[i] = DOMAIN chain[i]
                           /\ \A p \in DOMAIN chain[i] :
                                heap'[list'[i][p]] = heap[chain[i][p]]
  BY GetContentInv
<1>3. View' = View
  BY <1>1, <1>2, ViewUnchanged
<1> DEFINE stored == {k \in Key : View[k] # NULL}
           c      == Contents(list', heap')
<1>4. /\ DOMAIN c = 1 .. Cardinality(stored)
      /\ \A k \in stored : \E n \in DOMAIN c : c[n] = [key |-> k, value |-> View[k]]
  BY <1>1, <1>2, ListsTheMap
<1>5. ret'.list = c
  BY <1>1 DEF Result
<1>6. Map!IsListing(ret'.list)
  <2>1. Map!Cardinality(stored) = Cardinality(stored)
    BY DEF Cardinality, Map!Cardinality
  <2> QED
    BY <1>4, <1>5, <2>1 DEF Map!IsListing, View
<1> QED
  BY <1>1, <1>3, <1>5, <1>6 DEF Map!Content, Map!Result, Result, View

LEMMA CloseMaps ==
  ASSUME KvListFree \/ DeleteTable
  PROVE  Map!Close
  BY DEF KvListFree, DeleteTable, Map!Close

LEMMA StepMaps == TableInv /\ [Next]_vars => [Map!Next]_(Map!vars)
<1> SUFFICES ASSUME TableInv, [Next]_vars PROVE [Map!Next]_(Map!vars)
  OBVIOUS
<1>1. CASE \E k \in Key, v \in Value : AddNew(k, v) \/ AddNoMem(k, v) \/ AddReplace(k, v)
  BY <1>1, AddMaps, AddNoMemMaps DEF Map!Next
<1>2. CASE \E k \in Key : AddNull(k)
  <2>1. PICK k \in Key : AddNull(k)
    BY <1>2
  <2>2. View' = View
    BY <2>1, QuietMaps DEF AddNull
  <2>3. Map!AddNull(k)
    BY <2>1, <2>2 DEF AddNull, Map!AddNull, Map!Result, Result, View
  <2> QED
    BY <2>3 DEF Map!Next
<1>3. CASE \E k \in Key \cup {NULL} : GetValue(k)
  BY <1>3, GetMaps DEF Map!Next
<1>4. CASE GetContent
  BY <1>4, ContentMaps DEF Map!Next
<1>5. CASE GetContentNoMem
  <2>1. View' = View
    BY <1>5, QuietMaps DEF GetContentNoMem
  <2>2. Map!ContentFails
    BY <1>5, <2>1 DEF GetContentNoMem, Map!ContentFails, Map!Result, Result, View
  <2> QED
    BY <2>2 DEF Map!Next
<1>6. CASE DropList \/ UNCHANGED vars
  <2>1. View' = View /\ ret' = ret
    BY <1>6, QuietMaps DEF DropList, vars
  <2> QED
    BY <2>1 DEF Map!vars, View
<1>7. CASE KvListFree \/ DeleteTable
  BY <1>7, CloseMaps DEF Map!Next
<1> QED
  BY <1>1, <1>2, <1>3, <1>4, <1>5, <1>6, <1>7 DEF Next

(***************************************************************************)
(* The chained table does what a map does, for any keys, values, hash      *)
(* function and number of buckets: adds, gets and listings return and      *)
(* change what the same call on the map would (hashtable.c).               *)
(***************************************************************************)
THEOREM TableIsAMap == Spec => ImplementsMap
<1>1. TableInv /\ [Next]_vars => TableInv'
  BY NextInv
<1> QED
  BY InitInv, InitMaps, <1>1, StepMaps, PTL DEF Spec, ImplementsMap, Map!Spec

=============================================================================
