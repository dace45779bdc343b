----------------------------- MODULE HashTable -----------------------------
(***************************************************************************)
(* The chained hash table of hashtable.c with the memory of its pairs.     *)
(*                                                                         *)
(* A Block is the key string and the value string of one kv_pair_t, which  *)
(* create_kv_pair allocates together and kv_pair_free frees together.  A   *)
(* row is the chain of one bucket: its head slot lies in the buckets array *)
(* and may be empty, every further slot is a struct bucket of its own that *)
(* create_bucket allocates and that may fail.  Pointers to pairs are       *)
(* explicit because get_Htable_content returns a list that shares pairs    *)
(* with the table.                                                         *)
(*                                                                         *)
(* The callers in the repository never change a table while they hold a    *)
(* list of it and never use it again once they freed that list; the guards *)
(* on list and table are that discipline.                                  *)
(***************************************************************************)
EXTENDS Naturals, Sequences, FiniteSets

CONSTANTS
  Key,    \* the keys the callers use
  Value,  \* the values they store
  Size,   \* table->size, the number of buckets
  Hash,   \* hash_function(key, size)
  Block,  \* addresses of pairs: bounds the heap
  NULL    \* the null pointer; as a heap cell, memory that is not allocated

ASSUME TableAssumption ==
  /\ Size \in Nat \ {0}
  /\ Hash \in [Key -> 0 .. Size - 1]
  /\ NULL \notin Key \cup Value \cup Block
  /\ NULL \notin [key : Key, value : Value]

VARIABLES
  heap,   \* what a block holds: a pair, or NULL when it is not allocated
  chain,  \* chain[i]: the blocks of bucket i, head first
  list,   \* the kv_list_t the caller holds: list[i] is its part made of
          \* bucket i, the parts follow one another; or NoList
  table,  \* "open", "abandoned" (its list was freed) or "deleted"
  ret     \* the last call on the table and what it returned

vars == <<heap, chain, list, table, ret>>

Bucket == 0 .. Size - 1
Pair   == [key : Key, value : Value]
NoList == <<NULL>>

Result(call, key, val, err, content) ==
  [call |-> call, key |-> key, val |-> val, err |-> err, list |-> content]

NoCall == Result("none", NULL, NULL, "ERR_NONE", <<>>)

-----------------------------------------------------------------------------
(* Walking the chains. *)

Free   == {b \in Block : heap[b] = NULL}
Row(k) == chain[Hash[k]]

(* The slots of k's row that hold k: strcmp(key, key_value.key) == 0. *)
Matches(k) == {i \in DOMAIN Row(k) : heap[Row(k)[i]].key = k}

(* The walk down the chain stops at the first match. *)
IsFirstMatch(k, i) == i \in Matches(k) /\ \A j \in Matches(k) : i <= j

(* get_value_from_bucket *)
Lookup(k) ==
  IF Matches(k) = {}
  THEN NULL
  ELSE heap[Row(k)[CHOOSE i \in DOMAIN Row(k) : IsFirstMatch(k, i)]].value

(* The places <<bucket, index>> of a list, and the number of a place, one  *)
(* bucket after the other.                                                 *)
Places(l)   == UNION {{i} \X DOMAIN l[i] : i \in Bucket}
UpTo(s, t)  == t[1] < s[1] \/ (t[1] = s[1] /\ t[2] <= s[2])
Rank(l, s)  == Cardinality({t \in Places(l) : UpTo(s, t)})

NonEmpty == {i \in Bucket : chain[i] # <<>>}

-----------------------------------------------------------------------------
Init ==
  /\ heap = [b \in Block |-> NULL]
  /\ chain = [i \in Bucket |-> <<>>]
  /\ list = NoList
  /\ table = "open"
  /\ ret = NoCall

Idle == table = "open" /\ list = NoList

(* Variant with a bug: only the head of the chain is compared. *)
AddNewChecksHeadOnly(k, v) ==
  /\ Idle
  /\ Row(k) # <<>> => heap[Row(k)[1]].key # k
  /\ \E b \in Free :
       /\ heap' = [heap EXCEPT ![b] = [key |-> k, value |-> v]]
       /\ chain' = [chain EXCEPT ![Hash[k]] = Append(@, b)]
  /\ ret' = Result("add", k, v, "ERR_NONE", <<>>)
  /\ UNCHANGED <<list, table>>

(***************************************************************************)
(* add_Htable_value, key not in its row: the pair goes into the empty head *)
(* slot or into a new bucket at the end of the chain.                      *)
(***************************************************************************)
AddNew(k, v) ==
  /\ Idle
  /\ Matches(k) = {}
  /\ \E b \in Free :
       /\ heap' = [heap EXCEPT ![b] = [key |-> k, value |-> v]]
       /\ chain' = [chain EXCEPT ![Hash[k]] = Append(@, b)]
  /\ ret' = Result("add", k, v, "ERR_NONE", <<>>)
  /\ UNCHANGED <<list, table>>

(***************************************************************************)
(* The same when create_bucket gets no memory for the new bucket: the pair *)
(* was already copied and stays allocated, the chain is as before.  The    *)
(* error code is returned by the call that looked at the last slot; the    *)
(* recursive call on the next slot drops it, so only a chain of one slot   *)
(* reports it.                                                             *)
(***************************************************************************)
AddNoMem(k, v) ==
  /\ Idle
  /\ Matches(k) = {}
  /\ Row(k) # <<>>
  /\ \E b \in Free : heap' = [heap EXCEPT ![b] = [key |-> k, value |-> v]]
  /\ ret' = Result("add", k, v,
                   IF Len(Row(k)) = 1 THEN "ERR_NOMEM" ELSE "ERR_NONE", <<>>)
  /\ UNCHANGED <<chain, list, table>>

(* Variant with a bug: the slot keeps the pointer to the freed pair. *)
AddReplaceForgetsSlot(k, v) ==
  /\ Idle
  /\ \E i \in DOMAIN Row(k) :
       /\ IsFirstMatch(k, i)
       /\ LET old == Row(k)[i] IN
          \E b \in Free \cup {old} :
            heap' = [[heap EXCEPT ![old] = NULL] EXCEPT ![b] = [key |-> k, value |-> v]]
  /\ ret' = Result("add", k, v, "ERR_NONE", <<>>)
  /\ UNCHANGED <<chain, list, table>>

(***************************************************************************)
(* The key is in its row: its pair is freed, then a new one is allocated,  *)
(* possibly at the same address, and put in the slot.                      *)
(***************************************************************************)
AddReplace(k, v) ==
  /\ Idle
  /\ \E i \in DOMAIN Row(k) :
       /\ IsFirstMatch(k, i)
       /\ LET old == Row(k)[i] IN
          \E b \in Free \cup {old} :
            /\ heap' = [[heap EXCEPT ![old] = NULL] EXCEPT ![b] = [key |-> k, value |-> v]]
            /\ chain' = [chain EXCEPT ![Hash[k]][i] = b]
  /\ ret' = Result("add", k, v, "ERR_NONE", <<>>)
  /\ UNCHANGED <<list, table>>

(* Variant with a bug: a null value is stored like any other. *)
AddNullStores(k) ==
  /\ Idle
  /\ Matches(k) = {}
  /\ \E b \in Free :
       /\ heap' = [heap EXCEPT ![b] = [key |-> k, value |-> NULL]]
       /\ chain' = [chain EXCEPT ![Hash[k]] = Append(@, b)]
  /\ ret' = Result("add", k, NULL, "ERR_NONE", <<>>)
  /\ UNCHANGED <<list, table>>

(* A null value is refused. *)
AddNull(k) ==
  /\ Idle
  /\ ret' = Result("add", k, NULL, "ERR_BAD_PARAMETER", <<>>)
  /\ UNCHANGED <<heap, chain, list, table>>

(* get_Htable_value; a null key reads as a missing one. *)
GetValue(k) ==
  /\ Idle
  /\ ret' = Result("get", k, IF k = NULL THEN NULL ELSE Lookup(k), "ERR_NONE", <<>>)
  /\ UNCHANGED <<heap, chain, list, table>>

(* The pairs of a list, in its order. *)
Contents(l, h) ==
  [n \in 1 .. Cardinality(Places(l)) |->
     LET s == CHOOSE s \in Places(l) : Rank(l, s) = n
     IN  h[l[s[1]][s[2]]]]

(* Variant with a bug: the walk stops before the last slot of a chain. *)
GetContentSkipsLast ==
  /\ Idle
  /\ list' = [i \in Bucket |->
                IF i \in NonEmpty THEN SubSeq(chain[i], 1, Len(chain[i]) - 1) ELSE <<>>]
  /\ ret' = Result("content", NULL, NULL, "ERR_NONE", Contents(list', heap))
  /\ UNCHANGED <<heap, chain, table>>

(***************************************************************************)
(* get_Htable_content: of each chain the list takes the table's own pairs, *)
(* except the last one, of which it takes a copy.                          *)
(***************************************************************************)
GetContent ==
  /\ Idle
  /\ \E copy \in [NonEmpty -> Free] :
       /\ \A i, j \in NonEmpty : copy[i] = copy[j] => i = j
       /\ heap' = [b \in Block |->
                     IF \E i \in NonEmpty : copy[i] = b
                     THEN LET r == chain[CHOOSE i \in NonEmpty : copy[i] = b]
                          IN  heap[r[Len(r)]]
                     ELSE heap[b]]
       /\ list' = [i \in Bucket |->
                     IF i \in NonEmpty
                     THEN [chain[i] EXCEPT ![Len(chain[i])] = copy[i]]
                     ELSE <<>>]
  /\ ret' = Result("content", NULL, NULL, "ERR_NONE", Contents(list', heap'))
  /\ UNCHANGED <<chain, table>>

(* There is no memory for the list itself: NULL is returned, written here  *)
(* as an error that the caller may see.                                    *)
GetContentNoMem ==
  /\ Idle
  /\ ret' = Result("content", NULL, NULL, "ERR_NOMEM", <<>>)
  /\ UNCHANGED <<heap, chain, list, table>>

(* The server forgets the list it has sent: the copies stay allocated. *)
DropList ==
  /\ table = "open" /\ list # NoList
  /\ list' = NoList
  /\ UNCHANGED <<heap, chain, table, ret>>

(* kv_list_free: frees every pair of the list, the table's own included. *)
KvListFree ==
  /\ table = "open" /\ list # NoList
  /\ heap' = [b \in Block |->
                IF \E i \in Bucket : \E p \in DOMAIN list[i] : list[i][p] = b
                THEN NULL ELSE heap[b]]
  /\ list' = NoList
  /\ table' = "abandoned"
  /\ UNCHANGED <<chain, ret>>

(* delete_Htable_and_content: every pair of every chain is freed. *)
DeleteTable ==
  /\ Idle
  /\ heap' = [b \in Block |->
                IF \E i \in Bucket : \E p \in DOMAIN chain[i] : chain[i][p] = b
                THEN NULL ELSE heap[b]]
  /\ chain' = [i \in Bucket |-> <<>>]
  /\ table' = "deleted"
  /\ UNCHANGED <<list, ret>>

Next ==
  \/ \E k \in Key, v \in Value :
       AddNew(k, v) \/ AddNoMem(k, v) \/ AddReplace(k, v)
  \/ \E k \in Key : AddNull(k)
  \/ \E k \in Key \cup {NULL} : GetValue(k)
  \/ GetContent \/ GetContentNoMem
  \/ DropList
  \/ KvListFree
  \/ DeleteTable

Spec == Init /\ [][Next]_vars

-----------------------------------------------------------------------------
(* The types of the variables (hashtable.h, the structs of hashtable.c). *)
TypeOK ==
  /\ heap \in [Block -> Pair \cup {NULL}]
  /\ chain \in [Bucket -> Seq(Block)]
  /\ list \in [Bucket -> Seq(Block)] \cup {NoList}
  /\ table \in {"open", "abandoned", "deleted"}

(* Every slot of a chain points to allocated memory. *)
SlotsAllocated ==
  \A i \in Bucket : \A p \in DOMAIN chain[i] : heap[chain[i][p]] # NULL

(* No pair is the content of two slots. *)
SlotsDistinct ==
  \A i, j \in Bucket : \A p \in DOMAIN chain[i], q \in DOMAIN chain[j] :
    chain[i][p] = chain[j][q] => i = j /\ p = q

(***************************************************************************)
(* As long as the table is in use each of its slots has an allocated pair  *)
(* of its own: no call leaves a slot with freed memory, or with the memory *)
(* that another slot will free (add_value_to_bucket, get_bucket_content).  *)
(***************************************************************************)
TableLive == table = "open" => SlotsAllocated /\ SlotsDistinct

(***************************************************************************)
(* Each key is stored at most once, in the chain of its own bucket, so     *)
(* that the first match is the only one (add_value_to_bucket appends at    *)
(* the end of the chain only).                                             *)
(***************************************************************************)
KeysInPlace ==
  table = "open" =>
    /\ \A i \in Bucket : \A p \in DOMAIN chain[i] : Hash[heap[chain[i][p]].key] = i
    /\ \A i \in Bucket : \A p, q \in DOMAIN chain[i] :
         heap[chain[i][p]].key = heap[chain[i][q]].key => p = q

(* The table is the map of hashtable.h: it forgets everything when closed. *)
Map == INSTANCE KVMap WITH
         map <- [k \in Key |-> IF table = "open" THEN Lookup(k) ELSE NULL]

(***************************************************************************)
(* Every call changes and returns what the same call on a map does: chains *)
(* and memory do not show (hashtable.h, all operations).                   *)
(***************************************************************************)
ImplementsMap == Map!Spec

(***************************************************************************)
(* hashtable.h:87 says of add_Htable_value "@return 0 on success; error    *)
(* code on errror": an add that returned 0 stored the value.               *)
(***************************************************************************)
AddReportsFailure ==
  (table = "open" /\ ret.call = "add" /\ ret.err = "ERR_NONE") =>
    Lookup(ret.key) = ret.val

(***************************************************************************)
(* hashtable.c:312 says get_Htable_content returns "a new allocated        *)
(* kv_list_t with stored content from the hashtable": once the caller has  *)
(* freed it, the table still owns what it stores.                          *)
(***************************************************************************)
FreedListLeavesTable == table = "abandoned" => SlotsAllocated

=============================================================================
