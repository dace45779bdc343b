------------------------------- MODULE KVMap -------------------------------
(***************************************************************************)
(* What hashtable.h promises of a table, without buckets or memory: a map  *)
(* from keys to values and the result of the last call on it.              *)
(***************************************************************************)
EXTENDS Naturals, Sequences, FiniteSets

CONSTANTS
  Key,    \* the keys the callers use
  Value,  \* the values they store
  NULL    \* the null pointer, also "no value"

VARIABLES
  map,    \* map[k] is the value of k, or NULL
  ret     \* the last call and what it returned

vars == <<map, ret>>

Result(call, key, val, err, list) ==
  [call |-> call, key |-> key, val |-> val, err |-> err, list |-> list]

NoCall == Result("none", NULL, NULL, "ERR_NONE", <<>>)

Init ==
  /\ map = [k \in Key |-> NULL]
  /\ ret = NoCall

(***************************************************************************)
(* add_Htable_value: the pair is in the map, or an allocation failed and   *)
(* the map is as before.  The header promises an error code in the second  *)
(* case; the code only keeps that promise on short chains, so the map      *)
(* specification leaves the code open (see AddReportsFailure).             *)
(***************************************************************************)
Add(k, v) ==
  /\ map' = [map EXCEPT ![k] = v]
  /\ ret' = Result("add", k, v, "ERR_NONE", <<>>)

AddFails(k, v) ==
  /\ \E err \in {"ERR_NOMEM", "ERR_NONE"} : ret' = Result("add", k, v, err, <<>>)
  /\ UNCHANGED map

AddNull(k) ==
  /\ ret' = Result("add", k, NULL, "ERR_BAD_PARAMETER", <<>>)
  /\ UNCHANGED map

(* The value of k, or NULL when k is not stored or is the null pointer. *)
Get(k) ==
  /\ ret' = Result("get", k, IF k = NULL THEN NULL ELSE map[k], "ERR_NONE", <<>>)
  /\ UNCHANGED map

(* s lists every stored pair once, in some order. *)
IsListing(s) ==
  LET stored == {k \in Key : map[k] # NULL}
  IN  /\ DOMAIN s = 1 .. Cardinality(stored)
      /\ \A k \in stored : \E i \in DOMAIN s : s[i] = [key |-> k, value |-> map[k]]

Content ==
  /\ IsListing(ret'.list)
  /\ ret' = Result("content", NULL, NULL, "ERR_NONE", ret'.list)
  /\ UNCHANGED map

ContentFails ==
  /\ ret' = Result("content", NULL, NULL, "ERR_NOMEM", <<>>)
  /\ UNCHANGED map

(* The table is given up: deleted, or its content freed under it. *)
Close ==
  /\ map' = [k \in Key |-> NULL]
  /\ UNCHANGED ret

Next ==
  \/ \E k \in Key, v \in Value : Add(k, v) \/ AddFails(k, v)
  \/ \E k \in Key : AddNull(k)
  \/ \E k \in Key \cup {NULL} : Get(k)
  \/ Content \/ ContentFails
  \/ Close

Spec == Init /\ [][Next]_vars

=============================================================================
