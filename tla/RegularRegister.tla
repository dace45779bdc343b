-------------------------- MODULE RegularRegister --------------------------
(***************************************************************************)
(* What clients may expect of the distributed table when every put reaches *)
(* a quorum that every get's quorum meets: one register per key, regular,  *)
(* with several writers.  A put that succeeds hides from later gets every  *)
(* put that had ended when it started; until then a get may return any of  *)
(* them, and a get may always return a put that starts while it runs.      *)
(* A put that fails may still take effect.                                 *)
(***************************************************************************)
EXTENDS Naturals

CONSTANTS Client, Key, Value, NULL

VARIABLES
  call,    \* call[c]: the operation c runs or ran last, and its result
  live,    \* live[k]: the puts of k a get that starts now may return
  hides,   \* hides[c]: the puts that c's running put hides if it succeeds
  allowed  \* allowed[c]: the puts that c's running get may return

vars == <<call, live, hides, allowed>>

Running(c, what, k) == call[c].busy /\ call[c].what = what /\ call[c].key = k

(* A put is named by its client and the number of its operation there. *)
Put(c, v) == [by |-> c, n |-> call[c].n + 1, val |-> v]

Ended(p) == call[p.by].n # p.n \/ ~call[p.by].busy

Init ==
  /\ call = [c \in Client |-> [busy |-> FALSE, n |-> 0, what |-> "none",
                               key |-> NULL, val |-> NULL, err |-> "none", got |-> NULL]]
  /\ live = [k \in Key |-> {}]
  /\ hides = [c \in Client |-> {}]
  /\ allowed = [c \in Client |-> {}]

Begin(c, what, k, v) ==
  /\ ~call[c].busy /\ call'[c].busy
  /\ call' = [call EXCEPT ![c] = [busy |-> TRUE, n |-> @.n + 1, what |-> what,
                                  key |-> k, val |-> v, err |-> "none", got |-> NULL]]

End(c, err, v) ==
  /\ call[c].busy /\ ~call'[c].busy
  /\ call' = [call EXCEPT ![c] = [busy |-> FALSE, n |-> @.n, what |-> @.what, key |-> @.key,
                                  val |-> @.val, err |-> err, got |-> v]]

BeginPut(c, k, v) ==
  /\ live' = [live EXCEPT ![k] = @ \cup {Put(c, v)}]
  /\ hides' = [hides EXCEPT ![c] = {p \in live[k] : Ended(p)}]
  /\ allowed' = [d \in Client |-> IF Running(d, "get", k)
                                  THEN allowed[d] \cup {Put(c, v)} ELSE allowed[d]]
  /\ Begin(c, "put", k, v)

EndPut(c) ==
  /\ call[c].what = "put"
  /\ \/ /\ End(c, "ERR_NONE", NULL)
        /\ live' = [live EXCEPT ![call[c].key] = @ \ hides[c]]
     \/ /\ End(c, "ERR_NETWORK", NULL)
        /\ UNCHANGED live
  /\ hides' = [hides EXCEPT ![c] = {}]
  /\ UNCHANGED allowed

(* A call that is refused ends at once and does nothing. *)
Refuse(c) ==
  /\ ~call[c].busy
  /\ call'[c] \in [busy : {FALSE}, n : {call[c].n + 1}, what : {"put", "get"}, key : Key,
                   val : Value \cup {NULL}, err : {"ERR_BAD_PARAMETER"}, got : {NULL}]
  /\ call' = [call EXCEPT ![c] = call'[c]]
  /\ UNCHANGED <<live, hides, allowed>>

BeginGet(c, k) ==
  /\ allowed' = [allowed EXCEPT ![c] = live[k]]
  /\ UNCHANGED <<live, hides>>
  /\ Begin(c, "get", k, NULL)

EndGet(c) ==
  /\ call[c].what = "get"
  /\ \/ \E p \in allowed[c] : End(c, "ERR_NONE", p.val)
     \/ End(c, "ERR_NETWORK", NULL)
     \/ End(c, "ERR_NOT_FOUND", NULL)
  /\ allowed' = [allowed EXCEPT ![c] = {}]
  /\ UNCHANGED <<live, hides>>

Next ==
  \E c \in Client :
    \/ \E k \in Key, v \in Value : BeginPut(c, k, v)
    \/ \E k \in Key : BeginGet(c, k)
    \/ Refuse(c)
    \/ EndPut(c)
    \/ EndGet(c)

Spec == Init /\ [][Next]_vars

=============================================================================
