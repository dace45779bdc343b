--------------------------- MODULE QuorumHistory ---------------------------
(***************************************************************************)
(* QuorumStore with the history variables of RegularRegister, to show that *)
(* it implements a regular register.  They follow the operations and never *)
(* constrain them.                                                         *)
(***************************************************************************)
EXTENDS QuorumStore

VARIABLES
  live,    \* live[k]: the puts of k that no successful put has hidden
  hides,   \* hides[c]: the puts that had ended when c's running put began
  allowed  \* allowed[c]: the puts that c's running get may return

history == <<live, hides, allowed>>
hvars   == <<vars, history>>

PutOf(c, v)   == [by |-> c, n |-> socket[c] + 1, val |-> v]
Ended(p)      == socket[p.by] # p.n \/ pc[p.by] = "idle"
Reading(c, k) == pc[c] # "idle" /\ op[c].call = "get" /\ op[c].key = k

HInit ==
  /\ Init
  /\ live = [k \in Key |-> {}]
  /\ hides = [c \in Client |-> {}]
  /\ allowed = [c \in Client |-> {}]

HPutStart(c) ==
  /\ PutStart(c)
  /\ LET k == op'[c].key
         p == PutOf(c, op'[c].val)
     IN  /\ live' = [live EXCEPT ![k] = @ \cup {p}]
         /\ hides' = [hides EXCEPT ![c] = {q \in live[k] : Ended(q)}]
         /\ allowed' = [d \in Client |-> IF Reading(d, k)
                                         THEN allowed[d] \cup {p} ELSE allowed[d]]

HGetStart(c) ==
  /\ GetStart(c)
  /\ allowed' = [allowed EXCEPT ![c] = live[op'[c].key]]
  /\ UNCHANGED <<live, hides>>

(* What an operation leaves behind when it returns. *)
HReturn(c) ==
  /\ live' = IF op[c].call = "put" /\ result'[c].err = "ERR_NONE"
             THEN [live EXCEPT ![op[c].key] = @ \ hides[c]] ELSE live
  /\ hides' = [hides EXCEPT ![c] = {}]
  /\ allowed' = [allowed EXCEPT ![c] = {}]

HStep(c) ==
  /\ Step(c) \/ CopyReply(c)
  /\ IF pc'[c] = "idle" THEN HReturn(c) ELSE UNCHANGED history

HRefused(c) == Refused(c) /\ UNCHANGED history

HServe(s) ==
  /\ Handle(s) \/ DumpPacket(s) \/ CopyRequest(s) \/ CrashRestart(s)
  /\ UNCHANGED history

HNext ==
  \/ \E c \in Client : HPutStart(c) \/ HGetStart(c) \/ HRefused(c) \/ HStep(c)
  \/ \E s \in Server : HServe(s)

HSpec == HInit /\ [][HNext]_hvars

-----------------------------------------------------------------------------
(* A client of the table as the client of a register. *)
Call == [c \in Client |->
          [busy |-> pc[c] # "idle", n |-> socket[c], what |-> op[c].call,
           key |-> op[c].key, val |-> op[c].val,
           err |-> result[c].err, got |-> result[c].val]]

Register == INSTANCE RegularRegister WITH call <- Call

(* The servers an operation with options a asks for key k in the ring w. *)
Asks(w, k, a) == {w[k][i] : i \in DOMAIN w[k] \cap 1 .. a.N}

(* What that takes: datagrams in order, no crash and no copies, keys that  *)
(* are not empty, and W servers a put asks that meet any R a get asks.     *)
QuorumsMeet ==
  /\ InOrder /\ MaxCrash = 0 /\ MaxCopies = 0
  /\ Empty \notin Key
  /\ \A k \in Key, v, w \in Walks, a, b \in Args :
       \A P \in SUBSET Asks(v, k, a), G \in SUBSET Asks(w, k, b) :
         Cardinality(P) >= a.W /\ Cardinality(G) >= b.R => P \cap G # {}

(***************************************************************************)
(* Where quorums meet, whatever datagrams are lost and in whatever order   *)
(* the rings of the processes list the servers, puts and gets make a       *)
(* regular register per key (network_put, network_get and the servers'     *)
(* handling of both).                                                      *)
(***************************************************************************)
RegularReads == Register!Spec

=============================================================================
