----------------------------- MODULE ListNodes -----------------------------
(***************************************************************************)
(* pps-list-nodes after its start: it pings every virtual node of          *)
(* servers.txt, counts the answers and prints who has answered, while the  *)
(* servers start, serve and die.  A ping is an empty datagram, and so is   *)
(* the answer; either may get lost and an answer may be duplicated.        *)
(***************************************************************************)
EXTENDS ClientStart, ServerStart, SequencesExt

CONSTANT MaxDuplicates  \* duplicated answers, a bound

ASSUME ListAssumption == MaxDuplicates \in Nat

VARIABLES
  pings,    \* pings[a]: the pings on their way to the address a
  inbox,    \* the senders of the answers at the socket, oldest first
  extra,    \* answers that were duplicated
  ok,       \* the addresses the hash table has "OK" for
  count,    \* nbr_response
  printed   \* the lines: of which server, and whether it says "OK" or "FAIL"

listVars == <<pings, inbox, extra, ok, count, printed>>

ListInit ==
  /\ pings = [a \in Address |-> 0]
  /\ inbox = <<>> /\ extra = 0
  /\ ok = {} /\ count = 0
  /\ printed = <<>>

Listing == tool = "list" /\ pc # "exit"

(* A ping to each virtual node, many of which may be one server's. *)
Ping ==
  /\ Listing /\ pc = "work"
  /\ pings' = [a \in Address |-> Cardinality({i \in DOMAIN ring : ring[i] = a})]
  /\ pc' = "recv"
  /\ UNCHANGED <<tool, argv, given, args, lines, nodes, ring, status>>
  /\ UNCHANGED <<inbox, extra, ok, count, printed, serverVars>>

(* A server answers a ping.  The answer arrives, or is lost, or is late; a *)
(* ping that nobody answers is one that is lost.                           *)
Pong(p) ==
  /\ Listing /\ pc = "recv"
  /\ at[p] = "serve" /\ bound[p] \in Address /\ pings[bound[p]] > 0
  /\ pings' = [pings EXCEPT ![bound[p]] = @ - 1]
  /\ inbox' \in {inbox, Append(inbox, bound[p])}
  /\ UNCHANGED <<startVars, extra, ok, count, printed, serverVars>>

(* The network delivers an answer again. *)
Duplicate(a) ==
  /\ Listing /\ pc = "recv"
  /\ extra < MaxDuplicates
  /\ a \in ok \cup ToSet(inbox)
  /\ inbox' = Append(inbox, a) /\ extra' = extra + 1
  /\ UNCHANGED <<startVars, pings, ok, count, printed, serverVars>>

(* Variant with a bug: the last answer is not waited for. *)
EnoughShort(n) == n + 1 >= Len(ring)

Enough(n) == n >= Len(ring)

(* The loop's recvfrom: answers are told apart by the table only. *)
Recv ==
  /\ Listing /\ pc = "recv"
  /\ inbox # <<>>
  /\ inbox' = Tail(inbox)
  /\ ok' = ok \cup {Head(inbox)} /\ count' = count + 1
  /\ pc' = IF Enough(count') THEN "print" ELSE "recv"
  /\ UNCHANGED <<tool, argv, given, args, lines, nodes, ring, status>>
  /\ UNCHANGED <<pings, extra, printed, serverVars>>

(* No answer has come for a second. *)
RecvTimeout ==
  /\ Listing /\ pc = "recv"
  /\ inbox = <<>>
  /\ pc' = "print"
  /\ UNCHANGED <<tool, argv, given, args, lines, nodes, ring, status>>
  /\ UNCHANGED <<listVars, serverVars>>

(* A line for each virtual node, in an order that is left out. *)
PrintNodes ==
  /\ Listing /\ pc = "print"
  /\ printed' = [i \in DOMAIN ring |->
                   [node |-> ring[i], says |-> IF ring[i] \in ok THEN "OK" ELSE "FAIL"]]
  /\ Exit("OK")
  /\ UNCHANGED <<pings, inbox, extra, ok, count, serverVars>>

ListStep == Ping \/ Recv \/ RecvTimeout \/ PrintNodes

Answer == \/ \E p \in Process : Pong(p)
          \/ \E a \in Address : Duplicate(a)

(* The servers start and die before, while and after the list is made. *)
ServerStep ==
  /\ tool = "list"
  /\ \E p \in Process : Prompt(p) \/ Kill(p)
  /\ UNCHANGED <<startVars, listVars>>

-----------------------------------------------------------------------------
ListTypeOK ==
  /\ pings \in [Address -> 0 .. Len(ring)]
  /\ ToSet(inbox) \cup ok \subseteq ToSet(ring)
  /\ extra \in 0 .. MaxDuplicates
  /\ count <= Len(ring) + MaxDuplicates

PrintedAs(says) == {printed[i].node : i \in {j \in DOMAIN printed : printed[j].says = says}}

(***************************************************************************)
(* "pings every server in servers.txt and returns their status"            *)
(* (pps-list-nodes.c:44): the lines of each server of the ring all say the *)
(* same, "OK" only if a process has served at its address, and "FAIL"      *)
(* although its answer had arrived for no more servers than there were     *)
(* answers that the network had duplicated.                                *)
(***************************************************************************)
ListedAsAnswered ==
  (tool = "list" /\ status = "OK") =>
    /\ PrintedAs("OK") = ToSet(ring) \ PrintedAs("FAIL")
    /\ \A a \in PrintedAs("OK") : \E p \in Process : bound[p] = a /\ at[p] # "prompt"
    /\ Cardinality(PrintedAs("FAIL") \cap ToSet(inbox)) <= extra

=============================================================================
