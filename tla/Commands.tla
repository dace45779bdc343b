------------------------------ MODULE Commands ------------------------------
(***************************************************************************)
(* All the command line tools: the start they have in common, then the     *)
(* steps of one of them.  What goes on around a tool that works on keys is *)
(* the puts of others, with the servers behind a table of current values;  *)
(* around pps-list-nodes it is the servers' processes.                     *)
(***************************************************************************)
EXTENDS Tools, ListNodes

vars == <<startVars, toolsVars, listVars, serverVars>>

(* There are no server processes but for the tool that looks at them. *)
NoServers ==
  /\ typed = [p \in Process |-> [words |-> <<>>, end |-> "blocks"]]
  /\ words = [p \in Process |-> <<>>]
  /\ at = [p \in Process |-> "exit"]
  /\ last = [p \in Process |-> CHOOSE g \in Garbage : TRUE]
  /\ bound = [p \in Process |-> Unbound]

Init ==
  /\ StartInit /\ ToolsInit /\ ListInit
  /\ \/ tool = "list" /\ ServerInit
     \/ tool # "list" /\ NoServers

(* The tool's own steps. *)
Run ==
  \/ (Parsing \/ Cap("work")) /\ UNCHANGED <<toolsVars, listVars, serverVars>>
  \/ KeyToolStep /\ UNCHANGED <<listVars, serverVars>>
  \/ ListStep /\ UNCHANGED toolsVars

Around ==
  \/ (\E k \in Key, v \in Values : OtherPut(k, v)) /\ UNCHANGED <<listVars, serverVars>>
  \/ (Answer \/ ServerStep) /\ UNCHANGED toolsVars

Next == Run \/ Around

(* A tool goes on, and so does a prompt that has something to read. *)
Fairness ==
  /\ WF_vars(Run)
  /\ \A p \in Process : WF_vars(Prompt(p) /\ UNCHANGED <<startVars, toolsVars, listVars>>)

Spec == Init /\ [][Next]_vars /\ Fairness

TypeOK == StartTypeOK /\ ToolsTypeOK /\ ServerTypeOK /\ ListTypeOK

(***************************************************************************)
(* A tool ends, by itself or by a crash, unless the last line of its       *)
(* servers.txt lacks the newline (node_list.c:95).                         *)
(***************************************************************************)
ToolEnds ==
  (pc = "start" /\ (lines = NoFile \/ Unended \notin ToSet(lines))) ~> pc = "exit"

=============================================================================
