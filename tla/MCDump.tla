------------------------------ MODULE MCDump ------------------------------
(***************************************************************************)
(* Keys of three bytes, MAX_MSG_SIZE is 21.  Three pairs with values of at *)
(* most one byte fit into a packet, one with the longer ones; big leaves   *)
(* no room for the header of the first packet, huge fits into no packet.   *)
(***************************************************************************)
EXTENDS Dump

CONSTANTS k1, k2, k3, k4, short, long, big, huge

MCLength ==
  [s \in Key \cup Value |->
     CASE s \in Key -> 3 [] s = Empty -> 0 [] s = short -> 1
       [] s = long -> 10 [] s = big -> 15 [] s = huge -> 17]

=============================================================================
