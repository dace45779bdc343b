---------------------------- MODULE MCRegister ----------------------------
(***************************************************************************)
(* One key on three servers, every client with the default options.  The   *)
(* rings of two processes may list the servers in opposite orders; Swap    *)
(* maps the one walk to the other, and the servers are equal otherwise.    *)
(* The two puts put different values, so that a get tells them apart.      *)
(***************************************************************************)
EXTENDS QuorumHistory, TLC

CONSTANTS s1, s2, s3, c1, c2, v1, v2, long

MCWalks == {[k \in Key |-> <<s1, s2, s3>>], [k \in Key |-> <<s3, s2, s1>>]}
MCArgs  == {[N |-> 3, R |-> 2, W |-> 2]}
Puts(V) == [call : {"put"}, key : Key, val : V]
Gets == [call : {"get"}, key : Key, val : {NULL}]
MCCalls == (c1 :> <<Puts({v1, long})>>) @@ (c2 :> <<Puts({v2}), Gets>>)

ASSUME QuorumsMeet

Swap == Permutations({s1, s3})

===========================================================================
