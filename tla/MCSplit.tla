------------------------------ MODULE MCSplit ------------------------------
(* Three clients put three values for one key, with the default options.   *)
EXTENDS QuorumStore, TLC

CONSTANTS s1, s2, s3

MCWalks == {[x \in Key |-> <<s1, s2, s3>>]}
MCArgs  == {[N |-> 3, R |-> 2, W |-> 2]}
MCCalls == [c \in Client |-> <<[call : {"put"}, key : Key, val : Value]>>]

Symmetry == Permutations(Client) \cup Permutations(Value)

=============================================================================
