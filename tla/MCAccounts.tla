---------------------------- MODULE MCAccounts ----------------------------
(***************************************************************************)
(* Two servers, options that ask for three (the third address is zero),    *)
(* the empty string as a key and as a value, and a value that is too long. *)
(***************************************************************************)
EXTENDS QuorumAccounts, TLC

CONSTANTS s1, s2, c1, c2, k, v1, long

MCWalks == {[x \in Key |-> <<s1, s2>>]}
MCArgs  == {[N |-> 3, R |-> 2, W |-> 2]}
Puts(x, y) == [call |-> "put", key |-> x, val |-> y]
Gets(x) == [call |-> "get", key |-> x, val |-> NULL]
MCCalls == (c1 :> <<{Puts(k, v1)}>>)
        @@ (c2 :> <<{Puts(k, long), Puts(Empty, Empty), Gets(k), Gets(Empty)}>>)

===========================================================================
