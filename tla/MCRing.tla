------------------------------ MODULE MCRing ------------------------------
(***************************************************************************)
(* Two processes and a ring of four virtual nodes of three servers.  Junk  *)
(* "none" is what node_init would hash if its separator ended in a NUL     *)
(* byte, "other" gives another order, "tie" makes digests compare equal.   *)
(***************************************************************************)
EXTENDS Ring, TLC

CONSTANTS p1, p2, a, b, c, mid, high

MCCopies == (a :> 2) @@ (b :> 1) @@ (c :> 1)

MCSha ==
  [x \in Server \X (1 .. 2) \X {"none", "other", "tie"} |->
     LET place == CASE x[1] = a -> IF x[2] = 1 THEN 2 ELSE 4
                    [] x[1] = b -> 6
                    [] x[1] = c -> 8
     IN  CASE x[3] = "none"  -> place
           [] x[3] = "other" -> 10 - place
           [] x[3] = "tie"   -> IF place > 4 THEN 6 ELSE place]

MCKeySha == (mid :> 6) @@ (high :> 9)

AllFiles == {{a, b, c}, {a, b}, {b, c}}
OneFile  == {{a, b, c}}

=============================================================================
