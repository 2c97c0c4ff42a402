------------------------------ MODULE MCBloom ------------------------------
(***************************************************************************)
(* Four hashes over a vector of four bits in bytes of two, k = 2: a and b  *)
(* share a bit, c is an alias of a and b together, and both functions give *)
(* d the same bit.                                                         *)
(***************************************************************************)
EXTENDS Bloom

CONSTANTS a, b, c, d

MCSlice == a :> (0 :> 0 @@ 1 :> 1) @@ b :> (0 :> 1 @@ 1 :> 2)
        @@ c :> (0 :> 2 @@ 1 :> 0) @@ d :> (0 :> 3 @@ 1 :> 3)

MCBits == 0 .. 3
=============================================================================
