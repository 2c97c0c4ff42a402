------------------------------ MODULE BloomOps ------------------------------
(***************************************************************************)
(* The pure part of bloom.c: which bits of the vector stand for a hash.    *)
(*                                                                         *)
(* nsrl_bloom_add and nsrl_bloom_query cut a hash into k slices of M bits; *)
(* each slice is the number of a bit of the vector (get_bit and the inner  *)
(* loops).  Only the slices matter to the properties, so a hash is a       *)
(* member of Hashes and slice i of hash h is the bit slice[h][i].          *)
(* The vector is the set of the bits that are 1.                           *)
(***************************************************************************)
EXTENDS Integers, FiniteSets

CONSTANTS
  Hashes,     \* the hashes that are added and queried
  Bits,       \* the bit numbers 0 .. 2^M - 1
  k,          \* number of bloom functions
  slice,      \* slice[h][i]: bit number of bloom function i on hash h
  BitsPerByte \* 8 in the source

ASSUME HashesAssumption == Hashes # {}

ASSUME BloomAssumption ==
  /\ Bits \subseteq Nat
  /\ IsFiniteSet(Bits)
  /\ k \in Nat \ {0}
  /\ slice \in [Hashes -> [0 .. k - 1 -> Bits]]
  /\ BitsPerByte \in Nat \ {0}

get_bloom_bit(vector, bit) == bit \in vector

\* The bits kept in the same byte as bit: set_bloom_bit rewrites all of them.
ByteOf(bit) ==
  { other \in Bits : other \div BitsPerByte = bit \div BitsPerByte }

BitsOf(hash) == { slice[hash][i] : i \in 0 .. k - 1 }

AddedFewer(vector, hash) ==    \* mutant: from function 1 on
  vector \cup { slice[hash][i] : i \in 1 .. k - 1 }

\* What a completed nsrl_bloom_add and nsrl_bloom_query amount to.
AddedTo(vector, hash) == vector \cup BitsOf(hash)
FoundIn(vector, hash) == BitsOf(hash) \subseteq vector
=============================================================================
