---------------------------- MODULE MCBloomFormat ----------------------------
(***************************************************************************)
(* A small instance of BloomFormat: bytes of two bits, digests of two and  *)
(* three bytes, vectors of four and eight bits; one of eight bits has more *)
(* bytes than an int counts.  33 functions of 2 bits are 66 bits, which    *)
(* the uint32_t (of six bits) takes for two.  The files that exist are a   *)
(* full filter whose counters are about to leave the 32 bits (here six),   *)
(* files nsrl_bloom_open does not accept, and two that it accepts and      *)
(* create() would not have made: with more functions than fit into the     *)
(* hash, and with more vector than the header says.                        *)
(***************************************************************************)
EXTENDS BloomFormat, SequencesExt

MCDigests == [1 .. 2 -> {0, 1, 3}] \cup [1 .. 3 -> {1, 2}]

Used == [ hash_bytes |-> 2, M |-> 2, k |-> 2, vector |-> 0 .. 3, added_items |-> 62,
          unique_added_items |-> 2, aliased_adds |-> 59, comment |-> 0 ]

FileOf(header) == [header |-> header, vector |-> 0 .. 3]

MCGiven ==
  { FileOf(info(Used)),
    FileOf(SubSeq(info(Used), 1, 7)),                             \* no comment
    FileOf(Tail(info(Used))),                                     \* no version
    FileOf(SelectSeq(info(Used), LAMBDA l : l.key # "k")),
    FileOf(Append(info(Used), line("hash_bits", 10))),            \* no such digest
    FileOf(Append(info(Used), line("bloom_bits", 0))),
    [FileOf(Append(info(Used), line("k", 3))) EXCEPT !.vector = {1, 5}] }
=============================================================================
