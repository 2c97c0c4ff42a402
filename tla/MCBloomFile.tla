---------------------------- MODULE MCBloomFile ----------------------------
(***************************************************************************)
(* A small instance of BloomFile: items x and y share a byte of the first  *)
(* chunk, z is in the second.  A writing process and a reading one,        *)
(* beginning with no file or one this version does not open; two writing   *)
(* processes on one filter; one process with two objects.                  *)
(***************************************************************************)
EXTENDS BloomFile

CONSTANTS x, y, z, p, q, b, c, n, m

MCItems == {x, y, z}
MCbyteOf == [h \in MCItems |-> IF h = z THEN 2 ELSE 1]
MCchunkOf == [h \in MCItems |-> IF h = z THEN 2 ELSE 1]

Given(header) == [EmptyFile EXCEPT !.header = header, !.chunks = Chunks]

Setup(file, names, items, writers, ofP, ofQ, maxAdds, maxSessions) ==
  [ file |-> file, names |-> names, items |-> items, writers |-> writers,
    maxAdds |-> maxAdds, maxSessions |-> maxSessions,
    filters |-> [proc \in {p, q} |-> IF proc = p THEN ofP ELSE ofQ] ]

MCSetups ==
  { Setup(Given(header), {n}, {x, z}, {p}, {b}, {b}, 1, 1) :
      header \in {"unsupported_hash_bits", "old_version"} }
    \union { Setup(EmptyFile, {n}, {x, z}, {p}, {b}, {b}, 1, 2),
             Setup(Given("good"), {n}, {x, y}, {p, q}, {b}, {b}, 4, 2),
             Setup(EmptyFile, {n}, {x}, {p}, {b, c}, {}, 0, 1),
             Setup(Given("no_k"), {n, m}, {x}, {p}, {b, c}, {}, 0, 1) }
=============================================================================
