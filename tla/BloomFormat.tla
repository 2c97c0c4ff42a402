----------------------------- MODULE BloomFormat -----------------------------
(***************************************************************************)
(* What a Bloom filter looks like (bloom.c): the parameters and the checks *)
(* of nsrl_bloom_create, the slices nsrl_bloom_add and _query cut out of a *)
(* hash, the header that nsrl_bloom_info writes and nsrl_bloom_open reads, *)
(* and the statistics taken from the bytes of the vector.                  *)
(*                                                                         *)
(* Bloom has the steps of concurrent calls and BloomFile those on files;   *)
(* here a call is one step.  The names are not those of Bloom, so that one *)
(* module can extend both.                                                 *)
(***************************************************************************)
EXTENDS Integers, Sequences, FiniteSetsExt

CONSTANTS
  BytePower,   \* 3: a byte has 2^BytePower bits
  Word,        \* 2^32: the values of a uint32_t
  IntValues,   \* 2^31: the values of an int that are not negative
  DigestBytes, \* {16, 20, 32}: the digests set_params knows
  HashBits, BloomBits, Ks,  \* arguments of create(); a vector has less than
                            \* 2^64 bytes, so that 1 << (M - 3) is defined
  Comments,    \* comments, by number; 0 is none
  Digests,     \* bytes of the hashes that are added, one for each digest size
  Given,       \* [header, vector]: filter files that exist already
  InfoEvery,   \* 1000: adds between two updates of the header
  MaxAdds      \* bound

\* 1 << n
shifted[n \in Nat] == IF n = 0 THEN 1 ELSE 2 * shifted[n - 1]

ByteBits == shifted[BytePower]

ASSUME BloomFormatAssumption ==
  /\ BytePower \in Nat
  /\ {Word, IntValues, InfoEvery} \subseteq Nat \ {0}
  /\ DigestBytes \cup HashBits \cup BloomBits \cup Ks \subseteq 0 .. Word - 1
  /\ 0 \notin DigestBytes
  /\ Comments \subseteq Nat \ {0}
  /\ Digests \subseteq Seq(0 .. shifted[ByteBits] - 1)
  /\ Given \subseteq [header : Seq([key : STRING, value : Nat]), vector : SUBSET Nat]

VARIABLES
  at,          \* "none": no filter; "live"; "failed"; "exited"
  object,      \* the nsrl_bloom object
  filterFile,  \* the header lines and the vector of a file, << >> if there is none
  entries,     \* history: the hashes added, in this and earlier sessions
  adds         \* how many adds there were

formatvars == << at, object, filterFile, entries, adds >>

(***************************************************************************)
(* Bits and bytes.  A byte is a number, and its bit j counts 2^j; a hash   *)
(* is a sequence of bytes, a vector the set of the bits that are 1.        *)
(***************************************************************************)
bitOf(byte, j) == (byte \div shifted[j]) % 2

get_bit(hash, bit) == bitOf(hash[bit \div ByteBits + 1], bit % ByteBits)

\* Bit j of slice i: offset + j, of uint32_t.
bitOffset(M, i, j) == (((i * M) % Word) + j) % Word

\* v = (v << 1) | get_bit(hash, offset + j)
sliceOf(M, hash, i) ==
  LET v[j \in 0 .. M] ==
        IF j = 0 THEN 0 ELSE 2 * v[j - 1] + get_bit(hash, bitOffset(M, i, j - 1))
  IN  v[M]

\* The slices that lie inside the hash, and those that reach out of it, where
\* their bits are those of whatever memory is there.
isInside(o, i) == \A j \in 0 .. o.M - 1 : bitOffset(o.M, i, j) < o.hash_bytes * ByteBits

inside(o)  == { i \in 0 .. o.k - 1 : isInside(o, i) }
outside(o) == { i \in 0 .. o.k - 1 : ~ isInside(o, i) }

slices(o, hash) == { sliceOf(o.M, hash, i) : i \in inside(o) }

\* What the slices outside can be in an add or a query.
strays(o) ==
  { s \in SUBSET (0 .. shifted[o.M] - 1) :
      (s = {} <=> outside(o) = {}) /\ Cardinality(s) <= Cardinality(outside(o)) }

\* nsrl_bloom_query; what it finds by slices outside is not known.
query(o, hash) == slices(o, hash) \subseteq o.vector

vectorBytes(o) == shifted[o.M - BytePower]

byteAt(vector, n) ==
  MapThenSumSet(LAMBDA j : IF n * ByteBits + j \in vector THEN shifted[j] ELSE 0,
                0 .. ByteBits - 1)

(***************************************************************************)
(* nsrl_bloom_info and the loop of nsrl_bloom_open over the lines.  A line *)
(* is a key and a value; the last line with a key wins.  atoi() keeps 32   *)
(* bits of a counter of 64.                                                *)
(***************************************************************************)
line(key, value) == [key |-> key, value |-> value]

\* The comment "(null)": printf() of a comment there is none of.
NullText == 1

\* Mutant: the header has the bytes of the hash for its bits.
infoBytes(o) ==
  << line("nsrl_bf_version", 2), line("hash_bits", o.hash_bytes),
     line("bloom_bits", o.M), line("k", o.k), line("added_items", o.added_items),
     line("unique_added_items", o.unique_added_items),
     line("aliased_adds", o.aliased_adds),
     line("comment", IF o.comment = 0 THEN NullText ELSE o.comment) >>

info(o) ==
  << line("nsrl_bf_version", 2), line("hash_bits", o.hash_bytes * ByteBits),
     line("bloom_bits", o.M), line("k", o.k), line("added_items", o.added_items),
     line("unique_added_items", o.unique_added_items),
     line("aliased_adds", o.aliased_adds),
     line("comment", IF o.comment = 0 THEN NullText ELSE o.comment) >>

lastOf(header, key) ==
  LET J == {j \in DOMAIN header : header[j].key = key}
  IN  IF J = {} THEN 0 ELSE header[Max(J)].value

valueOf(header, key) == lastOf(header, key) % Word

\* The vector that is mapped is as long as the header says.
parsed(f) ==
  [ hash_bytes         |-> valueOf(f.header, "hash_bits") \div ByteBits,
    M                  |-> valueOf(f.header, "bloom_bits"),
    k                  |-> valueOf(f.header, "k"),
    vector             |-> f.vector \cap 0 .. shifted[valueOf(f.header, "bloom_bits")] - 1,
    added_items        |-> valueOf(f.header, "added_items"),
    unique_added_items |-> valueOf(f.header, "unique_added_items"),
    aliased_adds       |-> valueOf(f.header, "aliased_adds"),
    comment            |-> lastOf(f.header, "comment") ]

-----------------------------------------------------------------------------
FormatInit ==
  /\ at = "none"
  /\ object = << >>
  /\ filterFile \in Given \cup {<< >>}
  /\ entries = {}
  /\ adds = 0

\* Mutant: one function has to fit into the hash.
argumentsUnchecked(hash_bits, bloom_bits, k) ==
  \/ hash_bits < bloom_bits
  \/ hash_bits % ByteBits # 0
  \/ hash_bits \div ByteBits \notin DigestBytes

\* The arguments create() ends the program for; the product is of uint32_t.
argumentsRefused(hash_bits, bloom_bits, k) ==
  \/ hash_bits < (bloom_bits * k) % Word
  \/ hash_bits % ByteBits # 0
  \/ hash_bits \div ByteBits \notin DigestBytes

\* calloc() fails where there is no memory, and always for M < 3: the shift is
\* by a uint32_t that has wrapped, and no memory is so large.
Create(hash_bits, bloom_bits, k, comment) ==
  /\ at = "none"
  /\ filterFile = << >>
  /\ \/ at' = "failed" /\ UNCHANGED object
     \/ /\ bloom_bits >= BytePower
        /\ argumentsRefused(hash_bits, bloom_bits, k)
        /\ at' = "exited" /\ UNCHANGED object
     \/ /\ bloom_bits >= BytePower
        /\ ~ argumentsRefused(hash_bits, bloom_bits, k)
        /\ at' = "live"
        /\ object' = [ hash_bytes |-> hash_bits \div ByteBits, M |-> bloom_bits,
                       k |-> k, vector |-> {}, added_items |-> 0,
                       unique_added_items |-> 0, aliased_adds |-> 0,
                       comment |-> comment ]
  /\ UNCHANGED << filterFile, entries, adds >>

\* nsrl_bloom_open of the file.  It refuses other versions and zeroes, and fails
\* if mmap() does, always for M < 3; it does not compare the parameters as
\* create() does.
Open ==
  /\ at = "none"
  /\ filterFile # << >>
  /\ LET p == parsed(filterFile) IN
     \/ p.hash_bytes \notin DigestBytes /\ at' = "exited" /\ UNCHANGED object
     \/ p.hash_bytes \in DigestBytes /\ at' = "failed" /\ UNCHANGED object
     \/ /\ p.hash_bytes \in DigestBytes
        /\ valueOf(filterFile.header, "nsrl_bf_version") = 2 /\ 0 \notin {p.M, p.k}
        /\ p.M >= BytePower
        /\ at' = "live" /\ object' = p
  /\ UNCHANGED << filterFile, entries, adds >>

\* How many of the k bits were 0, in turn: two slices may be the same bit.
addedBits(o, set) == Cardinality(set \ o.vector)

\* The bytes of the file behind those that are mapped stay.
stored(o, header) ==
  [ header |-> header,
    vector |-> o.vector \cup (filterFile.vector \ 0 .. shifted[o.M] - 1) ]

Add(hash) ==
  /\ at = "live"
  /\ Len(hash) = object.hash_bytes
  /\ adds < MaxAdds
  /\ \E stray \in strays(object) :
       LET set == slices(object, hash) \cup stray IN
       object' = [object EXCEPT
         !.vector = @ \cup set,
         !.unique_added_items = @ + (IF addedBits(object, set) = object.k THEN 1 ELSE 0),
         !.aliased_adds = @ + (IF addedBits(object, set) = 0 THEN 1 ELSE 0),
         !.added_items = @ + 1]
  /\ filterFile' = IF filterFile = << >> THEN << >>
                   ELSE stored(object', IF object'.added_items % InfoEvery = 0
                                        THEN info(object') ELSE filterFile.header)
  /\ entries' = entries \cup {hash}
  /\ adds' = adds + 1
  /\ UNCHANGED at

\* There may be no memory behind the hash.
AddFaults(hash) ==
  /\ at = "live"
  /\ Len(hash) = object.hash_bytes
  /\ outside(object) # {}
  /\ at' = "exited"
  /\ \E set \in SUBSET (0 .. shifted[object.M] - 1) :
       filterFile' = IF filterFile = << >> THEN << >>
                     ELSE [header |-> filterFile.header, vector |-> filterFile.vector \cup set]
  /\ UNCHANGED << object, entries, adds >>

\* nsrl_bloom_write of a filter in memory, and nsrl_bloom_clear.
Write ==
  /\ at = "live"
  /\ filterFile = << >>
  /\ filterFile' = [header |-> info(object), vector |-> object.vector]
  /\ at' = "none"
  /\ object' = << >>
  /\ UNCHANGED << entries, adds >>

\* nsrl_bloom_clear of a filter that is mapped writes nothing.
Close ==
  /\ at = "live"
  /\ filterFile # << >>
  /\ at' = "none"
  /\ object' = << >>
  /\ UNCHANGED << filterFile, entries, adds >>

FormatNext ==
  \/ \E hash_bits \in HashBits, bloom_bits \in BloomBits, k \in Ks, comment \in Comments :
       Create(hash_bits, bloom_bits, k, comment)
  \/ Open
  \/ \E hash \in Digests : Add(hash) \/ AddFaults(hash)
  \/ Write
  \/ Close

FormatSpec == FormatInit /\ [][FormatNext]_formatvars
-----------------------------------------------------------------------------
(***************************************************************************)
(* nsrl_calc_histogram, nsrl_print_histogram and nsrl_bloom_utilization.   *)
(***************************************************************************)
\* Mutant: the loop over the values ends before the last.
countsBelowLast(o) ==
  [ value \in 1 .. shifted[ByteBits] - 1 |->
      Cardinality({ n \in 0 .. vectorBytes(o) - 1 :
                      byteAt(o.vector, n) = value /\ value < shifted[ByteBits] - 1 }) ]

counts(o) ==
  [ value \in 1 .. shifted[ByteBits] - 1 |->
      Cardinality({ n \in 0 .. vectorBytes(o) - 1 : byteAt(o.vector, n) = value }) ]

bitsPer(byte) == MapThenSumSet(LAMBDA j : bitOf(byte, j), 0 .. ByteBits - 1)

histogramBits(o) ==
  MapThenSumSet(LAMBDA value : bitsPer(value) * counts(o)[value],
                1 .. shifted[ByteBits] - 1)

\* The first n bytes.
bitsBelow(o, n) == MapThenSumSet(LAMBDA m : bitsPer(byteAt(o.vector, m)), 0 .. n - 1)

\* The loop of nsrl_bloom_utilization counts bytes with an int: if there are
\* more than it can hold it ends where the int becomes negative, or goes on to
\* the last byte where the compiler has made the int wider.
utilizationBits(o) ==
  { bitsBelow(o, n) : n \in {vectorBytes(o)} \cup
                           (IF vectorBytes(o) > IntValues THEN {IntValues} ELSE {}) }

(***************************************************************************)
(* A filter that create() made, of parameters whose product does not wrap, *)
(* has all its slices inside the hash, and so has any filter whose product *)
(* is not larger than the hash.  A slice inside the hash names a bit       *)
(* inside the vector; and the slices of a hash that was added, in this     *)
(* session or one before, are in the vector: if all are inside the hash it *)
(* is found.                                                               *)
(***************************************************************************)
fits(o) == o.M * o.k <= o.hash_bytes * ByteBits

AddedAreFound ==
  at = "live" =>
    /\ filterFile = << >> /\ object.M * object.k < Word => fits(object)
    /\ fits(object) => outside(object) = {}
    /\ \A hash \in Digests : Len(hash) = object.hash_bytes =>
         \A v \in slices(object, hash) : v \div ByteBits < vectorBytes(object)
    /\ \A hash \in entries : query(object, hash)

(***************************************************************************)
(* Opening a file whose header nsrl_bloom_info wrote gives back the        *)
(* parameters as they were, the 64-bit counters modulo 2^32, and the       *)
(* comment, which is there from then on if it was not.                     *)
(***************************************************************************)
HeaderRoundTrips ==
  at = "live" =>
    parsed([header |-> info(object), vector |-> object.vector]) =
      [object EXCEPT !.added_items = @ % Word,
                     !.unique_added_items = @ % Word,
                     !.aliased_adds = @ % Word,
                     !.comment = IF @ = 0 THEN NullText ELSE @]

(***************************************************************************)
(* The histogram counts the bits of the vector that are 1, whichever bytes *)
(* they are in, and so does the utilization up to 2^31 bytes (M = 34); for *)
(* a larger vector the second may count less, but never more.              *)
(***************************************************************************)
StatisticsAgree ==
  at = "live" =>
    LET set == Cardinality(object.vector) IN
    /\ histogramBits(object) = set
    /\ \A bits \in utilizationBits(object) :
         IF vectorBytes(object) <= IntValues THEN bits = set ELSE bits <= set
=============================================================================
