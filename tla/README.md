# A formal model of frag_find

frag_find looks for the blocks of known files ("masters") in a disk image: it
hashes every block of each master, hashes every block of the image, and reports
where the blocks of the masters are.  This directory holds TLA+ modules that
model it, TLC configurations that check them on small instances, and proofs
checked by TLAPS.  Line numbers are those of `src/`.

## The system

| Component | Source | State | Operations | What makes it correct |
|---|---|---|---|---|
| Search and report | `src/src/frag_find.cpp` main, masterfile, masters_t | md5map and filemap of each master, counters, block buffer | check the command line, load a master, scan the image, clean, print_report | the filemaps hold exactly the positions of equal blocks; the report names only bytes that are there and forgets no block |
| Filemap | `src/src/frag_find.cpp:104-177` | a blocklist per master block | contains, clean, runlen, found_count | clean loses and invents no location and needs one call |
| Block files | `src/src/blockfile.h` | descriptor, sizes taken at open | open, pread, getblock | block numbers name blocks of the file |
| Bloom filter | `src/src/bloom.c`, `bloom.h` | vector, counters, mutex | add, query, addString, queryString | no false negative, with any interleaving |
| Bloom filter files | the same | file with header and vector, descriptor, mapping | create, write, open, info_update, clear | finished adds survive, no partial file, no descriptor lost or used for another filter |
| Bloom filter format | the same | arguments, header lines, vector bytes | create, open, info, histogram, utilization | what is accepted, written and read back fits together |
| md5deep input | `frag_find.cpp:391-498` | none | read_md5deep | accepts what md5deep writes |
| XML writer | `xml.cpp`, `xml.h`, `cppmutex.h` | output stream, tag stack, set of tags | push, pop, xmlout, xmlprintf, close | well-formed output |
| DFXML reader | `dfxml.cpp`, `dfxml.h` | tag stack, current file object | startElement, endElement, cdata | reads back what was written |
| MD5 | `md5.c`, `md5.h`, `hash_t.h` | 64-byte buffer, bit count | Init, Update, Final | independent of how input is cut |
| Timer | `aftimer.h` | start time, totals | start, stop, elapsed, eta | no negative or wrapped time |
| RDS importer | `nsrl_bloom_creator.cpp` (not built) | 1 KB buffer on a file | load_buffer, getline, nextline | each line once, whole and in order |
| Java port | `src/java/FragFind.java`, `ImageFile.java` | prefilter, sha1map and filemap of each target | load, searchVolume, clean, print; the search for the size of a device | as the C++ program, without a report after an error |
| Java Bloom filter | `src/java/NSRLBloom.java` | vector | add, query, open | the answers of the C filter |
| Helpers, tests, build | `myregex.h`, `beregex.*`, `hexbuf.*`, `histogram.h`, `disk_bloom.cpp`, `hash_t_test.cpp`, `test_frag_find.py`, `configure.ac` | - | - | - |

main() owns the masters; each master adds its block digests to its own md5map
and to one Bloom filter shared by all.  The scan asks the filter first and only
then the md5maps, and appends the image block number to the filemaps.  The
filemaps are cleaned and printed one after the other; with `-x` the runs also
go to an XML file, which the DFXML reader and `test_frag_find.py` read.  The
Bloom filter is a library of its own: it is written for several threads
(`HAVE_PTHREAD`, which this `configure.ac` does not define) and for filters in
mapped files that several processes open.

What is hard here: the interplay of filter, tables and report (a missing bit, a
wrong step over a run); files that change, end early or are devices; the threads
of the Bloom filter; a filter file whose writer is killed or fails half way;
counters kept in memory and in a file.  `PROJECT.json` lists each hazard at its
line.

## Modules

| Module | Models | Notes |
|---|---|---|
| `Filemap` | blocklist_t, filemap_t | pure operators; vectors are functions on 0..n-1 as in the source |
| `FilemapProofs` | lemmas about them | induction on a natural number, and what clean and runlen compute |
| `FilemapClean` | clean(), one loop iteration per step | `Sizes` and `Lists` say which filemaps it is called on |
| `FilemapCleanProofs` | theorems about it | |
| `BloomOps` | the bits of a hash, add and query as one step | a hash is a model value, `slice[h][i]` its i-th bit number |
| `BloomSet` | abstract: a set that may contain more than was added, in which a query takes effect at one instant | |
| `BloomFormat` | arguments of create(), slices of a hash, header lines, histogram, utilization | a byte is a number; a call is one step |
| `Bloom` | add, query, addString by threads | steps are the accesses to shared memory: lock, read of a bit, read of a byte, write of a byte, counters, unlock |
| `BloomProofs` | theorems about it, `BloomFormat` and `RDSFile` | extends all three, which therefore share no names (FormatSpec, RDSSpec); takes the facts on numbers and iteration from `FilemapProofs` |
| `BloomFile` | filters in files, by processes | steps are system calls and accesses to the mapping; items stand for the bits they set; `past` and `crossed` are history |
| `BloomFileProofs` | theorems about it | |
| `BlockSearch` | abstract: exact search by content, without digests or filter | `Void` is the end of what it promises: the files no longer hold the blocks that were counted |
| `FragFind` | main() with its command line, read_md5deep, load, print_report, blockfile | composes `BloomOps` and `Filemap`; an iteration of a loop is a step |
| `FragFindProofs` | theorems about the search, its refinement and the reports | |
| `Xml` | class xml and the calls main() makes with `-x` | the document is a sequence of tokens, `onDisk` of them in the file; a word of text is verbatim, has entities, or has percent encodings |
| `Dfxml` | file_object_reader, reading what `Xml` writes | composed with the writer in one state; the parser (expat) is external |
| `DfxmlProofs` | theorems about both | takes induction on a natural number from `FilemapProofs` |
| `MD5` | MD5Init, MD5Update, MD5Final, md5_generator | bytes are positions of the message; the compression function is a function of the blocks; one loop iteration per step |
| `MD5Proofs` | theorems about it | |
| `RDSFile` | RDSFile and the loop of main() in `nsrl_bloom_creator.cpp` | a line is a sequence of positions, so that equal lines are distinguished |
| `JavaFragFind` | the Java port: main, load, searchVolume, clean, print, ImageFile | implements the same `BlockSearch` |
| `JavaFragFindProofs` | theorems about it | |
| `MC*` | instances for TLC | |

State corresponds to the code by name: `md5map`, `filemap`, `blocknumber`,
`buf`, `hits`, `bloom_false_positives`, `tb` in `FragFind` are main()'s and
print_report's variables; `pc` names the loop the program is at.  The C++
objects that appear in both a step and its caller are one variable.  In
`BloomFile`, `bloom[p][b]` is one `nsrl_bloom`, `at` is the statement its owner
has reached, `fdt` the descriptor table, `dir` and `inode` the file system.

Abstractions.  File contents are sequences over two bytes, and blocks have one, two
or three of them (the program demands at least 4 bytes, `MinBlocksize`; nothing
depends on the size).  MD5 is a function given by the instance, injective as the
program assumes.  A command line is `-b`, `-s`, `-e`, `-M`, `-r`, the presence of
`-x`, the file of `-m` and the masters, and `invalid` when getopt or `-X` leads to
usage(); what main() does with it before it opens the image is one step, because
nothing else happens meanwhile.  A line of a file of hashes is a piecewise hash, one
without a file name, other text, or empty.  The text of messages is left out; the
XML around the runs is in `Xml`.  The prefilter is off in the source
(`use_prefilter` is 0 and nothing sets it), so it is left out, and `-X1` only
changes a message.  `mmap`, `open`, `kill` and the page cache are external and
modelled from how bloom.c uses them; a kill ends a process, not the machine.

## Runs

| Run | Expect | Shows |
|---|---|---|
| `clean` | pass | on all filemaps of up to 4 blocks over 4 image blocks: TypeOK, OnlyNarrows, NarrowedIsAligned, NothingLeftToClean, ComputesClean, Returns |
| `bloom_threads` | pass | 2 threads, 2 calls each, 4 hashes sharing bits and bytes: TypeOK, MutualExclusion, NoFalseNegative, CountersBoundVector, FirstIsToldOncePerThread, ImplementsBloomSet, CallsReturn |
| `bloom_file` | pass | a writer and a reader, two writers, one process with two objects; kills, failing writes, header updates and mmap, bad files: AddsSurvive, NoPartialFile, HeaderLags, DescriptorsAreOwned, WholeFileStays |
| `bloom_format` | pass | every small choice of hash size, M and k, with products that wrap and headers create() would not write, every hash, in memory and through a file: AddedAreFound, HeaderRoundTrips, StatisticsAgree |
| `frag_find` | pass | whole runs on five families of disks and command lines (below): FilemapExact, LocationsWereScanned, HitsAccountForMatches, RunsAreGenuine, ReportCoversFound, FileReassembles, CopyIsReported, ImplementsBlockSearch, Terminates |
| `device` | violation | LocationsHoldTheBlock: on a device with blocks larger than a sector, locations behind its end |
| `md5deep` | violation | HashFileIsAccepted: a file of hashes that ends in a newline is refused |
| `java` | pass | images and pairs of targets with short, empty and unreadable files and devices: ReportIsComplete, ImplementsBlockSearch |
| `java_null` | violation | EveryTargetIsReported: a target block that is not in the image ends the port with a NullPointerException |
| `dfxml` | pass | reports of one or two masters, written, killed or cut off by a full disk while they are read: NestingAgrees, DeliveredArePrefix, ClosedReportIsRead, LostTokensCarryNoData |
| `rds` | pass | all files of up to 4 lines, of 1 to 9 bytes with a buffer of 8, from every offset: LinesAreWholeAndInOrder, NoLineIsSkipped |
| `md5` | pass | messages of up to 132 bytes in pieces of any length: DigestIsOfMessage, ContextIsOfMessage |

**Bounds.**  Four master blocks and four image blocks are enough for clean(): each
loop couples a block with one neighbour, and a block can be pinned from below, from
above, or by a chain of two pins on either side; filemaps of no block and of one are
there because the second loop starts at size() - 2, which is a large number for
them.  The lists are the ascending ones, which the scan makes, and one that is not;
the safety properties are also proved for every size and every list.  In
`bloom_threads` the four hashes cover shared bits, bits of one byte, and a hash that
is a false positive of two others; two calls per thread give every overlap of an add
with an add, a query and an addString, and the proofs remove the bound. `bloom_file`
is a set of situations (`Setups`), each with the actors its question takes and no
more: a writer and a reader with items in both chunks, so that a reader meets a
vector that is cut off; two writers on items of one byte; one process with two
objects, where descriptors of one can reach the other, and without adds, which the
others have; a file of each kind that
open() refuses.  Two usable descriptors besides standard input and two inodes make a
lost descriptor felt at once; a header update every 2 adds and 2 mapped sessions let
a session end with the header behind and the next one start from it.  Where a
descriptor is given out whose number an object still has that open() closed
(`crossed`), nothing more is promised: the properties say so, and the run goes on;
the properties on descriptors are about the time until then.  The read() of the
header and the mmap() of open() are two steps, so another object can add, update the
header and clear in between; and a header update of add() may fail, which add()
ignores. `bloom_format` has bytes of 2 bits, digests of 2 and 3 bytes, M of 2 and 3
and k up to 3, so slices cross bytes, touch the end of the hash and coincide.  A
uint32_t and what atoi() keeps is 6 bits: with k of 33 the product create() compares
wraps and is accepted, and one of the files is about to count further than that.
Two of the files open() accepts are not create()'s: one has more functions than fit
into the hash, the other more vector than its header says; a slice outside the hash
reads what happens to be there or faults.  An int counts to 2, so the vectors of 8
bits (4 bytes) are larger than the index of the utilization. `frag_find` is the
union of five families.  *Reports*: all images of four blocks and all masters of 4
to 6 bytes, so that runs, lone blocks, blocks with several places and the tail meet
in every way such an image allows.  *Searches*: two masters, because the filter is
shared, with repeated and common blocks, a bad block, part of the image; 00 and 01
together set the bits of 10.  *Faults*: files that are missing, empty, too short,
too long, devices, unreadable or truncated at any step of the scan, with blocks of
1, 2 and 3 bytes and sectors of 2.  *Tails*: masters that end in a part of a block
and images with a copy of them, where that block or the one before it cannot be
read.  *Commands*: files of hashes of up to two lines, and each option that is
refused.  `java` has the searches and faults that the port treats otherwise, and a
`TopBit` of 3 for the 40 of ImageFile.  `dfxml` needs two masters to tell a prefix
from a part, and has words of each class of characters; the buffer of the stream may
be written at any time, so every cut of the document occurs. `rds` has a buffer of 8
bytes and files of up to 44, so that a file is loaded several times and every
division of a line or of its end between two buffers occurs; lines are shorter than
half of the buffer, as long as it, longer, and longer than the whole, in any order;
offsets lie in the file.  `md5` has blocks of 8 bytes, a length of 4 bytes, 2 bits
in a byte and words of 16 values, so the low word of the bit count wraps with every
block and the high word after 128 bytes.  `MaxCalls`, `MaxAdds`, `MaxFiles`, `MaxFd`
and the `maxAdds` and `maxSessions` of a setup are the bounds of the models; `Word`
and `BlockNumbers` stand for 2^64 and 2^32 and are not reached by the passing runs,
but for the `Word` of `bloom_format`.

**Fairness.**  clean() and main() are sequential code that keeps running: weak
fairness of the step relation, and in FragFind not of `Shrink`, which is another
process.  A thread in a call of the Bloom filter keeps running (weak fairness of
its steps); nobody has to make a call.  Weak fairness is enough for CallsReturn
because each thread makes a bounded number of calls.  The other modules assume
none, and no liveness is claimed of them.
Deadlock checking is off where the program stops: all these models end.

## Proofs

Eight modules hold proofs that TLAPS checks; `PROJECT.json` lists their theorems.
Each argument is an inductive invariant that is a conjunction of named parts, one
lemma per action that keeps it, and a theorem that reads the property off it.

| Module | Theorems | From |
|---|---|---|
| `FilemapProofs` | lemmas only | - |
| `FilemapCleanProofs` | TypeCorrect, CleanOnlyNarrows, CleanPinsToRuns, CleanIsIdempotent, LoopsComputeClean | SizesAssumption, ListsAssumption |
| `BloomProofs` on `Bloom` | TypeCorrect, Exclusion, NothingMissed, CountersAgree, ToldOnce, Refinement | HashesAssumption, BloomAssumption, ThreadsAssumption |
| on `BloomFormat` | HeaderIsRead, AddedStayFound, StatisticsAreRight | BloomFormatAssumption |
| on `RDSFile` | LinesAreWhole, LinesAreAll | RDSFileAssumption |
| `FragFindProofs` | LocationsAreOfScannedBlocks; SearchIsExact, HitsAreMatches, SearchRefinement, ReportIsTrue, ReportIsComplete, RunsMakeTheFile, CopiesAreReported | the assumptions of FragFind; all but the first also Collisionless and SmallMasters |
| `BloomFileProofs` | DescriptorsBelong, NamesAreOfWholeFiles, AddsAreKept, HeaderKeepsUp, WholeFilesStay | BloomFileAssumption |
| `MD5Proofs` | DigestIsRight, ContextIsRight | MD5Assumption |
| `DfxmlProofs` | OpenElementsAgree, ObjectsAreWhole, ReportsAreRead, DataIsFlushed | XmlAssumption, ReportsAssumption |
| `JavaFragFindProofs` | PrintedIsComplete, PortRefinement | JavaFragFindAssumption, Collisionless |

Collisionless and SmallMasters are definitions of the modules and hypotheses of
the theorems that need them; TLC evaluates them on the instances
(`SearchAssumption`, `MCCollisionless`).

**Filemap.**  The properties of clean() are not inductive as stated: a later
iteration could take away the neighbour a block was pinned to, or unsettle a pair
the loops have passed.  The invariant adds where the loop counter is, that blocks
with one location never change again, and that the pairs the running loop has
passed are settled; the second loop keeps the first loop's pairs settled because a
pin makes a block single and lines it up with its other neighbour or leaves that
neighbour's choice as it was.  LoopsComputeClean ties these loops to the functions
the model of main() applies: a recursive function on the block numbers is shown to
exist and to be what its equations say (LeastNatural, Iterates), and induction over
a set of numbers (NaturalInduction) carries a claim along it.  CleanKeepsCopy says
that a copy of the file stays in the filemap when each block is in it once.

**Bloom filter.**  NoFalseNegative needs a strengthening in three parts: who is
inside holds the mutex; a thread about to write a byte has read it as it still is
(so the write adds a bit and loses none); an add has set the bits it has passed, so
every hash whose add returned has all of its bits set.  CountersAgree adds to it
(CountInv) that a bit about to be set is not yet in the vector, and that the
counters bound the vector once the bit of the add that is being counted is set
apart; ToldOnce (ToldInv) that a thread which was told that a string is new asks
for a known one from then on, and that addString() adds nothing its query knew.
Refinement maps the vector to the set of hashes whose bits are all 1 and each
thread to the phase of its call.

**Search.**  WhereInv says, for whatever fails or shrinks meanwhile, which masters
are loaded, how far the scan is, and that the tables name blocks of the masters;
LocationsAreOfScannedBlocks needs no more.  SearchInv adds that the tables are
exact (TablesExact), that the filter holds the bits of every digest in them
(VectorInv), that the buffer holds the block being looked up (Fresh), that sizes
are those of the files (Measured), and the three claims themselves.  The theorems
that compare contents have two hypotheses: no two blocks of one length have one
digest, which the program assumes of MD5, and a master has no more blocks than a
block number can count (the uint32_t of frag_find.cpp:342; beyond it the claims
are false).  TLC evaluates both on the instances (`SearchAssumption` in
`MCFragFind`).  SearchRefinement shows that the initial states are those of
`BlockSearch` and that every step of main() is one of its steps or changes nothing
of it; `BlockSearch` promises no progress.

**Reports.**  GenuineInv: every location in a filemap is a place of the block, and
so is every run, tail included.  CoverInv: while a report goes through a filemap,
the blocks before it are covered if they were found, each at one file offset, and
the blocks behind it are not; what went through stays so until the end.
ReassemblyInv adds that a run begins where the last one ended, which gives
RunsMakeTheFile, and that the blocks of a single copy keep its places through
clean(), which gives CopiesAreReported.

**Bloom filter files.**  FilesInv says what each object may be at each statement
(TypeInv), to whom an inode and its name belong (NameInv), and, as long as no
number that open() closed was given out again (`crossed`), that descriptors belong
to one object (DescriptorInv), how much of a file is written (WrittenInv), that the
vector has the adds that returned (VectorInv), and how far the header is behind
(HeaderInv).  A session starts from the counter it has read, so what it owes is what
the sessions before it owed and its own: Behind divides the updates that could not
be written into those before the read and those since.  Between read() and mmap()
(at "mapping") the counter is that of the header as long as nobody else uses the
file.

**MD5.**  ContextInv says that the blocks transformed and the bytes of the buffer
are the message so far, in order (BufferInv), and that `bits` are the two words of
its length in bits, where the carry of md5.c:84 has to be counted for any width
of a word.

**DFXML.**  A *place* in a report says which elements are open, how many masters
are finished and how many tokens of the next one are written.  The calls of main()
lead from place to place (the *course* of a report, which every report is shown to
have, by induction over its masters and their runs), the tokens in smaller steps
(the *trail* of a document).  DocumentInv says that the writer is at its call's
place on the course with that place's stack, that the document has a trail to
there, and that the reader has made of the tokens up to its position what it should
at that place of the trail, whatever the writer does next.

**Bloom filter format.**  *AddedStayFound*: FittingInv says that the parameters of
an object no file gave it were compared by create(), so that they fit unless the
product wrapped (`bloom_bits * k` goes through 32 bits); if they fit, no slice
leaves the hash (SliceInHash), and a slice inside is never 2^M or more (SliceIsSmall,
along the loop over the bits); KeptInv that what was added is found in the object,
or in the file if there is one, as far as its slices are inside the hash.
open() compares nothing, and the theorem asks for nothing: what it promises of a
hash with slices outside is that its other slices are in the vector.
*StatisticsAreRight*: a sum over a set is the number of pairs it counts (Total), and
the fold of the community modules computes it (FoldIsTotal), because any two
functions that satisfy its equations agree.  BitsOfSum says that bit j of a sum of
powers of two tells whether 2^j is in it, so bitsPer(byteAt(v, n)) is the number of
bits of v in byte n (BitsOfByte); SumOfBytes adds the bytes up, and ByValue counts
the pairs of a bit and a byte by the value of the byte, which is what the histogram
does.  A sum over fewer bytes is not larger, which is all there is to say of the
utilization when the vector has more bytes than an int counts.

**RDS importer.**  LinesInv: the buffer is a part of the file (Buffered); next_line
is behind an end of line or at the end of the file (AtLine); there is an answer for
each call (Returned); an answer for an offset inside the file lies before next_line
and behind those before it and, but for the first, is whole if its line is short
(InOrder); the first is the line that was asked for (FirstLine); and no short line
was left out. The step is in Getline: after load_buffer, half of the buffer lies on
each side of the offset unless the file begins or ends there (Halves, Load), so
there is an end of line on both sides of a line that is shorter than that (LineEnds,
LineBegins), and the line found is that of the file.  A longer line comes in pieces,
each behind the one before, which is why the order of the answers is that of their
first bytes and not of the lines.  An end of line that the buffer divides gives an
empty line, after which the next call goes on at the same place.

**Java port.**  TablesInv says that prefilter and sha1maps are those of the blocks
loaded, ReadInv how much of every target and of the image was read at each
statement, EmptyInv which filemaps are still null, GenuineInv that every location is
a place of the block, PrintedInv that a printed line names such places.  How many
sectors ImageFile finds is a recursive function of the bits it tries (`shifted`,
`counted`), which is shown to exist, to be positive where it must, and not to exceed
the file.  An exception of the search leaves it where the abstract search
stops looking, with what was found so far; the others leave it loading.

**What the proofs changed in the model.**  `Bytes` became a constant of `FragFind`.
ReportCoversFound has `holds` in its premise: a file that lost its end is promised
nothing.  HeaderLags leaves out a file that another object has open while create()
still writes it, or while open() has read the header and not yet mapped the vector
(`past.shared`), and allows for each update that failed (`past.missed`);
FileReassembles says what the runs join to; CopyIsReported leaves out devices, which
are counted by sectors, and ends that cannot be read.  `ReportsAssumption` names
what was implicit in `Xml`: of what is reported only file names hold white space,
markup or illegal bytes; counts, sizes, digests and the program's own words do not.
`JavaFragFind` types its files (`Files`), names Collisionless, and the powers of two
of ImageFile are a recursive function (`shifted`), as they are in `BloomFormat`.
Lines are short (`isShort`) or not in `RDSFile`, by what getline needs and not by
what its comment asks for; in `BloomFormat` the product wraps, headers are taken as
they are, and `sliceOf` is the loop over the bits.

**Recursion.**  The induction theorems of the library take an operator as a
parameter, which the provers cannot instantiate; a set does as well.  NaturalInduction
of `FilemapProofs` is the same principle for a set of numbers, proved from the least
element of its complement, and every claim about a loop or a recursive function is
carried along it: the set is that of the n for which the claim holds.

**Only model-checked.**  Every safety invariant and every action property of the
passing runs is stated by a theorem.  What is left to TLC: the liveness properties
Returns, CallsReturn and Terminates (liveness and ENABLED are out of the proof
system's reach); and what the violation runs refute.  Of the instances, TLC checks
the hypotheses of the theorems. `DocumentInv`, `FilesInv`, `SearchInv` and
`ContextInv` quantify over infinite sets, so TLC checks the properties and those of
their parts that it can evaluate.

## What the code does otherwise than its text says

The violation runs show that the scan of a device goes on behind its end
(blockfile.h:90), that a file of hashes for `-m` is refused when it ends in a
newline, as md5deep's does (frag_find.cpp:458), and that the Java port cannot
report a target with a block that is not in the image (FragFind.java:172);
`PROJECT.json` quotes the lines.  Others
met while modelling have no run:

- "Total number of bloom filter hits" is the number of queries (bloom.c:495,
  frag_find.cpp:725); "Blocks of master file found" counts image blocks of all
  masters (704); with `-X1` the Bloom filter is used all the same (634 against
  the usage at 235); block numbers pass through a uint32_t (342).
- md5_generator::hash_file, which reads a master as a whole before its blocks, tests
  mmap() for 0, which is not what it returns when it fails (md5.h:172), and throws
  what main() does not catch: the run is aborted, or ends with a signal
  (HashFileFails).
- A partial block at the end of a master that cannot be read, or whose place in the
  image cannot, is not reported, and nothing says so (frag_find.cpp:318-320).
- A master shorter than one block makes print_report take back() of an empty
  filemap (frag_find.cpp:306).
- Runs follow the first location of a block only, and a block without a run is
  reported at all its locations (263, 288), so the runs of a file that is in the
  image need not be a copy of it, as test_frag_find.py:46 expects; CopyIsReported
  states when they are.
- The usage offers `-m` in place of the masters (frag_find.cpp:225), but a master
  is demanded all the same (559), and nothing is kept of the hashes read.
- A counter above 2^32 in a filter file is cut off when the file is opened
  (bloom.c:645), while the vector keeps what was added.
- The mutex of a filter is private to a process: of two processes that add to one
  file, each can undo an add of the other to the same byte (bloom.c:195); a
  second write() of a filter forgets the descriptor of the first (690).
- Two threads that add one string at the same time can both be told that it is
  new, because addString takes the mutex twice (bloom.c:452 against bloom.h:148);
  one thread is told so once at most, which is FirstIsToldOncePerThread.
- open() accepts a filter file whose vector is not written yet, or whose writer
  was killed (bloom.c:666); create() does not check mmap() (764); descriptor 0 is
  taken for no file (321); a file without k is closed twice (659 and 810); open()
  of an unknown hash size ends the program (571); added_items is stale after a
  file is opened again, by up to 999 for each session and 1000 for each header update
  that failed, which add() ignores (392, 324).
- create() compares `bloom_bits * k` after it went through 32 bits (736), and open()
  compares nothing (645): slices behind the end of the hash then read other memory.
  The utilization counts bytes with an int and is too small, or worse, from 2^31
  bytes on (M of 35 and more; 526, 541).
- The constructor of xml ignores makeDTD, so no DTD is made (xml.cpp:206); a full
  disk is not noticed; white space in file names comes back from a report as
  %0A and the like (138-150); a file name with a byte no XML document may contain
  makes the whole report unreadable.
- ImageFile's search for the size of a device never tries bit 0 and returns the
  index of a sector, not the number of them, so up to two sectors at the end are
  not searched (ImageFile.java:16-25).
- getline() of RDSFile loses the first byte of the file unless it is asked for by
  its own offset (against 116); lines of half of the buffer or more can come in
  pieces, although 78-79 only ask for less than the buffer; a line end divided
  between two buffers gives an empty line; a last line without a line end is
  returned again and again (nsrl_bloom_creator.cpp:122, 128).

## Not modelled

The compression function of MD5, text output (print_info, print_usage, the
progress line and the clock behind it, which is floating-point arithmetic on
wall-clock time), passphrases (`nsrl_set_passphrase` writes through a key nobody
allocates), the matching of regular expressions, the constructor of xml for an
existing file and add_rusage (nobody calls them), NSRLBloom.java (a demonstration
of its own: it maps a filter file with its header and takes no parameter from
it), WIN32 and Apple code, hash_t.h (a second interface to digests that frag_find
does not include), programs that are not built (disk_bloom, beregex, hexbuf's
callers), tests.  Elements the DFXML reader knows and frag_find does not write
are left out of `Dfxml`.  An M of 67 or more (1<<(M-3) is then undefined), a header
of which write() leaves a part, and the pointer arithmetic of a slice outside the
hash are not in `BloomFormat` and `BloomFile` beyond a fault or any bit.  The blank
space in front of an end tag is left out of `Dfxml` (that in front of a start tag is
there, `spaces`): no text is kept that ends with it.

## Plan

Done: 1. Filemap, FilemapClean and proofs.  2. Bloom, BloomSet and proofs.
3. FragFind, BlockSearch, with the command line and `-m`.  4. BloomFile, with
several writers and objects.  5. JavaFragFind.  6. Xml, Dfxml.  7. MD5, RDSFile.
8. BloomFormat.  9. Proofs of the search, the reports, the filter files, MD5 and
the XML report.  10. Proofs of the Java port, the lines of the RDS importer and the
format of a filter.

Left: liveness stays with TLC.  What could still be modelled is the constructor of
xml for an existing file, NSRLBloom.java, and passphrases, once bloom.c allocates
the key.
