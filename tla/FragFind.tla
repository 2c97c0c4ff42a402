------------------------------ MODULE FragFind ------------------------------
(***************************************************************************)
(* A run of frag_find (main() of frag_find.cpp): check the command line,   *)
(* open the image, hash the blocks of each master file into its md5map and *)
(* the shared Bloom filter, scan the image block by block into the         *)
(* filemaps, then clean and report each master.                            *)
(*                                                                         *)
(* A file is a sequence of bytes over a small alphabet, cut into blocks of *)
(* blocksize bytes; a digest is a member of Hashes.  One iteration of a    *)
(* loop of the source is one step.  The counter b.hits of the Bloom filter *)
(* is part of module Bloom.                                                *)
(***************************************************************************)
EXTENDS BloomOps, Filemap, SequencesExt

CONSTANTS
  Bytes,         \* what a byte of a file may be
  Runs,          \* [image, cmd]: disks and command lines the program may start on
  MinBlocksize,  \* 4
  Ms,            \* 5 .. 32, what -M may be
  SectorSize,    \* 512 in blockfile.h
  BlockNumbers,  \* 2^32: the values of add_block_hash's uint32_t parameter
  Word,          \* 2^64: the values of an unsigned length
  md5,           \* the digest of each block
  Garbage        \* the blocks malloc may return

Files == [ exists : BOOLEAN, device : BOOLEAN, shrinks : BOOLEAN,
           bytes : Seq(Bytes), bad : SUBSET Nat ]

ASSUME FragFindAssumption ==
  /\ {MinBlocksize, SectorSize, BlockNumbers, Word} \subseteq Nat \ {0}
  /\ \A content \in DOMAIN md5 : md5[content] \in Hashes
  /\ Garbage \subseteq Seq(Bytes)
  /\ \A r \in Runs :
       /\ r.image \in Files
       /\ r.image.device => ~ r.image.shrinks
       /\ r.cmd.masters \in Seq(Files)
       /\ r.cmd.start \in Nat
       /\ r.cmd.end \in Nat
       /\ r.cmd.blocksize \in Nat
       /\ r.cmd.blocksize >= MinBlocksize =>
            /\ [1 .. r.cmd.blocksize -> Bytes] \subseteq DOMAIN md5
            /\ \E g \in Garbage : Len(g) = r.cmd.blocksize

VARIABLES
  image,       \* the image file on disk
  cmd,         \* the options, the md5deep file and the master files
  pc,          \* the loop or statement main() is at, or how it ended
  imagefile,   \* imagefile.filesize and .blocks, fixed by open
  masterfile,  \* the same for each opened master
  vector,      \* masters.b.vector
  md5map,      \* md5map[t][h]
  filemap,     \* filemap[t][b]
  hits,
  bloom_false_positives,
  blocknumber,
  buf,         \* the block buffer
  t,           \* the master of the loading and reporting loops
  pass,        \* "raw" or "clean": which print_report is running
  tb,          \* print_report's loop counter
  report       \* the runs reported so far, in order

input    == << image, cmd >>
loaded   == << imagefile, masterfile, vector, md5map >>
found    == << filemap, hits, bloom_false_positives >>
block    == << blocknumber, buf >>
printing == << t, pass, tb, report >>
vars     == << input, pc, loaded, found, block, printing >>

masters   == cmd.masters
blocksize == cmd.blocksize
malloc    == { g \in Garbage : Len(g) = blocksize }

(***************************************************************************)
(* blockfile.h.                                                            *)
(***************************************************************************)
\* A device reports its size in sectors, whatever the block size.
opened(file) ==
  [ filesize |-> Len(file.bytes),
    blocks   |-> Len(file.bytes) \div
                   (IF file.device THEN SectorSize ELSE blocksize) ]

pread(file, nbyte, offset) ==
  SubSeq(file.bytes, offset + 1,
         IF offset + nbyte <= Len(file.bytes) THEN offset + nbyte
                                              ELSE Len(file.bytes))

\* read() fills the front of the buffer with what is there: a short or empty
\* read leaves the rest of it as it was.
getblock(file, n, old) ==
  LET data == pread(file, blocksize, n * blocksize)
  IN  [j \in 1 .. blocksize |-> IF j <= Len(data) THEN data[j] ELSE old[j]]

\* A read of the block, or of a part of it, returns -1.
getblockFails(file, n) == n \in file.bad

-----------------------------------------------------------------------------
Init ==
  /\ \E r \in Runs : image = r.image /\ cmd = r.cmd
  /\ pc = "options"
  /\ imagefile = [filesize |-> 0, blocks |-> 0]
  /\ masterfile = << >>
  /\ vector = {}
  /\ md5map = << >>
  /\ filemap = << >>
  /\ hits = 0
  /\ bloom_false_positives = 0
  /\ blocknumber = 0
  /\ buf = << >>
  /\ t = 1
  /\ pass = "clean"
  /\ tb = 0
  /\ report = << >>

ExitWith(how) ==
  pc' = how /\ UNCHANGED << input, loaded, found, block, printing >>

(***************************************************************************)
(* The command line.                                                       *)
(***************************************************************************)
\* getline() until eof(): what is behind the last newline is one more line,
\* also when it is empty.
linesRead(file) ==
  IF file.endsInNewline \/ file.lines = << >>
  THEN Append(file.lines, "empty") ELSE file.lines

\* read_md5deep: a line is a piecewise hash if the pattern matches with a file
\* name that is not empty.  Nothing is kept of the hashes.
md5deepRejected ==
  \E file \in Range(cmd.md5deep) :
    ~ file.exists \/ Range(linesRead(file)) # {"piece"}

usageError ==
  \/ cmd.invalid
  \/ cmd.M \notin Ms
  \/ masters = << >>
  \/ blocksize < MinBlocksize

optionsRejected == usageError \/ md5deepRejected

RejectOptions == pc = "options" /\ optionsRejected /\ ExitWith("failed")
AcceptOptions == pc = "options" /\ ~ optionsRejected /\ ExitWith("image")

\* bloom_create finds no memory for the vector.
NoMemory == pc = "image" /\ ExitWith("failed")

(***************************************************************************)
(* The image and the masters are opened, or err() ends the program.        *)
(***************************************************************************)
imageUnusable ==
  \/ ~ image.exists
  \/ opened(image).filesize = 0
  \/ opened(image).filesize < blocksize

OpenImageFails == pc = "image" /\ imageUnusable /\ ExitWith("failed")

OpenImage ==
  /\ pc = "image"
  /\ ~ imageUnusable
  /\ imagefile' = opened(image)
  /\ pc' = "open"
  /\ UNCHANGED << input, masterfile, vector, md5map, found, block, printing >>

masterUnusable ==
  ~ masters[t].exists \/ imagefile.filesize < opened(masters[t]).filesize

OpenMasterFails ==
  pc = "open" /\ t <= Len(masters) /\ masterUnusable /\ ExitWith("failed")

\* hash_file opens and maps the master once more.  What it throws nobody
\* catches, and a page it cannot read, or that the file has no longer, is a
\* SIGBUS.  (mmap returning MAP_FAILED, which is not 0, is such an address.)
HashFileFails ==
  pc = "open" /\ t <= Len(masters) /\ ~ masterUnusable /\ ExitWith("aborted")

\* masterfile::load up to the loop, and malloc's buffer.  hash_file read the
\* whole master, or nothing of a device, whose st_size is 0: what is bad in
\* the loop went bad since, or is on a device.
OpenMaster ==
  /\ pc = "open"
  /\ t <= Len(masters)
  /\ ~ masterUnusable
  /\ masterfile' = Append(masterfile, opened(masters[t]))
  /\ md5map' = Append(md5map, [h \in Hashes |-> << >>])
  /\ blocknumber' = 0
  /\ buf' \in malloc
  /\ pc' = "load"
  /\ UNCHANGED << input, imagefile, vector, found, printing >>

(***************************************************************************)
(* One block of the master: add_block_hash pushes its number, as a 32-bit  *)
(* integer, and adds the digest to the Bloom filter.  A failing read ends  *)
(* the loop as the last block does.                                        *)
(***************************************************************************)
loadContinues ==
  /\ blocknumber < masterfile[t].blocks
  /\ ~ getblockFails(masters[t], blocknumber)

LoadBlock ==
  /\ pc = "load"
  /\ loadContinues
  /\ buf' = getblock(masters[t], blocknumber, buf)
  /\ md5map' = [md5map EXCEPT ![t][md5[buf']] =
                  Append(@, blocknumber % BlockNumbers)]
  /\ vector' = AddedTo(vector, md5[buf'])
  /\ blocknumber' = blocknumber + 1
  /\ UNCHANGED << input, pc, imagefile, masterfile, found, printing >>

LoadEnd ==
  /\ pc = "load"
  /\ ~ loadContinues
  /\ filemap' = Append(filemap, [b \in 0 .. masterfile[t].blocks - 1 |-> << >>])
  /\ t' = t + 1
  /\ pc' = "open"
  /\ UNCHANGED << input, loaded, hits, bloom_false_positives, block, pass, tb, report >>

(***************************************************************************)
(* The scan of the image.                                                  *)
(***************************************************************************)
StartScan ==
  /\ pc = "open"
  /\ t > Len(masters)
  /\ blocknumber' = cmd.start
  /\ buf' \in malloc
  /\ pc' = "scan"
  /\ UNCHANGED << input, loaded, found, printing >>

\* Mutants: -e is the last block; every master uses the table of the first;
\* a block is a false positive unless all masters have it.
beforeEndInclusive == cmd.end = 0 \/ blocknumber <= cmd.end
blocksWithFirst(m, h) == md5map[1][h]
addedAll(h) == \A m \in DOMAIN md5map : md5map[m][h] # << >>

\* opt_end = 0 stands for the end of the image.
beforeEnd == cmd.end = 0 \/ blocknumber < cmd.end

scanContinues ==
  /\ beforeEnd
  /\ blocknumber < imagefile.blocks
  /\ ~ getblockFails(image, blocknumber)

blocksWith(m, h) == md5map[m][h]

\* Each master block with the digest gets one more location.
matched(h) ==
  LET times(m, b) == { j \in DOMAIN blocksWith(m, h) : blocksWith(m, h)[j] = b }
  IN  [m \in DOMAIN filemap |->
        [b \in DOMAIN filemap[m] |->
          filemap[m][b] \o [j \in 1 .. Cardinality(times(m, b)) |-> blocknumber]]]

added(h) == \E m \in DOMAIN md5map : md5map[m][h] # << >>

ScanBlock ==
  /\ pc = "scan"
  /\ scanContinues
  /\ buf' = getblock(image, blocknumber, buf)
  /\ LET h == md5[buf'] IN
     \/ ~ FoundIn(vector, h) /\ UNCHANGED found
     \/ /\ FoundIn(vector, h)
        /\ filemap' = matched(h)
        /\ bloom_false_positives' = bloom_false_positives + (IF added(h) THEN 0 ELSE 1)
        /\ hits' = hits + 1
  /\ blocknumber' = blocknumber + 1
  /\ UNCHANGED << input, pc, loaded, printing >>

ScanEnd ==
  /\ pc = "scan"
  /\ ~ scanContinues
  /\ pc' = "master"
  /\ t' = 1
  /\ UNCHANGED << input, loaded, found, block, pass, tb, report >>

\* Somebody else truncates the image, which is open and read block by block.
Shrink ==
  /\ pc = "scan"
  /\ image.shrinks
  /\ \E length \in 0 .. Len(image.bytes) - 1 :
       image' = [image EXCEPT !.bytes = SubSeq(@, 1, length)]
  /\ UNCHANGED << cmd, pc, loaded, found, block, printing >>

(***************************************************************************)
(* The report on master t: with -r the filemap is first printed as it is;  *)
(* it is cleaned once, and printed again.                                  *)
(***************************************************************************)
StartReport(p) ==
  /\ t <= Len(masters)
  /\ pass' = p
  /\ tb' = 0
  /\ pc' = "report"
  /\ UNCHANGED << input, loaded, hits, bloom_false_positives, block, t, report >>

ReportRaw == pc = "master" /\ cmd.raw /\ StartReport("raw") /\ UNCHANGED filemap

CleanAndReport ==
  /\ pc = "clean" \/ (pc = "master" /\ ~ cmd.raw)
  /\ StartReport("clean")
  /\ filemap' = [filemap EXCEPT ![t] = clean(@)]

Finish == pc = "master" /\ t > Len(masters) /\ ExitWith("done")

run(file_block, img_block, len) ==
  [ master |-> t, pass |-> pass, file_offset |-> file_block * blocksize,
    img_offset |-> img_block * blocksize, len |-> len ]

\* A run is not reported beyond the end of the master file (unsigned numbers).
run_bytes(n) ==
  LET filesize == masterfile[t].filesize IN
  IF (tb + n) * blocksize > filesize
  THEN (filesize - tb * blocksize) % Word
  ELSE n * blocksize

(***************************************************************************)
(* print_report: the loop over the blocks of the filemap.  A block that    *)
(* was not found is skipped, a run of several blocks is reported from the  *)
(* first location of the first, a block on its own at all its locations.   *)
(***************************************************************************)
InReport ==
  /\ pc = "report"
  /\ tb < size(filemap[t])
  /\ UNCHANGED << input, pc, loaded, found, block, t, pass >>

places == filemap[t][tb]
run_blocks == runlen(filemap[t], tb, places[1])

\* Mutants: the loop goes on behind the first block of a run; it forgets tb++.
advanceOne(blocks) == tb + 1
ReportNotFoundAgain == InReport /\ places = << >> /\ UNCHANGED << tb, report >>

advance(blocks) == tb + blocks

ReportNotFound ==
  InReport /\ places = << >> /\ tb' = tb + 1 /\ UNCHANGED report

ReportRun ==
  /\ InReport
  /\ places # << >>
  /\ run_blocks > 1
  /\ report' = Append(report, run(tb, places[1], run_bytes(run_blocks)))
  /\ tb' = advance(run_blocks)

ReportBlock ==
  /\ InReport
  /\ places # << >>
  /\ run_blocks = 1
  /\ report' = report \o [j \in DOMAIN places |-> run(tb, places[j], run_bytes(1))]
  /\ tb' = tb + 1

(***************************************************************************)
(* print_report: the partial block at the end of the master.  It is looked *)
(* for behind each location of the last whole block and goes to the XML    *)
(* file only, which the raw report is not given.                           *)
(***************************************************************************)
extra_bytes == masterfile[t].filesize % blocksize

tailBlockItself(ib) == ib     \* mutant: the block, not the one behind it
tailBlock(ib) == ib + 1

tailMatches(ib) ==
  LET image_extra  == pread(image, extra_bytes, tailBlock(ib) * blocksize)
      master_extra == pread(masters[t], extra_bytes, size(filemap[t]) * blocksize)
  IN  /\ ~ getblockFails(image, tailBlock(ib))
      /\ ~ getblockFails(masters[t], size(filemap[t]))
      /\ Len(image_extra) = extra_bytes
      /\ image_extra = master_extra

tailRuns ==
  LET list     == filemap[t][size(filemap[t]) - 1]
      matching == { j \in DOMAIN list : tailMatches(list[j]) }
      first    == CHOOSE j \in matching : \A i \in matching : j <= i
  IN  IF matching = {} THEN << >>
      ELSE << run(size(filemap[t]), tailBlock(list[first]), extra_bytes) >>

AtReportEnd == pc = "report" /\ tb >= size(filemap[t])

ReportTail ==
  /\ AtReportEnd
  /\ extra_bytes = 0 \/ size(filemap[t]) > 0
  /\ report' = report \o (IF extra_bytes # 0 /\ cmd.x /\ pass = "clean"
                          THEN tailRuns ELSE << >>)
  /\ IF pass = "raw"
     THEN pc' = "clean" /\ UNCHANGED t
     ELSE pc' = "master" /\ t' = t + 1
  /\ UNCHANGED << input, loaded, found, block, pass, tb >>

\* filemap.back() of a master shorter than a block reads before the vector.
ReportTailOfNothing ==
  /\ AtReportEnd
  /\ extra_bytes # 0
  /\ size(filemap[t]) = 0
  /\ ExitWith("crashed")

Step ==
  \/ RejectOptions
  \/ AcceptOptions
  \/ NoMemory
  \/ OpenImageFails
  \/ OpenImage
  \/ OpenMasterFails
  \/ HashFileFails
  \/ OpenMaster
  \/ LoadBlock
  \/ LoadEnd
  \/ StartScan
  \/ ScanBlock
  \/ ScanEnd
  \/ ReportRaw
  \/ CleanAndReport
  \/ ReportNotFound
  \/ ReportRun
  \/ ReportBlock
  \/ ReportTail
  \/ ReportTailOfNothing
  \/ Finish

Next == Step \/ Shrink

Spec == Init /\ [][Next]_vars

\* main() keeps running; nobody has to truncate the image.
FairSpec == Spec /\ WF_vars(Step)
-----------------------------------------------------------------------------
(***************************************************************************)
(* A search needs the blocks that open() counted: a file that gets shorter *)
(* meanwhile, or a device whose sectors are smaller than the blocks, ends  *)
(* before them.                                                            *)
(***************************************************************************)
holds(file, f) == f.blocks * blocksize <= Len(file.bytes)

Intact == /\ holds(image, imagefile)
          /\ \A m \in DOMAIN masterfile : holds(masters[m], masterfile[m])

\* Content of the whole block n of a file.
blockOf(file, n) == pread(file, blocksize, n * blocksize)

\* The master blocks load got to, and the image blocks the scan did.
Loaded(m) == { b \in 0 .. masterfile[m].blocks - 1 :
                 \A e \in 0 .. b : ~ getblockFails(masters[m], e) }

Scanned(n) == n \in cmd.start .. blocknumber - 1

\* Image block n has the content of block b of master m.
Same(n, m, b) == blockOf(image, n) = blockOf(masters[m], b)

(***************************************************************************)
(* The search tells blocks apart by their digests, and add_block_hash      *)
(* keeps 32 bits of the number of a block: it is exact when no two blocks  *)
(* have the same digest and no master has more than 2^32 blocks.           *)
(***************************************************************************)
Collisionless ==
  \A c, d \in DOMAIN md5 : Len(c) = Len(d) /\ md5[c] = md5[d] => c = d

SmallMasters ==
  \A r \in Runs : r.cmd.blocksize >= MinBlocksize =>
    \A m \in DOMAIN r.cmd.masters :
      Len(r.cmd.masters[m].bytes) <= BlockNumbers * r.cmd.blocksize

(***************************************************************************)
(* During the scan the blocklist of a master block is exactly the          *)
(* ascending list of the image blocks scanned so far with the same         *)
(* content: "a blocklist of all the locations on the disk image where the  *)
(* block appears" (frag_find.cpp:122).  Neither the Bloom filter nor the   *)
(* sharing of it by all the masters nor a repeated block changes that.     *)
(***************************************************************************)
FilemapExact ==
  pc = "scan" /\ Intact =>
    \A m \in DOMAIN filemap : \A b \in Loaded(m) :
      LET list == filemap[m][b] IN
      /\ \A j \in 1 .. Len(list) - 1 : list[j] < list[j + 1]
      /\ \A n \in 0 .. imagefile.blocks - 1 :
           contains(list, n) <=> Scanned(n) /\ Same(n, m, b)

(***************************************************************************)
(* Without the premise that the blocks are there: a location is the number *)
(* of a block of the image with that content.  blockfile.h:23 calls blocks *)
(* the "number of blocks"; on a device it is the number of sectors.        *)
(***************************************************************************)
LocationsHoldTheBlock ==
  \A m \in DOMAIN filemap : \A b \in DOMAIN filemap[m] :
    \A n \in Range(filemap[m][b]) :
      /\ (n + 1) * blocksize <= Len(image.bytes)
      /\ Same(n, m, b)

(***************************************************************************)
(* Whatever happens to the files meanwhile -- a block that cannot be read, *)
(* an image that gets shorter, sizes that are wrong -- a location is the   *)
(* number of an image block the scan looked at, and belongs to a master    *)
(* block that load read.                                                   *)
(***************************************************************************)
LocationsWereScanned ==
  \A m \in DOMAIN filemap : \A b \in DOMAIN filemap[m] :
    \A n \in Range(filemap[m][b]) :
      /\ b \in Loaded(m)
      /\ n \in cmd.start .. imagefile.blocks - 1
      /\ cmd.end # 0 => n < cmd.end
      /\ \A e \in cmd.start .. n : ~ getblockFails(image, e)

(***************************************************************************)
(* The counters of the scan: hits counts the image blocks that passed the  *)
(* Bloom filter, and those among them that no master has are exactly the   *)
(* false positives.                                                        *)
(***************************************************************************)
HitsAccountForMatches ==
  pc = "scan" /\ Intact =>
    hits - bloom_false_positives =
      Cardinality({ n \in 0 .. imagefile.blocks - 1 :
        /\ Scanned(n)
        /\ \E m \in DOMAIN masters : \E b \in Loaded(m) : Same(n, m, b) })

(***************************************************************************)
(* Every run in the report, the partial block at the end included, names   *)
(* bytes of the image that are bytes of the master file at that offset.    *)
(***************************************************************************)
RunsAreGenuine ==
  Intact =>
    \A r \in Range(report) :
      LET here == pread(masters[r.master], r.len, r.file_offset)
      IN  /\ r.len > 0
          /\ Len(here) = r.len
          /\ here = pread(image, r.len, r.img_offset)

(***************************************************************************)
(* Each report on a master that has the blocks open() counted accounts for *)
(* each of them: one that was found is in the report, at one file offset   *)
(* range only, and one that was not is not.  The number of blocks found    *)
(* that is printed below the cleaned report (found_count) is that of the   *)
(* blocks the report covers.                                               *)
(***************************************************************************)
covering(m, p, b) ==
  { r \in Range(report) : /\ r.master = m
                          /\ r.pass = p
                          /\ r.file_offset <= b * blocksize
                          /\ (b + 1) * blocksize <= r.file_offset + r.len }

ReportCoversFound ==
  pc = "done" =>
    \A m \in DOMAIN masters : holds(masters[m], masterfile[m]) =>
      /\ \A p \in IF cmd.raw THEN {"raw", "clean"} ELSE {"clean"} :
           \A b \in DOMAIN filemap[m] :
             /\ covering(m, p, b) # {} <=> filemap[m][b] # << >>
             /\ \A r, s \in covering(m, p, b) :
                  /\ r.file_offset = s.file_offset
                  /\ r.len = s.len
                  /\ r # s => r.len = blocksize
      /\ found_count(filemap[m]) =
           Cardinality({ b \in DOMAIN filemap[m] : covering(m, "clean", b) # {} })

(***************************************************************************)
(* When every block of a master is left with one location, the runs of the *)
(* cleaned report, put one after the other, are the whole blocks of the    *)
(* file, with or without the partial block behind them: what the           *)
(* validation of test_frag_find.py relies on.                              *)
(***************************************************************************)
SingleLocations(m) == \A b \in DOMAIN filemap[m] : Len(filemap[m][b]) = 1

\* What a run of the cleaned report on master m names in a file.
part(file, m, r) ==
  IF r.master = m /\ r.pass = "clean" THEN pread(file, r.len, r.img_offset) ELSE << >>

joined(file, m, runs) ==
  LET upto[j \in 0 .. Len(runs)] ==
        IF j = 0 THEN << >> ELSE upto[j - 1] \o part(file, m, runs[j])
  IN  upto[Len(runs)]

reassembled(m) == joined(image, m, report)

\* The first n bytes of master m.
head(m, n) == pread(masters[m], n, 0)

wholeBytes(m) == masterfile[m].blocks * blocksize

FileReassembles ==
  pc = "done" /\ Intact =>
    \A m \in DOMAIN masters : SingleLocations(m) =>
      reassembled(m) \in { head(m, wholeBytes(m)),
                           head(m, wholeBytes(m) + (masterfile[m].filesize % blocksize)) }

(***************************************************************************)
(* A complete copy of a file at a block boundary, all of it in the scanned *)
(* range, whose whole blocks occur nowhere else, is reported to its last   *)
(* byte, if the partial block at the end, which is compared byte by byte,  *)
(* can be read in both files.  (A device is counted by sectors, so that    *)
(* what is reported of it may end before it does.)                         *)
(***************************************************************************)
endReadable(m, n) ==
  LET blocks == masterfile[m].blocks IN
  masterfile[m].filesize % blocksize # 0 =>
    ~ getblockFails(image, n + blocks) /\ ~ getblockFails(masters[m], blocks)

copyAt(m, n) ==
  /\ pread(image, Len(masters[m].bytes), n * blocksize) = masters[m].bytes
  /\ DOMAIN filemap[m] # {}
  /\ \A b \in DOMAIN filemap[m] : Scanned(n + b)
  /\ endReadable(m, n)

CopyIsReported ==
  pc = "done" /\ cmd.x /\ Intact =>
    \A m \in DOMAIN masters : \A n \in 0 .. imagefile.blocks - 1 :
      copyAt(m, n) /\ SingleLocations(m) /\ ~ masters[m].device =>
        reassembled(m) = masters[m].bytes

(***************************************************************************)
(* The search implements BlockSearch: what the digests, the Bloom filter   *)
(* and the tables compute is the comparison of contents, as long as the    *)
(* files hold the blocks that were counted.                                *)
(***************************************************************************)
Searching == pc = "scan"
Reporting == pc \in {"master", "clean", "report", "done", "crashed"}

of(map) ==
  IF Searching \/ Reporting
  THEN [m \in DOMAIN masters |-> [b \in Loaded(m) |-> map[m][b]]] ELSE << >>

Search ==
  INSTANCE BlockSearch WITH
    image     <- [n \in { i \in 0 .. Len(image.bytes) - 1 :
                            (i + 1) * blocksize <= Len(image.bytes) } |->
                    blockOf(image, n)],
    templates <- of([m \in DOMAIN masters |->
                      [b \in Loaded(m) |-> blockOf(masters[m], b)]]),
    where     <- of(filemap),
    position  <- IF Searching \/ Reporting THEN blocknumber ELSE 0,
    stage     <- CASE ~ Intact -> "void"
                   [] Intact /\ Searching -> "searching"
                   [] Intact /\ Reporting -> "reporting"
                   [] OTHER -> "loading"

ImplementsBlockSearch == Search!AbsSpec

(***************************************************************************)
(* The program ends, whatever the files and the options.                   *)
(***************************************************************************)
Terminates == <>(pc \in {"done", "failed", "aborted", "crashed"})

(***************************************************************************)
(* A file of piecewise hashes as md5deep writes it, each hash on a line    *)
(* that ends in a newline, is no reason to refuse a command line: usage()  *)
(* offers -m to "read a set of piecewise hashes from md5deep"              *)
(* (frag_find.cpp:231).                                                    *)
(***************************************************************************)
writtenByMd5deep(file) ==
  file.exists /\ file.endsInNewline /\ Range(file.lines) = {"piece"}

HashFileIsAccepted ==
  [][pc = "options" /\ pc' = "failed" =>
       usageError \/ \E file \in Range(cmd.md5deep) : ~ writtenByMd5deep(file)]_vars
=============================================================================
