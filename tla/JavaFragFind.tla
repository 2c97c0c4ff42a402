---------------------------- MODULE JavaFragFind ----------------------------
(***************************************************************************)
(* A run of the Java port (java/FragFind.java): load the target files into *)
(* their sha1maps and the prefilter they share, search the image, clean    *)
(* and print each target's FileMap.  FileMap.clean and FileMap.runlen are  *)
(* statement for statement those of the C++ program, so the operators of   *)
(* Filemap are used for them; what differs is the order of the phases, the *)
(* prefilter in place of the Bloom filter, how sizes are found, and what   *)
(* an error does.                                                          *)
(*                                                                         *)
(* filemap.setSize fills a FileMap with null.  A Blocklist is never empty  *)
(* once it exists, so << >> stands for null.                               *)
(***************************************************************************)
EXTENDS Filemap, SequencesExt

CONSTANTS
  Bytes,       \* byte values; 0 is one of them
  SectorSize,  \* 512, also the block size and the length of every buffer
  TopBit,      \* 40, where ImageFile's binary search starts
  val3char,    \* Prefilter.val3char of each block
  sha1,        \* the digest of each block
  Images,      \* image files the program may be started on
  TargetLists  \* lists of target files it may be given

Blocks == [1 .. SectorSize -> Bytes]
Sha1s  == { sha1[block] : block \in Blocks }

\* A file on disk; the sectors in bad cannot be read.
Files  == [exists : BOOLEAN, device : BOOLEAN, bytes : Seq(Bytes), bad : SUBSET Nat]

ASSUME JavaFragFindAssumption ==
  /\ SectorSize \in Nat \ {0}
  /\ TopBit \in Nat \ {0}
  /\ 0 \in Bytes
  /\ DOMAIN sha1 = Blocks
  /\ DOMAIN val3char = Blocks
  /\ Images \subseteq Files
  /\ TargetLists \subseteq Seq(Files)

\* What the program takes for granted of SHA-1.
Collisionless == \A one, other \in Blocks : sha1[one] = sha1[other] => one = other

VARIABLES
  image,       \* the image file on disk
  targetfiles, \* the target files on disk
  pc,          \* the loop or statement main() is at
  thrown,      \* the exception that ended the program, or "none"
  bs,          \* prefilter.bs
  blocks,      \* blocks[t] of each target opened
  sha1map,     \* sha1map[t][h]
  filemap,     \* filemap[t][b]
  imageBlocks, \* imagefile.blocks
  blocknumber,
  t,           \* the target of the loading and reporting loops
  tb,          \* FileMap.print's loop counter
  printed      \* the lines of the report

disk   == << image, targetfiles >>
loaded == << bs, blocks, sha1map >>
vars   == << disk, pc, thrown, loaded, filemap, imageBlocks, blocknumber, t, tb,
             printed >>

(***************************************************************************)
(* ImageFile.  length() is 0 for a device; the sectors are then counted by *)
(* trying to read the first byte of sectors: bits TopBit down to 1.        *)
(***************************************************************************)
readable(file, sector) == sector * SectorSize < Len(file.bytes)

\* 1L << i
shifted ==
  LET one[i \in 0 .. TopBit] == IF i = 0 THEN 1 ELSE 2 * one[i - 1] IN one

counted(file) ==
  LET upto[i \in 1 .. TopBit + 1] ==
        IF i = TopBit + 1 THEN 0
        ELSE upto[i + 1] +
               (IF readable(file, upto[i + 1] + shifted[i]) THEN shifted[i] ELSE 0)
  IN  upto

length(file) == IF file.device THEN 0 ELSE Len(file.bytes)

totalSectors(file) ==
  IF length(file) \div SectorSize # 0
  THEN length(file) \div SectorSize
  ELSE counted(file)[1]

probed(file) == { counted(file)[i + 1] + shifted[i] : i \in 1 .. TopBit }

openThrows(file) ==
  \/ ~ file.exists
  \/ length(file) \div SectorSize = 0 /\ probed(file) \cap file.bad # {}

\* Blockfile.getblock reads into a new array, zeros where the file has ended.
getblock(file, n) ==
  [j \in 1 .. SectorSize |-> IF n * SectorSize + j <= Len(file.bytes)
                             THEN file.bytes[n * SectorSize + j] ELSE 0]

-----------------------------------------------------------------------------
Init ==
  /\ image \in Images
  /\ targetfiles \in TargetLists
  /\ pc = "open"
  /\ thrown = "none"
  /\ bs = {}
  /\ blocks = << >>
  /\ sha1map = << >>
  /\ filemap = << >>
  /\ imageBlocks = 0
  /\ blocknumber = 0
  /\ t = 1
  /\ tb = 0
  /\ printed = << >>

(***************************************************************************)
(* Mutants.                                                                *)
(***************************************************************************)
\* The first FileMap receives every match.
MatchedFirstTarget(h) ==
  [m \in DOMAIN filemap |->
    [b \in DOMAIN filemap[m] |->
      IF contains(sha1map[1][h], b) THEN Append(filemap[m][b], blocknumber)
                                    ELSE filemap[m][b]]]

\* An IOException ends the search as the end of the image does.
SearchEndOnError ==
  /\ pc = "search"
  /\ blocknumber >= imageBlocks \/ blocknumber \in image.bad
  /\ pc' = "report"
  /\ t' = 1
  /\ UNCHANGED << disk, thrown, loaded, filemap, imageBlocks, blocknumber, tb, printed >>

(***************************************************************************)
(* loadTarget.                                                             *)
(***************************************************************************)
OpenTarget ==
  /\ pc = "open"
  /\ t <= Len(targetfiles)
  /\ ~ openThrows(targetfiles[t])
  /\ blocks' = Append(blocks, totalSectors(targetfiles[t]))
  /\ sha1map' = Append(sha1map, [h \in Sha1s |-> << >>])
  /\ blocknumber' = 0
  /\ pc' = "load"
  /\ UNCHANGED << disk, thrown, bs, filemap, imageBlocks, t, tb, printed >>

LoadBlock ==
  /\ pc = "load"
  /\ blocknumber < blocks[t]
  /\ blocknumber \notin targetfiles[t].bad
  /\ LET buf == getblock(targetfiles[t], blocknumber) IN
     /\ bs' = bs \cup {val3char[buf]}
     /\ sha1map' = [sha1map EXCEPT ![t][sha1[buf]] = Append(@, blocknumber)]
  /\ blocknumber' = blocknumber + 1
  /\ UNCHANGED << disk, pc, thrown, blocks, filemap, imageBlocks, t, tb, printed >>

LoadEnd ==
  /\ pc = "load"
  /\ blocknumber >= blocks[t]
  /\ filemap' = Append(filemap, [b \in 0 .. blocks[t] - 1 |-> << >>])
  /\ t' = t + 1
  /\ pc' = "open"
  /\ UNCHANGED << disk, thrown, loaded, imageBlocks, blocknumber, tb, printed >>

(***************************************************************************)
(* searchVolume.                                                           *)
(***************************************************************************)
OpenImage ==
  /\ pc = "open"
  /\ t > Len(targetfiles)
  /\ ~ openThrows(image)
  /\ imageBlocks' = totalSectors(image)
  /\ blocknumber' = 0
  /\ pc' = "search"
  /\ UNCHANGED << disk, thrown, loaded, filemap, t, tb, printed >>

Matched(h) ==
  [m \in DOMAIN filemap |->
    [b \in DOMAIN filemap[m] |->
      IF contains(sha1map[m][h], b) THEN Append(filemap[m][b], blocknumber)
                                    ELSE filemap[m][b]]]

SearchBlock ==
  /\ pc = "search"
  /\ blocknumber < imageBlocks
  /\ blocknumber \notin image.bad
  /\ LET buf == getblock(image, blocknumber) IN
     \/ val3char[buf] \notin bs /\ UNCHANGED filemap
     \/ val3char[buf] \in bs /\ filemap' = Matched(sha1[buf])
  /\ blocknumber' = blocknumber + 1
  /\ UNCHANGED << disk, pc, thrown, loaded, imageBlocks, t, tb, printed >>

SearchEnd ==
  /\ pc = "search"
  /\ blocknumber >= imageBlocks
  /\ pc' = "report"
  /\ t' = 1
  /\ UNCHANGED << disk, thrown, loaded, filemap, imageBlocks, blocknumber, tb, printed >>

\* main() catches an IOException of any of the phases and returns.
Throws ==
  /\ \/ pc = "open" /\ t <= Len(targetfiles) /\ openThrows(targetfiles[t])
     \/ pc = "load" /\ blocknumber < blocks[t] /\ blocknumber \in targetfiles[t].bad
     \/ pc = "open" /\ t > Len(targetfiles) /\ openThrows(image)
     \/ pc = "search" /\ blocknumber < imageBlocks /\ blocknumber \in image.bad
  /\ pc' = "exit"
  /\ thrown' = "IOException"
  /\ UNCHANGED << disk, loaded, filemap, imageBlocks, blocknumber, t, tb, printed >>

(***************************************************************************)
(* printReport.  clean() calls size() on every entry when there are two or *)
(* more, print() on the entry it is at; nobody catches what a null throws. *)
(***************************************************************************)
cleanThrows(fm) == size(fm) > 1 /\ \E b \in DOMAIN fm : fm[b] = << >>

NullEntry ==
  /\ \/ pc = "report" /\ t <= Len(targetfiles) /\ cleanThrows(filemap[t])
     \/ pc = "print" /\ tb < size(filemap[t]) /\ filemap[t][tb] = << >>
  /\ pc' = "exit"
  /\ thrown' = "NullPointerException"
  /\ UNCHANGED << disk, loaded, filemap, imageBlocks, blocknumber, t, tb, printed >>

Clean ==
  /\ pc = "report"
  /\ t <= Len(targetfiles)
  /\ ~ cleanThrows(filemap[t])
  /\ filemap' = [filemap EXCEPT ![t] = clean(@)]
  /\ tb' = 0
  /\ pc' = "print"
  /\ UNCHANGED << disk, thrown, loaded, imageBlocks, blocknumber, t, printed >>

PrintRun ==
  /\ pc = "print"
  /\ tb < size(filemap[t])
  /\ filemap[t][tb] # << >>
  /\ LET first_ib == filemap[t][tb][1]
         len      == runlen(filemap[t], tb, first_ib)
     IN  /\ len > 1
         /\ printed' = Append(printed, [target |-> t, tb |-> tb, len |-> len,
                                        places |-> << first_ib >>])
         /\ tb' = tb + len
  /\ UNCHANGED << disk, pc, thrown, loaded, filemap, imageBlocks, blocknumber, t >>

PrintBlock ==
  /\ pc = "print"
  /\ tb < size(filemap[t])
  /\ filemap[t][tb] # << >>
  /\ runlen(filemap[t], tb, filemap[t][tb][1]) = 1
  /\ printed' = Append(printed, [target |-> t, tb |-> tb, len |-> 1,
                                 places |-> filemap[t][tb]])
  /\ tb' = tb + 1
  /\ UNCHANGED << disk, pc, thrown, loaded, filemap, imageBlocks, blocknumber, t >>

PrintEnd ==
  /\ pc = "print"
  /\ tb >= size(filemap[t])
  /\ pc' = "report"
  /\ t' = t + 1
  /\ UNCHANGED << disk, thrown, loaded, filemap, imageBlocks, blocknumber, tb, printed >>

Return ==
  /\ pc = "report"
  /\ t > Len(targetfiles)
  /\ pc' = "exit"
  /\ UNCHANGED << disk, thrown, loaded, filemap, imageBlocks, blocknumber, t, tb, printed >>

Next ==
  \/ OpenTarget
  \/ LoadBlock
  \/ LoadEnd
  \/ OpenImage
  \/ SearchBlock
  \/ SearchEnd
  \/ Throws
  \/ NullEntry
  \/ Clean
  \/ PrintRun
  \/ PrintBlock
  \/ PrintEnd
  \/ Return

Spec == Init /\ [][Next]_vars
-----------------------------------------------------------------------------
wholeBlocks(file) == 0 .. (Len(file.bytes) \div SectorSize) - 1

(***************************************************************************)
(* A line of the report is printed only when every target was loaded and   *)
(* the image searched to its end without an error (frag_find.cpp prints    *)
(* what it has), and every place it names has the content of the target.   *)
(***************************************************************************)
ReportIsComplete ==
  printed # << >> =>
    /\ \A n \in 0 .. imageBlocks - 1 : n \notin image.bad
    /\ \A m \in DOMAIN targetfiles :
         \A b \in 0 .. blocks[m] - 1 : b \notin targetfiles[m].bad
    /\ \A j \in DOMAIN printed : \A p \in DOMAIN printed[j].places :
         \A e \in 0 .. printed[j].len - 1 :
           getblock(image, printed[j].places[p] + e) =
             getblock(targetfiles[printed[j].target], printed[j].tb + e)

(***************************************************************************)
(* The port implements the same abstract search as the C++ program.        *)
(***************************************************************************)
\* An exception in the search finds the image open, with a block left to read.
Searched == \/ pc \in {"report", "print"}
            \/ pc = "exit" /\ (thrown # "IOException" \/ imageBlocks > 0)
Started  == pc = "search" \/ Searched

Search ==
  INSTANCE BlockSearch WITH
    image     <- [n \in wholeBlocks(image) |-> getblock(image, n)],
    templates <- IF Started
                 THEN [m \in DOMAIN targetfiles |->
                        [b \in DOMAIN filemap[m] |-> getblock(targetfiles[m], b)]]
                 ELSE << >>,
    where     <- IF Started THEN filemap ELSE << >>,
    position  <- IF Started THEN blocknumber ELSE 0,
    stage     <- IF Searched THEN "reporting"
                 ELSE IF Started THEN "searching" ELSE "loading"

ImplementsBlockSearch == Search!AbsSpec

(***************************************************************************)
(* FragFind.java:80 says of a block with no location "target block not in  *)
(* image" and goes on to the next one: each target gets its report.        *)
(***************************************************************************)
EveryTargetIsReported ==
  pc = "exit" /\ thrown # "IOException" => t > Len(targetfiles)
=============================================================================
