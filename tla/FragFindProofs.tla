--------------------------- MODULE FragFindProofs ---------------------------
(***************************************************************************)
(* What the search of frag_find guarantees, proved for every image, every  *)
(* command line, every block size and every number of masters: where       *)
(* locations come from, whatever fails; for contents without collisions,   *)
(* that they are all the equal blocks and no other; and that what the      *)
(* report says is so, and is all there is to say about the blocks found.   *)
(***************************************************************************)
EXTENDS FragFind, FilemapProofs

(***************************************************************************)
(* Types.  The tables grow with the masters that have been opened; the     *)
(* buffer matters in the two loops that read blocks.                       *)
(***************************************************************************)
BlockFiles == [filesize : Nat, blocks : Nat]
\* A table from digests to master blocks.
Tables     == [Hashes -> Seq(Nat)]
\* The filemap of one master.
Maps       == UNION { [0 .. n - 1 -> Seq(Nat)] : n \in Nat }
\* A buffer of a block.
Buffers    == [1 .. blocksize -> Bytes]

\* The command is one of the runs that are considered.
CmdInv == \E r \in Runs : cmd = r.cmd

\* Before the masters are open.
Opening == pc \in {"options", "image", "open"}

\* The masters that are open are the first of the command line.
Opened ==
  /\ Len(md5map) = Len(masterfile)
  /\ Len(filemap) <= Len(masterfile)
  /\ Len(masterfile) <= Len(masters)
  /\ Opening => Len(masterfile) = t - 1 /\ Len(filemap) = t - 1
  /\ pc \in {"options", "image"} => t = 1
  /\ pc = "load" => /\ t <= Len(masters)
                    /\ Len(masterfile) = t
                    /\ Len(filemap) = t - 1
  /\ pc \in {"scan", "master", "clean", "report", "done", "crashed"} =>
       Len(masterfile) = Len(masters) /\ Len(filemap) = Len(masters)

\* A filemap for each master, with a list for each of its blocks.
FilemapInv ==
  /\ filemap \in Seq(Maps)
  /\ \A m \in DOMAIN filemap :
       filemap[m] \in [0 .. masterfile[m].blocks - 1 -> Seq(Nat)]

\* The types of the variables.
TypeInv ==
  /\ image \in Files
  /\ CmdInv
  /\ pc \in {"options", "image", "open", "load", "scan", "master", "clean",
             "report", "done", "failed", "aborted", "crashed"}
  /\ pc \notin {"options", "failed"} => blocksize >= MinBlocksize
  /\ imagefile \in BlockFiles
  /\ masterfile \in Seq(BlockFiles)
  /\ md5map \in Seq(Tables)
  /\ FilemapInv
  /\ hits \in Nat
  /\ bloom_false_positives \in Nat
  /\ blocknumber \in Nat
  /\ pc \in {"load", "scan"} => buf \in Buffers
  /\ t \in 1 .. Len(masters) + 1
  /\ pc \in {"clean", "report"} => t <= Len(masters)
  /\ tb \in Nat
  /\ Opened

(***************************************************************************)
(* What the assumption says of the command line in use.                    *)
(***************************************************************************)
LEMMA Options ==
  ASSUME CmdInv
  PROVE  /\ MinBlocksize \in Nat \ {0}
         /\ SectorSize \in Nat \ {0}
         /\ BlockNumbers \in Nat \ {0}
         /\ Word \in Nat \ {0}
         /\ masters \in Seq(Files)
         /\ Len(masters) \in Nat
         /\ blocksize \in Nat
         /\ cmd.start \in Nat
         /\ cmd.end \in Nat
         /\ blocksize >= MinBlocksize =>
              /\ blocksize \in Nat \ {0}
              /\ \A content \in Buffers : md5[content] \in Hashes
              /\ malloc \subseteq Buffers
<1>1. PICK r \in Runs : cmd = r.cmd
  BY DEF CmdInv
<1>2. /\ MinBlocksize \in Nat \ {0}
      /\ SectorSize \in Nat \ {0}
      /\ BlockNumbers \in Nat \ {0}
      /\ Word \in Nat \ {0}
  BY FragFindAssumption DEF FragFindAssumption
<1>3. /\ masters \in Seq(Files)
      /\ blocksize \in Nat
      /\ cmd.start \in Nat
      /\ cmd.end \in Nat
      /\ blocksize >= MinBlocksize => Buffers \subseteq DOMAIN md5
  BY <1>1, FragFindAssumption DEF FragFindAssumption, masters, blocksize, Buffers
<1>4. ASSUME NEW g \in malloc
      PROVE  g \in Buffers
  BY <1>4, FragFindAssumption DEF FragFindAssumption, malloc, Buffers
<1>5. \A content \in DOMAIN md5 : md5[content] \in Hashes
  BY FragFindAssumption DEF FragFindAssumption
<1>6. QED  BY <1>2, <1>3, <1>4, <1>5

(***************************************************************************)
(* What is read from a file is a block, and its size comes out right.      *)
(***************************************************************************)
LEMMA Reading ==
  ASSUME CmdInv, blocksize >= MinBlocksize, NEW file \in Files
  PROVE  /\ opened(file) \in BlockFiles
         /\ opened(file).filesize = Len(file.bytes)
         /\ \A n \in Nat : \A old \in Buffers : getblock(file, n, old) \in Buffers
<1>1. /\ blocksize \in Nat \ {0}
      /\ SectorSize \in Nat \ {0}
      /\ file.bytes \in Seq(Bytes)
      /\ Len(file.bytes) \in Nat
  BY Options DEF Files
<1>2. /\ opened(file) \in BlockFiles
      /\ opened(file).filesize = Len(file.bytes)
  <2> DEFINE unit == IF file.device THEN SectorSize ELSE blocksize
             bytes == Len(file.bytes)
  <2>1. unit \in Nat \ {0} /\ bytes \in Nat
    BY <1>1
  <2>2. opened(file) = [filesize |-> bytes, blocks |-> bytes \div unit]
    BY DEF opened
  <2> HIDE DEF unit, bytes
  <2>3. bytes \div unit \in Nat
    BY <2>1
  <2>4. opened(file) \in BlockFiles /\ opened(file).filesize = bytes
    BY <2>1, <2>2, <2>3 DEF BlockFiles
  <2>5. QED  BY <2>4 DEF bytes
<1>3. ASSUME NEW n \in Nat, NEW old \in Buffers
      PROVE  getblock(file, n, old) \in Buffers
  <2> DEFINE data == pread(file, blocksize, n * blocksize)
  <2>1. data \in Seq(Bytes)
    BY <1>1 DEF pread
  <2>2. getblock(file, n, old) =
          [j \in 1 .. blocksize |-> IF j <= Len(data) THEN data[j] ELSE old[j]]
    BY DEF getblock
  <2> HIDE DEF data
  <2>3. QED  BY <1>1, <2>1, <2>2 DEF Buffers
<1>4. QED  BY <1>2, <1>3

(***************************************************************************)
(* Appending to a list of matches.                                         *)
(***************************************************************************)
LEMMA Repeated ==
  ASSUME NEW list \in Seq(Nat), NEW count \in Nat, NEW place \in Nat
  PROVE  LET longer == list \o [j \in 1 .. count |-> place] IN
         /\ longer \in Seq(Nat)
         /\ count = 0 => longer = list
         /\ count = 1 => longer = Append(list, place)
         /\ \A n \in Range(longer) : n \in Range(list) \/ (count # 0 /\ n = place)
<1> DEFINE more == [j \in 1 .. count |-> place]
           longer == list \o more
<1>1. more \in Seq(Nat) /\ Len(more) = count /\ \A j \in 1 .. count : more[j] = place
  OBVIOUS
<1> HIDE DEF more
<1>2. longer \in Seq(Nat)
  BY <1>1
<1>3. Len(longer) = Len(list) + count
  BY <1>1, SMTT(30)
<1>4. \A j \in 1 .. Len(list) : longer[j] = list[j]
  BY <1>1
<1>5. \A j \in Len(list) + 1 .. Len(list) + count : longer[j] = place
  BY <1>1
<1>6. count = 0 => longer = list
  BY <1>1
<1>7. count = 1 => longer = Append(list, place)
  BY <1>1, <1>2, <1>3, <1>4, <1>5
<1> HIDE DEF longer
<1>8. ASSUME NEW n \in Range(longer)
      PROVE  n \in Range(list) \/ (count # 0 /\ n = place)
  <2>1. PICK j \in 1 .. Len(list) + count : n = longer[j]
    BY <1>2, <1>3 DEF Range
  <2>2. CASE j <= Len(list)
    BY <1>4, <2>1, <2>2 DEF Range
  <2>3. CASE j > Len(list)
    BY <1>5, <2>1, <2>3
  <2>4. QED  BY <2>1, <2>2, <2>3
<1>9. QED  BY <1>2, <1>6, <1>7, <1>8 DEF longer, more

\* A block file has a number of blocks and a size.
LEMMA BlocksOf ==
  ASSUME masterfile \in Seq(BlockFiles), NEW m \in DOMAIN masterfile
  PROVE  masterfile[m].blocks \in Nat /\ masterfile[m].filesize \in Nat
<1>1. masterfile[m] \in BlockFiles
  OBVIOUS
<1>2. QED  BY <1>1 DEF BlockFiles

\* The tables, the masters and the filemaps are numbered alike.
LEMMA Numbered ==
  ASSUME TypeInv
  PROVE  /\ DOMAIN md5map = DOMAIN masterfile
         /\ DOMAIN filemap \subseteq DOMAIN masterfile
         /\ Len(filemap) \in Nat
         /\ Len(masterfile) \in Nat
         /\ DOMAIN masterfile = 1 .. Len(masterfile)
         /\ DOMAIN filemap = 1 .. Len(filemap)
<1>1. /\ masterfile \in Seq(BlockFiles)
      /\ md5map \in Seq(Tables)
      /\ filemap \in Seq(Maps)
      /\ Len(md5map) = Len(masterfile)
      /\ Len(filemap) <= Len(masterfile)
  BY DEF TypeInv, FilemapInv, Opened
<1>2. /\ DOMAIN masterfile = 1 .. Len(masterfile) /\ Len(masterfile) \in Nat
      /\ DOMAIN md5map = 1 .. Len(md5map)
      /\ DOMAIN filemap = 1 .. Len(filemap) /\ Len(filemap) \in Nat
  BY <1>1
<1>3. QED  BY <1>1, <1>2

\* A filemap that is changed, or all of them.
LEMMA Remapped ==
  ASSUME FilemapInv, masterfile \in Seq(BlockFiles), Len(filemap) <= Len(masterfile),
         NEW map, DOMAIN map = DOMAIN filemap,
         map = [m \in DOMAIN map |-> map[m]],
         \A m \in DOMAIN map : map[m] \in [0 .. masterfile[m].blocks - 1 -> Seq(Nat)]
  PROVE  map \in Seq(Maps) /\ Len(map) = Len(filemap)
<1>1. DOMAIN map = 1 .. Len(filemap) /\ Len(filemap) \in Nat
  BY DEF FilemapInv
<1>2. ASSUME NEW m \in DOMAIN map
      PROVE  map[m] \in Maps
  <2>1. m \in DOMAIN masterfile
    BY <1>1
  <2>2. masterfile[m].blocks \in Nat
    BY <2>1, BlocksOf
  <2>3. QED  BY <2>2 DEF Maps
<1>3. QED  BY <1>1, <1>2

\* A narrowed list keeps to the places it had, and is empty only if it was.
LEMMA NarrowedRange ==
  ASSUME NEW list \in Seq(Nat), NEW from \in Seq(Nat), Narrowed(list, from)
  PROVE  /\ Range(list) \subseteq Range(from)
         /\ list = << >> <=> from = << >>
<1>1. CASE list = from
  BY <1>1
<1>2. CASE Len(list) = 1 /\ contains(from, list[1])
  <2>1. DOMAIN list = {1}
    BY <1>2
  <2>2. Range(list) = {list[1]}
    BY <2>1 DEF Range
  <2>3. PICK j \in DOMAIN from : from[j] = list[1]
    BY <1>2 DEF contains
  <2>3a. list[1] \in Range(from)
    BY <2>3 DEF Range
  <2>3b. from # << >> /\ list # << >>
    BY <2>1, <2>3, DOMAIN << >> = {}
  <2>4. QED  BY <2>2, <2>3a, <2>3b
<1>3. QED  BY <1>1, <1>2 DEF Narrowed

(***************************************************************************)
(* One scanned block: only the lists of the blocks in the table grow, by   *)
(* its number.                                                             *)
(***************************************************************************)
times(m, b, h) == { j \in DOMAIN blocksWith(m, h) : blocksWith(m, h)[j] = b }

\* A list grows by the number of the scanned block, once for each time its master
\* block is in the table.
LEMMA MatchedLists ==
  ASSUME TypeInv, pc = "scan", NEW h \in Hashes, NEW m \in DOMAIN filemap,
         NEW b \in 0 .. masterfile[m].blocks - 1
  PROVE  LET list == matched(h)[m][b] IN
         /\ IsFiniteSet(times(m, b, h))
         /\ Cardinality(times(m, b, h)) \in Nat
         /\ list \in Seq(Nat)
         /\ times(m, b, h) = {} => list = filemap[m][b]
         /\ Cardinality(times(m, b, h)) = 1 => list = Append(filemap[m][b], blocknumber)
         /\ \A n \in Range(list) :
              n \in Range(filemap[m][b]) \/ (times(m, b, h) # {} /\ n = blocknumber)
<1>1. /\ m \in DOMAIN md5map
      /\ filemap[m] \in [0 .. masterfile[m].blocks - 1 -> Seq(Nat)]
      /\ blocknumber \in Nat
  BY Options DEF TypeInv, FilemapInv, Opened
<1>2. blocksWith(m, h) \in Seq(Nat)
  BY <1>1 DEF TypeInv, Tables, blocksWith
<1>3. IsFiniteSet(times(m, b, h)) /\ Cardinality(times(m, b, h)) \in Nat
  <2>1. IsFiniteSet(1 .. Len(blocksWith(m, h)))
    BY <1>2, FS_Interval
  <2>2. times(m, b, h) \in SUBSET (1 .. Len(blocksWith(m, h)))
    BY <1>2 DEF times
  <2>3. QED  BY <2>1, <2>2, FS_Subset, FS_CardinalityType
<1> DEFINE count == Cardinality(times(m, b, h))
           list == filemap[m][b]
<1>4. matched(h)[m][b] = list \o [j \in 1 .. count |-> blocknumber]
  BY <1>1 DEF matched, times
<1>5. count = 0 <=> times(m, b, h) = {}
  BY <1>3, FS_EmptySet
<1>6. list \in Seq(Nat) /\ count \in Nat /\ blocknumber \in Nat
  BY <1>1, <1>3
<1> HIDE DEF count, list
<1>7. LET longer == list \o [j \in 1 .. count |-> blocknumber] IN
      /\ longer \in Seq(Nat)
      /\ count = 0 => longer = list
      /\ count = 1 => longer = Append(list, blocknumber)
      /\ \A n \in Range(longer) : n \in Range(list) \/ (count # 0 /\ n = blocknumber)
  BY <1>6, Repeated, ZenonT(60)
<1>8. QED  BY <1>3, <1>4, <1>5, <1>7 DEF count, list

\* A scanned block keeps the filemaps typed.
LEMMA MatchedTypes ==
  ASSUME TypeInv, pc = "scan", NEW h \in Hashes
  PROVE  /\ matched(h) \in Seq(Maps)
         /\ Len(matched(h)) = Len(filemap)
         /\ \A m \in DOMAIN matched(h) :
              matched(h)[m] \in [0 .. masterfile[m].blocks - 1 -> Seq(Nat)]
<1>1. ASSUME NEW m \in DOMAIN filemap
      PROVE  matched(h)[m] \in [0 .. masterfile[m].blocks - 1 -> Seq(Nat)]
  <2>1. filemap[m] \in [0 .. masterfile[m].blocks - 1 -> Seq(Nat)]
    BY DEF TypeInv, FilemapInv
  <2>2. \A b \in 0 .. masterfile[m].blocks - 1 : matched(h)[m][b] \in Seq(Nat)
    BY MatchedLists
  <2>3. matched(h)[m] = [b \in 0 .. masterfile[m].blocks - 1 |-> matched(h)[m][b]]
    BY <2>1 DEF matched
  <2>4. QED  BY <2>2, <2>3
<1>2. /\ DOMAIN matched(h) = DOMAIN filemap
      /\ matched(h) = [m \in DOMAIN matched(h) |-> matched(h)[m]]
  BY DEF matched
<1> DEFINE map == matched(h)
<1> HIDE DEF map
<1>3. map \in Seq(Maps) /\ Len(map) = Len(filemap)
  BY <1>1, <1>2, Remapped DEF TypeInv, Opened, map
<1>4. QED  BY <1>1, <1>2, <1>3 DEF map

(***************************************************************************)
(* Where the loop of print_report is: at a block of the master.            *)
(***************************************************************************)
LEMMA AtBlock ==
  ASSUME TypeInv, InReport
  PROVE  /\ t \in DOMAIN filemap
         /\ masterfile[t].blocks \in Nat
         /\ filemap[t] \in [0 .. masterfile[t].blocks - 1 -> Seq(Nat)]
         /\ size(filemap[t]) = masterfile[t].blocks
         /\ tb \in 0 .. masterfile[t].blocks - 1
         /\ places \in Seq(Nat)
         /\ places # << >> =>
              /\ places[1] \in Nat
              /\ run_blocks \in 1 .. masterfile[t].blocks - tb
              /\ \A j \in 1 .. run_blocks - 1 :
                   contains(filemap[t][tb + j], places[1] + j)
<1>1. /\ t \in DOMAIN filemap
      /\ t \in DOMAIN masterfile
  BY Options DEF TypeInv, FilemapInv, InReport, Opened
<1>2. /\ masterfile[t].blocks \in Nat
      /\ filemap[t] \in [0 .. masterfile[t].blocks - 1 -> Seq(Nat)]
  BY <1>1, BlocksOf DEF TypeInv, FilemapInv
<1>3. size(filemap[t]) = masterfile[t].blocks
  BY <1>2, FS_Interval DEF size
<1>4. tb \in 0 .. masterfile[t].blocks - 1
  BY <1>2, <1>3 DEF InReport, TypeInv
<1>5. places \in Seq(Nat)
  BY <1>2, <1>4 DEF places
<1>6. ASSUME places # << >>
      PROVE  /\ places[1] \in Nat
             /\ run_blocks \in 1 .. masterfile[t].blocks - tb
             /\ \A j \in 1 .. run_blocks - 1 :
                  contains(filemap[t][tb + j], places[1] + j)
  <2>1. places[1] \in Nat
    BY <1>5, <1>6
  <2>2. QED
    BY <1>2, <1>4, <2>1, RunlenBounds DEF run_blocks
<1>7. QED  BY <1>1, <1>2, <1>3, <1>4, <1>5, <1>6

-----------------------------------------------------------------------------
\* Initially the types are right.
LEMMA InitTypes == Init => TypeInv
<1> SUFFICES ASSUME Init PROVE TypeInv
  OBVIOUS
<1>1. PICK r \in Runs : image = r.image /\ cmd = r.cmd
  BY DEF Init
<1>2. image \in Files /\ CmdInv
  BY <1>1, FragFindAssumption DEF FragFindAssumption, CmdInv
<1>3. Len(masters) \in Nat
  BY <1>2, Options
<1>4. QED
  BY <1>2, <1>3 DEF Init, TypeInv, BlockFiles, FilemapInv, Opened, Opening

\* A step keeps the types.
LEMMA NextTypes == TypeInv /\ [Next]_vars => TypeInv'
<1> SUFFICES ASSUME TypeInv, [Next]_vars PROVE TypeInv'
  OBVIOUS
<1>0. /\ CmdInv
      /\ Len(masters) \in Nat
      /\ masters \in Seq(Files)
      /\ blocksize \in Nat
      /\ MinBlocksize \in Nat \ {0}
  BY Options DEF TypeInv
<1> USE DEF input, loaded, found, block, printing
<1>1. CASE RejectOptions \/ NoMemory \/ OpenImageFails \/ OpenMasterFails
         \/ HashFileFails
  BY <1>0, <1>1
  DEF TypeInv, CmdInv, FilemapInv, Opened, Opening, Buffers, masters, blocksize,
      RejectOptions, NoMemory, OpenImageFails, OpenMasterFails, HashFileFails, ExitWith
<1>2. CASE AcceptOptions
  BY <1>0, <1>2
  DEF TypeInv, CmdInv, FilemapInv, Opened, Opening, Buffers, masters, blocksize,
      AcceptOptions, ExitWith, optionsRejected, usageError
<1>3. CASE OpenImage
  <2>1. opened(image) \in BlockFiles
    BY <1>3, Reading DEF OpenImage, TypeInv
  <2>2. QED
    BY <1>0, <1>3, <2>1
    DEF TypeInv, CmdInv, FilemapInv, Opened, Opening, Buffers, masters, blocksize, OpenImage
<1>4. CASE OpenMaster
  <2>1. opened(masters[t]) \in BlockFiles /\ malloc \subseteq Buffers
    BY <1>0, <1>4, Reading, Options DEF OpenMaster, TypeInv
  <2>2. [h \in Hashes |-> << >>] \in Tables
    BY DEF Tables
  <2>3. /\ masterfile' \in Seq(BlockFiles)
        /\ Len(masterfile') = Len(masterfile) + 1
        /\ \A m \in DOMAIN masterfile : masterfile'[m] = masterfile[m]
    BY <1>4, <2>1 DEF OpenMaster, TypeInv
  <2>4. md5map' \in Seq(Tables) /\ Len(md5map') = Len(md5map) + 1
    BY <1>4, <2>2 DEF OpenMaster, TypeInv
  <2>5. FilemapInv'
    BY <1>4, <2>3 DEF OpenMaster, TypeInv, FilemapInv, Opened
  <2>6. Opened'
    BY <1>0, <1>4, <2>3, <2>4 DEF OpenMaster, TypeInv, Opened, Opening, FilemapInv, masters
  <2>7. QED
    BY <1>0, <1>4, <2>1, <2>3, <2>4, <2>5, <2>6
    DEF TypeInv, CmdInv, Buffers, masters, blocksize, OpenMaster
<1>5. CASE LoadBlock
  <2>1. masters[t] \in Files /\ t \in DOMAIN md5map
    BY <1>0, <1>5 DEF LoadBlock, TypeInv, Opened
  <2>2. buf' \in Buffers
    BY <1>5, <2>1, Reading DEF LoadBlock, TypeInv
  <2>3. md5[buf'] \in Hashes
    BY <1>5, <2>2, Options DEF LoadBlock, TypeInv
  <2>4. blocknumber % BlockNumbers \in Nat
    BY Options DEF TypeInv
  <2>5. md5map' \in Seq(Tables) /\ Len(md5map') = Len(md5map)
    <3>1. md5map[t][md5[buf']] \in Seq(Nat)
      BY <2>1, <2>3 DEF TypeInv, Tables
    <3>2. Append(md5map[t][md5[buf']], blocknumber % BlockNumbers) \in Seq(Nat)
      BY <3>1, <2>4
    <3>3. QED
      BY <1>5, <2>1, <2>3, <3>2, SMTT(20) DEF LoadBlock, TypeInv, Tables
  <2>6. QED
    <3>1. /\ UNCHANGED << image, cmd, pc, imagefile, masterfile, filemap, hits,
                          bloom_false_positives, t, pass, tb, report >>
          /\ blocknumber' = blocknumber + 1
      BY <1>5 DEF LoadBlock, input, found, printing
    <3>2. masters' = masters /\ blocksize' = blocksize
      BY <3>1 DEF masters, blocksize
    <3>3. Buffers' = Buffers
      BY <3>2 DEF Buffers
    <3>4. CmdInv' /\ FilemapInv'
      BY <1>0, <3>1 DEF TypeInv, CmdInv, FilemapInv
    <3>5. Opened'
      BY <1>0, <2>5, <3>1, <3>2 DEF TypeInv, Opened, Opening
    <3>6. blocknumber' \in Nat
      BY <1>0, <3>1 DEF TypeInv
    <3>7. QED
      BY <1>0, <2>2, <2>5, <3>1, <3>2, <3>3, <3>4, <3>5, <3>6 DEF TypeInv
<1>6. CASE LoadEnd
  <2> DEFINE n == masterfile[t].blocks
             empty == [b \in 0 .. n - 1 |-> << >>]
  <2>1. t \in DOMAIN masterfile /\ n \in Nat
    BY <1>6, BlocksOf DEF LoadEnd, TypeInv, Opened
  <2>2. empty \in [0 .. n - 1 -> Seq(Nat)]
    OBVIOUS
  <2>3. empty \in Maps
    BY <2>1, <2>2 DEF Maps
  <2>4. filemap' = Append(filemap, empty) /\ Len(filemap) = t - 1
    BY <1>6 DEF LoadEnd, TypeInv, Opened
  <2> HIDE DEF empty
  <2>5. /\ filemap' \in Seq(Maps)
        /\ Len(filemap') = t
        /\ filemap'[t] = empty
        /\ \A m \in DOMAIN filemap : filemap'[m] = filemap[m]
        /\ DOMAIN filemap' = DOMAIN filemap \cup {t}
    BY <1>0, <2>3, <2>4 DEF TypeInv, FilemapInv
  <2>6. FilemapInv'
    BY <1>6, <2>2, <2>5 DEF LoadEnd, TypeInv, FilemapInv
  <2>7. QED
    BY <1>0, <1>6, <2>5, <2>6
    DEF TypeInv, CmdInv, Opened, Opening, Buffers, masters, blocksize, LoadEnd
<1>7. CASE StartScan
  <2>1. malloc \subseteq Buffers /\ cmd.start \in Nat
    BY <1>7, Options DEF StartScan, TypeInv
  <2>2. QED
    BY <1>0, <1>7, <2>1
    DEF TypeInv, CmdInv, FilemapInv, Opened, Opening, Buffers, masters, blocksize, StartScan
<1>8. CASE ScanBlock
  <2> DEFINE h == md5[buf']
  <2>1. buf' \in Buffers
    BY <1>8, Reading DEF ScanBlock, TypeInv
  <2>2. h \in Hashes
    BY <1>8, <2>1, Options DEF ScanBlock, TypeInv
  <2> HIDE DEF h
  <2>3. matched(h) \in Seq(Maps) /\ Len(matched(h)) = Len(filemap)
        /\ \A m \in DOMAIN matched(h) : matched(h)[m] \in [0 .. masterfile[m].blocks - 1 -> Seq(Nat)]
    BY <1>8, <2>2, MatchedTypes DEF ScanBlock
  <2>4. FilemapInv' /\ Len(filemap') = Len(filemap)
    BY <1>8, <2>3 DEF ScanBlock, TypeInv, FilemapInv, h
  <2>5. hits' \in Nat /\ bloom_false_positives' \in Nat
    BY <1>8 DEF ScanBlock, TypeInv
  <2>6. QED
    BY <1>0, <1>8, <2>1, <2>4, <2>5
    DEF TypeInv, CmdInv, Opened, Opening, Buffers, masters, blocksize, ScanBlock
<1>9. CASE ScanEnd
  BY <1>0, <1>9
  DEF TypeInv, CmdInv, FilemapInv, Opened, Opening, Buffers, masters, blocksize, ScanEnd
<1>10. CASE ReportRaw
  BY <1>0, <1>10
  DEF TypeInv, CmdInv, FilemapInv, Opened, Opening, Buffers, masters, blocksize,
      ReportRaw, StartReport
<1>11. CASE CleanAndReport
  <2>1. t \in DOMAIN filemap /\ t \in DOMAIN masterfile
    BY <1>0, <1>11 DEF CleanAndReport, StartReport, TypeInv, FilemapInv, Opened
  <2>2. masterfile[t].blocks \in Nat
    BY <2>1, BlocksOf DEF TypeInv
  <2>3. clean(filemap[t]) \in [0 .. masterfile[t].blocks - 1 -> Seq(Nat)]
    BY <2>1, <2>2, CleanNarrows DEF TypeInv, FilemapInv
  <2>4. clean(filemap[t]) \in Maps
    BY <2>2, <2>3 DEF Maps
  <2>5. FilemapInv' /\ Len(filemap') = Len(filemap)
    BY <1>11, <2>1, <2>3, <2>4 DEF CleanAndReport, StartReport, TypeInv, FilemapInv
  <2>6. QED
    BY <1>0, <1>11, <2>5
    DEF TypeInv, CmdInv, Opened, Opening, Buffers, masters, blocksize,
        CleanAndReport, StartReport
<1>12. CASE ReportNotFound
  BY <1>0, <1>12
  DEF TypeInv, CmdInv, FilemapInv, Opened, Opening, Buffers, masters, blocksize,
      ReportNotFound, InReport
<1>13. CASE ReportRun
  <2>1. InReport /\ places # << >> /\ tb' = tb + run_blocks
    BY <1>13 DEF ReportRun, advance
  <2>2. tb' \in Nat
    BY <2>1, AtBlock DEF TypeInv
  <2>3. QED
    BY <1>0, <2>1, <2>2
    DEF TypeInv, CmdInv, FilemapInv, Opened, Opening, Buffers, masters, blocksize, InReport
<1>14. CASE ReportBlock
  BY <1>0, <1>14
  DEF TypeInv, CmdInv, FilemapInv, Opened, Opening, Buffers, masters, blocksize,
      ReportBlock, InReport
<1>15. CASE ReportTail
  BY <1>0, <1>15
  DEF TypeInv, CmdInv, FilemapInv, Opened, Opening, Buffers, masters, blocksize,
      ReportTail, AtReportEnd
<1>16. CASE ReportTailOfNothing
  <2>1. t \in 1 .. Len(masters) /\ Len(filemap) = Len(masters)
    BY <1>16 DEF ReportTailOfNothing, AtReportEnd, TypeInv, Opened
  <2>2. QED
    BY <1>0, <1>16, <2>1
    DEF TypeInv, CmdInv, FilemapInv, Opened, Opening, Buffers, masters, blocksize,
        ReportTailOfNothing, AtReportEnd, ExitWith
<1>17. CASE Shrink
  <2>1. PICK length \in 0 .. Len(image.bytes) - 1 :
          image' = [image EXCEPT !.bytes = SubSeq(@, 1, length)]
    BY <1>17 DEF Shrink
  <2>2. image.bytes \in Seq(Bytes)
    BY DEF TypeInv, Files
  <2>3. SubSeq(image.bytes, 1, length) \in Seq(Bytes)
    BY <2>1, <2>2
  <2>4. image' \in Files
    BY <2>1, <2>3 DEF TypeInv, Files
  <2>5. QED
    BY <1>0, <1>17, <2>4
    DEF TypeInv, CmdInv, FilemapInv, Opened, Opening, Buffers, masters, blocksize, Shrink
<1>18. CASE Finish
  BY <1>0, <1>18
  DEF TypeInv, CmdInv, FilemapInv, Opened, Opening, Buffers, masters, blocksize,
      Finish, ExitWith
<1>19. CASE UNCHANGED vars
  BY <1>0, <1>19
  DEF TypeInv, CmdInv, FilemapInv, Opened, Opening, Buffers, masters, blocksize, vars
<1>20. QED
  BY <1>1, <1>2, <1>3, <1>4, <1>5, <1>6, <1>7, <1>8, <1>9, <1>10, <1>11, <1>12,
     <1>13, <1>14, <1>15, <1>16, <1>17, <1>18, <1>19
  DEF Next, Step

\* The types are right in every reachable state.
LEMMA SpecTypes == Spec => []TypeInv
<1>1. QED  BY InitTypes, NextTypes, PTL DEF Spec
-----------------------------------------------------------------------------
(***************************************************************************)
(* How far the two loops got: what is behind blocknumber was read.         *)
(***************************************************************************)
LoadInv ==
  pc = "load" =>
    /\ blocknumber <= masterfile[t].blocks
    /\ \A e \in 0 .. blocknumber - 1 : ~ getblockFails(masters[t], e)

\* What a scan has behind it.
ScanInv ==
  pc = "scan" =>
    /\ cmd.start <= blocknumber
    /\ blocknumber > cmd.start =>
         /\ blocknumber <= imagefile.blocks
         /\ cmd.end # 0 => blocknumber <= cmd.end
    /\ \A e \in cmd.start .. blocknumber - 1 : ~ getblockFails(image, e)

\* The tables hold blocks that load read.
TablesInv ==
  \A m \in DOMAIN md5map : \A h \in Hashes : \A j \in DOMAIN md5map[m][h] :
    md5map[m][h][j] \in Loaded(m)

\* The inductive invariant of where locations come from.
WhereInv == TypeInv /\ LoadInv /\ ScanInv /\ TablesInv /\ LocationsWereScanned

\* What the steps leave alone.
LEMMA Constant ==
  ASSUME TypeInv, [Next]_vars
  PROVE  /\ cmd' = cmd
         /\ masters' = masters
         /\ blocksize' = blocksize
         /\ image'.bad = image.bad
         /\ \A m \in DOMAIN masterfile : m \in DOMAIN masterfile' /\ masterfile'[m] = masterfile[m]
         /\ \A m \in DOMAIN masterfile : Loaded(m)' = Loaded(m)
         /\ \A n \in Nat : getblockFails(image, n)' = getblockFails(image, n)
<1>1. cmd' = cmd
  BY DEF Next, Step, vars, input, RejectOptions, AcceptOptions, NoMemory, OpenImageFails,
         OpenImage, OpenMasterFails, HashFileFails, OpenMaster, LoadBlock, LoadEnd,
         StartScan, ScanBlock, ScanEnd, ReportRaw, CleanAndReport, StartReport,
         ReportNotFound, ReportRun, ReportBlock, InReport, ReportTail, AtReportEnd,
         ReportTailOfNothing, Finish, Shrink, ExitWith
<1>2. image'.bad = image.bad
  <2>1. CASE Shrink
    BY <2>1 DEF Shrink, TypeInv, Files
  <2>2. CASE ~ Shrink
    BY <2>2
    DEF Next, Step, vars, input, RejectOptions, AcceptOptions, NoMemory, OpenImageFails,
        OpenImage, OpenMasterFails, HashFileFails, OpenMaster, LoadBlock, LoadEnd,
        StartScan, ScanBlock, ScanEnd, ReportRaw, CleanAndReport, StartReport,
        ReportNotFound, ReportRun, ReportBlock, InReport, ReportTail, AtReportEnd,
        ReportTailOfNothing, Finish, ExitWith
  <2>3. QED  BY <2>1, <2>2
<1>3. \A m \in DOMAIN masterfile : m \in DOMAIN masterfile' /\ masterfile'[m] = masterfile[m]
  <2>1. CASE OpenMaster
    <3>1. opened(masters[t]) \in BlockFiles
      BY <2>1, Options, Reading DEF OpenMaster, TypeInv
    <3>2. QED  BY <2>1, <3>1 DEF OpenMaster, TypeInv
  <2>2. CASE ~ OpenMaster
    BY <2>2
    DEF Next, Step, vars, loaded, RejectOptions, AcceptOptions, NoMemory, OpenImageFails,
        OpenImage, OpenMasterFails, HashFileFails, LoadBlock, LoadEnd, StartScan,
        ScanBlock, ScanEnd, ReportRaw, CleanAndReport, StartReport, ReportNotFound,
        ReportRun, ReportBlock, InReport, ReportTail, AtReportEnd, ReportTailOfNothing,
        Finish, Shrink, ExitWith
  <2>3. QED  BY <2>1, <2>2
<1>4. masters' = masters /\ blocksize' = blocksize
  BY <1>1 DEF masters, blocksize
<1>5. QED  BY <1>1, <1>2, <1>3, <1>4 DEF Loaded, getblockFails

\* A step keeps the invariant.
LEMMA NextWhere == WhereInv /\ [Next]_vars => WhereInv'
<1> SUFFICES ASSUME WhereInv, [Next]_vars PROVE WhereInv'
  OBVIOUS
<1>0. /\ TypeInv /\ LoadInv /\ ScanInv /\ TablesInv /\ LocationsWereScanned
      /\ TypeInv'
      /\ cmd' = cmd
      /\ cmd.start \in Nat
      /\ cmd.end \in Nat
      /\ blocknumber \in Nat
      /\ imagefile.blocks \in Nat
  BY NextTypes, Constant, Options DEF WhereInv, TypeInv, BlockFiles
<1>1. LoadInv'
  <2> SUFFICES ASSUME pc' = "load" PROVE LoadInv'
    BY DEF LoadInv
  <2>1. CASE OpenMaster
    <3>1. blocknumber' = 0
      BY <2>1 DEF OpenMaster
    <3>2. t' \in DOMAIN masterfile' /\ masterfile' \in Seq(BlockFiles)
      BY <1>0 DEF TypeInv, Opened
    <3>2a. masterfile'[t'] \in BlockFiles
      BY <3>2
    <3>3. masterfile'[t'].blocks \in Nat
      BY <3>2a DEF BlockFiles
    <3>4. QED  BY <3>1, <3>3 DEF LoadInv
  <2>2. CASE LoadBlock
    <3>1. /\ pc = "load"
          /\ blocknumber < masterfile[t].blocks
          /\ ~ getblockFails(masters[t], blocknumber)
          /\ blocknumber' = blocknumber + 1
          /\ masterfile' = masterfile
          /\ t' = t
      BY <2>2 DEF LoadBlock, loadContinues, printing
    <3>2. masterfile[t].blocks \in Nat
      BY <1>0, <3>1, BlocksOf, SMTT(20) DEF TypeInv, Opened
    <3>3. masters' = masters
      BY <1>0 DEF masters
    <3>4. QED  BY <1>0, <3>1, <3>2, <3>3 DEF LoadInv, getblockFails
  <2>3. CASE ~ OpenMaster /\ ~ LoadBlock
    <3>1. UNCHANGED << pc, blocknumber, masterfile, t, cmd >>
      BY <2>3
      DEF Next, Step, vars, input, loaded, block, found, printing, RejectOptions, AcceptOptions,
          NoMemory, OpenImageFails, OpenImage, OpenMasterFails, HashFileFails, LoadEnd,
          StartScan, ScanBlock, ScanEnd, ReportRaw, CleanAndReport, StartReport,
          ReportNotFound, ReportRun, ReportBlock, InReport, ReportTail, AtReportEnd,
          ReportTailOfNothing, Finish, Shrink, ExitWith
    <3>2. QED  BY <1>0, <3>1 DEF LoadInv, getblockFails, masters
  <2>4. QED  BY <2>1, <2>2, <2>3
<1>2. ScanInv'
  <2> SUFFICES ASSUME pc' = "scan" PROVE ScanInv'
    BY DEF ScanInv
  <2>0. image'.bad = image.bad
    BY <1>0, Constant
  <2>1. CASE StartScan
    <3>1. blocknumber' = cmd.start
      BY <2>1 DEF StartScan
    <3>2. QED  BY <1>0, <3>1 DEF ScanInv
  <2>2. CASE ScanBlock
    <3>1. /\ pc = "scan"
          /\ cmd.end = 0 \/ blocknumber < cmd.end
          /\ blocknumber < imagefile.blocks
          /\ ~ getblockFails(image, blocknumber)
          /\ blocknumber' = blocknumber + 1
          /\ imagefile' = imagefile
      BY <2>2 DEF ScanBlock, scanContinues, beforeEnd, loaded
    <3>2. QED  BY <1>0, <2>0, <3>1 DEF ScanInv, getblockFails
  <2>3. CASE ~ StartScan /\ ~ ScanBlock
    <3>1. UNCHANGED << pc, blocknumber, imagefile, cmd >>
      BY <2>3
      DEF Next, Step, vars, input, loaded, block, found, printing, RejectOptions, AcceptOptions,
          NoMemory, OpenImageFails, OpenImage, OpenMasterFails, HashFileFails,
          OpenMaster, LoadBlock, LoadEnd, ScanEnd, ReportRaw, CleanAndReport,
          StartReport, ReportNotFound, ReportRun, ReportBlock, InReport, ReportTail,
          AtReportEnd, ReportTailOfNothing, Finish, Shrink, ExitWith
    <3>2. QED  BY <1>0, <2>0, <3>1 DEF ScanInv, getblockFails
  <2>4. QED  BY <2>1, <2>2, <2>3
<1>3. TablesInv'
  <2>0. \A m \in DOMAIN masterfile : Loaded(m)' = Loaded(m)
    BY <1>0, Constant
  <2>1. CASE OpenMaster
    <3>1. md5map' = Append(md5map, [h \in Hashes |-> << >>]) /\ md5map \in Seq(Tables)
      BY <1>0, <2>1 DEF OpenMaster, TypeInv
    <3>2. [h \in Hashes |-> << >>] \in Tables
      BY DEF Tables
    <3>3. ASSUME NEW m \in DOMAIN md5map', NEW h \in Hashes, NEW j \in DOMAIN md5map'[m][h]
          PROVE  md5map'[m][h][j] \in Loaded(m)'
      <4>1. CASE m \in DOMAIN md5map
        <5>1. md5map'[m] = md5map[m]
          BY <3>1, <3>2, <4>1
        <5>2. m \in DOMAIN masterfile
          BY <1>0, <4>1, Numbered
        <5>3. QED  BY <1>0, <2>0, <3>3, <4>1, <5>1, <5>2 DEF TablesInv
      <4>2. CASE m \notin DOMAIN md5map
        <5>1. md5map'[m] = [x \in Hashes |-> << >>]
          BY <3>1, <3>2, <3>3, <4>2
        <5>2. QED  BY <3>3, <5>1
      <4>3. QED  BY <4>1, <4>2
    <3>4. QED  BY <3>3 DEF TablesInv
  <2>2. CASE LoadBlock
    <3> DEFINE d == md5[buf']
               v == blocknumber % BlockNumbers
    <3>1. /\ pc = "load"
          /\ t \in DOMAIN md5map
          /\ t \in DOMAIN masterfile
          /\ md5map' = [md5map EXCEPT ![t][d] = Append(@, v)]
          /\ md5map \in Seq(Tables)
      <4>1. /\ pc = "load"
            /\ md5map' = [md5map EXCEPT ![t][d] = Append(@, v)]
            /\ md5map \in Seq(Tables)
        BY <1>0, <2>2 DEF LoadBlock, TypeInv
      <4>2. t \in Nat \ {0} /\ Len(masterfile) = t
        BY <1>0, <4>1, Options DEF TypeInv, Opened
      <4> HIDE DEF d, v
      <4>3. QED  BY <1>0, <4>1, <4>2, Numbered
    <3>2. v \in Loaded(t)
      <4>1. BlockNumbers \in Nat \ {0} /\ masterfile[t].blocks \in Nat
        BY <1>0, <3>1, Options, BlocksOf DEF TypeInv
      <4>2. v \in 0 .. blocknumber
        BY <1>0, <4>1
      <4>3. /\ blocknumber < masterfile[t].blocks
            /\ \A e \in 0 .. blocknumber : ~ getblockFails(masters[t], e)
        BY <1>0, <2>2, <3>1 DEF LoadBlock, loadContinues, LoadInv
      <4> HIDE DEF v
      <4>4. QED  BY <1>0, <4>1, <4>2, <4>3 DEF Loaded
    <3>2a. BlockNumbers \in Nat \ {0}
      BY <1>0, Options DEF TypeInv
    <3>3. v \in Nat
      BY <1>0, <3>2a
    <3> HIDE DEF d, v
    <3>4. ASSUME NEW m \in DOMAIN md5map', NEW h \in Hashes, NEW j \in DOMAIN md5map'[m][h]
          PROVE  md5map'[m][h][j] \in Loaded(m)'
      <4>1. m \in DOMAIN md5map /\ m \in DOMAIN masterfile
        <5>1. m \in DOMAIN md5map
          BY <3>1, <3>4
        <5>2. QED  BY <1>0, <5>1, Numbered
      <4>2. md5map[m][h] \in Seq(Nat) /\ md5map[m] \in Tables
        BY <3>1, <4>1 DEF Tables
      <4>3. CASE m = t /\ h = d
        <5>1. md5map'[m][h] = Append(md5map[m][h], v)
          BY <3>1, <4>1, <4>2, <4>3 DEF Tables
        <5>2. \/ j \in DOMAIN md5map[m][h] /\ md5map'[m][h][j] = md5map[m][h][j]
              \/ md5map'[m][h][j] = v
          BY <3>3, <3>4, <4>2, <5>1
        <5>3. QED  BY <1>0, <2>0, <3>2, <4>1, <4>3, <5>2 DEF TablesInv
      <4>4. CASE ~ (m = t /\ h = d)
        <5>1. md5map'[m][h] = md5map[m][h]
          BY <3>1, <4>1, <4>2, <4>4 DEF Tables
        <5>2. QED  BY <1>0, <2>0, <3>4, <4>1, <5>1 DEF TablesInv
      <4>5. QED  BY <4>3, <4>4
    <3>5. QED  BY <3>4 DEF TablesInv
  <2>3. CASE ~ OpenMaster /\ ~ LoadBlock
    <3>1. md5map' = md5map
      BY <2>3
      DEF Next, Step, vars, input, loaded, block, found, printing, RejectOptions, AcceptOptions,
          NoMemory, OpenImageFails, OpenImage, OpenMasterFails, HashFileFails, LoadEnd,
          StartScan, ScanBlock, ScanEnd, ReportRaw, CleanAndReport, StartReport,
          ReportNotFound, ReportRun, ReportBlock, InReport, ReportTail, AtReportEnd,
          ReportTailOfNothing, Finish, Shrink, ExitWith
    <3>2. DOMAIN md5map = DOMAIN masterfile
      BY <1>0 DEF TypeInv, Opened
    <3>3. QED  BY <1>0, <2>0, <3>1, <3>2 DEF TablesInv
  <2>4. QED  BY <2>1, <2>2, <2>3
<1>4. LocationsWereScanned'
  <2> DEFINE Place(m, b, n) ==
        /\ b \in Loaded(m)
        /\ n \in cmd.start .. imagefile.blocks - 1
        /\ cmd.end # 0 => n < cmd.end
        /\ \A e \in cmd.start .. n : ~ getblockFails(image, e)
  <2>0. \A m \in DOMAIN filemap : \A b \in DOMAIN filemap[m] :
          \A n \in Range(filemap[m][b]) : Place(m, b, n)
    BY <1>0 DEF LocationsWereScanned
  <2>1. \A m \in DOMAIN filemap : m \in DOMAIN masterfile
    BY <1>0, Numbered
  <2>2. ASSUME imagefile' = imagefile,
               NEW m \in DOMAIN masterfile, NEW b, NEW n, Place(m, b, n)
        PROVE  Place(m, b, n)'
    <3>1. Loaded(m)' = Loaded(m) /\ image'.bad = image.bad
      BY <1>0, <2>2, Constant
    <3>2. QED  BY <1>0, <2>2, <3>1 DEF getblockFails
  <2> SUFFICES \A m \in DOMAIN filemap' : \A b \in DOMAIN filemap'[m] :
                 \A n \in Range(filemap'[m][b]) : Place(m, b, n)'
    BY DEF LocationsWereScanned
  <2> HIDE DEF Place
  <2>3. CASE OpenImage
    <3>1. filemap' = filemap /\ Len(filemap) = 0
      BY <1>0, <2>3 DEF OpenImage, found, TypeInv, Opened, Opening
    <3>2. DOMAIN filemap' = {}
      BY <1>0, <3>1 DEF TypeInv, FilemapInv
    <3>3. QED  BY <3>2
  <2>4. CASE LoadEnd
    <3> DEFINE empty == [b \in 0 .. masterfile[t].blocks - 1 |-> << >>]
    <3>1. filemap' = Append(filemap, empty) /\ imagefile' = imagefile
      BY <2>4 DEF LoadEnd, loaded
    <3>2. filemap \in Seq(Maps) /\ filemap' \in Seq(Maps)
      BY <1>0 DEF TypeInv, FilemapInv
    <3>3. ASSUME NEW m \in DOMAIN filemap', NEW b \in DOMAIN filemap'[m],
                 NEW n \in Range(filemap'[m][b])
          PROVE  Place(m, b, n)'
      <4>1. CASE m \in DOMAIN filemap
        <5>1. filemap'[m] = filemap[m]
          BY <3>1, <3>2, <4>1
        <5>2. QED  BY <2>0, <2>1, <2>2, <3>1, <3>3, <4>1, <5>1
      <4>2. CASE m \notin DOMAIN filemap
        <5>1. filemap'[m] = empty
          BY <3>1, <3>2, <3>3, <4>2
        <5>2. Range(filemap'[m][b]) = {}
          BY <3>3, <5>1 DEF Range
        <5>3. QED  BY <3>3, <5>2
      <4>3. QED  BY <4>1, <4>2
    <3>4. QED  BY <3>3
  <2>5. CASE ScanBlock
    <3> DEFINE h == md5[buf']
    <3>1. imagefile' = imagefile /\ pc = "scan"
      BY <2>5 DEF ScanBlock, loaded
    <3>2. h \in Hashes
      BY <1>0, <2>5, Reading, Options DEF ScanBlock, TypeInv
    <3>3. CASE filemap' = filemap
      BY <2>0, <2>1, <2>2, <3>1, <3>3
    <3>4. CASE filemap' = matched(h)
      <4> HIDE DEF h
      <4>1. ASSUME NEW m \in DOMAIN filemap', NEW b \in DOMAIN filemap'[m],
                   NEW n \in Range(filemap'[m][b])
            PROVE  Place(m, b, n)'
        <5>1. m \in DOMAIN filemap /\ m \in DOMAIN masterfile /\ m \in DOMAIN md5map
          BY <1>0, <2>1, <3>4, <4>1, SMTT(20) DEF matched, TypeInv, Opened
        <5>2. b \in DOMAIN filemap[m] /\ b \in 0 .. masterfile[m].blocks - 1
          BY <1>0, <3>4, <4>1, <5>1 DEF matched, TypeInv, FilemapInv
        <5>3. \/ n \in Range(filemap[m][b])
              \/ times(m, b, h) # {} /\ n = blocknumber
          BY <1>0, <3>1, <3>2, <3>4, <4>1, <5>1, <5>2, MatchedLists
        <5>4. CASE n \in Range(filemap[m][b])
          BY <2>0, <2>2, <3>1, <5>1, <5>2, <5>4
        <5>5. CASE times(m, b, h) # {} /\ n = blocknumber
          <6>1. b \in Loaded(m)
            <7>1. PICK j \in DOMAIN md5map[m][h] : md5map[m][h][j] = b
              BY <5>5 DEF times, blocksWith
            <7>2. QED  BY <1>0, <3>2, <5>1, <7>1 DEF TablesInv
          <6>2. /\ n < imagefile.blocks
                /\ cmd.end = 0 \/ n < cmd.end
                /\ ~ getblockFails(image, n)
            BY <2>5, <5>5 DEF ScanBlock, scanContinues, beforeEnd
          <6>3. /\ cmd.start <= n
                /\ \A e \in cmd.start .. n - 1 : ~ getblockFails(image, e)
            BY <1>0, <3>1, <5>5 DEF ScanInv
          <6>4. Place(m, b, n)
            BY <1>0, <5>5, <6>1, <6>2, <6>3 DEF Place
          <6>5. QED  BY <2>2, <3>1, <5>1, <6>4
        <5>6. QED  BY <5>3, <5>4, <5>5
      <4>2. QED  BY <4>1
    <3>5. QED  BY <2>5, <3>3, <3>4 DEF ScanBlock, found
  <2>6. CASE CleanAndReport
    <3>1. imagefile' = imagefile /\ filemap' = [filemap EXCEPT ![t] = clean(@)]
      BY <2>6 DEF CleanAndReport, StartReport, loaded
    <3>2. ASSUME NEW m \in DOMAIN filemap', NEW b \in DOMAIN filemap'[m],
                 NEW n \in Range(filemap'[m][b])
          PROVE  Place(m, b, n)'
      <4>1. m \in DOMAIN filemap /\ m \in DOMAIN masterfile
        BY <2>1, <3>1, <3>2
      <4>2. CASE m # t
        <5>1. filemap'[m] = filemap[m]
          BY <3>1, <4>1, <4>2
        <5>2. QED  BY <2>0, <2>2, <3>1, <3>2, <4>1, <5>1
      <4>3. CASE m = t
        <5>1. filemap'[m] = clean(filemap[m])
          BY <3>1, <4>1, <4>3
        <5>2. /\ masterfile[m].blocks \in Nat
              /\ filemap[m] \in [0 .. masterfile[m].blocks - 1 -> Seq(Nat)]
          BY <1>0, <4>1, BlocksOf DEF TypeInv, FilemapInv
        <5>3. /\ filemap'[m] \in [0 .. masterfile[m].blocks - 1 -> Seq(Nat)]
              /\ \A c \in 0 .. masterfile[m].blocks - 1 :
                   Narrowed(filemap'[m][c], filemap[m][c])
          BY <5>1, <5>2, CleanNarrows
        <5>4. b \in DOMAIN filemap[m] /\ n \in Range(filemap[m][b])
          BY <3>2, <5>2, <5>3, NarrowedRange
        <5>5. QED  BY <2>0, <2>2, <3>1, <4>1, <5>4
      <4>4. QED  BY <4>2, <4>3
    <3>3. QED  BY <3>2
  <2>7. CASE ~ OpenImage /\ ~ LoadEnd /\ ~ ScanBlock /\ ~ CleanAndReport
    <3>1. filemap' = filemap /\ imagefile' = imagefile
      BY <2>7
      DEF Next, Step, vars, input, loaded, block, found, printing, RejectOptions, AcceptOptions,
          NoMemory, OpenImageFails, OpenMasterFails, HashFileFails, OpenMaster,
          LoadBlock, StartScan, ScanEnd, ReportRaw, StartReport, ReportNotFound,
          ReportRun, ReportBlock, InReport, ReportTail, AtReportEnd, ReportTailOfNothing,
          Finish, Shrink, ExitWith
    <3>2. QED  BY <2>0, <2>1, <2>2, <3>1
  <2>8. QED  BY <2>3, <2>4, <2>5, <2>6, <2>7
<1>5. QED  BY <1>0, <1>1, <1>2, <1>3, <1>4 DEF WhereInv

\* The invariant holds initially.
LEMMA InitWhere == Init => WhereInv
BY InitTypes DEF Init, WhereInv, LoadInv, ScanInv, TablesInv, LocationsWereScanned

\* The invariant holds in every reachable state.
LEMMA SpecWhere == Spec => []WhereInv
<1>1. QED  BY InitWhere, NextWhere, PTL DEF Spec

(***************************************************************************)
(* A location is the number of an image block the scan looked at, and      *)
(* belongs to a master block that load read, whatever fails meanwhile.     *)
(***************************************************************************)
THEOREM LocationsAreOfScannedBlocks == Spec => []LocationsWereScanned
<1>1. WhereInv => LocationsWereScanned  BY DEF WhereInv
<1>2. QED  BY SpecWhere, <1>1, PTL

-----------------------------------------------------------------------------
(***************************************************************************)
(* The search finds exactly the blocks that are there: the digests, the    *)
(* shared Bloom filter and the tables add up to a comparison of contents,  *)
(* for files of any length and any number of masters.                      *)
(***************************************************************************)
\* The master blocks whose digests are in the table.
Entered(m) == IF pc = "load" /\ m = t THEN 0 .. blocknumber - 1 ELSE Loaded(m)

\* The digest of block b of master m.
Digest(m, b) == md5[blockOf(masters[m], b)]

\* What was loaded of a master is what is compared.
Held(m) == holds(masters[m], masterfile[m])

\* The table of a master lists each block under its digest, once.
TableExact(m) ==
  \A h \in Hashes :
    /\ \A j \in DOMAIN md5map[m][h] :
         md5map[m][h][j] \in Entered(m) /\ Digest(m, md5map[m][h][j]) = h
    /\ \A i, j \in DOMAIN md5map[m][h] : md5map[m][h][i] = md5map[m][h][j] => i = j
    /\ \A b \in Entered(m) :
         Digest(m, b) = h => \E j \in DOMAIN md5map[m][h] : md5map[m][h][j] = b

\* The same of every master that is held.
TablesExact == \A m \in DOMAIN masterfile : Held(m) => TableExact(m)

\* The Bloom filter lets every digest in a table pass.
VectorInv ==
  \A m \in DOMAIN md5map : \A h \in Hashes :
    md5map[m][h] # << >> => FoundIn(vector, h)

\* Nothing is found before the scan.
Fresh ==
  pc \in {"options", "image", "open", "load"} =>
    /\ \A m \in DOMAIN filemap : \A b \in DOMAIN filemap[m] : filemap[m][b] = << >>
    /\ hits = 0
    /\ bloom_false_positives = 0

\* What open() measured.
Measured ==
  /\ \A m \in DOMAIN masterfile : masterfile[m].filesize = Len(masters[m].bytes)
  /\ pc \in {"options", "image", "failed"} \/ image.device
       \/ Len(image.bytes) < (imagefile.blocks + 1) * blocksize
  /\ pc \in {"options", "image"} => imagefile.blocks = 0
  /\ image.device => ~ image.shrinks

\* The inductive invariant of the search.
SearchInv ==
  /\ WhereInv
  /\ TablesExact
  /\ VectorInv
  /\ Fresh
  /\ Measured
  /\ FilemapExact
  /\ HitsAccountForMatches

-----------------------------------------------------------------------------
(***************************************************************************)
(* A block that is there is read whole: the buffer holds its content and   *)
(* nothing of what it held before.                                         *)
(***************************************************************************)
LEMMA WholeBlock ==
  ASSUME CmdInv, blocksize >= MinBlocksize, NEW file \in Files, NEW n \in Nat,
         (n + 1) * blocksize <= Len(file.bytes)
  PROVE  /\ blockOf(file, n) \in Buffers
         /\ Len(blockOf(file, n)) = blocksize
         /\ \A j \in 1 .. blocksize : blockOf(file, n)[j] = file.bytes[n * blocksize + j]
         /\ \A old \in Buffers : getblock(file, n, old) = blockOf(file, n)
<1>1. /\ blocksize \in Nat \ {0}
      /\ file.bytes \in Seq(Bytes)
      /\ Len(file.bytes) \in Nat
  BY Options DEF Files
<1> DEFINE from == n * blocksize
<1>2. from \in Nat /\ from + blocksize <= Len(file.bytes)
  BY <1>1
<1>3. blockOf(file, n) = SubSeq(file.bytes, from + 1, from + blocksize)
  BY <1>2 DEF blockOf, pread
<1> HIDE DEF from
<1>4. /\ blockOf(file, n) \in Seq(Bytes)
      /\ Len(blockOf(file, n)) = blocksize
      /\ \A j \in 1 .. blocksize : blockOf(file, n)[j] = file.bytes[from + j]
  BY <1>1, <1>2, <1>3
<1>5. blockOf(file, n) \in Buffers
  BY <1>1, <1>4 DEF Buffers
<1>6. ASSUME NEW old \in Buffers
      PROVE  getblock(file, n, old) = blockOf(file, n)
  <2>1. getblock(file, n, old) =
          [j \in 1 .. blocksize |-> IF j <= Len(blockOf(file, n))
                                    THEN blockOf(file, n)[j] ELSE old[j]]
    BY DEF getblock, blockOf
  <2>2. getblock(file, n, old) = [j \in 1 .. blocksize |-> blockOf(file, n)[j]]
    BY <1>1, <1>4, <2>1
  <2>3. QED  BY <1>5, <2>2 DEF Buffers
<1>7. QED  BY <1>4, <1>5, <1>6 DEF from

\* A file that holds its blocks holds each of them.
LEMMA HeldBlock ==
  ASSUME CmdInv, blocksize >= MinBlocksize, NEW file \in Files, NEW f \in BlockFiles,
         holds(file, f), NEW n \in Nat, n < f.blocks
  PROVE  /\ (n + 1) * blocksize <= Len(file.bytes)
         /\ blockOf(file, n) \in Buffers
         /\ \A old \in Buffers : getblock(file, n, old) = blockOf(file, n)
<1>1. /\ blocksize \in Nat \ {0}
      /\ Len(file.bytes) \in Nat
      /\ f.blocks \in Nat
  BY Options DEF Files, BlockFiles
<1>2. f.blocks * blocksize <= Len(file.bytes)
  BY DEF holds
<1>3. (n + 1) * blocksize <= f.blocks * blocksize
  BY <1>1
<1>4. (n + 1) * blocksize <= Len(file.bytes)
  <2>1. (n + 1) * blocksize \in Nat /\ f.blocks * blocksize \in Nat
    BY <1>1
  <2>2. QED  BY <1>1, <1>2, <1>3, <2>1
<1>5. QED  BY <1>4, WholeBlock

\* Blocks with the same digest have the same content.
LEMMA SameDigest ==
  ASSUME Collisionless, CmdInv, blocksize >= MinBlocksize,
         NEW c \in Buffers, NEW d \in Buffers
  PROVE  md5[c] = md5[d] <=> c = d
<1>1. PICK r \in Runs : cmd = r.cmd
  BY DEF CmdInv
<1>2. Buffers \subseteq DOMAIN md5 /\ blocksize \in Nat
  BY <1>1, FragFindAssumption DEF FragFindAssumption, blocksize, Buffers
<1>3. Len(c) = blocksize /\ Len(d) = blocksize
  BY <1>2 DEF Buffers
<1>4. QED  BY <1>2, <1>3 DEF Collisionless

\* The number of a block of a master fits into 32 bits.
LEMMA FewBlocks ==
  ASSUME SmallMasters, TypeInv, blocksize >= MinBlocksize,
         NEW m \in DOMAIN masterfile, Held(m)
  PROVE  masterfile[m].blocks <= BlockNumbers
<1>1. PICK r \in Runs : cmd = r.cmd
  BY DEF TypeInv, CmdInv
<1>2. /\ masterfile[m].blocks \in Nat
      /\ blocksize \in Nat \ {0}
      /\ BlockNumbers \in Nat
      /\ masters \in Seq(Files)
  BY BlocksOf, Options DEF TypeInv
<1>3. m \in DOMAIN masters
  BY <1>2, Options, Numbered DEF TypeInv, Opened
<1>4. Len(masters[m].bytes) <= BlockNumbers * blocksize
  BY <1>1, <1>3 DEF SmallMasters, masters, blocksize
<1>5. Len(masters[m].bytes) \in Nat
  BY <1>2, <1>3 DEF Files
<1>6. masterfile[m].blocks * blocksize <= Len(masters[m].bytes)
  BY DEF Held, holds
<1> DEFINE a == masterfile[m].blocks
           b == blocksize
           c == BlockNumbers
<1>7. a * b <= c * b
  <2>1. a * b \in Nat /\ c * b \in Nat
    BY <1>2
  <2>2. QED  BY <1>4, <1>5, <1>6, <2>1
<1> HIDE DEF a, b, c
<1>8. a <= c
  BY <1>2, <1>7 DEF a, b, c
<1>9. QED  BY <1>8 DEF a, c

-----------------------------------------------------------------------------
\* The steps that touch neither the tables nor the Bloom filter.
LEMMA TablesKept ==
  ASSUME [Next]_vars, ~ OpenMaster, ~ LoadBlock
  PROVE  UNCHANGED << masterfile, md5map, vector >>
BY DEF Next, Step, vars, input, loaded, block, found, printing, RejectOptions, AcceptOptions,
       NoMemory, OpenImageFails, OpenImage, OpenMasterFails, HashFileFails, LoadEnd,
       StartScan, ScanBlock, ScanEnd, ReportRaw, CleanAndReport, StartReport,
       ReportNotFound, ReportRun, ReportBlock, InReport, ReportTail, AtReportEnd,
       ReportTailOfNothing, Finish, Shrink, ExitWith

\* The steps that leave the filemaps and the counters alone.
LEMMA FoundKept ==
  ASSUME [Next]_vars, ~ LoadEnd, ~ ScanBlock, ~ CleanAndReport
  PROVE  UNCHANGED found
BY DEF Next, Step, vars, input, loaded, block, found, printing, RejectOptions, AcceptOptions,
       NoMemory, OpenImageFails, OpenImage, OpenMasterFails, HashFileFails, OpenMaster,
       LoadBlock, StartScan, ScanEnd, ReportRaw, StartReport, ReportNotFound,
       ReportRun, ReportBlock, InReport, ReportTail, AtReportEnd, ReportTailOfNothing,
       Finish, Shrink, ExitWith

\* A step keeps every digest in the Bloom filter: no bit is ever cleared.
LEMMA NextVector ==
  ASSUME TypeInv, VectorInv, [Next]_vars
  PROVE  VectorInv'
<1> SUFFICES ASSUME NEW m \in DOMAIN md5map', NEW h \in Hashes, md5map'[m][h] # << >>
             PROVE  FoundIn(vector', h)
  BY DEF VectorInv
<1>1. CASE OpenMaster
  <2>1. /\ md5map' = Append(md5map, [x \in Hashes |-> << >>])
        /\ md5map \in Seq(Tables)
        /\ vector' = vector
    BY <1>1 DEF OpenMaster, TypeInv
  <2>2. m \in DOMAIN md5map /\ md5map'[m] = md5map[m]
    BY <2>1
  <2>3. QED  BY <2>1, <2>2 DEF VectorInv
<1>2. CASE LoadBlock
  <2> DEFINE d == md5[buf']
             v == blocknumber % BlockNumbers
  <2>1. /\ md5map' = [md5map EXCEPT ![t][d] = Append(@, v)]
        /\ vector' = vector \cup BitsOf(d)
        /\ md5map \in Seq(Tables)
    BY <1>2 DEF LoadBlock, TypeInv, AddedTo
  <2> HIDE DEF d, v
  <2>2. m \in DOMAIN md5map
    BY <2>1
  <2>3. CASE h = d
    BY <2>1, <2>3 DEF FoundIn
  <2>4. CASE h # d
    <3>1. md5map[m] \in Tables
      BY <2>1, <2>2
    <3>2. md5map'[m][h] = md5map[m][h]
      BY <2>1, <2>2, <2>4, <3>1 DEF Tables
    <3>3. QED  BY <2>1, <2>2, <3>2 DEF VectorInv, FoundIn
  <2>5. QED  BY <2>3, <2>4
<1>3. CASE ~ OpenMaster /\ ~ LoadBlock
  BY <1>3, TablesKept DEF VectorInv
<1>4. QED  BY <1>1, <1>2, <1>3

\* A step before the scan finds nothing.
LEMMA NextFresh ==
  ASSUME TypeInv, Fresh, [Next]_vars
  PROVE  Fresh'
<1> DEFINE early == pc \in {"options", "image", "open", "load"}
           nothing(map) == \A m \in DOMAIN map : \A b \in DOMAIN map[m] : map[m][b] = << >>
<1>1. CASE LoadEnd
  <2> DEFINE empty == [b \in 0 .. masterfile[t].blocks - 1 |-> << >>]
  <2>1. /\ filemap' = Append(filemap, empty)
        /\ filemap \in Seq(Maps)
        /\ nothing(filemap)
        /\ hits' = hits /\ hits = 0
        /\ bloom_false_positives' = bloom_false_positives /\ bloom_false_positives = 0
    BY <1>1 DEF LoadEnd, TypeInv, FilemapInv, Fresh
  <2>2. \A b \in DOMAIN empty : empty[b] = << >>
    OBVIOUS
  <2> HIDE DEF empty
  <2>3. \A m \in DOMAIN filemap' : \/ m \in DOMAIN filemap /\ filemap'[m] = filemap[m]
                                   \/ filemap'[m] = empty
    BY <2>1
  <2>4. nothing(filemap')
    BY <2>1, <2>2, <2>3
  <2>5. QED  BY <2>1, <2>4 DEF Fresh
<1>2. CASE ScanBlock
  BY <1>2 DEF ScanBlock, Fresh
<1>3. CASE CleanAndReport
  BY <1>3 DEF CleanAndReport, StartReport, Fresh
<1>4. CASE ~ LoadEnd /\ ~ ScanBlock /\ ~ CleanAndReport
  <2>1. early' => early
    BY DEF Next, Step, vars, input, loaded, block, found, printing, RejectOptions,
       AcceptOptions, NoMemory, OpenImageFails, OpenImage, OpenMasterFails,
       HashFileFails, OpenMaster, LoadBlock, LoadEnd, StartScan, ScanBlock,
       CleanAndReport, ScanEnd, ReportRaw, StartReport, ReportNotFound,
       ReportRun, ReportBlock, InReport, ReportTail, AtReportEnd, ReportTailOfNothing,
       Finish, Shrink, ExitWith
  <2>2. QED  BY <1>4, <2>1, FoundKept DEF Fresh, found
<1>5. QED  BY <1>1, <1>2, <1>3, <1>4

\* A step keeps the sizes open() measured.
LEMMA NextMeasured ==
  ASSUME TypeInv, TypeInv', Measured, [Next]_vars
  PROVE  Measured'
<1> DEFINE Sizes == \A m \in DOMAIN masterfile :
                      masterfile[m].filesize = Len(masters[m].bytes)
           Whole == Len(image.bytes) < (imagefile.blocks + 1) * blocksize
<1>0. masters' = masters /\ blocksize' = blocksize /\ blocksize \in Nat
  BY Constant, Options DEF TypeInv
<1>1. Sizes'
  <2>1. CASE OpenMaster
    <3>1. /\ masterfile' = Append(masterfile, opened(masters[t]))
          /\ masterfile \in Seq(BlockFiles)
          /\ t = Len(masterfile) + 1
      BY <2>1, Options DEF OpenMaster, TypeInv, Opened, Opening
    <3>2. /\ opened(masters[t]).filesize = Len(masters[t].bytes)
          /\ opened(masters[t]) \in BlockFiles
      BY <2>1, Options, Reading, SMTT(20) DEF OpenMaster, TypeInv
    <3>3. \A m \in DOMAIN masterfile' :
            \/ m \in DOMAIN masterfile /\ masterfile'[m] = masterfile[m]
            \/ m = t /\ masterfile'[m] = opened(masters[t])
      BY <3>1, <3>2
    <3>4. QED  BY <1>0, <3>2, <3>3 DEF Measured
  <2>2. CASE LoadBlock
    BY <1>0, <2>2 DEF LoadBlock, Measured
  <2>3. CASE ~ OpenMaster /\ ~ LoadBlock
    BY <1>0, <2>3, TablesKept DEF Measured
  <2>4. QED  BY <2>1, <2>2, <2>3
<1>2. (pc \in {"options", "image", "failed"} \/ image.device \/ Whole)'
  <2>1. CASE OpenImage
    <3>1. /\ imagefile'.blocks =
               Len(image.bytes) \div (IF image.device THEN SectorSize ELSE blocksize)
          /\ image' = image
          /\ blocksize \in Nat \ {0}
          /\ Len(image.bytes) \in Nat
      BY <2>1, Options DEF OpenImage, opened, input, TypeInv, Files
    <3>2. CASE image.device
      BY <3>1, <3>2
    <3>3. CASE ~ image.device
      <4> DEFINE n == Len(image.bytes)
                 k1 == imagefile'.blocks
      <4>1. n \in Nat /\ k1 = n \div blocksize
        BY <3>1, <3>3
      <4> HIDE DEF n, k1
      <4>2. n < (k1 + 1) * blocksize
        BY <3>1, <4>1
      <4>3. QED  BY <1>0, <3>1, <4>2 DEF n, k1
    <3>4. QED  BY <3>2, <3>3
  <2>2. CASE Shrink
    <3>1. PICK length \in 0 .. Len(image.bytes) - 1 :
            image' = [image EXCEPT !.bytes = SubSeq(@, 1, length)]
      BY <2>2 DEF Shrink
    <3>1a. image.bytes \in Seq(Bytes) /\ Len(image.bytes) \in Nat
      BY DEF TypeInv, Files
    <3>1b. image'.device = image.device /\ image'.bytes = SubSeq(image.bytes, 1, length)
      BY <3>1 DEF TypeInv, Files
    <3>2. /\ image'.device = image.device
          /\ Len(image'.bytes) < Len(image.bytes)
      BY <3>1, <3>1a, <3>1b
    <3>3. pc' = pc /\ imagefile' = imagefile /\ pc = "scan"
      BY <2>2 DEF Shrink, loaded
    <3>4. Len(image.bytes) \in Nat /\ Len(image'.bytes) \in Nat /\ imagefile.blocks \in Nat
      BY SMTT(20) DEF TypeInv, Files, BlockFiles
    <3>5. QED  BY <1>0, <3>2, <3>3, <3>4 DEF Measured
  <2>3. CASE ~ OpenImage /\ ~ Shrink
    <3>1. /\ UNCHANGED << image, imagefile >>
          /\ pc \in {"options", "image", "failed"} => pc' \in {"options", "image", "failed"}
      BY <2>3
      DEF Next, Step, vars, input, loaded, block, found, printing, RejectOptions, AcceptOptions,
          NoMemory, OpenImageFails, OpenMasterFails, HashFileFails, OpenMaster,
          LoadBlock, LoadEnd, StartScan, ScanBlock, ScanEnd, ReportRaw, CleanAndReport,
          StartReport, ReportNotFound, ReportRun, ReportBlock, InReport, ReportTail,
          AtReportEnd, ReportTailOfNothing, Finish, ExitWith
    <3>2. QED  BY <1>0, <3>1 DEF Measured
  <2>4. QED  BY <2>1, <2>2, <2>3
<1>3. (pc \in {"options", "image"} => imagefile.blocks = 0)'
  BY DEF Measured, Next, Step, vars, input, loaded, block, found, printing, RejectOptions,
         AcceptOptions, NoMemory, OpenImageFails, OpenImage, OpenMasterFails,
         HashFileFails, OpenMaster, LoadBlock, LoadEnd, StartScan, ScanBlock, ScanEnd,
         ReportRaw, CleanAndReport, StartReport, ReportNotFound, ReportRun, ReportBlock,
         InReport, ReportTail, AtReportEnd, ReportTailOfNothing, Finish, Shrink, ExitWith
<1>4. image'.device = image.device /\ image'.shrinks = image.shrinks
  <2>1. CASE Shrink
    BY <2>1 DEF Shrink, TypeInv, Files
  <2>2. CASE ~ Shrink
    BY <2>2
    DEF Next, Step, vars, input, RejectOptions, AcceptOptions, NoMemory, OpenImageFails,
        OpenImage, OpenMasterFails, HashFileFails, OpenMaster, LoadBlock, LoadEnd,
        StartScan, ScanBlock, ScanEnd, ReportRaw, CleanAndReport, StartReport,
        ReportNotFound, ReportRun, ReportBlock, InReport, ReportTail, AtReportEnd,
        ReportTailOfNothing, Finish, ExitWith
  <2>3. QED  BY <2>1, <2>2
<1>5. QED  BY <1>1, <1>2, <1>3, <1>4 DEF Measured

(***************************************************************************)
(* Loading keeps the tables exact.                                         *)
(***************************************************************************)
\* What load has read of a master when it is done with it is what it entered.
LEMMA EnteredAll ==
  ASSUME TypeInv, LoadInv, pc = "load", ~ loadContinues
  PROVE  Loaded(t) = 0 .. blocknumber - 1
<1>1. t \in DOMAIN masterfile
  BY Options, Numbered DEF TypeInv, Opened
<1>2. /\ masterfile[t].blocks \in Nat
      /\ blocknumber \in Nat
      /\ blocknumber <= masterfile[t].blocks
      /\ \A e \in 0 .. blocknumber - 1 : ~ getblockFails(masters[t], e)
      /\ blocknumber = masterfile[t].blocks \/ getblockFails(masters[t], blocknumber)
  BY <1>1, BlocksOf DEF TypeInv, LoadInv, loadContinues
<1>3. ASSUME NEW b \in Loaded(t)
      PROVE  b \in 0 .. blocknumber - 1
  BY <1>2, <1>3 DEF Loaded
<1>4. ASSUME NEW b \in 0 .. blocknumber - 1
      PROVE  b \in Loaded(t)
  BY <1>2, <1>4 DEF Loaded
<1>5. QED  BY <1>3, <1>4

\* A step keeps the tables exact: the blocks are loaded in order, each once.
LEMMA NextTables ==
  ASSUME SmallMasters, WhereInv, TablesExact, [Next]_vars
  PROVE  TablesExact'
<1>0. /\ TypeInv /\ LoadInv
      /\ masters' = masters
      /\ blocksize' = blocksize
      /\ \A m \in DOMAIN masterfile :
           m \in DOMAIN masterfile' /\ masterfile'[m] = masterfile[m]
      /\ \A m \in DOMAIN masterfile : Loaded(m)' = Loaded(m)
  BY Constant DEF WhereInv
<1>1. \A m \in DOMAIN masterfile : \A b : Digest(m, b)' = Digest(m, b)
  BY <1>0 DEF Digest, blockOf
<1>2. \A m \in DOMAIN masterfile : Held(m)' = Held(m)
  BY <1>0 DEF Held, holds
<1>3. CASE OpenMaster
  <2>1. /\ md5map' = Append(md5map, [h \in Hashes |-> << >>])
        /\ md5map \in Seq(Tables)
        /\ masterfile' = Append(masterfile, opened(masters[t]))
        /\ masterfile \in Seq(BlockFiles)
        /\ blocknumber' = 0
        /\ pc' = "load"
        /\ t' = t
        /\ pc = "open"
    BY <1>0, <1>3 DEF OpenMaster, TypeInv, printing
  <2>1a. t = Len(masterfile) + 1
    BY <1>0, <2>1, Numbered, Options, SMTT(30) DEF TypeInv, Opened, Opening
  <2>2. ASSUME NEW m \in DOMAIN masterfile', Held(m)'
        PROVE  TableExact(m)'
    <3>1. CASE m \in DOMAIN masterfile
      <4>1. m \in DOMAIN md5map /\ m # t
        BY <1>0, <2>1, <2>1a, <3>1, Numbered
      <4>2. md5map'[m] = md5map[m]
        BY <2>1, <4>1
      <4>3. Entered(m)' = Entered(m)
        BY <1>0, <2>1, <3>1, <4>1 DEF Entered
      <4>4. TableExact(m)
        BY <1>2, <2>2, <3>1 DEF TablesExact
      <4>5. QED  BY <1>1, <3>1, <4>2, <4>3, <4>4 DEF TableExact
    <3>2. CASE m \notin DOMAIN masterfile
      <4>1. opened(masters[t]) \in BlockFiles
        BY <1>3, Options, Reading DEF OpenMaster, TypeInv, WhereInv
      <4>2. m = t
        BY <2>1, <2>1a, <2>2, <3>2, <4>1
      <4>3. DOMAIN md5map = DOMAIN masterfile
        BY <1>0, Numbered
      <4>4. md5map'[m] = [h \in Hashes |-> << >>]
        BY <2>1, <3>2, <4>2, <4>3
      <4>5. Entered(m)' = {}
        BY <2>1, <4>2 DEF Entered
      <4>6. QED  BY <4>4, <4>5 DEF TableExact
    <3>3. QED  BY <3>1, <3>2
  <2>3. QED  BY <2>2 DEF TablesExact
<1>4. CASE LoadBlock
  <2> DEFINE d == md5[buf']
             v == blocknumber % BlockNumbers
  <2>1. /\ pc = "load" /\ pc' = "load"
        /\ t' = t
        /\ masterfile' = masterfile
        /\ md5map' = [md5map EXCEPT ![t][d] = Append(@, v)]
        /\ md5map \in Seq(Tables)
        /\ blocknumber' = blocknumber + 1
        /\ blocknumber \in Nat
        /\ blocknumber < masterfile[t].blocks
        /\ buf' = getblock(masters[t], blocknumber, buf)
        /\ buf \in Buffers
        /\ blocksize >= MinBlocksize
    BY <1>0, <1>4 DEF LoadBlock, loadContinues, TypeInv, printing
  <2>2. t \in DOMAIN masterfile /\ t \in DOMAIN md5map
    BY <1>0, <2>1, Options, Numbered, SMTT(20) DEF TypeInv, Opened
  <2> HIDE DEF d, v
  <2>3. ASSUME NEW m \in DOMAIN masterfile, Held(m), m # t
        PROVE  TableExact(m)'
    <3>1. md5map'[m] = md5map[m]
      BY <1>0, <2>1, <2>3, Numbered
    <3>2. Entered(m)' = Entered(m)
      BY <1>0, <2>1, <2>3 DEF Entered
    <3>3. QED  BY <1>1, <2>3, <3>1, <3>2 DEF TablesExact, TableExact
  <2>4. ASSUME NEW m \in DOMAIN masterfile, Held(m), m = t
        PROVE  TableExact(m)'
    <3>1. masters[t] \in Files /\ masterfile[t] \in BlockFiles
      BY <1>0, <2>1, <2>2, Options, SMTT(20) DEF TypeInv, Opened
    <3>2. buf' = blockOf(masters[t], blocknumber)
      BY <1>0, <2>1, <2>4, <3>1, HeldBlock DEF Held, TypeInv
    <3>3. d = Digest(t, blocknumber)
      BY <3>2 DEF d, Digest
    <3>4. v = blocknumber
      <4>1. /\ masterfile[t].blocks <= BlockNumbers
            /\ masterfile[t].blocks \in Nat
            /\ BlockNumbers \in Nat \ {0}
        BY <1>0, <2>1, <2>2, <2>4, <3>1, FewBlocks, Options DEF TypeInv, BlockFiles
      <4>2. QED  BY <2>1, <4>1 DEF v
    <3>5. Entered(m) = 0 .. blocknumber - 1 /\ Entered(m)' = 0 .. blocknumber
      BY <2>1, <2>4 DEF Entered
    <3>6. TableExact(m)
      BY <2>2, <2>4 DEF TablesExact
    <3>7. ASSUME NEW h \in Hashes
          PROVE  LET table == md5map'[m][h] IN
                 /\ \A j \in DOMAIN table :
                      table[j] \in 0 .. blocknumber /\ Digest(m, table[j]) = h
                 /\ \A i, j \in DOMAIN table : table[i] = table[j] => i = j
                 /\ \A b \in 0 .. blocknumber :
                      Digest(m, b) = h => \E j \in DOMAIN table : table[j] = b
      <4> DEFINE old == md5map[m][h]
                 table == md5map'[m][h]
      <4>1. /\ \A j \in DOMAIN old :
                 old[j] \in 0 .. blocknumber - 1 /\ Digest(m, old[j]) = h
            /\ \A i, j \in DOMAIN old : old[i] = old[j] => i = j
            /\ \A b \in 0 .. blocknumber - 1 :
                 Digest(m, b) = h => \E j \in DOMAIN old : old[j] = b
        BY <3>5, <3>6, <3>7 DEF TableExact
      <4>2. md5map[m] \in Tables /\ old \in Seq(Nat)
        BY <2>1, <2>2, <2>4, <3>7 DEF Tables
      <4>3. CASE h = d
        <5>1. table = Append(old, blocknumber)
          BY <2>1, <2>2, <2>4, <3>4, <3>7, <4>2, <4>3 DEF Tables
        <5> HIDE DEF old, table
        <5>2. /\ DOMAIN table = DOMAIN old \cup {Len(old) + 1}
              /\ Len(old) + 1 \notin DOMAIN old
              /\ table[Len(old) + 1] = blocknumber
              /\ \A j \in DOMAIN old : table[j] = old[j]
          BY <2>1, <4>2, <5>1
        <5>3. \A j \in DOMAIN table :
                table[j] \in 0 .. blocknumber /\ Digest(m, table[j]) = h
          BY <2>1, <2>4, <3>3, <4>1, <4>3, <5>2
        <5>4. \A j \in DOMAIN old : table[j] # blocknumber
          BY <2>1, <4>1, <5>2
        <5>5. \A i, j \in DOMAIN table : table[i] = table[j] => i = j
          BY <4>1, <5>2, <5>4
        <5>6. ASSUME NEW b \in 0 .. blocknumber, Digest(m, b) = h
              PROVE  \E j \in DOMAIN table : table[j] = b
          <6>1. CASE b = blocknumber
            BY <5>2, <6>1
          <6>2. CASE b # blocknumber
            <7>1. b \in 0 .. blocknumber - 1
              BY <2>1, <6>2
            <7>2. QED  BY <4>1, <5>2, <5>6, <7>1
          <6>3. QED  BY <6>1, <6>2
        <5>7. QED  BY <5>3, <5>5, <5>6 DEF table
      <4>4. CASE h # d
        <5>1. table = old
          BY <2>1, <2>2, <2>4, <3>7, <4>2, <4>4 DEF Tables
        <5> HIDE DEF old, table
        <5>2. \A j \in DOMAIN table :
                table[j] \in 0 .. blocknumber /\ Digest(m, table[j]) = h
          BY <2>1, <4>1, <5>1
        <5>3. ASSUME NEW b \in 0 .. blocknumber, Digest(m, b) = h
              PROVE  \E j \in DOMAIN table : table[j] = b
          <6>1. b \in 0 .. blocknumber - 1
            BY <2>1, <2>4, <3>3, <4>4, <5>3
          <6>2. QED  BY <4>1, <5>1, <5>3, <6>1
        <5>4. QED  BY <4>1, <5>1, <5>2, <5>3 DEF table
      <4>5. QED  BY <4>3, <4>4
    <3>8. QED  BY <1>1, <2>4, <3>5, <3>7 DEF TableExact
  <2>5. QED  BY <1>2, <2>1, <2>3, <2>4 DEF TablesExact
<1>5. CASE ~ OpenMaster /\ ~ LoadBlock
  <2>1. UNCHANGED << masterfile, md5map >>
    BY <1>5, TablesKept
  <2>2. ASSUME NEW m \in DOMAIN masterfile
        PROVE  Entered(m)' = Entered(m)
    <3>1. CASE LoadEnd
      <4>1. pc = "load" /\ ~ loadContinues /\ pc' = "open"
        BY <3>1 DEF LoadEnd
      <4>2. QED  BY <1>0, <2>2, <4>1, EnteredAll DEF Entered
    <3>2. CASE ~ LoadEnd
      <4>1. (pc = "load" \/ pc' = "load") => UNCHANGED << pc, t, blocknumber >>
        BY <1>5, <3>2
        DEF Next, Step, vars, input, loaded, block, found, printing, RejectOptions,
            AcceptOptions, NoMemory, OpenImageFails, OpenImage, OpenMasterFails,
            HashFileFails, StartScan, ScanBlock, ScanEnd, ReportRaw, CleanAndReport,
            StartReport, ReportNotFound, ReportRun, ReportBlock, InReport, ReportTail,
            AtReportEnd, ReportTailOfNothing, Finish, Shrink, ExitWith
      <4>2. QED  BY <1>0, <2>2, <4>1 DEF Entered
    <3>3. QED  BY <3>1, <3>2
  <2>3. QED  BY <1>1, <1>2, <2>1, <2>2 DEF TablesExact, TableExact
<1>6. QED  BY <1>3, <1>4, <1>5

-----------------------------------------------------------------------------
\* Some master has the content of image block n.
Known(n) == \E m \in DOMAIN masters : \E b \in Loaded(m) : Same(n, m, b)

\* In the table of a master under digest h there are exactly its blocks with
\* the content of image block n.
Lookup(n, h) ==
  \A m \in DOMAIN masterfile : \A b \in Loaded(m) :
    /\ Same(n, m, b) => Cardinality(times(m, b, h)) = 1 /\ md5map[m][h] # << >>
    /\ ~ Same(n, m, b) => times(m, b, h) = {}

\* What one scanned block finds: without collisions, the master blocks that are
\* the same and no other.
LEMMA LookupExact ==
  ASSUME Collisionless, TypeInv, TablesExact, TablesInv, Intact, pc = "scan",
         NEW n \in Nat, n < imagefile.blocks, NEW h, h = md5[blockOf(image, n)]
  PROVE  /\ h \in Hashes
         /\ Lookup(n, h)
         /\ Known(n) <=> \E m \in DOMAIN md5map : md5map[m][h] # << >>
<1>0. /\ blocksize >= MinBlocksize /\ CmdInv
      /\ image \in Files /\ imagefile \in BlockFiles
      /\ DOMAIN masters = DOMAIN masterfile
      /\ DOMAIN md5map = DOMAIN masterfile
      /\ md5map \in Seq(Tables)
  BY Options, Numbered DEF TypeInv, Opened
<1>1. blockOf(image, n) \in Buffers
  BY <1>0, HeldBlock DEF Intact
<1>2. h \in Hashes
  BY <1>0, <1>1, Options
<1>3. ASSUME NEW m \in DOMAIN masterfile
      PROVE  TableExact(m) /\ Entered(m) = Loaded(m)
  BY <1>3 DEF Intact, TablesExact, Held, Entered
<1>4. ASSUME NEW m \in DOMAIN masterfile, NEW b \in Loaded(m)
      PROVE  Digest(m, b) = h <=> Same(n, m, b)
  <2>1. masters[m] \in Files /\ masterfile[m] \in BlockFiles /\ holds(masters[m], masterfile[m])
    BY <1>0, <1>4, Options DEF Intact, TypeInv
  <2>2. b \in Nat /\ b < masterfile[m].blocks
    BY <2>1, <1>4 DEF Loaded, BlockFiles
  <2>3. blockOf(masters[m], b) \in Buffers
    BY <1>0, <2>1, <2>2, HeldBlock
  <2>4. QED  BY <1>0, <1>1, <2>3, SameDigest DEF Digest, Same
<1>5. ASSUME NEW m \in DOMAIN masterfile, NEW b \in Loaded(m)
      PROVE  /\ Same(n, m, b) => Cardinality(times(m, b, h)) = 1 /\ md5map[m][h] # << >>
             /\ ~ Same(n, m, b) => times(m, b, h) = {}
  <2>1. md5map[m] \in Tables /\ md5map[m][h] \in Seq(Nat)
    BY <1>0, <1>2, <1>5 DEF Tables
  <2>2. CASE Same(n, m, b)
    <3>1. PICK j \in DOMAIN md5map[m][h] : md5map[m][h][j] = b
      BY <1>2, <1>3, <1>4, <1>5, <2>2 DEF TableExact
    <3>2. times(m, b, h) = {j}
      BY <1>2, <1>3, <1>5, <3>1 DEF TableExact, times, blocksWith
    <3>3. Cardinality({j}) = 1
      BY FS_Singleton
    <3>4. QED  BY <2>1, <2>2, <3>1, <3>2, <3>3
  <2>3. CASE ~ Same(n, m, b)
    BY <1>2, <1>3, <1>4, <1>5, <2>3 DEF TableExact, times, blocksWith
  <2>4. QED  BY <2>2, <2>3
<1>6. Known(n) => \E m \in DOMAIN md5map : md5map[m][h] # << >>
  BY <1>0, <1>5 DEF Known
<1>7. ASSUME NEW m \in DOMAIN md5map, md5map[m][h] # << >>
      PROVE  Known(n)
  <2>1. m \in DOMAIN masterfile /\ m \in DOMAIN masters
    BY <1>0, <1>7
  <2>2. md5map[m] \in Tables /\ md5map[m][h] \in Seq(Nat)
    BY <1>0, <1>2, <1>7 DEF Tables
  <2>3. 1 \in DOMAIN md5map[m][h]
    BY <1>7, <2>2
  <2>4. md5map[m][h][1] \in Loaded(m) /\ Digest(m, md5map[m][h][1]) = h
    BY <1>2, <1>3, <2>1, <2>3 DEF TableExact
  <2>5. QED  BY <1>4, <2>1, <2>4 DEF Known
<1>8. QED  BY <1>2, <1>5, <1>6, <1>7 DEF Lookup

(***************************************************************************)
(* One block of the scan adds its number to the lists of the master blocks *)
(* with the same content, and to no other.                                 *)
(***************************************************************************)
LEMMA ScanStep ==
  ASSUME Collisionless, SearchInv, Intact, ScanBlock
  PROVE  /\ blocknumber \in Nat
         /\ blocknumber < imagefile.blocks
         /\ blocknumber' = blocknumber + 1
         /\ DOMAIN filemap' = DOMAIN filemap
         /\ \A m \in DOMAIN filemap :
              /\ DOMAIN filemap'[m] = DOMAIN filemap[m]
              /\ \A b \in Loaded(m) :
                   filemap'[m][b] = IF Same(blocknumber, m, b)
                                    THEN Append(filemap[m][b], blocknumber)
                                    ELSE filemap[m][b]
         /\ hits' - bloom_false_positives' =
              hits - bloom_false_positives + (IF Known(blocknumber) THEN 1 ELSE 0)
<1> DEFINE h == md5[buf']
<1>0. /\ TypeInv /\ TablesInv /\ TablesExact /\ VectorInv
      /\ pc = "scan" /\ blocksize >= MinBlocksize /\ CmdInv
      /\ image \in Files /\ imagefile \in BlockFiles
      /\ blocknumber \in Nat
      /\ blocknumber < imagefile.blocks
      /\ blocknumber' = blocknumber + 1
      /\ hits \in Nat /\ bloom_false_positives \in Nat
  BY DEF SearchInv, WhereInv, TypeInv, ScanBlock, scanContinues
<1>1. buf' = blockOf(image, blocknumber)
  <2>1. buf \in Buffers /\ buf' = getblock(image, blocknumber, buf)
    BY <1>0 DEF ScanBlock, TypeInv
  <2>2. QED  BY <1>0, <2>1, HeldBlock DEF Intact
<1>2. /\ h \in Hashes
      /\ Lookup(blocknumber, h)
      /\ Known(blocknumber) <=> \E m \in DOMAIN md5map : md5map[m][h] # << >>
  BY <1>0, <1>1, LookupExact
<1>3. CASE filemap' = filemap /\ ~ FoundIn(vector, h) /\ UNCHANGED found
  <2>1. \A m \in DOMAIN md5map : md5map[m][h] = << >>
    BY <1>0, <1>2, <1>3 DEF VectorInv
  <2>2. ~ Known(blocknumber)
    BY <1>2, <2>1
  <2>3. \A m \in DOMAIN filemap : \A b \in Loaded(m) : ~ Same(blocknumber, m, b)
    BY <1>0, <1>2, <2>1, Numbered DEF Lookup
  <2>4. QED  BY <1>0, <1>3, <2>2, <2>3 DEF found
<1>4. CASE /\ filemap' = matched(h)
           /\ bloom_false_positives' = bloom_false_positives + (IF added(h) THEN 0 ELSE 1)
           /\ hits' = hits + 1
  <2>1. DOMAIN filemap' = DOMAIN filemap
        /\ \A m \in DOMAIN filemap : DOMAIN filemap'[m] = DOMAIN filemap[m]
    BY <1>4 DEF matched
  <2>2. ASSUME NEW m \in DOMAIN filemap, NEW b \in Loaded(m)
        PROVE  filemap'[m][b] = IF Same(blocknumber, m, b)
                                THEN Append(filemap[m][b], blocknumber)
                                ELSE filemap[m][b]
    <3>1. m \in DOMAIN masterfile /\ b \in 0 .. masterfile[m].blocks - 1
      BY <1>0, <2>2, Numbered DEF Loaded
    <3>2. /\ times(m, b, h) = {} => filemap'[m][b] = filemap[m][b]
          /\ Cardinality(times(m, b, h)) = 1 =>
               filemap'[m][b] = Append(filemap[m][b], blocknumber)
      <4> HIDE DEF h
      <4>1. QED  BY <1>0, <1>2, <1>4, <2>2, <3>1, MatchedLists
    <3>3. QED  BY <1>2, <2>2, <3>1, <3>2 DEF Lookup
  <2>3. added(h) <=> Known(blocknumber)
    BY <1>2 DEF added
  <2>4. hits' - bloom_false_positives' =
          hits - bloom_false_positives + (IF Known(blocknumber) THEN 1 ELSE 0)
    BY <1>0, <1>4, <2>3
  <2>5. QED  BY <1>0, <2>1, <2>2, <2>4
<1>5. QED  BY <1>3, <1>4 DEF ScanBlock, found

(***************************************************************************)
(* As long as the blocks are there their content is what it was, also when *)
(* the image was truncated behind them.                                    *)
(***************************************************************************)
LEMMA BlocksKept ==
  ASSUME TypeInv, TypeInv', [Next]_vars, pc \notin {"options", "image", "failed"}, Intact'
  PROVE  /\ Intact
         /\ imagefile' = imagefile
         /\ \A n \in Nat : n < imagefile.blocks => blockOf(image, n)' = blockOf(image, n)
         /\ \A n \in Nat : \A m \in DOMAIN masterfile : \A b :
              n < imagefile.blocks => Same(n, m, b)' = Same(n, m, b)
<1>0. /\ masters' = masters /\ blocksize' = blocksize /\ cmd' = cmd
      /\ \A m \in DOMAIN masterfile : m \in DOMAIN masterfile' /\ masterfile'[m] = masterfile[m]
      /\ blocksize >= MinBlocksize /\ CmdInv
      /\ image \in Files /\ image' \in Files /\ imagefile \in BlockFiles
  BY Constant DEF TypeInv
<1>1. imagefile' = imagefile
  BY DEF Next, Step, vars, input, loaded, block, found, printing, RejectOptions,
         AcceptOptions, NoMemory, OpenImageFails, OpenImage, OpenMasterFails,
         HashFileFails, OpenMaster, LoadBlock, LoadEnd, StartScan, ScanBlock, ScanEnd,
         ReportRaw, CleanAndReport, StartReport, ReportNotFound, ReportRun, ReportBlock,
         InReport, ReportTail, AtReportEnd, ReportTailOfNothing, Finish, Shrink, ExitWith
<1>2. \A m \in DOMAIN masterfile : holds(masters[m], masterfile[m])
  BY <1>0 DEF Intact, holds
<1>3. /\ blocksize \in Nat \ {0}
      /\ Len(image.bytes) \in Nat
      /\ Len(image'.bytes) \in Nat
      /\ imagefile.blocks \in Nat
      /\ imagefile.blocks * blocksize \in Nat
  BY <1>0, Options DEF Files, BlockFiles
<1>4. holds(image', imagefile)
  BY <1>0, <1>1 DEF Intact, holds
<1>5. CASE Shrink
  <2>1. PICK length \in 0 .. Len(image.bytes) - 1 :
          image' = [image EXCEPT !.bytes = SubSeq(@, 1, length)]
    BY <1>5 DEF Shrink
  <2>2. image.bytes \in Seq(Bytes) /\ image'.bytes = SubSeq(image.bytes, 1, length)
    BY <1>0, <2>1 DEF Files
  <2>3. /\ Len(image'.bytes) <= Len(image.bytes)
        /\ \A j \in 1 .. Len(image'.bytes) : image'.bytes[j] = image.bytes[j]
    BY <1>3, <2>1, <2>2
  <2>4. holds(image, imagefile)
    BY <1>3, <1>4, <2>3 DEF holds
  <2>5. ASSUME NEW n \in Nat, n < imagefile.blocks
        PROVE  blockOf(image', n) = blockOf(image, n)
    <3>1. /\ (n + 1) * blocksize <= Len(image.bytes)
          /\ (n + 1) * blocksize <= Len(image'.bytes)
      BY <1>0, <1>4, <2>4, <2>5, HeldBlock
    <3>2. /\ blockOf(image, n) \in Buffers
          /\ blockOf(image', n) \in Buffers
          /\ \A j \in 1 .. blocksize : blockOf(image, n)[j] = image.bytes[n * blocksize + j]
          /\ \A j \in 1 .. blocksize : blockOf(image', n)[j] = image'.bytes[n * blocksize + j]
      BY <1>0, <3>1, WholeBlock
    <3>3. \A j \in 1 .. blocksize : n * blocksize + j \in 1 .. Len(image'.bytes)
      <4> DEFINE from == n * blocksize
      <4>1. from \in Nat /\ from + blocksize <= Len(image'.bytes)
        BY <1>3, <3>1
      <4> HIDE DEF from
      <4>2. \A j \in 1 .. blocksize : from + j \in 1 .. Len(image'.bytes)
        BY <1>3, <4>1
      <4>3. QED  BY <4>2 DEF from
    <3>4. \A j \in 1 .. blocksize : blockOf(image', n)[j] = blockOf(image, n)[j]
      BY <2>3, <3>2, <3>3
    <3> DEFINE now == blockOf(image', n)
               old == blockOf(image, n)
    <3>5. /\ now \in [1 .. blocksize -> Bytes] /\ old \in [1 .. blocksize -> Bytes]
          /\ \A j \in 1 .. blocksize : now[j] = old[j]
      BY <3>2, <3>4 DEF Buffers
    <3> HIDE DEF now, old
    <3>6. now = old
      <4>1. now = [j \in 1 .. blocksize |-> now[j]] /\ old = [j \in 1 .. blocksize |-> old[j]]
        BY <3>5
      <4>2. [j \in 1 .. blocksize |-> now[j]] = [j \in 1 .. blocksize |-> old[j]]
        BY <3>5
      <4>3. QED  BY <4>1, <4>2
    <3>7. QED  BY <3>6 DEF now, old
  <2>6. \A n \in Nat : n < imagefile.blocks => blockOf(image, n)' = blockOf(image, n)
    BY <1>0, <2>5 DEF blockOf
  <2>7. QED  BY <1>0, <1>1, <1>2, <2>4, <2>6 DEF Intact, Same, blockOf
<1>6. CASE ~ Shrink
  <2>1. image' = image
    BY <1>6
    DEF Next, Step, vars, input, RejectOptions, AcceptOptions, NoMemory, OpenImageFails,
        OpenImage, OpenMasterFails, HashFileFails, OpenMaster, LoadBlock, LoadEnd,
        StartScan, ScanBlock, ScanEnd, ReportRaw, CleanAndReport, StartReport,
        ReportNotFound, ReportRun, ReportBlock, InReport, ReportTail, AtReportEnd,
        ReportTailOfNothing, Finish, ExitWith
  <2>2. QED  BY <1>0, <1>1, <1>2, <1>4, <2>1 DEF Intact, Same, blockOf
<1>7. QED  BY <1>5, <1>6

\* The steps that lead to a state of the scan.
LEMMA ToScan ==
  ASSUME [Next]_vars, pc' = "scan"
  PROVE  \/ StartScan
         \/ ScanBlock
         \/ pc = "scan" /\ UNCHANGED << filemap, hits, bloom_false_positives, blocknumber >>
BY DEF Next, Step, vars, input, loaded, block, found, printing, RejectOptions,
       AcceptOptions, NoMemory, OpenImageFails, OpenImage, OpenMasterFails,
       HashFileFails, OpenMaster, LoadBlock, LoadEnd, ScanEnd, ReportRaw, CleanAndReport,
       StartReport, ReportNotFound, ReportRun, ReportBlock, InReport, ReportTail,
       AtReportEnd, ReportTailOfNothing, Finish, Shrink, ExitWith

\* A step keeps the filemap exact.
LEMMA NextExact ==
  ASSUME Collisionless, SearchInv, WhereInv', [Next]_vars
  PROVE  FilemapExact'
<1> DEFINE ListExact(m, b) ==
      /\ \A j \in 1 .. Len(filemap[m][b]) - 1 : filemap[m][b][j] < filemap[m][b][j + 1]
      /\ \A n \in 0 .. imagefile.blocks - 1 :
           contains(filemap[m][b], n) <=> Scanned(n) /\ Same(n, m, b)
<1> SUFFICES ASSUME pc' = "scan", Intact', NEW m \in DOMAIN filemap', NEW b \in Loaded(m)'
             PROVE  ListExact(m, b)'
  BY DEF FilemapExact
<1>0. /\ TypeInv /\ TypeInv' /\ ScanInv /\ LocationsWereScanned /\ Fresh /\ FilemapExact
      /\ cmd' = cmd /\ cmd.start \in Nat /\ blocknumber \in Nat
      /\ imagefile \in BlockFiles /\ imagefile' \in BlockFiles
      /\ masterfile \in Seq(BlockFiles)
  BY Constant, Options DEF SearchInv, WhereInv, TypeInv
<1>1. CASE StartScan
  <2>1. filemap' = filemap /\ blocknumber' = cmd.start /\ masterfile' = masterfile /\ pc = "open"
    BY <1>1 DEF StartScan, found, loaded
  <2>2. b \in DOMAIN filemap[m]
    <3>1. filemap[m] \in [0 .. masterfile[m].blocks - 1 -> Seq(Nat)]
      BY <1>0, <2>1 DEF TypeInv, FilemapInv
    <3>2. QED  BY <2>1, <3>1 DEF Loaded
  <2>3. filemap'[m][b] = << >>
    BY <1>0, <2>1, <2>2 DEF Fresh
  <2>4. \A n \in Nat : ~ Scanned(n)'
    BY <1>0, <2>1 DEF Scanned
  <2>5. QED  BY <2>3, <2>4 DEF contains
<1>2. CASE pc = "scan"
  <2>1. /\ Intact /\ imagefile' = imagefile
        /\ \A n \in Nat : \A o \in DOMAIN masterfile : \A c :
             n < imagefile.blocks => Same(n, o, c)' = Same(n, o, c)
    BY <1>0, <1>2, BlocksKept
  <2>2. m \in DOMAIN filemap /\ m \in DOMAIN masterfile /\ masterfile'[m] = masterfile[m]
    <3>1. DOMAIN filemap' = DOMAIN filemap
      BY <1>2, <2>1, ToScan, ScanStep DEF StartScan
    <3>2. QED  BY <1>0, <3>1, Numbered, Constant
  <2>3. b \in Loaded(m) /\ b \in DOMAIN filemap[m] /\ filemap[m][b] \in Seq(Nat)
    <3>1. filemap[m] \in [0 .. masterfile[m].blocks - 1 -> Seq(Nat)]
      BY <1>0, <2>2 DEF TypeInv, FilemapInv
    <3>2. Loaded(m)' = Loaded(m)
      BY <1>0, <2>2, Constant
    <3>3. QED  BY <3>1, <3>2 DEF Loaded
  <2>4. ListExact(m, b)
    BY <1>0, <1>2, <2>1, <2>2, <2>3 DEF FilemapExact
  <2> DEFINE list == filemap[m][b]
             x == blocknumber
  <2>5. \A j \in DOMAIN list : list[j] \in 0 .. imagefile.blocks - 1 /\ list[j] < x
    <3>1. ASSUME NEW j \in DOMAIN list
          PROVE  list[j] \in 0 .. imagefile.blocks - 1 /\ list[j] < x
      <4>1. list[j] \in Range(list) /\ contains(list, list[j])
        BY <3>1 DEF Range, contains
      <4>2. list[j] \in cmd.start .. imagefile.blocks - 1
        BY <1>0, <2>2, <2>3, <4>1 DEF LocationsWereScanned
      <4>3. list[j] \in 0 .. imagefile.blocks - 1
        BY <1>0, <4>2 DEF BlockFiles
      <4>4. Scanned(list[j])
        BY <2>4, <4>1, <4>3
      <4>5. QED  BY <1>0, <4>3, <4>4 DEF Scanned
    <3>2. QED  BY <3>1
  <2>6. CASE ScanBlock
    <3>1. /\ x < imagefile.blocks
          /\ blocknumber' = x + 1
          /\ filemap'[m][b] = IF Same(x, m, b) THEN Append(list, x) ELSE list
      BY <2>1, <2>2, <2>3, <2>6, ScanStep
    <3>2. \A n \in 0 .. imagefile.blocks - 1 : Scanned(n)' <=> Scanned(n) \/ n = x
      BY <1>0, <1>2, <3>1 DEF Scanned, ScanInv
    <3>3. ~ Scanned(x)
      BY <1>0 DEF Scanned
    <3> HIDE DEF list, x
    <3>4. CASE Same(x, m, b)
      <4>1. filemap'[m][b] = Append(list, x) /\ list \in Seq(Nat) /\ x \in Nat
        BY <1>0, <2>3, <3>1, <3>4 DEF list, x
      <4>2. \A j \in 1 .. Len(list) - 1 : list[j] < list[j + 1]
        BY <2>4 DEF list
      <4>3. \A j \in 1 .. Len(Append(list, x)) - 1 : Append(list, x)[j] < Append(list, x)[j + 1]
        BY <2>5, <4>1, <4>2
      <4>4. \A n : contains(Append(list, x), n) <=> contains(list, n) \/ n = x
        <5>1. /\ DOMAIN Append(list, x) = DOMAIN list \cup {Len(list) + 1}
              /\ Append(list, x)[Len(list) + 1] = x
              /\ \A j \in DOMAIN list : Append(list, x)[j] = list[j]
          BY <4>1
        <5>2. QED  BY <5>1 DEF contains
      <4>5. \A n \in 0 .. imagefile.blocks - 1 : contains(list, n) <=> Scanned(n) /\ Same(n, m, b)
        BY <2>4 DEF list
      <4>6. \A n \in 0 .. imagefile.blocks - 1 :
              contains(Append(list, x), n) <=> Scanned(n)' /\ Same(n, m, b)
        BY <3>2, <3>4, <4>4, <4>5
      <4>7. \A n \in 0 .. imagefile.blocks - 1 : Same(n, m, b)' = Same(n, m, b)
        BY <1>0, <2>1, <2>2 DEF BlockFiles
      <4>8. QED  BY <2>1, <4>1, <4>3, <4>6, <4>7
    <3>5. CASE ~ Same(x, m, b)
      <4>1. filemap'[m][b] = list
        BY <3>1, <3>5
      <4>2. /\ \A j \in 1 .. Len(list) - 1 : list[j] < list[j + 1]
            /\ \A n \in 0 .. imagefile.blocks - 1 :
                 contains(list, n) <=> Scanned(n) /\ Same(n, m, b)
        BY <2>4 DEF list
      <4>3. \A n \in 0 .. imagefile.blocks - 1 : Same(n, m, b)' = Same(n, m, b)
        BY <1>0, <2>1, <2>2 DEF BlockFiles
      <4>4. QED  BY <2>1, <3>2, <3>5, <4>1, <4>2, <4>3
    <3>6. QED  BY <3>4, <3>5
  <2>7. CASE UNCHANGED << filemap, blocknumber >>
    <3>1. \A n \in 0 .. imagefile.blocks - 1 : Same(n, m, b)' = Same(n, m, b)
      BY <1>0, <2>1, <2>2 DEF BlockFiles
    <3>2. \A n : Scanned(n)' = Scanned(n)
      BY <1>0, <2>7 DEF Scanned
    <3>3. QED  BY <2>1, <2>4, <2>7, <3>1, <3>2
  <2>8. QED  BY <1>2, <2>6, <2>7, ToScan DEF StartScan
<1>3. QED  BY <1>1, <1>2, ToScan DEF ScanBlock

\* A step keeps the hits that were not false positives the blocks that are known.
LEMMA NextHits ==
  ASSUME Collisionless, SearchInv, WhereInv', [Next]_vars
  PROVE  HitsAccountForMatches'
<1> DEFINE Hit == { n \in 0 .. imagefile.blocks - 1 : Scanned(n) /\ Known(n) }
<1> SUFFICES ASSUME pc' = "scan", Intact'
             PROVE  hits' - bloom_false_positives' = Cardinality(Hit')
  BY DEF HitsAccountForMatches, Known
<1>0. /\ TypeInv /\ TypeInv' /\ ScanInv /\ Fresh /\ HitsAccountForMatches
      /\ cmd' = cmd /\ masters' = masters
      /\ cmd.start \in Nat /\ blocknumber \in Nat
      /\ imagefile \in BlockFiles /\ imagefile' \in BlockFiles
      /\ DOMAIN masters = 1 .. Len(masters) /\ Len(masters) \in Nat
  BY Constant, Options DEF SearchInv, WhereInv, TypeInv
<1>1. CASE StartScan
  <2>1. /\ blocknumber' = cmd.start
        /\ hits' = 0 /\ bloom_false_positives' = 0
    BY <1>0, <1>1 DEF StartScan, found, Fresh
  <2>2. Hit' = {}
    BY <1>0, <2>1 DEF Scanned
  <2>3. QED  BY <2>1, <2>2, FS_EmptySet
<1>2. CASE pc = "scan"
  <2>1. /\ Intact /\ imagefile' = imagefile
        /\ \A n \in Nat : \A m \in DOMAIN masterfile : \A b :
             n < imagefile.blocks => Same(n, m, b)' = Same(n, m, b)
    BY <1>0, <1>2, BlocksKept
  <2>2. hits - bloom_false_positives = Cardinality(Hit)
    BY <1>0, <1>2, <2>1 DEF HitsAccountForMatches, Known
  <2>3. IsFiniteSet(Hit)
    <3>1. IsFiniteSet(0 .. imagefile.blocks - 1)
      BY <1>0, FS_Interval DEF BlockFiles
    <3>2. QED  BY <3>1, FS_Subset
  <2>4. DOMAIN masters = DOMAIN masterfile
    BY <1>0, <1>2, Numbered DEF TypeInv, Opened
  <2>5. \A n \in 0 .. imagefile.blocks - 1 : Known(n)' <=> Known(n)
    <3>1. \A m \in DOMAIN masterfile : Loaded(m)' = Loaded(m)
      BY <1>0, Constant
    <3>2. \A n \in 0 .. imagefile.blocks - 1 : \A m \in DOMAIN masterfile : \A b :
            Same(n, m, b)' = Same(n, m, b)
      BY <1>0, <2>1 DEF BlockFiles
    <3>3. QED  BY <1>0, <2>4, <3>1, <3>2, ZenonT(60) DEF Known
  <2>6. CASE ScanBlock
    <3> DEFINE x == blocknumber
    <3>1. /\ x < imagefile.blocks
          /\ blocknumber' = x + 1
          /\ hits' - bloom_false_positives' =
               hits - bloom_false_positives + (IF Known(x) THEN 1 ELSE 0)
      BY <2>1, <2>6, ScanStep
    <3>2. \A n \in 0 .. imagefile.blocks - 1 : Scanned(n)' <=> Scanned(n) \/ n = x
      BY <1>0, <1>2, <3>1 DEF Scanned, ScanInv
    <3>3. ~ Scanned(x) /\ x \in 0 .. imagefile.blocks - 1
      BY <1>0, <3>1 DEF Scanned, BlockFiles
    <3> HIDE DEF x
    <3>4. CASE Known(x)
      <4>1. Hit' = Hit \cup {x} /\ x \notin Hit
        BY <2>1, <2>5, <3>2, <3>3, <3>4
      <4>2. Cardinality(Hit \cup {x}) = Cardinality(Hit) + 1
        <5> HIDE DEF Hit
        <5>1. QED  BY <2>3, <4>1, FS_AddElement
      <4>3. QED  BY <2>2, <3>1, <3>4, <4>1, <4>2
    <3>5. CASE ~ Known(x)
      <4>1. Hit' = Hit
        BY <2>1, <2>5, <3>2, <3>3, <3>5
      <4>2. hits \in Nat /\ bloom_false_positives \in Nat
        BY <1>0 DEF TypeInv
      <4>3. QED  BY <2>2, <3>1, <3>5, <4>1, <4>2
    <3>6. QED  BY <3>4, <3>5
  <2>7. CASE UNCHANGED << hits, bloom_false_positives, blocknumber >>
    <3>1. \A n : Scanned(n)' = Scanned(n)
      BY <1>0, <2>7 DEF Scanned
    <3>2. Hit' = Hit
      BY <2>1, <2>5, <3>1
    <3>3. QED  BY <2>2, <2>7, <3>2
  <2>8. QED  BY <1>2, <2>6, <2>7, ToScan DEF StartScan
<1>3. QED  BY <1>1, <1>2, ToScan DEF ScanBlock

-----------------------------------------------------------------------------
\* The invariant holds initially.
LEMMA InitSearch == Init => SearchInv
<1> SUFFICES ASSUME Init PROVE SearchInv
  OBVIOUS
<1>1. WhereInv
  BY InitWhere
<1>1a. image.device => ~ image.shrinks
  BY FragFindAssumption DEF FragFindAssumption, Init
<1>2. QED
  BY <1>1, <1>1a DEF Init, SearchInv, TablesExact, VectorInv, Fresh, Measured, FilemapExact,
              HitsAccountForMatches

\* A step keeps the invariant.
LEMMA NextSearch ==
  ASSUME Collisionless, SmallMasters
  PROVE  SearchInv /\ [Next]_vars => SearchInv'
<1> SUFFICES ASSUME SearchInv, [Next]_vars PROVE SearchInv'
  OBVIOUS
<1>1. WhereInv /\ WhereInv'
  BY NextWhere DEF SearchInv
<1>2. TypeInv /\ TypeInv'
  BY <1>1 DEF WhereInv
<1>3. TablesExact' /\ VectorInv' /\ Fresh' /\ Measured'
  BY <1>1, <1>2, NextTables, NextVector, NextFresh, NextMeasured DEF SearchInv
<1>4. FilemapExact' /\ HitsAccountForMatches'
  BY <1>1, NextExact, NextHits
<1>5. QED  BY <1>1, <1>3, <1>4 DEF SearchInv

\* The invariant holds in every reachable state.
LEMMA SpecSearch ==
  ASSUME Collisionless, SmallMasters
  PROVE  Spec => []SearchInv
<1>1. SearchInv /\ [Next]_vars => SearchInv'
  BY NextSearch
<1>2. QED  BY InitSearch, <1>1, PTL DEF Spec

(***************************************************************************)
(* During the scan the blocklist of a master block is exactly the list of  *)
(* the image blocks scanned so far with its content, whatever the Bloom    *)
(* filter lets pass and however often a block is repeated.                 *)
(***************************************************************************)
THEOREM SearchIsExact ==
  ASSUME Collisionless, SmallMasters
  PROVE  Spec => []FilemapExact
<1>1. SearchInv => FilemapExact  BY DEF SearchInv
<1>2. Spec => []SearchInv  BY SpecSearch
<1>3. QED  BY <1>1, <1>2, PTL

(***************************************************************************)
(* The hits of the scan that are not false positives are the image blocks  *)
(* some master has.                                                        *)
(***************************************************************************)
THEOREM HitsAreMatches ==
  ASSUME Collisionless, SmallMasters
  PROVE  Spec => []HitsAccountForMatches
<1>1. SearchInv => HitsAccountForMatches  BY DEF SearchInv
<1>2. Spec => []SearchInv  BY SpecSearch
<1>3. QED  BY <1>1, <1>2, PTL

-----------------------------------------------------------------------------
(***************************************************************************)
(* Refinement of BlockSearch.  The operators name the terms that the       *)
(* refinement mapping substitutes for the variables.                       *)
(***************************************************************************)
AbsImage ==
  [n \in { i \in 0 .. Len(image.bytes) - 1 : (i + 1) * blocksize <= Len(image.bytes) } |->
     blockOf(image, n)]

\* The blocks of the masters.
Contents == [m \in DOMAIN masters |-> [b \in Loaded(m) |-> blockOf(masters[m], b)]]

\* The block the abstract search is at.
AbsPosition == IF Searching \/ Reporting THEN blocknumber ELSE 0

\* What the abstract search is doing.
AbsStage == CASE ~ Intact -> "void"
              [] Intact /\ Searching -> "searching"
              [] Intact /\ Reporting -> "reporting"
              [] OTHER -> "loading"

\* The abstract state.
AbsVars == << AbsImage, of(Contents), of(filemap), AbsPosition, AbsStage >>

\* The abstract stage and position, in the state before a step.
LEMMA Stages ==
  ASSUME Intact
  PROVE  /\ Searching => AbsStage = "searching" /\ AbsPosition = blocknumber
         /\ Reporting => AbsStage = "reporting" /\ AbsPosition = blocknumber
         /\ ~ Searching /\ ~ Reporting => AbsStage = "loading" /\ AbsPosition = 0
BY DEF AbsStage, AbsPosition, Searching, Reporting

\* The same in the state behind it.
LEMMA StagesNext ==
  ASSUME Intact'
  PROVE  /\ Searching' => AbsStage' = "searching" /\ AbsPosition' = blocknumber'
         /\ Reporting' => AbsStage' = "reporting" /\ AbsPosition' = blocknumber'
         /\ ~ Searching' /\ ~ Reporting' => AbsStage' = "loading" /\ AbsPosition' = 0
BY DEF AbsStage, AbsPosition, Searching, Reporting

\* Initial states are initial states of the abstract search.
LEMMA SearchRefinementInit == Init => Search!AbsInit
<1> SUFFICES ASSUME Init PROVE Search!AbsInit
  OBVIOUS
<1>2. /\ TypeInv
      /\ imagefile.blocks = 0
      /\ DOMAIN masterfile = {}
      /\ ~ Searching /\ ~ Reporting
  BY InitTypes DEF Init, Searching, Reporting
<1>3. blocksize \in Nat /\ Len(image.bytes) \in Nat
  BY <1>2, Options DEF TypeInv, Files
<1>4. Intact
  BY <1>2, <1>3 DEF Intact, holds
<1>5. QED  BY <1>2, <1>4, Stages DEF Search!AbsInit, of, AbsStage

\* Masters that are all loaded keep their blocks.
LEMMA ContentsKept ==
  ASSUME TypeInv, [Next]_vars, Searching \/ Reporting \/ Searching'
  PROVE  /\ DOMAIN masters = DOMAIN masterfile
         /\ DOMAIN filemap = DOMAIN masters
         /\ \A m \in DOMAIN masters : Loaded(m)' = Loaded(m)
         /\ Contents' = Contents
<1>1. /\ pc \in {"open", "scan", "master", "clean", "report", "done", "crashed"}
      /\ pc = "open" => t > Len(masters)
  BY DEF Searching, Reporting, Next, Step, vars, input, loaded, block, found, printing,
         RejectOptions, AcceptOptions, NoMemory, OpenImageFails, OpenImage,
         OpenMasterFails, HashFileFails, OpenMaster, LoadBlock, LoadEnd, StartScan,
         ScanBlock, ScanEnd, ReportRaw, CleanAndReport, StartReport, ReportNotFound,
         ReportRun, ReportBlock, InReport, ReportTail, AtReportEnd, ReportTailOfNothing,
         Finish, Shrink, ExitWith
<1>2. /\ Len(masters) \in Nat
      /\ DOMAIN masters = 1 .. Len(masters)
      /\ t \in 1 .. Len(masters) + 1
  BY Options DEF TypeInv
<1>3. Len(masterfile) = Len(masters) /\ Len(filemap) = Len(masters)
  <2>1. Opened
    BY DEF TypeInv
  <2>2. CASE pc = "open"
    <3>1. t = Len(masters) + 1
      BY <1>1, <1>2, <2>2
    <3>2. QED  BY <1>2, <2>1, <2>2, <3>1 DEF Opened, Opening
  <2>3. CASE pc # "open"
    <3>1. pc \in {"scan", "master", "clean", "report", "done", "crashed"}
      BY <1>1, <2>3
    <3>2. QED  BY <2>1, <3>1 DEF Opened
  <2>4. QED  BY <2>2, <2>3
<1>4. DOMAIN masters = DOMAIN masterfile /\ DOMAIN filemap = DOMAIN masters
  BY <1>2, <1>3, Numbered
<1>5. /\ masters' = masters /\ blocksize' = blocksize
      /\ \A m \in DOMAIN masters : Loaded(m)' = Loaded(m)
  BY <1>4, Constant
<1>6. QED  BY <1>4, <1>5 DEF Contents, blockOf

\* The blocks of the image as long as they are all there.
LEMMA ImageKept ==
  ASSUME TypeInv, TypeInv', Measured, Measured', [Next]_vars, Intact', pc # "failed"
  PROVE  AbsImage' = AbsImage
<1>0. blocksize' = blocksize
  BY Constant
<1>1. CASE Shrink
  <2>1. PICK length \in 0 .. Len(image.bytes) - 1 :
          image' = [image EXCEPT !.bytes = SubSeq(@, 1, length)]
    BY <1>1 DEF Shrink
  <2>2. /\ pc = "scan" /\ pc' = "scan"
        /\ image.shrinks /\ ~ image.device /\ ~ image'.device
        /\ blocksize \in Nat \ {0}
    BY <1>1, <2>1, Options DEF Shrink, TypeInv, Files, Measured
  <2>3. /\ Intact
        /\ imagefile' = imagefile
        /\ \A n \in Nat : n < imagefile.blocks => blockOf(image, n)' = blockOf(image, n)
    BY <2>2, BlocksKept
  <2>4. /\ Len(image.bytes) < (imagefile.blocks + 1) * blocksize
        /\ Len(image'.bytes) < (imagefile.blocks + 1) * blocksize
        /\ imagefile.blocks * blocksize <= Len(image.bytes)
        /\ imagefile.blocks * blocksize <= Len(image'.bytes)
    BY <1>0, <2>2, <2>3 DEF Measured, Intact, holds
  <2>5. ASSUME NEW bytes \in Nat, imagefile.blocks * blocksize <= bytes,
               bytes < (imagefile.blocks + 1) * blocksize
        PROVE  { i \in 0 .. bytes - 1 : (i + 1) * blocksize <= bytes }
                 = 0 .. imagefile.blocks - 1
    <3> DEFINE n == imagefile.blocks
               bs == blocksize
    <3>1. n \in Nat /\ bs \in Nat \ {0}
      BY <2>2 DEF TypeInv, BlockFiles
    <3>2. n * bs <= bytes /\ bytes < (n + 1) * bs
      BY <2>5
    <3> HIDE DEF n, bs
    <3>3. ASSUME NEW i \in 0 .. bytes - 1, (i + 1) * bs <= bytes
          PROVE  i \in 0 .. n - 1
      <4>1. (i + 1) * bs < (n + 1) * bs
        BY <3>1, <3>2, <3>3
      <4>2. i + 1 < n + 1
        BY <3>1, <3>3, <4>1
      <4>3. QED  BY <3>1, <3>3, <4>2
    <3>4. ASSUME NEW i \in 0 .. n - 1
          PROVE  i \in 0 .. bytes - 1 /\ (i + 1) * bs <= bytes
      <4>1. (i + 1) * bs <= n * bs /\ i + 1 <= (i + 1) * bs
        BY <3>1, <3>4
      <4>2. (i + 1) * bs \in Nat /\ n * bs \in Nat
        BY <3>1, <3>4
      <4>3. QED  BY <3>1, <3>2, <3>4, <4>1, <4>2
    <3>5. { i \in 0 .. bytes - 1 : (i + 1) * bs <= bytes } = 0 .. n - 1
      BY <3>3, <3>4
    <3>6. QED  BY <3>5 DEF n, bs
  <2>6. Len(image.bytes) \in Nat /\ Len(image'.bytes) \in Nat /\ imagefile.blocks \in Nat
    BY SMTT(20) DEF TypeInv, Files, BlockFiles
  <2>7. /\ AbsImage = [n \in 0 .. imagefile.blocks - 1 |-> blockOf(image, n)]
        /\ AbsImage' = [n \in 0 .. imagefile.blocks - 1 |-> blockOf(image, n)']
    BY <1>0, <2>4, <2>5, <2>6 DEF AbsImage
  <2>8. QED  BY <2>3, <2>6, <2>7
<1>2. CASE ~ Shrink
  <2>1. image' = image
    BY <1>2
    DEF Next, Step, vars, input, RejectOptions, AcceptOptions, NoMemory, OpenImageFails,
        OpenImage, OpenMasterFails, HashFileFails, OpenMaster, LoadBlock, LoadEnd,
        StartScan, ScanBlock, ScanEnd, ReportRaw, CleanAndReport, StartReport,
        ReportNotFound, ReportRun, ReportBlock, InReport, ReportTail, AtReportEnd,
        ReportTailOfNothing, Finish, ExitWith
  <2>2. QED  BY <1>0, <2>1 DEF AbsImage, blockOf
<1>3. QED  BY <1>1, <1>2

(***************************************************************************)
(* Each step of the program is a step of the search for contents, or does  *)
(* not show in it.                                                         *)
(***************************************************************************)
LEMMA SearchRefinementStep ==
  ASSUME Collisionless, SearchInv, SearchInv', [Next]_vars
  PROVE  [Search!AbsNext]_(Search!absvars)
<1>0. /\ TypeInv /\ TypeInv' /\ Measured /\ Measured' /\ Fresh
      /\ blocksize \in Nat
      /\ cmd.start \in Nat
  BY Options DEF SearchInv, WhereInv, TypeInv
<1> DEFINE Kept == /\ AbsImage' = AbsImage
                   /\ of(Contents)' = of(Contents)
                   /\ of(filemap)' = of(filemap)
                   /\ AbsPosition' = AbsPosition
                   /\ AbsStage' = AbsStage
<1>1. ASSUME Kept
      PROVE  UNCHANGED Search!absvars
  BY <1>1 DEF Search!absvars, AbsImage, Contents, AbsPosition, AbsStage
<1>2. CASE ~ Intact'
  BY <1>2 DEF Search!AbsNext, Search!Void
<1>3. CASE UNCHANGED vars
  <2>1. Kept
    BY <1>3
    DEF vars, input, loaded, found, block, printing, AbsImage, of, Contents, AbsPosition,
        AbsStage, Searching, Reporting, Intact, holds, masters, blocksize, blockOf, Loaded,
        getblockFails
  <2>2. QED  BY <1>1, <2>1
<1>4. ASSUME Intact', Next, pc \in {"options", "image"}
      PROVE  [Search!AbsNext]_(Search!absvars)
  <2>1. /\ ~ Searching /\ ~ Reporting /\ ~ Searching' /\ ~ Reporting'
        /\ pc # "failed"
    BY <1>4
    DEF Searching, Reporting, Next, Step, RejectOptions, AcceptOptions, NoMemory,
        OpenImageFails, OpenImage, OpenMasterFails, HashFileFails, OpenMaster, LoadBlock,
        LoadEnd, StartScan, ScanBlock, ScanEnd, ReportRaw, CleanAndReport, StartReport,
        ReportNotFound, ReportRun, ReportBlock, InReport, ReportTail, AtReportEnd,
        ReportTailOfNothing, Finish, Shrink, ExitWith
  <2>2. Intact
    <3>1. imagefile.blocks = 0 /\ Len(image.bytes) \in Nat
      BY <1>0, <1>4 DEF Measured, TypeInv, Files
    <3>2. Len(masterfile) = 0
      BY <1>0, <1>4, SMTT(20) DEF TypeInv, Opened, Opening
    <3>3. DOMAIN masterfile = {}
      BY <1>0, <3>2, Numbered
    <3>4. QED  BY <1>0, <3>1, <3>3 DEF Intact, holds
  <2>3. AbsStage = "loading" /\ AbsStage' = "loading" /\ AbsPosition = 0 /\ AbsPosition' = 0
    BY <1>4, <2>1, <2>2, Stages, StagesNext
  <2>4. AbsImage' = AbsImage
    BY <1>0, <1>4, <2>1, ImageKept
  <2>5. Kept
    BY <2>1, <2>3, <2>4 DEF of
  <2>6. QED  BY <1>1, <2>5
<1>5. ASSUME Intact', Next, pc \in {"open", "load"}
      PROVE  [Search!AbsNext]_(Search!absvars)
  <2>1. Intact /\ AbsImage' = AbsImage
    BY <1>0, <1>5, BlocksKept, ImageKept
  <2>2. ~ Searching /\ ~ Reporting
    BY <1>5 DEF Searching, Reporting
  <2>3. AbsStage = "loading" /\ AbsPosition = 0
    BY <2>1, <2>2, Stages
  <2>4. CASE StartScan
    <3>1. Searching' /\ ~ Reporting' /\ blocknumber' = cmd.start /\ filemap' = filemap
      BY <2>4 DEF StartScan, Searching, Reporting, found
    <3>2. AbsStage' = "searching" /\ AbsPosition' \in Nat
      BY <1>0, <1>5, <3>1, StagesNext
    <3>3. /\ DOMAIN filemap = DOMAIN masters
          /\ DOMAIN masterfile = DOMAIN masters
          /\ \A m \in DOMAIN masters : Loaded(m)' = Loaded(m)
          /\ masters' = masters
      BY <1>0, <3>1, ContentsKept, Constant
    <3>4. ASSUME NEW m \in DOMAIN masters, NEW b \in Loaded(m)
          PROVE  filemap'[m][b] = << >>
      <4>1. filemap[m] \in [0 .. masterfile[m].blocks - 1 -> Seq(Nat)]
        BY <1>0, <3>3, <3>4 DEF TypeInv, FilemapInv
      <4>2. b \in DOMAIN filemap[m]
        BY <3>4, <4>1 DEF Loaded
      <4>3. QED  BY <1>0, <1>5, <3>1, <3>3, <3>4, <4>2 DEF Fresh
    <3>5. /\ of(filemap)' = [m \in DOMAIN masters |-> [b \in Loaded(m) |-> filemap'[m][b]]]
          /\ of(Contents)' = [m \in DOMAIN masters |-> [b \in Loaded(m) |-> Contents'[m][b]]]
      BY <3>1, <3>3 DEF of
    <3>6. of(filemap)' = [m \in DOMAIN of(Contents)' |->
                           [b \in DOMAIN of(Contents)'[m] |-> << >>]]
      BY <3>4, <3>5
    <3>7. Search!Begin
      BY <2>1, <2>3, <3>2, <3>6
      DEF Search!Begin, AbsImage, Contents, AbsPosition, AbsStage
    <3>8. QED  BY <3>7 DEF Search!AbsNext
  <2>5. CASE ~ StartScan
    <3>1. ~ Searching' /\ ~ Reporting'
      BY <1>5, <2>5
      DEF Searching, Reporting, Next, Step, RejectOptions, AcceptOptions, NoMemory,
          OpenImageFails, OpenImage, OpenMasterFails, HashFileFails, OpenMaster,
          LoadBlock, LoadEnd, ScanBlock, ScanEnd, ReportRaw, CleanAndReport, StartReport,
          ReportNotFound, ReportRun, ReportBlock, InReport, ReportTail, AtReportEnd,
          ReportTailOfNothing, Finish, Shrink, ExitWith
    <3>2. AbsStage' = "loading" /\ AbsPosition' = 0
      BY <1>5, <3>1, StagesNext
    <3>3. Kept
      BY <2>1, <2>2, <2>3, <3>1, <3>2 DEF of
    <3>4. QED  BY <1>1, <3>3
  <2>6. QED  BY <2>4, <2>5
<1>6. ASSUME Intact', Next, pc = "scan"
      PROVE  [Search!AbsNext]_(Search!absvars)
  <2>1. /\ Intact /\ AbsImage' = AbsImage
        /\ Searching /\ ~ Reporting
    BY <1>0, <1>6, BlocksKept, ImageKept DEF Searching, Reporting
  <2>2. AbsStage = "searching" /\ AbsPosition = blocknumber
    BY <2>1, Stages
  <2>3. /\ DOMAIN filemap = DOMAIN masters
        /\ masters' = masters
        /\ \A m \in DOMAIN masters : Loaded(m)' = Loaded(m)
        /\ Contents' = Contents
    BY <1>0, <2>1, ContentsKept, Constant
  <2>4. /\ of(filemap) = [m \in DOMAIN masters |-> [b \in Loaded(m) |-> filemap[m][b]]]
        /\ of(Contents) = [m \in DOMAIN masters |-> [b \in Loaded(m) |-> Contents[m][b]]]
    BY <2>1 DEF of
  <2>5. Searching' \/ Reporting' =>
          /\ of(filemap)' = [m \in DOMAIN masters |-> [b \in Loaded(m) |-> filemap'[m][b]]]
          /\ of(Contents)' = of(Contents)
    BY <2>3, <2>4, SMTT(30) DEF of
  <2>6. CASE ScanBlock
    <3>1. /\ blocknumber \in Nat
          /\ blocknumber < imagefile.blocks
          /\ blocknumber' = blocknumber + 1
          /\ \A m \in DOMAIN filemap : \A b \in Loaded(m) :
               filemap'[m][b] = IF Same(blocknumber, m, b)
                                THEN Append(filemap[m][b], blocknumber)
                                ELSE filemap[m][b]
      BY <2>1, <2>6, ScanStep
    <3>2. Searching' /\ ~ Reporting'
      BY <1>6, <2>6 DEF ScanBlock, Searching, Reporting
    <3>3. AbsStage' = "searching" /\ AbsPosition' = blocknumber + 1
      BY <1>6, <3>1, <3>2, StagesNext
    <3>4. blocknumber \in DOMAIN AbsImage /\ AbsImage[blocknumber] = blockOf(image, blocknumber)
      <4>1. image \in Files /\ imagefile \in BlockFiles /\ blocksize >= MinBlocksize /\ CmdInv
        BY <1>0, <1>6 DEF TypeInv
      <4>2. (blocknumber + 1) * blocksize <= Len(image.bytes)
        BY <2>1, <3>1, <4>1, HeldBlock DEF Intact
      <4>3. blocksize \in Nat \ {0} /\ Len(image.bytes) \in Nat
        BY <4>1, Options DEF Files
      <4>4. blocknumber + 1 <= (blocknumber + 1) * blocksize
        BY <3>1, <4>3
      <4>5. blocknumber \in 0 .. Len(image.bytes) - 1
        <5>1. (blocknumber + 1) * blocksize \in Nat
          BY <3>1, <4>3
        <5>2. QED  BY <3>1, <4>2, <4>3, <4>4, <5>1
      <4>6. QED  BY <4>2, <4>5 DEF AbsImage
    <3>5. of(filemap)' =
            [m \in DOMAIN of(Contents) |->
              [b \in DOMAIN of(Contents)[m] |->
                IF of(Contents)[m][b] = AbsImage[AbsPosition]
                THEN Append(of(filemap)[m][b], AbsPosition)
                ELSE of(filemap)[m][b]]]
      <4>1. \A m \in DOMAIN masters : \A b \in Loaded(m) :
              filemap'[m][b] = IF Contents[m][b] = AbsImage[blocknumber]
                               THEN Append(filemap[m][b], blocknumber)
                               ELSE filemap[m][b]
        BY <2>3, <3>1, <3>4 DEF Same, Contents
      <4> DEFINE F == of(filemap)
                 C == of(Contents)
      <4>2. /\ DOMAIN C = DOMAIN masters
            /\ \A m \in DOMAIN masters :
                 DOMAIN C[m] = Loaded(m)
                 /\ \A b \in Loaded(m) : C[m][b] = Contents[m][b] /\ F[m][b] = filemap[m][b]
        BY <2>4
      <4>3. F' = [m \in DOMAIN masters |-> [b \in Loaded(m) |-> filemap'[m][b]]]
        BY <2>5, <3>2
      <4> HIDE DEF C, F
      <4>4. F' = [m \in DOMAIN masters |-> [b \in Loaded(m) |->
                   IF C[m][b] = AbsImage[blocknumber]
                   THEN Append(F[m][b], blocknumber)
                   ELSE F[m][b]]]
        BY <4>1, <4>2, <4>3
      <4>5. F' = [m \in DOMAIN C |-> [b \in DOMAIN C[m] |->
                   IF C[m][b] = AbsImage[blocknumber]
                   THEN Append(F[m][b], blocknumber)
                   ELSE F[m][b]]]
        BY <4>2, <4>4
      <4>6. QED  BY <2>2, <4>5 DEF C, F
    <3>6. Search!Search
      BY <2>1, <2>2, <2>5, <3>2, <3>3, <3>4, <3>5
      DEF Search!Search, AbsImage, Contents, AbsPosition, AbsStage
    <3>7. QED  BY <3>6 DEF Search!AbsNext
  <2>7. CASE ScanEnd
    <3>1. /\ ~ Searching' /\ Reporting'
          /\ filemap' = filemap /\ blocknumber' = blocknumber
      BY <2>7 DEF ScanEnd, Searching, Reporting, found, block
    <3>2. AbsStage' = "reporting" /\ AbsPosition' = blocknumber
      BY <1>6, <3>1, StagesNext
    <3>3. Search!Stop
      BY <2>1, <2>2, <2>4, <2>5, <3>1, <3>2
      DEF Search!Stop, AbsImage, Contents, AbsPosition, AbsStage
    <3>4. QED  BY <3>3 DEF Search!AbsNext
  <2>8. CASE ~ ScanBlock /\ ~ ScanEnd
    <3>1. /\ Searching' /\ ~ Reporting'
          /\ filemap' = filemap /\ blocknumber' = blocknumber
      BY <1>6, <2>8
      DEF Searching, Reporting, Next, Step, found, block, RejectOptions, AcceptOptions,
          NoMemory, OpenImageFails, OpenImage, OpenMasterFails, HashFileFails,
          OpenMaster, LoadBlock, LoadEnd, StartScan, ReportRaw, CleanAndReport,
          StartReport, ReportNotFound, ReportRun, ReportBlock, InReport, ReportTail,
          AtReportEnd, ReportTailOfNothing, Finish, Shrink, ExitWith
    <3>2. AbsStage' = "searching" /\ AbsPosition' = blocknumber
      BY <1>6, <3>1, StagesNext
    <3>3. Kept
      BY <2>1, <2>2, <2>4, <2>5, <3>1, <3>2
    <3>4. QED  BY <1>1, <3>3
  <2>9. QED  BY <2>6, <2>7, <2>8
<1>7. ASSUME Intact', Next, Reporting
      PROVE  [Search!AbsNext]_(Search!absvars)
  <2>0. pc \notin {"options", "image", "failed"}
    BY <1>7 DEF Reporting
  <2>1. /\ Intact /\ AbsImage' = AbsImage
        /\ ~ Searching
    BY <1>0, <1>7, <2>0, BlocksKept, ImageKept DEF Searching, Reporting
  <2>2. AbsStage = "reporting" /\ AbsPosition = blocknumber
    BY <1>7, <2>1, Stages
  <2>3. /\ DOMAIN filemap = DOMAIN masters
        /\ DOMAIN masterfile = DOMAIN masters
        /\ masters' = masters
        /\ \A m \in DOMAIN masters : Loaded(m)' = Loaded(m)
        /\ Contents' = Contents
    BY <1>0, <1>7, ContentsKept, Constant
  <2>4. ~ Searching' /\ Reporting' /\ blocknumber' = blocknumber
    BY <1>7
    DEF Searching, Reporting, Next, Step, found, block, RejectOptions, AcceptOptions,
        NoMemory, OpenImageFails, OpenImage, OpenMasterFails, HashFileFails, OpenMaster,
        LoadBlock, LoadEnd, StartScan, ScanBlock, ScanEnd, ReportRaw, CleanAndReport,
        StartReport, ReportNotFound, ReportRun, ReportBlock, InReport, ReportTail,
        AtReportEnd, ReportTailOfNothing, Finish, Shrink, ExitWith
  <2>5. AbsStage' = "reporting" /\ AbsPosition' = blocknumber
    BY <1>7, <2>4, StagesNext
  <2>6. /\ of(filemap) = [m \in DOMAIN masters |-> [b \in Loaded(m) |-> filemap[m][b]]]
        /\ of(filemap)' = [m \in DOMAIN masters |-> [b \in Loaded(m) |-> filemap'[m][b]]]
        /\ of(Contents)' = of(Contents)
    BY <1>7, <2>3, <2>4 DEF of
  <2>7. CASE CleanAndReport
    <3>1. filemap' = [filemap EXCEPT ![t] = clean(@)]
      BY <2>7 DEF CleanAndReport, StartReport
    <3>2. ASSUME NEW m \in DOMAIN masters, NEW b \in Loaded(m)
          PROVE  \/ filemap'[m][b] = filemap[m][b]
                 \/ \E j \in DOMAIN filemap[m][b] : filemap'[m][b] = << filemap[m][b][j] >>
      <4>1. CASE m # t
        BY <2>3, <3>1, <3>2, <4>1
      <4>2. CASE m = t
        <5>1. filemap'[m] = clean(filemap[m])
          BY <2>3, <3>1, <3>2, <4>2
        <5>2. /\ masterfile[m].blocks \in Nat
              /\ filemap[m] \in [0 .. masterfile[m].blocks - 1 -> Seq(Nat)]
              /\ b \in 0 .. masterfile[m].blocks - 1
          BY <1>0, <2>3, <3>2, BlocksOf DEF TypeInv, FilemapInv, Loaded
        <5>3. /\ filemap'[m] \in [0 .. masterfile[m].blocks - 1 -> Seq(Nat)]
              /\ Narrowed(filemap'[m][b], filemap[m][b])
          BY <5>1, <5>2, CleanNarrows
        <5>4. filemap'[m][b] \in Seq(Nat)
          BY <5>2, <5>3
        <5>5. CASE Len(filemap'[m][b]) = 1 /\ contains(filemap[m][b], filemap'[m][b][1])
          <6>1. filemap'[m][b] = << filemap'[m][b][1] >>
            BY <5>4, <5>5
          <6>2. QED  BY <5>5, <6>1 DEF contains
        <5>6. QED  BY <5>3, <5>5 DEF Narrowed
      <4>3. QED  BY <4>1, <4>2
    <3>3. \A m \in DOMAIN of(filemap) : \A b \in DOMAIN of(filemap)[m] :
            \/ of(filemap)'[m][b] = of(filemap)[m][b]
            \/ \E j \in DOMAIN of(filemap)[m][b] :
                 of(filemap)'[m][b] = << of(filemap)[m][b][j] >>
      BY <2>6, <3>2
    <3>4. Search!Narrow
      BY <2>1, <2>2, <2>5, <2>6, <3>3
      DEF Search!Narrow, AbsImage, Contents, AbsPosition, AbsStage
    <3>5. QED  BY <3>4 DEF Search!AbsNext
  <2>8. CASE ~ CleanAndReport
    <3>1. filemap' = filemap
      BY <1>7, <2>8
      DEF Reporting, Next, Step, found, RejectOptions, AcceptOptions,
          NoMemory, OpenImageFails, OpenImage, OpenMasterFails, HashFileFails,
          OpenMaster, LoadBlock, LoadEnd, StartScan, ScanBlock, ScanEnd, ReportRaw,
          StartReport, ReportNotFound, ReportRun, ReportBlock, InReport, ReportTail,
          AtReportEnd, ReportTailOfNothing, Finish, Shrink, ExitWith
    <3>2. Kept
      BY <2>1, <2>2, <2>5, <2>6, <3>1
    <3>3. QED  BY <1>1, <3>2
  <2>9. QED  BY <2>7, <2>8
<1>8. ASSUME Next
      PROVE  pc \notin {"failed", "aborted"}
  BY <1>8
  DEF Next, Step, RejectOptions, AcceptOptions,
      NoMemory, OpenImageFails, OpenImage, OpenMasterFails, HashFileFails, OpenMaster,
      LoadBlock, LoadEnd, StartScan, ScanBlock, ScanEnd, ReportRaw, CleanAndReport,
      StartReport, ReportNotFound, ReportRun, ReportBlock, InReport, ReportTail,
      AtReportEnd, ReportTailOfNothing, Finish, Shrink
<1>9. pc \in {"options", "image", "open", "load", "scan", "failed", "aborted"}
      \/ Reporting
  BY <1>0 DEF TypeInv, Reporting
<1>10. QED  BY <1>2, <1>3, <1>4, <1>5, <1>6, <1>7, <1>8, <1>9

(***************************************************************************)
(* frag_find implements BlockSearch, the search without digests, Bloom     *)
(* filter and tables, as long as the files hold the blocks counted.        *)
(***************************************************************************)
THEOREM SearchRefinement ==
  ASSUME Collisionless, SmallMasters
  PROVE  Spec => ImplementsBlockSearch
<1>1. SearchInv /\ SearchInv' /\ [Next]_vars => [Search!AbsNext]_(Search!absvars)
  BY SearchRefinementStep
<1>2. Spec => []SearchInv
  BY SpecSearch
<1>3. QED
  BY <1>1, <1>2, SearchRefinementInit, PTL
  DEF Spec, ImplementsBlockSearch, Search!AbsSpec
-----------------------------------------------------------------------------
(***************************************************************************)
(* The reports.                                                            *)
(***************************************************************************)
\* What is left of the search when the report begins: every location is one.
Genuine ==
  Intact /\ Reporting =>
    \A m \in DOMAIN filemap : \A b \in DOMAIN filemap[m] :
      \A n \in Range(filemap[m][b]) : Same(n, m, b)

\* The byte runs of a report.
RunRecords == [master : Nat, pass : {"raw", "clean"}, file_offset : Int,
               img_offset : Nat, len : Int]

\* The report begins when the scan has ended.
Unreported ==
  /\ report \in Seq(RunRecords)
  /\ ~ Reporting => report = << >>
  /\ pass \in {"raw", "clean"}

\* The inductive invariant of what is reported.
GenuineInv == SearchInv /\ Genuine /\ Unreported /\ RunsAreGenuine

\* The reports that are printed.
Passes == IF cmd.raw THEN {"raw", "clean"} ELSE {"clean"}

\* Report p on master m has dealt with block b.
Past(m, p, b) ==
  \/ m < t
  \/ m = t /\ pc = "report" /\ pass = p /\ b < tb
  \/ m = t /\ p = "raw" /\ (pc = "clean" \/ (pc = "report" /\ pass = "clean"))

\* The runs that cover a block say one thing about it.
Agreed(m, p, b) ==
  \A r, s \in covering(m, p, b) :
    /\ r.file_offset = s.file_offset
    /\ r.len = s.len
    /\ r # s => r.len = blocksize

\* A report has covered the blocks it has dealt with, those that were found and no
\* other, and nothing beyond.
Covered(m, p, b) ==
  IF Past(m, p, b)
  THEN (covering(m, p, b) # {} <=> filemap[m][b] # << >>) /\ Agreed(m, p, b)
  ELSE covering(m, p, b) = {}

\* The same of all masters and reports, from the first report on.
CoveredInv ==
  pc \in {"master", "clean", "report", "done"} =>
    \A m \in DOMAIN masters : Held(m) =>
      \A p \in Passes : \A b \in DOMAIN filemap[m] : Covered(m, p, b)

\* The last report is on the last master.
Finished == pc = "done" => t > Len(masters)

\* The inductive invariant of a complete report.
CoverInv == SearchInv /\ Unreported /\ Finished /\ CoveredInv

-----------------------------------------------------------------------------
\* Products with the same factor compare like the other factors.
LEMMA Multiples ==
  ASSUME NEW a \in Int, NEW b \in Int, NEW c \in Nat \ {0}
  PROVE  /\ a * c \in Int
         /\ a * c <= b * c <=> a <= b
         /\ a * c = b * c <=> a = b
OBVIOUS

(***************************************************************************)
(* Files that agree in successive blocks agree in the bytes of all of      *)
(* them: the content of a run.                                             *)
(***************************************************************************)
SameBlocks(f, a, g, b, n) ==
  /\ (a + n) * blocksize <= Len(f.bytes)
  /\ (b + n) * blocksize <= Len(g.bytes)
  /\ \A i \in 0 .. n - 1 : blockOf(f, a + i) = blockOf(g, b + i)

\* n blocks read in one call are the same bytes.
SameBytes(f, a, g, b, n) ==
  /\ n * blocksize \in Nat \ {0}
  /\ Len(pread(f, n * blocksize, a * blocksize)) = n * blocksize
  /\ pread(f, n * blocksize, a * blocksize) = pread(g, n * blocksize, b * blocksize)

\* A run of equal blocks is a run of equal bytes.
LEMMA RunContent ==
  ASSUME CmdInv, blocksize >= MinBlocksize,
         NEW f \in Files, NEW g \in Files, NEW a \in Nat, NEW b \in Nat, NEW n \in Nat \ {0},
         SameBlocks(f, a, g, b, n)
  PROVE  SameBytes(f, a, g, b, n)
<1>0. /\ (a + n) * blocksize <= Len(f.bytes)
      /\ (b + n) * blocksize <= Len(g.bytes)
      /\ \A i \in 0 .. n - 1 : blockOf(f, a + i) = blockOf(g, b + i)
  BY DEF SameBlocks
<1>1. /\ blocksize \in Nat \ {0}
      /\ f.bytes \in Seq(Bytes) /\ Len(f.bytes) \in Nat
      /\ g.bytes \in Seq(Bytes) /\ Len(g.bytes) \in Nat
  BY Options DEF Files
<1> DEFINE bs == blocksize
           from == a * bs
           to == b * bs
           len == n * bs
<1>2. from \in Nat /\ to \in Nat /\ len \in Nat \ {0}
  BY <1>1
<1>3. from + len <= Len(f.bytes) /\ to + len <= Len(g.bytes)
  <2>1. (a + n) * bs = from + len /\ (b + n) * bs = to + len
    BY <1>1
  <2>2. QED  BY <1>0, <2>1
<1>4. /\ pread(f, len, from) = SubSeq(f.bytes, from + 1, from + len)
      /\ pread(g, len, to) = SubSeq(g.bytes, to + 1, to + len)
  BY <1>3 DEF pread
<1>5. ASSUME NEW j \in 1 .. len
      PROVE  f.bytes[from + j] = g.bytes[to + j]
  <2> DEFINE i == (j - 1) \div bs
             r == ((j - 1) % bs) + 1
  <2>1. bs \in Nat \ {0} /\ j - 1 \in Nat /\ j - 1 < n * bs
    BY <1>1, <1>2
  <2>2. i \in Nat /\ r \in 1 .. bs /\ j = i * bs + r
    <3> HIDE DEF bs
    <3>1. QED  BY <2>1
  <2>3. i < n
    <3> HIDE DEF bs
    <3>1. QED  BY <2>1
  <2> HIDE DEF i, r
  <2>4. i \in 0 .. n - 1
    BY <2>2, <2>3
  <2>5. /\ (a + i + 1) * bs <= Len(f.bytes)
        /\ (b + i + 1) * bs <= Len(g.bytes)
    <3>1. (a + i + 1) * bs <= (a + n) * bs /\ (b + i + 1) * bs <= (b + n) * bs
      <4> HIDE DEF bs
      <4>1. a + i + 1 \in Int /\ b + i + 1 \in Int /\ a + n \in Int /\ b + n \in Int
            /\ a + i + 1 <= a + n /\ b + i + 1 <= b + n
        BY <2>2, <2>4
      <4>2. QED  BY <2>1, <4>1, Multiples
    <3>2. (a + i + 1) * bs \in Nat /\ (b + i + 1) * bs \in Nat
          /\ (a + n) * bs \in Nat /\ (b + n) * bs \in Nat
      BY <1>1, <2>2
    <3>3. QED  BY <1>0, <1>1, <3>1, <3>2
  <2>6. /\ blockOf(f, a + i)[r] = f.bytes[(a + i) * bs + r]
        /\ blockOf(g, b + i)[r] = g.bytes[(b + i) * bs + r]
    BY <2>2, <2>5, WholeBlock
  <2>7. (a + i) * bs + r = from + j /\ (b + i) * bs + r = to + j
    BY <1>1, <2>2
  <2>8. QED  BY <1>0, <2>4, <2>6, <2>7
<1> HIDE DEF from, to, len, bs
<1>6. /\ Len(SubSeq(f.bytes, from + 1, from + len)) = len
      /\ SubSeq(f.bytes, from + 1, from + len) = SubSeq(g.bytes, to + 1, to + len)
  <2> DEFINE sf == SubSeq(f.bytes, from + 1, from + len)
             sg == SubSeq(g.bytes, to + 1, to + len)
  <2>1. /\ sf \in Seq(Bytes) /\ Len(sf) = len /\ \A j \in 1 .. len : sf[j] = f.bytes[from + j]
        /\ sg \in Seq(Bytes) /\ Len(sg) = len /\ \A j \in 1 .. len : sg[j] = g.bytes[to + j]
    BY <1>1, <1>2, <1>3
  <2> HIDE DEF sf, sg
  <2>2. sf = sg
    <3>1. \A j \in 1 .. len : sf[j] = sg[j]
      BY <1>5, <2>1
    <3>2. sf = [j \in 1 .. len |-> sf[j]] /\ sg = [j \in 1 .. len |-> sg[j]]
      BY <2>1
    <3>3. [j \in 1 .. len |-> sf[j]] = [j \in 1 .. len |-> sg[j]]
      BY <3>1
    <3>4. QED  BY <3>2, <3>3
  <2>3. QED  BY <2>1, <2>2 DEF sf, sg
<1>7. QED  BY <1>2, <1>4, <1>6 DEF SameBytes, from, to, len, bs

-----------------------------------------------------------------------------
\* A report that is running is on a master that was loaded.
LEMMA ReportingMaster ==
  ASSUME TypeInv, pc = "report"
  PROVE  /\ t \in DOMAIN masters
         /\ t \in DOMAIN masterfile
         /\ t \in DOMAIN filemap
         /\ masters[t] \in Files
         /\ masterfile[t] \in BlockFiles
         /\ filemap[t] \in [0 .. masterfile[t].blocks - 1 -> Seq(Nat)]
         /\ size(filemap[t]) = masterfile[t].blocks
<1>1. t \in DOMAIN masters /\ masters[t] \in Files
  BY Options DEF TypeInv
<1>2. t \in DOMAIN masterfile /\ t \in DOMAIN filemap
  BY <1>1, Numbered, Options DEF TypeInv, Opened
<1>3. masterfile[t] \in BlockFiles
  BY <1>2 DEF TypeInv
<1>4. filemap[t] \in [0 .. masterfile[t].blocks - 1 -> Seq(Nat)]
  BY <1>2 DEF TypeInv, FilemapInv
<1>5. size(filemap[t]) = masterfile[t].blocks
  <2>1. masterfile[t].blocks \in Nat
    BY <1>3 DEF BlockFiles
  <2>2. DOMAIN filemap[t] = 0 .. masterfile[t].blocks - 1
    BY <1>4
  <2>3. QED  BY <2>1, <2>2, FS_Interval DEF size
<1>6. QED  BY <1>1, <1>2, <1>3, <1>4, <1>5

\* The bytes of a run of a master that has its blocks are all of its blocks.
LEMMA RunBytes ==
  ASSUME TypeInv, Measured, pc = "report", Held(t),
         NEW n \in Nat \ {0}, tb + n <= masterfile[t].blocks
  PROVE  /\ run_bytes(n) = n * blocksize
         /\ (tb + n) * blocksize <= Len(masters[t].bytes)
<1>1. /\ masterfile[t].blocks \in Nat
      /\ masterfile[t].filesize = Len(masters[t].bytes)
      /\ Len(masters[t].bytes) \in Nat
      /\ tb \in Nat
      /\ blocksize \in Nat \ {0}
  BY ReportingMaster, Options DEF TypeInv, BlockFiles, Files, Measured
<1>2. masterfile[t].blocks * blocksize <= Len(masters[t].bytes)
  BY DEF Held, holds
<1>3. (tb + n) * blocksize <= masterfile[t].blocks * blocksize
  BY <1>1, Multiples
<1>4. (tb + n) * blocksize \in Nat /\ masterfile[t].blocks * blocksize \in Nat
  BY <1>1
<1>5. (tb + n) * blocksize <= Len(masters[t].bytes)
  BY <1>1, <1>2, <1>3, <1>4
<1>6. ~ ((tb + n) * blocksize > Len(masters[t].bytes))
  BY <1>1, <1>4, <1>5
<1>7. QED  BY <1>1, <1>5, <1>6 DEF run_bytes

(***************************************************************************)
(* The locations that are left when the scan ends, and those that clean()  *)
(* leaves, hold the block.                                                 *)
(***************************************************************************)
LEMMA NextGenuine ==
  ASSUME SearchInv, SearchInv', Genuine, [Next]_vars
  PROVE  Genuine'
<1> SUFFICES ASSUME Intact', Reporting',
                    NEW m \in DOMAIN filemap', NEW b \in DOMAIN filemap'[m],
                    NEW n \in Range(filemap'[m][b])
             PROVE  Same(n, m, b)'
  BY DEF Genuine
<1>0. TypeInv /\ TypeInv' /\ LocationsWereScanned /\ FilemapExact
  BY DEF SearchInv, WhereInv
<1>1. \/ pc = "scan" /\ UNCHANGED << image, filemap, masterfile, imagefile >>
      \/ Reporting /\ UNCHANGED image
  BY DEF Reporting, Next, Step, vars, input, loaded, block, found, printing, RejectOptions,
         AcceptOptions, NoMemory, OpenImageFails, OpenImage, OpenMasterFails,
         HashFileFails, OpenMaster, LoadBlock, LoadEnd, StartScan, ScanBlock, ScanEnd,
         ReportRaw, CleanAndReport, StartReport, ReportNotFound, ReportRun, ReportBlock,
         InReport, ReportTail, AtReportEnd, ReportTailOfNothing, Finish, Shrink, ExitWith
<1>2. pc \notin {"options", "image", "failed"}
  BY <1>1 DEF Reporting
<1>3. Intact /\ masters' = masters /\ blocksize' = blocksize
  BY <1>0, <1>2, BlocksKept, Constant
<1>4. Same(n, m, b)' <=> Same(n, m, b)
  BY <1>1, <1>3 DEF Same, blockOf
<1>5. CASE pc = "scan" /\ filemap' = filemap
  <2>1. b \in Loaded(m) /\ n \in cmd.start .. imagefile.blocks - 1
    BY <1>0, <1>5 DEF LocationsWereScanned
  <2>2. n \in 0 .. imagefile.blocks - 1
    <3>1. cmd.start \in Nat /\ imagefile.blocks \in Nat
      BY <1>0, Options DEF TypeInv, BlockFiles
    <3>2. QED  BY <2>1, <3>1
  <2>3. contains(filemap[m][b], n)
    BY <1>5 DEF Range, contains
  <2>4. QED  BY <1>0, <1>3, <1>4, <1>5, <2>1, <2>2, <2>3 DEF FilemapExact
<1>6. CASE Reporting /\ ~ CleanAndReport
  <2>1. filemap' = filemap
    BY <1>6, FoundKept DEF found, Reporting, LoadEnd, ScanBlock
  <2>2. QED  BY <1>3, <1>4, <1>6, <2>1 DEF Genuine
<1>7. CASE Reporting /\ CleanAndReport
  <2>1. filemap' = [filemap EXCEPT ![t] = clean(@)]
    BY <1>7 DEF CleanAndReport, StartReport
  <2>2. m \in DOMAIN filemap
    BY <2>1
  <2>3. CASE m # t
    BY <1>3, <1>4, <1>7, <2>1, <2>2, <2>3 DEF Genuine
  <2>4. CASE m = t
    <3>1. filemap'[m] = clean(filemap[m])
      BY <2>1, <2>2, <2>4
    <3>2. /\ masterfile[m].blocks \in Nat
          /\ filemap[m] \in [0 .. masterfile[m].blocks - 1 -> Seq(Nat)]
      BY <1>0, <2>2, BlocksOf, Numbered DEF TypeInv, FilemapInv
    <3>3. /\ filemap'[m] \in [0 .. masterfile[m].blocks - 1 -> Seq(Nat)]
          /\ \A c \in 0 .. masterfile[m].blocks - 1 :
               Narrowed(filemap'[m][c], filemap[m][c])
      BY <3>1, <3>2, CleanNarrows
    <3>4. b \in DOMAIN filemap[m] /\ n \in Range(filemap[m][b])
      BY <3>2, <3>3, NarrowedRange
    <3>5. QED  BY <1>3, <1>4, <1>7, <2>2, <3>4 DEF Genuine
  <2>5. QED  BY <2>3, <2>4
<1>8. QED  BY <1>1, <1>5, <1>6, <1>7

-----------------------------------------------------------------------------
\* One run of the report.
TrueRun(r) ==
  LET here == pread(masters[r.master], r.len, r.file_offset)
  IN  /\ r.len > 0
      /\ Len(here) = r.len
      /\ here = pread(image, r.len, r.img_offset)

\* Blocks that are where the run says make the run true.
LEMMA BlocksMakeRun ==
  ASSUME SearchInv, Genuine, Intact, pc = "report",
         NEW n \in Nat \ {0}, tb + n <= masterfile[t].blocks, NEW place \in Nat,
         \A i \in 0 .. n - 1 : contains(filemap[t][tb + i], place + i)
  PROVE  TrueRun(run(tb, place, run_bytes(n)))
<1>0. /\ TypeInv /\ Measured /\ LocationsWereScanned
      /\ Reporting
      /\ CmdInv /\ blocksize >= MinBlocksize
      /\ tb \in Nat
      /\ image \in Files /\ imagefile \in BlockFiles
  BY DEF SearchInv, WhereInv, TypeInv, Reporting
<1>1. /\ t \in DOMAIN filemap /\ t \in DOMAIN masterfile
      /\ masters[t] \in Files
      /\ masterfile[t] \in BlockFiles
      /\ filemap[t] \in [0 .. masterfile[t].blocks - 1 -> Seq(Nat)]
  BY <1>0, ReportingMaster
<1>2. Held(t) /\ holds(image, imagefile)
  BY <1>1 DEF Intact, Held
<1>3. /\ run_bytes(n) = n * blocksize
      /\ (tb + n) * blocksize <= Len(masters[t].bytes)
  BY <1>0, <1>2, RunBytes
<1>4. ASSUME NEW i \in 0 .. n - 1
      PROVE  place + i < imagefile.blocks /\ blockOf(masters[t], tb + i) = blockOf(image, place + i)
  <2>1. tb + i \in 0 .. masterfile[t].blocks - 1
    BY <1>0, <1>1 DEF BlockFiles
  <2>2. tb + i \in DOMAIN filemap[t] /\ place + i \in Range(filemap[t][tb + i])
    BY <1>1, <2>1 DEF contains, Range
  <2>3. place + i \in cmd.start .. imagefile.blocks - 1 /\ Same(place + i, t, tb + i)
    BY <1>0, <1>1, <2>2 DEF LocationsWereScanned, Genuine
  <2>4. QED  BY <1>0, <2>3, Options DEF Same, BlockFiles
<1>5. (place + n) * blocksize <= Len(image.bytes)
  <2>1. place + (n - 1) < imagefile.blocks
    BY <1>4
  <2>2. place + (n - 1) \in Nat /\ (place + (n - 1)) + 1 = place + n
    OBVIOUS
  <2>3. QED  BY <1>0, <1>2, <2>1, <2>2, HeldBlock
<1>6. /\ n * blocksize \in Nat \ {0}
      /\ Len(pread(masters[t], n * blocksize, tb * blocksize)) = n * blocksize
      /\ pread(masters[t], n * blocksize, tb * blocksize) =
           pread(image, n * blocksize, place * blocksize)
  <2>1. SameBlocks(masters[t], tb, image, place, n)
    BY <1>3, <1>4, <1>5 DEF SameBlocks
  <2>2. SameBytes(masters[t], tb, image, place, n)
    BY <1>0, <1>1, <2>1, RunContent
  <2>3. QED  BY <2>2 DEF SameBytes
<1>7. QED  BY <1>3, <1>6 DEF TrueRun, run

\* The partial block at the end of a master is reported where it is.
LEMMA TailIsTrue ==
  ASSUME TypeInv, pc = "report", extra_bytes # 0, size(filemap[t]) > 0,
         NEW r \in Range(tailRuns)
  PROVE  /\ TrueRun(r)
         /\ r.master = t
         /\ r.file_offset = masterfile[t].blocks * blocksize
<1> DEFINE list     == filemap[t][size(filemap[t]) - 1]
           matching == { j \in DOMAIN list : tailMatches(list[j]) }
           first    == CHOOSE j \in matching : \A i \in matching : j <= i
<1>1. /\ size(filemap[t]) = masterfile[t].blocks
      /\ masterfile[t] \in BlockFiles
      /\ filemap[t] \in [0 .. masterfile[t].blocks - 1 -> Seq(Nat)]
      /\ blocksize \in Nat \ {0}
  BY ReportingMaster, Options DEF TypeInv
<1>2. masterfile[t].blocks \in Nat /\ masterfile[t].filesize \in Nat
  BY <1>1 DEF BlockFiles
<1>3. list \in Seq(Nat)
  BY <1>1, <1>2
<1>4. matching # {} /\ r = run(size(filemap[t]), tailBlock(list[first]), extra_bytes)
  <2> DEFINE tail == run(size(filemap[t]), tailBlock(list[first]), extra_bytes)
  <2>1. tailRuns = IF matching = {} THEN << >> ELSE << tail >>
    BY DEF tailRuns
  <2> HIDE DEF tail, matching
  <2>2. PICK j \in DOMAIN tailRuns : r = tailRuns[j]
    BY DEF Range
  <2>3. matching # {}
    BY <2>1, <2>2
  <2>4. r = tail
    BY <2>1, <2>2, <2>3
  <2>5. QED  BY <2>3, <2>4 DEF tail
<1>5. first \in matching
  <2>1. matching \subseteq Nat
    BY <1>3
  <2>2. \E j \in matching : \A i \in matching : j <= i
    <3> HIDE DEF matching
    <3>1. QED  BY <1>4, <2>1, LeastNatural
  <2> HIDE DEF matching
  <2>3. QED  BY <2>2
<1> HIDE DEF first
<1>6. tailMatches(list[first])
  BY <1>5
<1>7. extra_bytes \in Nat
  BY <1>1, <1>2 DEF extra_bytes
<1>8. /\ r.master = t
      /\ r.file_offset = size(filemap[t]) * blocksize
      /\ r.img_offset = tailBlock(list[first]) * blocksize
      /\ r.len = extra_bytes
  BY <1>4 DEF run
<1> HIDE DEF list, matching
<1>9. /\ pread(masters[r.master], r.len, r.file_offset) = pread(image, r.len, r.img_offset)
      /\ Len(pread(image, r.len, r.img_offset)) = r.len
  BY <1>6, <1>8 DEF tailMatches
<1>10. QED  BY <1>1, <1>7, <1>8, <1>9 DEF TrueRun

\* What the report gains by a step.
LEMMA ReportGrows ==
  ASSUME TypeInv, [Next]_vars
  PROVE  \/ report' = report
         \/ ReportRun
         \/ ReportBlock
         \/ ReportTail
BY DEF Next, Step, vars, input, loaded, block, found, printing,
       RejectOptions, AcceptOptions, NoMemory, OpenImageFails, OpenImage,
       OpenMasterFails, HashFileFails, OpenMaster, LoadBlock, LoadEnd, StartScan,
       ScanBlock, ScanEnd, ReportRaw, CleanAndReport, StartReport, ReportNotFound,
       InReport, AtReportEnd, ReportTailOfNothing, Finish, Shrink, ExitWith

\* The members of a sequence that is made longer.
LEMMA RangeOfConcat ==
  ASSUME NEW S, NEW a \in Seq(S), NEW b \in Seq(S)
  PROVE  Range(a \o b) = Range(a) \cup Range(b)
<1>1. a \o b \in Seq(S) /\ Len(a \o b) = Len(a) + Len(b)
  OBVIOUS
<1>2. /\ \A j \in 1 .. Len(a) : (a \o b)[j] = a[j]
      /\ \A j \in 1 .. Len(b) : (a \o b)[Len(a) + j] = b[j]
  OBVIOUS
<1>3. \A j \in DOMAIN (a \o b) : (a \o b)[j] \in Range(a) \cup Range(b)
  <2>1. ASSUME NEW j \in 1 .. Len(a) + Len(b)
        PROVE  (a \o b)[j] \in Range(a) \cup Range(b)
    <3>1. CASE j <= Len(a)
      BY <1>2, <3>1 DEF Range
    <3>2. CASE j > Len(a)
      <4>1. j - Len(a) \in 1 .. Len(b) /\ Len(a) + (j - Len(a)) = j
        BY <3>2
      <4>2. (a \o b)[j] = b[j - Len(a)]
        BY <1>2, <4>1
      <4>3. QED  BY <4>1, <4>2 DEF Range
    <3>3. QED  BY <3>1, <3>2
  <2>2. QED  BY <1>1, <2>1
<1>4. \A j \in DOMAIN a : a[j] \in Range(a \o b)
  BY <1>1, <1>2 DEF Range
<1>5. ASSUME NEW j \in DOMAIN b
      PROVE  b[j] \in Range(a \o b)
  <2>1. Len(a) + j \in DOMAIN (a \o b)
    BY <1>1, <1>5
  <2>2. QED  BY <1>2, <1>5, <2>1 DEF Range
<1> DEFINE c == a \o b
<1>6. /\ \A j \in DOMAIN c : c[j] \in Range(a) \cup Range(b)
      /\ \A j \in DOMAIN a : a[j] \in Range(c)
      /\ \A j \in DOMAIN b : b[j] \in Range(c)
  BY <1>3, <1>4, <1>5
<1> HIDE DEF c
<1>7. Range(c) = Range(a) \cup Range(b)
  BY <1>6 DEF Range
<1>8. QED  BY <1>7 DEF c

\* A run is a record of numbers.
LEMMA RunType ==
  ASSUME TypeInv, Unreported, pc = "report", NEW b \in Nat, NEW place \in Nat, NEW len \in Int
  PROVE  run(b, place, len) \in RunRecords
<1>1. blocksize \in Nat /\ t \in Nat /\ pass \in {"raw", "clean"}
  BY Options DEF TypeInv, Unreported
<1>2. b * blocksize \in Int /\ place * blocksize \in Int
  BY <1>1
<1>3. QED  BY <1>1, <1>2 DEF run, RunRecords

\* The length that is printed is a number.
LEMMA RunBytesType ==
  ASSUME TypeInv, pc = "report", NEW n \in Nat
  PROVE  run_bytes(n) \in Int
<1>1. /\ blocksize \in Nat /\ tb \in Nat /\ Word \in Nat \ {0}
      /\ masterfile[t].filesize \in Nat
  BY ReportingMaster, Options DEF TypeInv, BlockFiles
<1>2. tb * blocksize \in Int /\ n * blocksize \in Int
  BY <1>1
<1>3. (masterfile[t].filesize - tb * blocksize) % Word \in Int
  BY <1>1, <1>2
<1>4. QED  BY <1>2, <1>3 DEF run_bytes

(***************************************************************************)
(* The three steps that report something: each appends runs of records.    *)
(***************************************************************************)
LEMMA ReportRunAppends ==
  ASSUME TypeInv, Unreported, ReportRun
  PROVE  LET r == run(tb, places[1], run_bytes(run_blocks)) IN
         /\ pc = "report" /\ run_blocks \in Nat \ {0, 1} /\ places[1] \in Nat
         /\ tb + run_blocks <= masterfile[t].blocks
         /\ tb' = tb + run_blocks
         /\ \A i \in 0 .. run_blocks - 1 : contains(filemap[t][tb + i], places[1] + i)
         /\ report' \in Seq(RunRecords)
         /\ Range(report') = Range(report) \cup {r}
<1> DEFINE r == run(tb, places[1], run_bytes(run_blocks))
<1>1. InReport /\ places # << >> /\ run_blocks > 1 /\ tb' = tb + run_blocks
      /\ report' = Append(report, r) /\ pc = "report"
  BY DEF ReportRun, advance, InReport
<1>2. /\ masterfile[t].blocks \in Nat
      /\ tb \in 0 .. masterfile[t].blocks - 1
      /\ places \in Seq(Nat)
      /\ places[1] \in Nat
      /\ run_blocks \in 1 .. masterfile[t].blocks - tb
      /\ \A j \in 1 .. run_blocks - 1 : contains(filemap[t][tb + j], places[1] + j)
  BY <1>1, AtBlock
<1>3. contains(filemap[t][tb + 0], places[1] + 0)
  <2>1. tb + 0 = tb /\ places[1] + 0 = places[1] /\ 1 \in DOMAIN places
    BY <1>1, <1>2
  <2>2. contains(places, places[1])
    BY <2>1 DEF contains
  <2>3. QED  BY <2>1, <2>2 DEF places
<1>4. \A i \in 0 .. run_blocks - 1 : contains(filemap[t][tb + i], places[1] + i)
  BY <1>2, <1>3, SMTT(30)
<1>5. run_bytes(run_blocks) \in Int
  BY <1>1, <1>2, RunBytesType
<1>6. r \in RunRecords
  BY <1>1, <1>2, <1>5, RunType
<1> HIDE DEF r
<1>7. report' \in Seq(RunRecords) /\ Range(report') = Range(report) \cup {r}
  <2> DEFINE one == << r >>
  <2>1. report \in Seq(RunRecords) /\ one \in Seq(RunRecords)
    BY <1>6 DEF Unreported
  <2>2. report' = report \o one
    BY <1>1, <2>1
  <2>3. Range(one) = {r}
    BY DEF Range
  <2> HIDE DEF one
  <2>4. Range(report \o one) = Range(report) \cup Range(one) /\ report \o one \in Seq(RunRecords)
    BY <2>1, RangeOfConcat
  <2>5. QED  BY <2>2, <2>3, <2>4
<1>8. QED  BY <1>1, <1>2, <1>4, <1>7 DEF r

\* A block of several places adds a run of one block for each of them.
LEMMA ReportBlockAppends ==
  ASSUME TypeInv, Unreported, ReportBlock
  PROVE  /\ pc = "report" /\ tb < masterfile[t].blocks /\ tb' = tb + 1
         /\ places \in Seq(Nat) /\ places # << >> /\ places = filemap[t][tb]
         /\ report' \in Seq(RunRecords)
         /\ Range(report') =
              Range(report) \cup { run(tb, n, run_bytes(1)) : n \in Range(places) }
<1> DEFINE more == [j \in DOMAIN places |-> run(tb, places[j], run_bytes(1))]
<1>1. /\ InReport /\ places # << >> /\ tb' = tb + 1 /\ pc = "report"
      /\ report' = report \o more
  BY DEF ReportBlock, InReport
<1>2. /\ masterfile[t].blocks \in Nat
      /\ tb \in 0 .. masterfile[t].blocks - 1
      /\ places \in Seq(Nat)
  BY <1>1, AtBlock
<1>3. \A n \in Nat : run(tb, n, run_bytes(1)) \in RunRecords
  BY <1>1, <1>2, RunType, RunBytesType
<1>4. more \in Seq(RunRecords)
  <2>1. \A j \in 1 .. Len(places) : run(tb, places[j], run_bytes(1)) \in RunRecords
    BY <1>2, <1>3
  <2>2. DOMAIN places = 1 .. Len(places) /\ Len(places) \in Nat
    BY <1>2
  <2>3. QED  BY <2>1, <2>2
<1>5. Range(more) = { run(tb, n, run_bytes(1)) : n \in Range(places) }
  BY DEF Range
<1> HIDE DEF more
<1>6. report' \in Seq(RunRecords) /\ Range(report') = Range(report) \cup Range(more)
  BY <1>1, <1>4, RangeOfConcat DEF Unreported
<1>7. QED  BY <1>1, <1>2, <1>5, <1>6 DEF places

\* What is reported behind the last block is a run of records as well.
LEMMA TailTyped ==
  ASSUME TypeInv, Unreported, pc = "report", size(filemap[t]) > 0
  PROVE  tailRuns \in Seq(RunRecords)
<1> DEFINE list == filemap[t][size(filemap[t]) - 1]
           matching == { j \in DOMAIN list : tailMatches(list[j]) }
           first == CHOOSE j \in matching : \A i \in matching : j <= i
           tail == run(size(filemap[t]), tailBlock(list[first]), extra_bytes)
<1>1. /\ size(filemap[t]) = masterfile[t].blocks
      /\ masterfile[t] \in BlockFiles
      /\ filemap[t] \in [0 .. masterfile[t].blocks - 1 -> Seq(Nat)]
  BY ReportingMaster
<1>2. tailRuns = IF matching = {} THEN << >> ELSE << tail >>
  BY DEF tailRuns
<1>3. CASE matching = {}
  BY <1>2, <1>3
<1>4. CASE matching # {}
  <2>1. masterfile[t].blocks \in Nat /\ masterfile[t].filesize \in Nat
    BY <1>1 DEF BlockFiles
  <2>2. list \in Seq(Nat)
    BY <1>1, <2>1, SMTT(30)
  <2>3. first \in matching
    <3>1. matching \subseteq Nat
      BY <2>2
    <3> HIDE DEF matching
    <3>2. \E j \in matching : \A i \in matching : j <= i
      BY <1>4, <3>1, LeastNatural
    <3>3. QED  BY <3>2
  <2> HIDE DEF first
  <2>4. list[first] \in Nat
    BY <2>2, <2>3
  <2>5. extra_bytes \in Int
    BY <2>1, Options, SMTT(30) DEF extra_bytes, TypeInv
  <2>6. tail \in RunRecords
    <3>1. PICK place : place = list[first]
      OBVIOUS
    <3> HIDE DEF matching, list
    <3>2. tailBlock(place) \in Nat
      BY <2>4, <3>1 DEF tailBlock
    <3>3. QED  BY <1>1, <2>1, <2>5, <3>1, <3>2, RunType
  <2> HIDE DEF tail, matching
  <2>7. QED  BY <1>2, <1>4, <2>6
<1>5. QED  BY <1>3, <1>4

\* The bytes behind the last block add runs only behind a filemap with blocks.
LEMMA ReportTailAppends ==
  ASSUME TypeInv, Unreported, ReportTail
  PROVE  /\ pc = "report" /\ tb >= masterfile[t].blocks
         /\ report' \in Seq(RunRecords)
         /\ \/ report' = report
            \/ /\ extra_bytes # 0 /\ size(filemap[t]) > 0
               /\ Range(report') = Range(report) \cup Range(tailRuns)
<1>1. /\ pc = "report" /\ tb >= size(filemap[t])
      /\ extra_bytes = 0 \/ size(filemap[t]) > 0
      /\ \/ report' = report \o << >>
         \/ extra_bytes # 0 /\ report' = report \o tailRuns
  BY DEF ReportTail, AtReportEnd
<1>2. size(filemap[t]) = masterfile[t].blocks
  BY <1>1, ReportingMaster
<1>3. report \in Seq(RunRecords)
  BY DEF Unreported
<1>4. CASE report' = report \o << >>
  <2>1. report' = report
    BY <1>3, <1>4
  <2>2. QED  BY <1>1, <1>2, <1>3, <2>1
<1>5. CASE extra_bytes # 0 /\ report' = report \o tailRuns
  <2>1. size(filemap[t]) > 0
    BY <1>1, <1>5
  <2>2. tailRuns \in Seq(RunRecords)
    BY <1>1, <2>1, TailTyped
  <2>3. report' \in Seq(RunRecords) /\ Range(report') = Range(report) \cup Range(tailRuns)
    BY <1>3, <1>5, <2>2, RangeOfConcat
  <2>4. QED  BY <1>1, <1>2, <1>5, <2>1, <2>3
<1>6. QED  BY <1>1, <1>4, <1>5

\* A step keeps the report empty up to its begin.
LEMMA NextUnreported ==
  ASSUME TypeInv, Unreported, [Next]_vars
  PROVE  Unreported'
<1>1. report' \in Seq(RunRecords)
  BY ReportGrows, ReportRunAppends, ReportBlockAppends, ReportTailAppends DEF Unreported
<1>2. (~ Reporting => report = << >>)' /\ pass' \in {"raw", "clean"}
  BY DEF Unreported, Reporting, Next, Step, vars, input, loaded, block, found, printing,
         RejectOptions, AcceptOptions, NoMemory, OpenImageFails, OpenImage,
         OpenMasterFails, HashFileFails, OpenMaster, LoadBlock, LoadEnd, StartScan,
         ScanBlock, ScanEnd, ReportRaw, CleanAndReport, StartReport, ReportNotFound,
         ReportRun, ReportBlock, InReport, ReportTail, AtReportEnd, ReportTailOfNothing,
         Finish, Shrink, ExitWith
<1>3. QED  BY <1>1, <1>2 DEF Unreported

-----------------------------------------------------------------------------
(***************************************************************************)
(* Every run that is reported is one.                                      *)
(***************************************************************************)
LEMMA NextRuns ==
  ASSUME GenuineInv, SearchInv', Unreported', [Next]_vars
  PROVE  RunsAreGenuine'
<1> SUFFICES ASSUME Intact', NEW r \in Range(report')
             PROVE  TrueRun(r)'
  BY DEF RunsAreGenuine, TrueRun
<1>0. /\ SearchInv /\ TypeInv /\ TypeInv' /\ Genuine /\ Unreported /\ RunsAreGenuine
  BY DEF GenuineInv, SearchInv, WhereInv
<1>1. Reporting'
  <2>1. ~ Reporting' => Range(report') = {}
    BY <1>0 DEF Unreported, Range
  <2>2. QED  BY <2>1
<1>2. (Reporting \/ (pc = "scan" /\ report' = report)) /\ image' = image
  BY <1>1
  DEF Reporting, Next, Step, vars, input, loaded, block, found, printing, RejectOptions,
      AcceptOptions, NoMemory, OpenImageFails, OpenImage, OpenMasterFails, HashFileFails,
      OpenMaster, LoadBlock, LoadEnd, StartScan, ScanBlock, ScanEnd, ReportRaw,
      CleanAndReport, StartReport, ReportNotFound, ReportRun, ReportBlock, InReport,
      ReportTail, AtReportEnd, ReportTailOfNothing, Finish, Shrink, ExitWith
<1>3. Reporting
  BY <1>0, <1>2 DEF Unreported, Range, Reporting
<1>4. Intact /\ masters' = masters
  BY <1>0, <1>3, BlocksKept, Constant DEF Reporting
<1>5. TrueRun(r)' <=> TrueRun(r)
  BY <1>2, <1>4 DEF TrueRun
<1>6. ASSUME r \in Range(report)
      PROVE  TrueRun(r)
  BY <1>0, <1>4, <1>6 DEF RunsAreGenuine, TrueRun
<1>7. CASE report' = report
  BY <1>5, <1>6, <1>7
<1>8. CASE ReportRun
  <2>1. /\ pc = "report" /\ run_blocks \in Nat \ {0} /\ places[1] \in Nat
        /\ tb + run_blocks <= masterfile[t].blocks
        /\ \A i \in 0 .. run_blocks - 1 : contains(filemap[t][tb + i], places[1] + i)
        /\ r \in Range(report) \/ r = run(tb, places[1], run_bytes(run_blocks))
    BY <1>0, <1>8, ReportRunAppends
  <2>2. TrueRun(run(tb, places[1], run_bytes(run_blocks)))
    BY <1>0, <1>4, <2>1, BlocksMakeRun
  <2>3. QED  BY <1>5, <1>6, <2>1, <2>2
<1>9. CASE ReportBlock
  <2>1. /\ pc = "report" /\ tb < masterfile[t].blocks
        /\ places \in Seq(Nat) /\ places = filemap[t][tb]
        /\ \/ r \in Range(report)
           \/ \E n \in Range(places) : r = run(tb, n, run_bytes(1))
    BY <1>0, <1>9, ReportBlockAppends
  <2>2. ASSUME NEW n \in Range(places)
        PROVE  TrueRun(run(tb, n, run_bytes(1)))
    <3>1. n \in Nat /\ contains(filemap[t][tb], n)
      BY <2>1, <2>2 DEF Range, contains
    <3>2. tb \in Nat /\ masterfile[t].blocks \in Nat
      BY <1>0, <2>1, ReportingMaster DEF TypeInv, BlockFiles
    <3>3. tb + 1 <= masterfile[t].blocks /\ tb + 0 = tb /\ n + 0 = n
      BY <2>1, <3>1, <3>2
    <3>4. \A i \in 0 .. 1 - 1 : contains(filemap[t][tb + i], n + i)
      BY <3>1, <3>3
    <3>5. QED  BY <1>0, <1>4, <2>1, <3>1, <3>3, <3>4, BlocksMakeRun, SMTT(20)
  <2>3. QED  BY <1>5, <1>6, <2>1, <2>2
<1>10. CASE ReportTail
  <2>1. /\ pc = "report"
        /\ \/ r \in Range(report)
           \/ extra_bytes # 0 /\ size(filemap[t]) > 0 /\ r \in Range(tailRuns)
    BY <1>0, <1>10, ReportTailAppends
  <2>2. QED  BY <1>0, <1>5, <1>6, <2>1, TailIsTrue
<1>11. QED  BY <1>0, <1>7, <1>8, <1>9, <1>10, ReportGrows

\* The invariant holds initially.
LEMMA InitGenuine == Init => GenuineInv
<1> SUFFICES ASSUME Init PROVE GenuineInv
  OBVIOUS
<1>1. SearchInv
  BY InitSearch
<1>2. report = << >> /\ ~ Reporting /\ pass = "clean"
  BY DEF Init, Reporting
<1>3. Range(report) = {}
  BY <1>2 DEF Range
<1>4. QED  BY <1>1, <1>2, <1>3 DEF GenuineInv, Genuine, Unreported, RunsAreGenuine

\* The invariant holds in every reachable state.
LEMMA SpecGenuine ==
  ASSUME Collisionless, SmallMasters
  PROVE  Spec => []GenuineInv
<1>1. GenuineInv /\ [Next]_vars => GenuineInv'
  <2> SUFFICES ASSUME GenuineInv, [Next]_vars PROVE GenuineInv'
    OBVIOUS
  <2>1. SearchInv /\ Genuine /\ Unreported /\ TypeInv
    BY DEF GenuineInv, SearchInv, WhereInv
  <2>2. SearchInv'
    BY <2>1, NextSearch
  <2>3. Genuine' /\ Unreported'
    BY <2>1, <2>2, NextGenuine, NextUnreported
  <2>4. RunsAreGenuine'
    BY <2>2, <2>3, NextRuns
  <2>5. QED  BY <2>2, <2>3, <2>4 DEF GenuineInv
<1>2. QED  BY InitGenuine, <1>1, PTL DEF Spec

(***************************************************************************)
(* Every run in the report, the partial block at the end included, names   *)
(* bytes of the image that are bytes of the master file at that offset.    *)
(***************************************************************************)
THEOREM ReportIsTrue ==
  ASSUME Collisionless, SmallMasters
  PROVE  Spec => []RunsAreGenuine
<1>1. GenuineInv => RunsAreGenuine  BY DEF GenuineInv
<1>2. Spec => []GenuineInv  BY SpecGenuine
<1>3. QED  BY <1>1, <1>2, PTL

-----------------------------------------------------------------------------
(***************************************************************************)
(* Each block is accounted for, and once.                                  *)
(***************************************************************************)
\* r is a run of report p on master m, and covers block b.
Covers(r, m, p, b) ==
  /\ r.master = m
  /\ r.pass = p
  /\ r.file_offset <= b * blocksize
  /\ (b + 1) * blocksize <= r.file_offset + r.len

\* A run of n blocks covers these blocks of its master.
LEMMA RunCovers ==
  ASSUME TypeInv, pc = "report", NEW n \in Nat, NEW place, NEW m \in Nat, NEW p, NEW b \in Nat
  PROVE  Covers(run(tb, place, n * blocksize), m, p, b) <=>
           m = t /\ p = pass /\ b \in tb .. tb + n - 1
<1>1. blocksize \in Nat \ {0} /\ tb \in Nat
  BY Options DEF TypeInv
<1>2. tb * blocksize <= b * blocksize <=> tb <= b
  BY <1>1, Multiples
<1>3. (b + 1) * blocksize <= (tb + n) * blocksize <=> b + 1 <= tb + n
  BY <1>1, Multiples
<1>4. (tb + n) * blocksize = tb * blocksize + n * blocksize
  BY <1>1
<1> DEFINE r == run(tb, place, n * blocksize)
<1>5. /\ r.master = t /\ r.pass = pass
      /\ r.file_offset = tb * blocksize /\ r.len = n * blocksize
  BY DEF run
<1> HIDE DEF r
<1>6. Covers(r, m, p, b) <=> m = t /\ p = pass /\ tb <= b /\ b + 1 <= tb + n
  BY <1>2, <1>3, <1>4, <1>5 DEF Covers
<1>7. QED  BY <1>1, <1>6 DEF r

\* The partial block at the end covers none of the whole ones.
LEMMA TailCoversNothing ==
  ASSUME TypeInv, pc = "report", NEW m, NEW p, NEW b \in Nat, NEW r,
         r.file_offset = masterfile[t].blocks * blocksize, b < masterfile[t].blocks
  PROVE  ~ Covers(r, m, p, b)
<1>1. blocksize \in Nat \ {0} /\ masterfile[t].blocks \in Nat
  BY ReportingMaster, Options DEF TypeInv, BlockFiles
<1>2. ~ (masterfile[t].blocks * blocksize <= b * blocksize)
  BY <1>1, Multiples
<1>3. QED  BY <1>2 DEF Covers

\* How the runs that cover a block change with the report.
LEMMA CoveringGrows ==
  ASSUME NEW m, NEW p, NEW b, cmd' = cmd
  PROVE  /\ covering(m, p, b) = { r \in Range(report) : Covers(r, m, p, b) }
         /\ covering(m, p, b)' = { r \in Range(report') : Covers(r, m, p, b) }
BY DEF covering, Covers, blocksize

\* A step keeps the blocks the reports have dealt with covered.
LEMMA NextCovered ==
  ASSUME SearchInv, Unreported, CoveredInv, SearchInv', [Next]_vars
  PROVE  CoveredInv'
<1> SUFFICES ASSUME pc' \in {"master", "clean", "report", "done"},
                    NEW m \in DOMAIN masters', Held(m)', NEW p \in Passes',
                    NEW b \in DOMAIN filemap'[m]
             PROVE  Covered(m, p, b)'
  BY DEF CoveredInv
<1>0. /\ TypeInv /\ TypeInv' /\ Measured
      /\ cmd' = cmd /\ masters' = masters /\ blocksize' = blocksize
      /\ t \in Nat /\ tb \in Nat
  BY Constant, Options DEF SearchInv, WhereInv, TypeInv
<1>1. \/ pc \in {"master", "clean", "report", "done"} /\ UNCHANGED masterfile
      \/ ScanEnd
  BY DEF Next, Step, vars, input, loaded, block, found, printing, RejectOptions,
         AcceptOptions, NoMemory, OpenImageFails, OpenImage, OpenMasterFails,
         HashFileFails, OpenMaster, LoadBlock, LoadEnd, StartScan, ScanBlock, ReportRaw,
         CleanAndReport, StartReport, ReportNotFound, ReportRun, ReportBlock, InReport,
         ReportTail, AtReportEnd, ReportTailOfNothing, Finish, Shrink, ExitWith
<1>2. /\ m \in DOMAIN masters /\ m \in Nat /\ m >= 1
      /\ p \in Passes
      /\ p \in {"raw", "clean"}
  <2>1. m \in DOMAIN masters /\ masters \in Seq(Files)
    BY <1>0, Options DEF TypeInv
  <2>2. m \in Nat /\ m >= 1
    BY <2>1
  <2>3. p \in Passes
    BY <1>0 DEF Passes
  <2>4. QED  BY <2>1, <2>2, <2>3 DEF Passes
<1>3. CASE ScanEnd
  <2>1. t' = 1 /\ pc' = "master" /\ report' = << >>
    BY <1>3 DEF ScanEnd, Unreported, Reporting
  <2>2. ~ Past(m, p, b)'
    BY <1>2, <2>1 DEF Past
  <2>3. covering(m, p, b)' = {}
    BY <2>1 DEF covering, Range
  <2>4. QED  BY <2>2, <2>3 DEF Covered
<1>4. ASSUME pc \in {"master", "clean", "report", "done"}, UNCHANGED masterfile
      PROVE  Covered(m, p, b)'
  <2>1. /\ m \in DOMAIN masterfile /\ m \in DOMAIN filemap
        /\ masterfile[m].blocks \in Nat
        /\ filemap[m] \in [0 .. masterfile[m].blocks - 1 -> Seq(Nat)]
        /\ filemap'[m] \in [0 .. masterfile[m].blocks - 1 -> Seq(Nat)]
        /\ b \in 0 .. masterfile[m].blocks - 1
        /\ b \in Nat
        /\ b \in DOMAIN filemap[m]
    <3>1. Len(masterfile) = Len(masters) /\ Len(filemap) = Len(masters)
      BY <1>0, <1>4 DEF TypeInv, Opened
    <3>2. Len(masterfile') = Len(masters') /\ Len(filemap') = Len(masters')
      BY <1>0 DEF TypeInv, Opened
    <3>3. DOMAIN masters = 1 .. Len(masters)
      BY <1>0, Options DEF TypeInv
    <3>4. m \in DOMAIN masterfile /\ m \in DOMAIN filemap
      BY <1>0, <1>2, <3>1, <3>3, Numbered
    <3>5. DOMAIN filemap' = 1 .. Len(filemap')
      BY <1>0 DEF TypeInv, FilemapInv
    <3>6. m \in DOMAIN filemap'
      BY <1>0, <1>2, <3>2, <3>3, <3>5
    <3>7. masterfile[m].blocks \in Nat
      BY <1>0, <3>4, BlocksOf DEF TypeInv
    <3>8. /\ filemap[m] \in [0 .. masterfile[m].blocks - 1 -> Seq(Nat)]
          /\ filemap'[m] \in [0 .. masterfile[m].blocks - 1 -> Seq(Nat)]
      BY <1>0, <1>4, <3>4, <3>6 DEF TypeInv, FilemapInv
    <3>9. QED  BY <3>4, <3>7, <3>8
  <2>2. Held(m) /\ Covered(m, p, b)
    BY <1>0, <1>2, <1>4, <2>1 DEF CoveredInv, Held, holds
  <2> DEFINE Before == { r \in Range(report) : Covers(r, m, p, b) }
             After == { r \in Range(report') : Covers(r, m, p, b) }
             One(runs) == \A r, s \in runs : /\ r.file_offset = s.file_offset
                                             /\ r.len = s.len
                                             /\ r # s => r.len = blocksize
  <2>3. covering(m, p, b) = Before /\ covering(m, p, b)' = After
    BY <1>0, CoveringGrows
  <2>4. IF Past(m, p, b)
        THEN (Before # {} <=> filemap[m][b] # << >>) /\ One(Before)
        ELSE Before = {}
    BY <2>2, <2>3 DEF Covered, Agreed
  <2>5. ASSUME IF Past(m, p, b)'
               THEN (After # {} <=> filemap'[m][b] # << >>) /\ One(After)
               ELSE After = {}
        PROVE  Covered(m, p, b)'
    BY <1>0, <2>3, <2>5 DEF Covered, Agreed
  <2> HIDE DEF One
  <2>6. CASE ReportNotFound
    <3>1. /\ pc = "report" /\ pc' = "report" /\ t' = t /\ pass' = pass
          /\ tb' = tb + 1 /\ report' = report /\ filemap' = filemap
          /\ filemap[t][tb] = << >>
      BY <2>6 DEF ReportNotFound, InReport, places, found
    <3>2. Past(m, p, b)' <=> Past(m, p, b) \/ (m = t /\ p = pass /\ b = tb)
      BY <1>0, <1>2, <2>1, <3>1 DEF Past
    <3>3. After = Before
      BY <3>1
    <3>4. CASE m = t /\ p = pass /\ b = tb /\ ~ Past(m, p, b)
      <4>1. Before = {} /\ filemap'[m][b] = << >>
        BY <2>4, <3>1, <3>4
      <4>2. One({})
        BY DEF One
      <4>3. QED  BY <2>5, <3>2, <3>3, <3>4, <4>1, <4>2
    <3>5. CASE ~ (m = t /\ p = pass /\ b = tb /\ ~ Past(m, p, b))
      BY <2>4, <2>5, <3>1, <3>2, <3>3, <3>5
    <3>6. QED  BY <3>4, <3>5
  <2>7. CASE ReportRun
    <3> DEFINE n == run_blocks
               r == run(tb, places[1], run_bytes(n))
    <3>1. /\ pc = "report" /\ n \in Nat \ {0} /\ places[1] \in Nat
          /\ tb + n <= masterfile[t].blocks
          /\ tb' = tb + n
          /\ \A i \in 0 .. n - 1 : contains(filemap[t][tb + i], places[1] + i)
          /\ Range(report') = Range(report) \cup {r}
      BY <1>0, <2>7, ReportRunAppends
    <3>2. pc' = "report" /\ t' = t /\ pass' = pass /\ filemap' = filemap
      BY <2>7 DEF ReportRun, InReport, found
    <3> HIDE DEF n
    <3>3. Past(m, p, b)' <=> Past(m, p, b) \/ (m = t /\ p = pass /\ b \in tb .. tb + n - 1)
      BY <1>0, <1>2, <2>1, <3>1, <3>2 DEF Past
    <3>4. CASE m = t
      <4>1. run_bytes(n) = n * blocksize
        BY <1>0, <2>2, <3>1, <3>4, RunBytes
      <4>2. Covers(r, m, p, b) <=> m = t /\ p = pass /\ b \in tb .. tb + n - 1
        BY <1>0, <1>2, <2>1, <3>1, <4>1, RunCovers
      <4> HIDE DEF r
      <4>3. CASE p = pass /\ b \in tb .. tb + n - 1
        <5>1. ~ Past(m, p, b)
          BY <1>0, <2>1, <3>1, <3>4, <4>3 DEF Past
        <5>2. After = {r}
          BY <2>4, <3>1, <3>4, <4>2, <4>3, <5>1
        <5>3. One({r})
          BY DEF One
        <5>4. filemap[m][b] # << >>
          <6>1. b - tb \in 0 .. n - 1 /\ tb + (b - tb) = b
            BY <1>0, <3>1, <4>3
          <6>2. contains(filemap[t][b], places[1] + (b - tb))
            BY <3>1, <6>1
          <6>3. QED  BY <3>4, <6>2 DEF contains
        <5>5. QED  BY <2>5, <3>2, <3>3, <3>4, <4>3, <5>2, <5>3, <5>4
      <4>4. CASE ~ (p = pass /\ b \in tb .. tb + n - 1)
        <5>1. After = Before
          BY <3>1, <4>2, <4>4
        <5>2. QED  BY <2>4, <2>5, <3>2, <3>3, <4>4, <5>1
      <4>5. QED  BY <4>3, <4>4
    <3>5. CASE m # t
      <4>1. ~ Covers(r, m, p, b)
        BY <3>5 DEF Covers, run
      <4> HIDE DEF r
      <4>2. After = Before
        BY <3>1, <4>1
      <4>3. QED  BY <2>4, <2>5, <3>2, <3>3, <3>5, <4>2
    <3>6. QED  BY <3>4, <3>5
  <2>8. CASE ReportBlock
    <3> DEFINE r(n) == run(tb, n, run_bytes(1))
    <3>1. /\ pc = "report" /\ tb < masterfile[t].blocks /\ tb' = tb + 1
          /\ places \in Seq(Nat) /\ places # << >> /\ places = filemap[t][tb]
          /\ Range(report') = Range(report) \cup { r(n) : n \in Range(places) }
      BY <1>0, <2>8, ReportBlockAppends
    <3>2. pc' = "report" /\ t' = t /\ pass' = pass /\ filemap' = filemap
      BY <2>8 DEF ReportBlock, InReport, found
    <3>3. Past(m, p, b)' <=> Past(m, p, b) \/ (m = t /\ p = pass /\ b = tb)
      BY <1>0, <1>2, <2>1, <3>1, <3>2 DEF Past
    <3>4. CASE m = t
      <4>1. run_bytes(1) = 1 * blocksize /\ 1 * blocksize = blocksize
        <5>0. masterfile[t].blocks \in Nat /\ tb \in Nat
          BY <1>0, <2>1, <3>4
        <5>1. tb + 1 <= masterfile[t].blocks
          BY <3>1, <5>0
        <5>5. blocksize \in Nat
          BY <1>0, Options DEF TypeInv
        <5>2. Held(t)
          BY <2>2, <3>4
        <5>3. run_bytes(1) = 1 * blocksize
          BY <1>0, <3>1, <5>1, <5>2, RunBytes
        <5>4. QED  BY <5>3, <5>5
      <4>2. \A n \in Range(places) : Covers(r(n), m, p, b) <=> p = pass /\ b = tb
        <5>1. tb .. tb + 1 - 1 = {tb}
          BY <1>0
        <5>2. QED  BY <1>0, <1>2, <2>1, <3>1, <3>4, <4>1, <5>1, RunCovers
      <4>3. \A n \in Range(places) : r(n).file_offset = tb * blocksize /\ r(n).len = blocksize
        BY <4>1 DEF run
      <4> HIDE DEF r
      <4>4. CASE p = pass /\ b = tb
        <5>1. ~ Past(m, p, b)
          BY <1>0, <2>1, <3>1, <3>4, <4>4 DEF Past
        <5>2. After = { r(n) : n \in Range(places) }
          BY <2>4, <3>1, <4>2, <4>4, <5>1
        <5>3. One(After)
          BY <4>3, <5>2 DEF One
        <5>4. After # {}
          <6>1. 1 \in DOMAIN places
            BY <3>1
          <6>2. places[1] \in Range(places)
            BY <6>1 DEF Range
          <6>3. QED  BY <5>2, <6>2
        <5>5. filemap'[m][b] # << >>
          BY <3>1, <3>2, <3>4, <4>4
        <5>6. QED  BY <2>5, <3>3, <3>4, <4>4, <5>3, <5>4, <5>5
      <4>5. CASE ~ (p = pass /\ b = tb)
        <5>1. After = Before
          BY <3>1, <4>2, <4>5
        <5>2. QED  BY <2>4, <2>5, <3>2, <3>3, <4>5, <5>1
      <4>6. QED  BY <4>4, <4>5
    <3>5. CASE m # t
      <4>1. \A n : ~ Covers(r(n), m, p, b)
        BY <3>5 DEF Covers, run
      <4> HIDE DEF r
      <4>2. After = Before
        BY <3>1, <4>1
      <4>3. QED  BY <2>4, <2>5, <3>2, <3>3, <3>5, <4>2
    <3>6. QED  BY <3>4, <3>5
  <2>9. CASE ReportTail
    <3>1. /\ pc = "report" /\ tb >= masterfile[t].blocks
          /\ \/ report' = report
             \/ /\ extra_bytes # 0 /\ size(filemap[t]) > 0
                /\ Range(report') = Range(report) \cup Range(tailRuns)
      BY <1>0, <2>9, ReportTailAppends
    <3>2. /\ filemap' = filemap
          /\ \/ pass = "raw" /\ pc' = "clean" /\ t' = t
             \/ pass # "raw" /\ pc' = "master" /\ t' = t + 1
      BY <2>9 DEF ReportTail, found
    <3>3. pass \in {"raw", "clean"}
      BY DEF Unreported
    <3>4. Past(m, p, b)' <=> Past(m, p, b)
      BY <1>0, <1>2, <2>1, <3>1, <3>2, <3>3 DEF Past
    <3>5. After = Before
      <4>1. CASE report' = report
        BY <4>1
      <4>2. CASE /\ extra_bytes # 0 /\ size(filemap[t]) > 0
                 /\ Range(report') = Range(report) \cup Range(tailRuns)
        <5>1. ASSUME NEW r \in Range(tailRuns)
              PROVE  ~ Covers(r, m, p, b)
          <6>1. r.file_offset = masterfile[t].blocks * blocksize
            BY <1>0, <3>1, <4>2, <5>1, TailIsTrue
          <6>2. CASE m = t
            BY <1>0, <2>1, <3>1, <6>1, <6>2, TailCoversNothing
          <6>3. CASE m # t
            <7>1. r.master = t
              BY <1>0, <3>1, <4>2, <5>1, TailIsTrue
            <7>2. QED  BY <6>3, <7>1 DEF Covers
          <6>4. QED  BY <6>2, <6>3
        <5>2. QED  BY <4>2, <5>1
      <4>3. QED  BY <3>1, <4>1, <4>2
    <3>6. QED  BY <2>4, <2>5, <3>2, <3>4, <3>5
  <2>10. CASE ReportRaw
    <3>1. /\ pc = "master" /\ pc' = "report" /\ pass' = "raw" /\ tb' = 0 /\ t' = t
          /\ report' = report /\ filemap' = filemap
      BY <2>10 DEF ReportRaw, StartReport
    <3>2. Past(m, p, b)' <=> Past(m, p, b)
      BY <1>0, <1>2, <2>1, <3>1 DEF Past
    <3>3. QED  BY <2>4, <2>5, <3>1, <3>2
  <2>11. CASE CleanAndReport
    <3>1. /\ pc = "clean" \/ (pc = "master" /\ ~ cmd.raw)
          /\ pc' = "report" /\ pass' = "clean" /\ tb' = 0 /\ t' = t
          /\ report' = report
          /\ filemap' = [filemap EXCEPT ![t] = clean(@)]
      BY <2>11 DEF CleanAndReport, StartReport
    <3>2. Past(m, p, b)' <=> Past(m, p, b)
      BY <1>0, <1>2, <2>1, <3>1 DEF Past, Passes
    <3>3. filemap'[m][b] = << >> <=> filemap[m][b] = << >>
      <4>1. CASE m # t
        BY <2>1, <3>1, <4>1
      <4>2. CASE m = t
        <5>1. filemap'[m] = clean(filemap[m])
          BY <2>1, <3>1, <4>2
        <5>2. Narrowed(filemap'[m][b], filemap[m][b])
          BY <2>1, <5>1, CleanNarrows
        <5>3. filemap'[m][b] \in Seq(Nat) /\ filemap[m][b] \in Seq(Nat)
          BY <2>1
        <5>4. QED  BY <5>2, <5>3, NarrowedRange
      <4>3. QED  BY <4>1, <4>2
    <3>4. QED  BY <2>4, <2>5, <3>1, <3>2, <3>3
  <2>12. CASE Finish
    <3>1. pc = "master" /\ pc' = "done" /\ t' = t /\ report' = report /\ filemap' = filemap
      BY <2>12 DEF Finish, ExitWith, printing, found
    <3>2. Past(m, p, b)' <=> Past(m, p, b)
      BY <3>1 DEF Past
    <3>3. QED  BY <2>4, <2>5, <3>1, <3>2
  <2>13. CASE UNCHANGED vars
    <3>1. pc' = pc /\ t' = t /\ tb' = tb /\ pass' = pass /\ report' = report /\ filemap' = filemap
      BY <2>13 DEF vars, printing, found
    <3>2. Past(m, p, b)' <=> Past(m, p, b)
      BY <3>1 DEF Past
    <3>3. QED  BY <2>4, <2>5, <3>1, <3>2
  <2>14. QED
    BY <1>4, <2>6, <2>7, <2>8, <2>9, <2>10, <2>11, <2>12, <2>13
    DEF Next, Step, RejectOptions, AcceptOptions, NoMemory, OpenImageFails, OpenImage,
        OpenMasterFails, HashFileFails, OpenMaster, LoadBlock, LoadEnd, StartScan,
        ScanBlock, ScanEnd, ReportTailOfNothing, AtReportEnd, Shrink, ExitWith
<1>5. QED  BY <1>1, <1>3, <1>4

\* The end comes behind the last master.
LEMMA NextFinished ==
  ASSUME TypeInv, Finished, [Next]_vars
  PROVE  Finished'
<1>1. masters' = masters
  BY Constant
<1>2. CASE Finish
  BY <1>1, <1>2 DEF Finish, ExitWith, printing, Finished
<1>3. CASE ~ Finish /\ pc' = "done"
  <2>1. pc = "done" /\ t' = t
    BY <1>3 DEF Next, Step, vars, input, loaded, block, found, printing, RejectOptions,
         AcceptOptions, NoMemory, OpenImageFails, OpenImage, OpenMasterFails,
         HashFileFails, OpenMaster, LoadBlock, LoadEnd, StartScan, ScanBlock, ScanEnd,
         ReportRaw, CleanAndReport, StartReport, ReportNotFound, ReportRun, ReportBlock,
         InReport, ReportTail, AtReportEnd, ReportTailOfNothing, Shrink, ExitWith
  <2>2. QED  BY <1>1, <2>1 DEF Finished
<1>4. QED  BY <1>2, <1>3 DEF Finished

\* The invariant at the start, and its steps.
LEMMA SpecCovered ==
  ASSUME Collisionless, SmallMasters
  PROVE  Spec => []CoverInv
<1>1. Init => CoverInv
  <2> SUFFICES ASSUME Init PROVE CoverInv
    OBVIOUS
  <2>1. SearchInv
    BY InitSearch
  <2>2. GenuineInv
    BY InitGenuine
  <2>3. Finished /\ CoveredInv
    BY DEF Init, Finished, CoveredInv
  <2>4. QED  BY <2>1, <2>2, <2>3 DEF CoverInv, GenuineInv
<1>2. CoverInv /\ [Next]_vars => CoverInv'
  <2> SUFFICES ASSUME CoverInv, [Next]_vars PROVE CoverInv'
    OBVIOUS
  <2>1. SearchInv /\ Unreported /\ Finished /\ CoveredInv /\ TypeInv
    BY DEF CoverInv, SearchInv, WhereInv
  <2>2. SearchInv'
    BY <2>1, NextSearch
  <2>3. Unreported' /\ Finished'
    BY <2>1, NextUnreported, NextFinished
  <2>4. CoveredInv'
    BY <2>1, <2>2, NextCovered
  <2>5. QED  BY <2>2, <2>3, <2>4 DEF CoverInv
<1>3. QED  BY <1>1, <1>2, PTL DEF Spec

\* When the program has ended every block has been dealt with.
LEMMA CoveredAtEnd ==
  ASSUME CoverInv
  PROVE  ReportCoversFound
<1> SUFFICES ASSUME pc = "done", NEW m \in DOMAIN masters, holds(masters[m], masterfile[m])
             PROVE  /\ \A p \in Passes : \A b \in DOMAIN filemap[m] :
                         /\ covering(m, p, b) # {} <=> filemap[m][b] # << >>
                         /\ Agreed(m, p, b)
                    /\ found_count(filemap[m]) =
                         Cardinality({ b \in DOMAIN filemap[m] : covering(m, "clean", b) # {} })
  BY DEF ReportCoversFound, Passes, Agreed
<1>1. TypeInv
  BY DEF CoverInv, SearchInv, WhereInv
<1>2. m \in Nat /\ m <= Len(masters) /\ Len(masters) \in Nat
  BY <1>1, Options DEF TypeInv
<1>3. m < t
  BY <1>1, <1>2 DEF CoverInv, Finished, TypeInv
<1>4. ASSUME NEW p \in Passes, NEW b \in DOMAIN filemap[m]
      PROVE  /\ covering(m, p, b) # {} <=> filemap[m][b] # << >>
             /\ Agreed(m, p, b)
  <2>1. Covered(m, p, b)
    BY DEF CoverInv, CoveredInv, Held
  <2>2. Past(m, p, b)
    BY <1>3 DEF Past
  <2>3. QED  BY <2>1, <2>2 DEF Covered
<1>5. \A b \in DOMAIN filemap[m] : Len(filemap[m][b]) > 0 <=> filemap[m][b] # << >>
  <2>1. m \in DOMAIN filemap
    BY <1>1, <1>2, Numbered DEF TypeInv, Opened
  <2>2. \A b \in DOMAIN filemap[m] : filemap[m][b] \in Seq(Nat)
    BY <1>1, <2>1 DEF TypeInv, FilemapInv
  <2>3. QED  BY <2>2
<1>6. { b \in DOMAIN filemap[m] : Len(filemap[m][b]) > 0 } =
      { b \in DOMAIN filemap[m] : covering(m, "clean", b) # {} }
  BY <1>4, <1>5 DEF Passes
<1>7. QED  BY <1>4, <1>6 DEF found_count

(***************************************************************************)
(* When the program has ended, each report on a master that has the blocks *)
(* open() counted accounts for each of them, and the number of blocks      *)
(* found that is printed is that of the blocks the report covers.          *)
(***************************************************************************)
THEOREM ReportIsComplete ==
  ASSUME Collisionless, SmallMasters
  PROVE  Spec => []ReportCoversFound
<1>1. CoverInv => ReportCoversFound  BY CoveredAtEnd
<1>2. Spec => []CoverInv  BY SpecCovered
<1>3. QED  BY <1>1, <1>2, PTL

-----------------------------------------------------------------------------
(***************************************************************************)
(* The runs of a master put one after the other.                           *)
(***************************************************************************)
\* What a run names in a file is a sequence of bytes.
LEMMA PartTyped ==
  ASSUME NEW file \in Files, NEW m, NEW r \in RunRecords
  PROVE  part(file, m, r) \in Seq(Bytes)
<1>1. file.bytes \in Seq(Bytes) /\ Len(file.bytes) \in Nat
  BY DEF Files
<1>2. r.len \in Int /\ r.img_offset \in Nat
  BY DEF RunRecords
<1> DEFINE last == IF r.img_offset + r.len <= Len(file.bytes)
                   THEN r.img_offset + r.len ELSE Len(file.bytes)
<1>3. last \in Int /\ last <= Len(file.bytes)
  BY <1>1, <1>2
<1>4. pread(file, r.len, r.img_offset) = SubSeq(file.bytes, r.img_offset + 1, last)
  BY DEF pread
<1> HIDE DEF last
<1>5. pread(file, r.len, r.img_offset) \in Seq(Bytes)
  BY <1>1, <1>2, <1>3, <1>4
<1>6. QED  BY <1>5 DEF part

\* The first j runs joined, for each j.
Joins(u, file, m, runs) ==
  /\ u \in [0 .. Len(runs) -> Seq(Bytes)]
  /\ u[0] = << >>
  /\ \A j \in 1 .. Len(runs) : u[j] = u[j - 1] \o part(file, m, runs[j])
  /\ joined(file, m, runs) = u[Len(runs)]

\* The recursive function of joined() exists.
LEMMA JoinedUnfolds ==
  ASSUME NEW file \in Files, NEW m, NEW runs \in Seq(RunRecords)
  PROVE  \E u : Joins(u, file, m, runs)
<1> DEFINE n == Len(runs)
           P(u) == u = [j \in 0 .. n |->
                         IF j = 0 THEN << >> ELSE u[j - 1] \o part(file, m, runs[j])]
           step == [i \in Nat |-> [s \in Seq(Bytes) |->
                     IF i \in 1 .. n THEN s \o part(file, m, runs[i]) ELSE << >>]]
<1>1. n \in Nat /\ \A i \in 1 .. n : runs[i] \in RunRecords
  OBVIOUS
<1>2. step \in Steps(Seq(Bytes))
  <2>1. ASSUME NEW i \in 1 .. n, NEW s \in Seq(Bytes)
        PROVE  s \o part(file, m, runs[i]) \in Seq(Bytes)
    <3>1. part(file, m, runs[i]) \in Seq(Bytes)
      BY <1>1, PartTyped
    <3>2. QED  BY <3>1
  <2>2. << >> \in Seq(Bytes)
    OBVIOUS
  <2> HIDE DEF n
  <2>3. QED  BY <2>1, <2>2 DEF Steps
<1>3. << >> \in Seq(Bytes)
  OBVIOUS
<1> HIDE DEF step, n
<1>4. PICK g : IsIteration(g, Seq(Bytes), << >>, step, n)
  BY ONLY <1>1, <1>2, <1>3, Iterates
<1>5. /\ g \in [0 .. n -> Seq(Bytes)]
      /\ g[0] = << >>
      /\ \A i \in 0 .. n - 1 : g[i + 1] = step[i + 1][g[i]]
  BY <1>4 DEF IsIteration
<1>6. ASSUME NEW j \in 1 .. n
      PROVE  g[j] = g[j - 1] \o part(file, m, runs[j])
  <2>1. j - 1 \in 0 .. n - 1 /\ (j - 1) + 1 = j /\ j - 1 \in 0 .. n /\ j \in Nat
    BY <1>1
  <2>2. g[j] = step[j][g[j - 1]] /\ g[j - 1] \in Seq(Bytes)
    BY <1>5, <2>1
  <2>3. QED  BY <2>1, <2>2 DEF step
<1>7. P(g)
  <2>1. ASSUME NEW j \in 0 .. n
        PROVE  g[j] = IF j = 0 THEN << >> ELSE g[j - 1] \o part(file, m, runs[j])
    <3>1. CASE j = 0
      BY <1>5, <3>1
    <3>2. CASE j # 0
      <4>1. j \in 1 .. n
        BY <1>1, <3>2
      <4>2. QED  BY <1>6, <3>2, <4>1
    <3>3. QED  BY <3>1, <3>2
  <2>2. g = [j \in 0 .. n |-> g[j]]
    BY <1>5
  <2>3. QED  BY <2>1, <2>2
<1>8. joined(file, m, runs) = (CHOOSE u : P(u))[n]
  BY DEF joined, n
<1> DEFINE w == CHOOSE u : P(u)
<1>9. P(w)
  <2> HIDE DEF P
  <2>1. QED  BY <1>7
<1> HIDE DEF w
<1>10. /\ w[0] = << >>
       /\ \A j \in 1 .. n : w[j] = w[j - 1] \o part(file, m, runs[j])
       /\ w = [j \in 0 .. n |-> w[j]]
  BY <1>1, <1>9
<1>11. \A j \in 0 .. n : w[j] = g[j]
  <2> DEFINE Good == { j \in Nat : j <= n => w[j] = g[j] }
  <2>1. 0 \in Good
    BY <1>5, <1>10
  <2>2. ASSUME NEW j \in Nat, j \in Good
        PROVE  j + 1 \in Good
    <3> SUFFICES ASSUME j + 1 <= n PROVE w[j + 1] = g[j + 1]
      OBVIOUS
    <3>1. j + 1 \in 1 .. n /\ (j + 1) - 1 = j /\ w[j] = g[j]
      BY <1>1, <2>2
    <3>2. QED  BY <1>6, <1>10, <3>1
  <2>3. Nat \subseteq Good
    <3> HIDE DEF Good
    <3>1. QED  BY <2>1, <2>2, NaturalInduction
  <2>4. QED  BY <1>1, <2>3
<1>12. w \in [0 .. n -> Seq(Bytes)]
  BY <1>5, <1>10, <1>11
<1>13. joined(file, m, runs) = w[n]
  BY <1>8 DEF w
<1>14. QED  BY <1>10, <1>12, <1>13 DEF Joins, n

\* Nothing joined is nothing.
LEMMA JoinedNone ==
  ASSUME NEW file \in Files, NEW m
  PROVE  joined(file, m, << >>) = << >>
<1>1. << >> \in Seq(RunRecords) /\ Len(<< >>) = 0
  OBVIOUS
<1>2. PICK u : Joins(u, file, m, << >>)
  BY <1>1, JoinedUnfolds
<1>3. QED  BY <1>1, <1>2 DEF Joins

\* The first n runs joined, and then each of the others.
GoesOn(w, file, m, runs, more, n) ==
  /\ w \in [0 .. n + Len(more) -> Seq(Bytes)]
  /\ w[n] = joined(file, m, runs)
  /\ \A i \in 1 .. Len(more) : w[n + i] = w[n + i - 1] \o part(file, m, more[i])
  /\ joined(file, m, runs \o more) = w[n + Len(more)]

(***************************************************************************)
(* More runs after the first ones leave those as they are: the joining of  *)
(* the longer report begins as the joining of the shorter one.             *)
(***************************************************************************)
LEMMA JoinedBegins ==
  ASSUME NEW file \in Files, NEW m, NEW runs \in Seq(RunRecords), NEW more \in Seq(RunRecords),
         NEW n, n = Len(runs)
  PROVE  \E w : GoesOn(w, file, m, runs, more, n)
<1> DEFINE all == runs \o more
<1>1. /\ all \in Seq(RunRecords) /\ Len(all) = n + Len(more)
      /\ n \in Nat /\ Len(more) \in Nat
      /\ \A j \in 1 .. n : all[j] = runs[j]
      /\ \A i \in 1 .. Len(more) : all[n + i] = more[i]
  OBVIOUS
<1> HIDE DEF all
<1>2. PICK u : Joins(u, file, m, runs)
  BY JoinedUnfolds
<1>3. PICK w : Joins(w, file, m, all)
  BY <1>1, JoinedUnfolds
<1>4. /\ u[0] = << >> /\ w[0] = << >>
      /\ \A j \in 1 .. n : u[j] = u[j - 1] \o part(file, m, runs[j])
      /\ \A j \in 1 .. n + Len(more) : w[j] = w[j - 1] \o part(file, m, all[j])
      /\ joined(file, m, runs) = u[n]
      /\ w \in [0 .. n + Len(more) -> Seq(Bytes)]
      /\ joined(file, m, all) = w[n + Len(more)]
  BY <1>1, <1>2, <1>3 DEF Joins
<1> DEFINE Good == { j \in Nat : j <= n => w[j] = u[j] }
<1>5. 0 \in Good
  BY <1>4
<1>6. ASSUME NEW j \in Nat, j \in Good
      PROVE  j + 1 \in Good
  <2> SUFFICES ASSUME j + 1 <= n PROVE w[j + 1] = u[j + 1]
    OBVIOUS
  <2>1. /\ j + 1 \in 1 .. n /\ j + 1 \in 1 .. n + Len(more) /\ (j + 1) - 1 = j
    BY <1>1
  <2>2. w[j] = u[j]
    BY <1>1, <1>6
  <2>3. all[j + 1] = runs[j + 1]
    BY <1>1, <2>1
  <2>4. w[j + 1] = w[j] \o part(file, m, all[j + 1])
    BY <1>4, <2>1
  <2>5. u[j + 1] = u[j] \o part(file, m, runs[j + 1])
    BY <1>4, <2>1
  <2>6. QED  BY <2>2, <2>3, <2>4, <2>5
<1>7. n \in Good
  <2> HIDE DEF Good
  <2>1. QED  BY <1>1, <1>5, <1>6, NaturalInduction
<1>8. w[n] = joined(file, m, runs)
  BY <1>1, <1>4, <1>7
<1>9. ASSUME NEW i \in 1 .. Len(more)
      PROVE  w[n + i] = w[n + i - 1] \o part(file, m, more[i])
  <2> HIDE DEF all, Good
  <2>0. PICK j : j = n + i
    OBVIOUS
  <2>1. j \in 1 .. n + Len(more)
    BY <1>1, <2>0
  <2>1a. w[j] = w[j - 1] \o part(file, m, all[j])
    BY <1>4, <2>1
  <2>2. all[j] = more[i]
    BY <1>1, <2>0
  <2>3. w[j] = w[j - 1] \o part(file, m, more[i])
    BY <2>1a, <2>2
  <2>4. j - 1 = n + i - 1
    BY <1>1, <2>0
  <2>5. w[n + i] = w[j] /\ w[n + i - 1] = w[j - 1]
    BY <2>0, <2>4
  <2>6. QED  BY <2>3, <2>5
<1>10. GoesOn(w, file, m, runs, more, n)
  BY <1>4, <1>8, <1>9 DEF GoesOn, all
<1>11. QED  BY <1>10

\* One more run adds what it names.
LEMMA JoinedOne ==
  ASSUME NEW file \in Files, NEW m, NEW runs \in Seq(RunRecords), NEW r \in RunRecords
  PROVE  joined(file, m, runs \o << r >>) = joined(file, m, runs) \o part(file, m, r)
<1> DEFINE one == << r >>
<1>1. one \in Seq(RunRecords) /\ Len(one) = 1 /\ one[1] = r
  OBVIOUS
<1> HIDE DEF one
<1>2. PICK n : n = Len(runs)
  OBVIOUS
<1>3. PICK w : GoesOn(w, file, m, runs, one, n)
  BY <1>1, <1>2, JoinedBegins
<1>4. n \in Nat
  BY <1>2
<1>5. w[n + 1] = w[n + 1 - 1] \o part(file, m, one[1])
  BY <1>1, <1>3 DEF GoesOn
<1>6. w[n] = joined(file, m, runs) /\ joined(file, m, runs \o one) = w[n + 1]
  BY <1>1, <1>3 DEF GoesOn
<1>7. n + 1 - 1 = n
  BY <1>4
<1>8. QED  BY <1>1, <1>5, <1>6, <1>7 DEF one

\* Runs of other masters, and of the report before clean(), add nothing.
LEMMA JoinedOther ==
  ASSUME NEW file \in Files, NEW m, NEW runs \in Seq(RunRecords), NEW more \in Seq(RunRecords),
         \A i \in 1 .. Len(more) : part(file, m, more[i]) = << >>
  PROVE  joined(file, m, runs \o more) = joined(file, m, runs)
<1>1. PICK n : n = Len(runs)
  OBVIOUS
<1>2. PICK w : GoesOn(w, file, m, runs, more, n)
  BY <1>1, JoinedBegins
<1>3. n \in Nat /\ Len(more) \in Nat
  BY <1>1
<1>4. /\ w \in [0 .. n + Len(more) -> Seq(Bytes)]
      /\ w[n] = joined(file, m, runs)
      /\ \A i \in 1 .. Len(more) : w[n + i] = w[n + i - 1] \o part(file, m, more[i])
      /\ joined(file, m, runs \o more) = w[n + Len(more)]
  BY <1>2 DEF GoesOn
<1> DEFINE Good == { i \in Nat : i <= Len(more) => w[n + i] = w[n] }
<1>5. 0 \in Good
  BY <1>3
<1>6. ASSUME NEW i \in Nat, i \in Good
      PROVE  i + 1 \in Good
  <2> SUFFICES ASSUME i + 1 <= Len(more) PROVE w[n + (i + 1)] = w[n]
    OBVIOUS
  <2>1. /\ i + 1 \in 1 .. Len(more) /\ n + (i + 1) - 1 = n + i
        /\ n + i \in 0 .. n + Len(more)
    BY <1>3
  <2>2. w[n + i] = w[n]
    BY <1>3, <1>6
  <2>3. w[n + (i + 1)] = w[n + (i + 1) - 1] \o part(file, m, more[i + 1])
    BY <1>4, <2>1
  <2>4. w[n + i] \in Seq(Bytes)
    BY <1>4, <2>1
  <2>5. w[n + i] \o << >> = w[n + i]
    BY <2>4
  <2>6. part(file, m, more[i + 1]) = << >>
    BY <2>1
  <2>7. QED  BY <2>1, <2>2, <2>3, <2>5, <2>6
<1>7. Len(more) \in Good
  <2> HIDE DEF Good
  <2>1. QED  BY <1>3, <1>5, <1>6, NaturalInduction
<1>8. w[n + Len(more)] = w[n]
  BY <1>3, <1>7
<1>9. QED  BY <1>4, <1>8

-----------------------------------------------------------------------------
(***************************************************************************)
(* What is joined while a report is printed.                               *)
(***************************************************************************)
\* open() counted the blocks of each master.
Sized == \A m \in DOMAIN masterfile : masterfile[m] = opened(masters[m])

\* There is a copy of master m, and the report takes the bytes behind its last
\* block as well.
Copied(m) ==
  /\ cmd.x
  /\ ~ masters[m].device
  /\ \E n \in 0 .. imagefile.blocks - 1 : copyAt(m, n)

\* The whole file, or what is reported of it.
Whole(m) ==
  /\ reassembled(m) \in { head(m, wholeBytes(m)),
                          head(m, wholeBytes(m) + (masterfile[m].filesize % blocksize)) }
  /\ Copied(m) => reassembled(m) = masters[m].bytes

\* The blocks the cleaned report has dealt with are there, and nothing else.
Growing(m) ==
  /\ tb <= masterfile[m].blocks
  /\ reassembled(m) = head(m, tb * blocksize)

\* What is joined of a master before, in and after its cleaned report.
Reassembly(m) ==
  /\ m < t => (SingleLocations(m) => Whole(m))
  /\ m = t /\ pc = "report" /\ pass = "clean" => (SingleLocations(m) => Growing(m))
  /\ m > t \/ (m = t /\ ~ (pc = "report" /\ pass = "clean")) => reassembled(m) = << >>

\* A copy is found, and clean() does not take it away.
CopyFound(m) ==
  \A n \in 0 .. imagefile.blocks - 1 : copyAt(m, n) => OnCopy(filemap[m], n)

\* The same of all masters, from the end of the scan on.
JoinedInv ==
  Intact /\ pc \in {"master", "clean", "report", "done"} =>
    \A m \in DOMAIN masters : Reassembly(m) /\ CopyFound(m)

\* The inductive invariant of what is reassembled.
ReassemblyInv == GenuineInv /\ Finished /\ Sized /\ JoinedInv

\* A part of a file that was read whole.
LEMMA PartOfCopy ==
  ASSUME NEW f \in Files, NEW g \in Files, NEW a \in Nat, NEW o \in Nat, NEW l \in Nat \ {0},
         pread(f, Len(g.bytes), a) = g.bytes, o + l <= Len(g.bytes)
  PROVE  /\ pread(f, l, a + o) = pread(g, l, o)
         /\ Len(pread(g, l, o)) = l
<1> DEFINE fb == f.bytes
           gb == g.bytes
           N == Len(gb)
<1>1. fb \in Seq(Bytes) /\ gb \in Seq(Bytes) /\ N \in Nat /\ Len(fb) \in Nat
  BY DEF Files
<1>2. gb = SubSeq(fb, a + 1, IF a + N <= Len(fb) THEN a + N ELSE Len(fb)) /\ o + l <= N
  BY DEF pread
<1>3. /\ pread(f, l, a + o) =
           SubSeq(fb, a + o + 1, IF a + o + l <= Len(fb) THEN a + o + l ELSE Len(fb))
      /\ pread(g, l, o) = SubSeq(gb, o + 1, o + l)
  BY <1>2 DEF pread
<1> HIDE DEF fb, gb, N
<1>3a. N = Len(gb)
  BY DEF N
<1>4. a + N <= Len(fb)
  <2> SUFFICES ASSUME ~ (a + N <= Len(fb)) PROVE FALSE
    OBVIOUS
  <2>1. gb = SubSeq(fb, a + 1, Len(fb))
    BY <1>2
  <2>2. Len(gb) = IF a + 1 <= Len(fb) THEN Len(fb) - (a + 1) + 1 ELSE 0
    BY <1>1, <2>1
  <2>3. QED  BY <1>1, <1>2, <1>3a, <2>2
<1>5. gb = SubSeq(fb, a + 1, a + N)
  BY <1>2, <1>4
<1>6. a + o + l <= Len(fb)
  BY <1>1, <1>2, <1>4
<1>7. \A j \in 1 .. N : gb[j] = fb[a + j]
  BY <1>1, <1>4, <1>5
<1> DEFINE sf == SubSeq(fb, a + o + 1, a + o + l)
           sg == SubSeq(gb, o + 1, o + l)
<1>8. /\ sf \in Seq(Bytes) /\ Len(sf) = l /\ \A j \in 1 .. l : sf[j] = fb[a + o + j]
  BY <1>1, <1>6
<1>9. /\ sg \in Seq(Bytes) /\ Len(sg) = l /\ \A j \in 1 .. l : sg[j] = gb[o + j]
  BY <1>1, <1>2, <1>3a
<1> HIDE DEF sf, sg
<1>10. ASSUME NEW j \in 1 .. l
       PROVE  sf[j] = sg[j]
  <2>1. o + j \in 1 .. N /\ a + (o + j) = a + o + j
    BY <1>1, <1>2
  <2>2. gb[o + j] = fb[a + (o + j)]
    BY <1>7, <2>1
  <2>3. QED  BY <1>8, <1>9, <2>1, <2>2
<1>11. sf = sg
  <2>1. sf = [j \in 1 .. l |-> sf[j]] /\ sg = [j \in 1 .. l |-> sg[j]]
    BY <1>8, <1>9
  <2>2. [j \in 1 .. l |-> sf[j]] = [j \in 1 .. l |-> sg[j]]
    BY <1>10
  <2>3. QED  BY <2>1, <2>2
<1>12. pread(f, l, a + o) = sf /\ pread(g, l, o) = sg
  BY <1>3, <1>6 DEF sf, sg
<1>13. QED  BY <1>9, <1>11, <1>12

\* The front of a file, and the bytes that follow it.
LEMMA FrontGrows ==
  ASSUME NEW f \in Files, NEW a \in Nat, NEW l \in Nat \ {0}, NEW n, n = a + l,
         Len(pread(f, l, a)) = l
  PROVE  pread(f, a, 0) \o pread(f, l, a) = pread(f, n, 0)
<1> DEFINE fb == f.bytes
<1>1. fb \in Seq(Bytes) /\ Len(fb) \in Nat /\ n \in Nat
  BY DEF Files
<1>2. pread(f, l, a) = SubSeq(fb, a + 1, IF n <= Len(fb) THEN n ELSE Len(fb))
  BY DEF pread
<1> HIDE DEF fb
<1>3. n <= Len(fb)
  <2> SUFFICES ASSUME ~ (n <= Len(fb)) PROVE FALSE
    OBVIOUS
  <2>1. l = Len(SubSeq(fb, a + 1, Len(fb)))
    BY <1>2
  <2>2. l = IF a + 1 <= Len(fb) THEN Len(fb) - (a + 1) + 1 ELSE 0
    BY <1>1, <2>1
  <2>3. QED  BY <1>1, <2>2
<1>4. /\ pread(f, a, 0) = SubSeq(fb, 1, a)
      /\ pread(f, n, 0) = SubSeq(fb, 1, n)
      /\ pread(f, l, a) = SubSeq(fb, a + 1, n)
  <2>1. 0 + 1 = 1 /\ 0 + a = a /\ 0 + n = n /\ a <= Len(fb)
    BY <1>1, <1>3
  <2>2. QED  BY <1>2, <1>3, <2>1 DEF pread, fb
<1> DEFINE x == SubSeq(fb, 1, a)
           y == SubSeq(fb, a + 1, n)
           z == SubSeq(fb, 1, n)
<1>5. /\ x \in Seq(Bytes) /\ Len(x) = a /\ \A j \in 1 .. a : x[j] = fb[j]
  BY <1>1, <1>3
<1>6. /\ y \in Seq(Bytes) /\ Len(y) = l /\ \A j \in 1 .. l : y[j] = fb[a + j]
  BY <1>1, <1>3
<1>7. /\ z \in Seq(Bytes) /\ Len(z) = n /\ \A j \in 1 .. n : z[j] = fb[j]
  BY <1>1, <1>3
<1> HIDE DEF x, y, z
<1> DEFINE w == x \o y
<1>8. w = x \o y
  OBVIOUS
<1>9. /\ w \in Seq(Bytes) /\ Len(w) = n
      /\ \A j \in 1 .. a : w[j] = x[j]
      /\ \A j \in 1 .. l : w[a + j] = y[j]
  BY <1>5, <1>6
<1> HIDE DEF w
<1>10. ASSUME NEW j \in 1 .. n
       PROVE  w[j] = z[j]
  <2>1. CASE j <= a
    BY <1>5, <1>7, <1>9, <2>1
  <2>2. CASE j > a
    <3>1. PICK i : i = j - a
      OBVIOUS
    <3>2. i \in 1 .. l /\ a + i = j
      BY <2>2, <3>1
    <3>3. w[a + i] = y[i] /\ y[i] = fb[a + i]
      BY <1>6, <1>9, <3>2
    <3>4. QED  BY <1>7, <3>2, <3>3
  <2>3. QED  BY <2>1, <2>2
<1>11. w = z
  <2>1. w = [j \in 1 .. n |-> w[j]] /\ z = [j \in 1 .. n |-> z[j]]
    BY <1>7, <1>9
  <2>2. [j \in 1 .. n |-> w[j]] = [j \in 1 .. n |-> z[j]]
    BY <1>10
  <2>3. QED  BY <2>1, <2>2
<1>12. QED  BY <1>4, <1>8, <1>11 DEF x, y, z

\* The front of a file that is nothing of it, and the one that is all of it.
LEMMA FrontEnds ==
  ASSUME NEW f \in Files
  PROVE  /\ pread(f, 0, 0) = << >>
         /\ pread(f, Len(f.bytes), 0) = f.bytes
<1> DEFINE fb == f.bytes
<1>1. fb \in Seq(Bytes) /\ Len(fb) \in Nat
  BY DEF Files
<1>2. pread(f, 0, 0) = SubSeq(fb, 1, 0) /\ pread(f, Len(fb), 0) = SubSeq(fb, 1, Len(fb))
  BY <1>1 DEF pread
<1> HIDE DEF fb
<1>3. SubSeq(fb, 1, 0) = << >> /\ SubSeq(fb, 1, Len(fb)) = fb
  BY <1>1
<1>4. QED  BY <1>2, <1>3 DEF fb

\* A step keeps what open() counted.
LEMMA NextSized ==
  ASSUME TypeInv, Sized, [Next]_vars
  PROVE  Sized'
<1>0. masters' = masters /\ blocksize' = blocksize
  BY Constant
<1>0a. \A f : opened(f)' = opened(f)
  BY <1>0 DEF opened
<1>1. CASE OpenMaster
  <2>1. /\ masterfile' = Append(masterfile, opened(masters[t]))
        /\ masterfile \in Seq(BlockFiles)
        /\ t = Len(masterfile) + 1
    BY <1>1, Options DEF OpenMaster, TypeInv, Opened, Opening
  <2>2. opened(masters[t]) \in BlockFiles
    BY <1>1, Options, Reading, SMTT(20) DEF OpenMaster, TypeInv
  <2>3. \A m \in DOMAIN masterfile' :
          \/ m \in DOMAIN masterfile /\ masterfile'[m] = masterfile[m]
          \/ m = t /\ masterfile'[m] = opened(masters[t])
    BY <2>1, <2>2
  <2>4. QED  BY <1>0, <1>0a, <2>3 DEF Sized
<1>2. CASE ~ OpenMaster
  <2>1. masterfile' = masterfile
    BY <1>2, TablesKept DEF LoadBlock
  <2>2. QED  BY <1>0, <1>0a, <2>1 DEF Sized
<1>3. QED  BY <1>1, <1>2

(***************************************************************************)
(* When the scan ends, a copy that lies in the scanned range is found.     *)
(***************************************************************************)
LEMMA CopyIsFound ==
  ASSUME SearchInv, Intact, pc = "scan", NEW m \in DOMAIN masters
  PROVE  CopyFound(m)
<1> SUFFICES ASSUME NEW n \in 0 .. imagefile.blocks - 1, copyAt(m, n),
                    NEW b \in DOMAIN filemap[m], filemap[m][b] # << >>
             PROVE  contains(filemap[m][b], n + b)
  BY DEF CopyFound, OnCopy
<1>0. /\ TypeInv /\ ScanInv /\ LocationsWereScanned /\ FilemapExact
      /\ CmdInv /\ blocksize >= MinBlocksize
      /\ image \in Files /\ imagefile \in BlockFiles
  BY DEF SearchInv, WhereInv, TypeInv
<1>1. /\ masters \in Seq(Files) /\ blocksize \in Nat \ {0}
      /\ cmd.start \in Nat
  BY <1>0, Options
<1>1a. Len(masterfile) = Len(masters) /\ Len(filemap) = Len(masters)
  BY <1>0 DEF TypeInv, Opened
<1>2. /\ m \in DOMAIN filemap /\ m \in DOMAIN masterfile
      /\ masters[m] \in Files
  BY <1>0, <1>1, <1>1a, Numbered
<1>3. /\ masterfile[m] \in BlockFiles /\ masterfile[m].blocks \in Nat
      /\ filemap[m] \in [0 .. masterfile[m].blocks - 1 -> Seq(Nat)]
      /\ blocknumber \in Nat /\ imagefile.blocks \in Nat
  <2>1. masterfile \in Seq(BlockFiles) /\ FilemapInv /\ blocknumber \in Nat
    BY <1>0 DEF TypeInv
  <2>2. masterfile[m] \in BlockFiles
    BY <1>2, <2>1
  <2>3. filemap[m] \in [0 .. masterfile[m].blocks - 1 -> Seq(Nat)]
    BY <1>2, <2>1 DEF FilemapInv
  <2>4. masterfile[m].blocks \in Nat /\ imagefile.blocks \in Nat
    BY <1>0, <2>2 DEF BlockFiles
  <2>5. QED  BY <2>1, <2>2, <2>3, <2>4
<1>4. b \in Nat /\ b < masterfile[m].blocks /\ n \in Nat
  BY <1>3
<1>5. b \in Loaded(m)
  <2>1. filemap[m][b] \in Seq(Nat)
    BY <1>3
  <2>2. 1 \in DOMAIN filemap[m][b]
    BY <2>1
  <2>3. filemap[m][b][1] \in Range(filemap[m][b])
    BY <2>2 DEF Range
  <2>4. QED  BY <1>0, <1>2, <2>3 DEF LocationsWereScanned
<1>6. Scanned(n + b)
  BY DEF copyAt
<1>7. n + b \in 0 .. imagefile.blocks - 1
  <2>1. n + b >= cmd.start /\ n + b <= blocknumber - 1
    BY <1>1, <1>3, <1>4, <1>6 DEF Scanned
  <2>2. blocknumber <= imagefile.blocks
    BY <1>0, <1>1, <1>3, <1>4, <2>1 DEF ScanInv
  <2>3. QED  BY <1>3, <1>4, <2>1, <2>2
<1>8. Same(n + b, m, b)
  <2>1. pread(image, Len(masters[m].bytes), n * blocksize) = masters[m].bytes
    BY DEF copyAt
  <2>2. holds(masters[m], masterfile[m])
    BY <1>2 DEF Intact
  <2>3. (b + 1) * blocksize <= Len(masters[m].bytes)
    BY <1>0, <1>2, <1>3, <1>4, <2>2, HeldBlock
  <2>4. PICK a, o : a = n * blocksize /\ o = b * blocksize
    OBVIOUS
  <2>5. a \in Nat /\ o \in Nat /\ (b + 1) * blocksize = o + blocksize
        /\ (n + b) * blocksize = a + o
    BY <1>1, <1>4, <2>4, SMTT(30)
  <2>6. pread(image, blocksize, a + o) = pread(masters[m], blocksize, o)
    BY <1>0, <1>1, <1>2, <2>1, <2>3, <2>4, <2>5, PartOfCopy
  <2>7. QED  BY <2>4, <2>5, <2>6 DEF Same, blockOf
<1>9. contains(filemap[m][b], n + b) <=> Scanned(n + b) /\ Same(n + b, m, b)
  BY <1>0, <1>2, <1>5, <1>7 DEF FilemapExact
<1>10. QED  BY <1>6, <1>8, <1>9

\* A run adds its bytes to what is joined.
LEMMA RunAdds ==
  ASSUME TypeInv, Unreported, t \in DOMAIN masters, NEW from \in Nat, NEW to,
         reassembled(t) = head(t, from),
         NEW r \in RunRecords, TrueRun(r), r.master = t, r.pass = "clean", r.file_offset = from,
         to = from + r.len
  PROVE  joined(image, t, report \o << r >>) = head(t, to)
<1>1. /\ image \in Files /\ masters[t] \in Files /\ report \in Seq(RunRecords)
      /\ r.len \in Int
  BY Options DEF TypeInv, Unreported, RunRecords
<1>2. /\ r.len > 0
      /\ Len(pread(masters[t], r.len, from)) = r.len
      /\ pread(masters[t], r.len, from) = pread(image, r.len, r.img_offset)
  BY DEF TrueRun
<1>3. part(image, t, r) = pread(masters[t], r.len, from)
  BY <1>2 DEF part
<1>4. joined(image, t, report \o << r >>) = joined(image, t, report) \o part(image, t, r)
  BY <1>1, JoinedOne
<1>5. pread(masters[t], from, 0) \o pread(masters[t], r.len, from) = pread(masters[t], to, 0)
  <2>1. PICK l : l = r.len
    OBVIOUS
  <2>2. l \in Nat \ {0} /\ Len(pread(masters[t], l, from)) = l /\ to = from + l
    BY <1>1, <1>2, <2>1
  <2>3. pread(masters[t], from, 0) \o pread(masters[t], l, from) = pread(masters[t], to, 0)
    BY <1>1, <2>2, FrontGrows
  <2>4. QED  BY <2>1, <2>3
<1>6. QED  BY <1>3, <1>4, <1>5 DEF reassembled, head

\* A run adds nothing to other masters, nor does the report before clean().
LEMMA OthersAdd ==
  ASSUME TypeInv, Unreported, NEW more \in Seq(RunRecords), NEW m,
         \A i \in 1 .. Len(more) : more[i].master # m \/ more[i].pass # "clean"
  PROVE  joined(image, m, report \o more) = reassembled(m)
<1>1. image \in Files /\ report \in Seq(RunRecords)
  BY DEF TypeInv, Unreported
<1>2. \A i \in 1 .. Len(more) : part(image, m, more[i]) = << >>
  BY DEF part
<1>3. QED  BY <1>1, <1>2, JoinedOther DEF reassembled

(***************************************************************************)
(* A block of the cleaned report of a master whose blocks are each in one  *)
(* place.                                                                  *)
(***************************************************************************)
LEMMA SingleAdds ==
  ASSUME GenuineInv, Intact, t \in DOMAIN masters, SingleLocations(t), pass = "clean",
         Growing(t), ReportRun \/ ReportBlock
  PROVE  /\ tb' <= masterfile[t].blocks
         /\ joined(image, t, report') = head(t, tb' * blocksize)
<1>0. /\ SearchInv /\ TypeInv /\ Measured /\ Genuine /\ Unreported
      /\ InReport /\ pc = "report"
      /\ tb <= masterfile[t].blocks /\ reassembled(t) = head(t, tb * blocksize)
  BY DEF GenuineInv, SearchInv, WhereInv, ReportRun, ReportBlock, InReport, Growing
<1>1. /\ masterfile[t].blocks \in Nat
      /\ filemap[t] \in [0 .. masterfile[t].blocks - 1 -> Seq(Nat)]
      /\ tb \in 0 .. masterfile[t].blocks - 1
      /\ places \in Seq(Nat)
  BY <1>0, AtBlock
<1>2. blocksize \in Nat \ {0}
  BY <1>0, Options DEF TypeInv
<1>3. Len(places) = 1
  BY <1>1 DEF SingleLocations, places
<1>4. places # << >> /\ 1 \in DOMAIN places /\ places[1] \in Nat
  <2>1. PICK list \in Seq(Nat) : list = places
    BY <1>1
  <2>2. Len(list) = 1
    BY <1>3, <2>1
  <2>3. 1 \in DOMAIN list
    BY <2>2
  <2>4. list[1] \in Nat
    BY <2>3
  <2>5. list # << >>
    <3>1. Len(<< >>) = 0
      OBVIOUS
    <3>2. QED  BY <2>2, <3>1
  <2>6. QED  BY <2>1, <2>3, <2>4, <2>5
<1>5. PICK n \in Nat \ {0} :
        /\ tb + n <= masterfile[t].blocks
        /\ tb' = tb + n
        /\ \A i \in 0 .. n - 1 : contains(filemap[t][tb + i], places[1] + i)
        /\ report' = report \o << run(tb, places[1], run_bytes(n)) >>
  <2>1. CASE ReportRun
    <3>1. /\ run_blocks \in Nat \ {0}
          /\ tb + run_blocks <= masterfile[t].blocks
          /\ tb' = tb + run_blocks
          /\ \A i \in 0 .. run_blocks - 1 : contains(filemap[t][tb + i], places[1] + i)
      BY <1>0, <2>1, ReportRunAppends
    <3>2. report' = report \o << run(tb, places[1], run_bytes(run_blocks)) >>
      <4>1. report' = Append(report, run(tb, places[1], run_bytes(run_blocks)))
        BY <2>1 DEF ReportRun
      <4> DEFINE r == run(tb, places[1], run_bytes(run_blocks))
      <4>2. r \in RunRecords
        BY <1>0, <1>1, <1>4, <3>1, RunType, RunBytesType
      <4> HIDE DEF r
      <4>3. report \o << r >> = Append(report, r)
        BY <1>0, <4>2 DEF Unreported
      <4>4. QED  BY <4>1, <4>3 DEF r
    <3>3. QED  BY <3>1, <3>2
  <2>2. CASE ReportBlock
    <3> DEFINE r(j) == run(tb, places[j], run_bytes(1))
    <3>1. tb' = tb + 1 /\ report' = report \o [j \in DOMAIN places |-> r(j)]
      BY <2>2 DEF ReportBlock
    <3>2. [j \in DOMAIN places |-> r(j)] = << r(1) >>
      <4> HIDE DEF r
      <4>1. DOMAIN places = 1 .. 1
        BY <1>1, <1>3
      <4>2. QED  BY <4>1
    <3>3. contains(filemap[t][tb + 0], places[1] + 0)
      <4>1. tb + 0 = tb /\ places[1] + 0 = places[1]
        BY <1>1, <1>4
      <4>2. contains(places, places[1])
        BY <1>4 DEF contains
      <4>3. QED  BY <4>1, <4>2 DEF places
    <3>4. /\ tb + 1 <= masterfile[t].blocks
          /\ \A i \in 0 .. 1 - 1 : contains(filemap[t][tb + i], places[1] + i)
      BY <1>1, <3>3
    <3>5. QED  BY <3>1, <3>2, <3>4
  <2>3. QED  BY <2>1, <2>2
<1> DEFINE r == run(tb, places[1], run_bytes(n))
<1>6. TrueRun(r)
  BY <1>0, <1>4, <1>5, BlocksMakeRun
<1>7. r \in RunRecords
  BY <1>0, <1>1, <1>4, <1>5, RunType, RunBytesType
<1>8. run_bytes(n) = n * blocksize
  <2>1. Held(t)
    BY <1>0, ReportingMaster DEF Intact, Held
  <2>2. QED  BY <1>0, <1>5, <2>1, RunBytes
<1>9. /\ r.master = t /\ r.pass = "clean" /\ r.file_offset = tb * blocksize
      /\ r.len = n * blocksize
  BY <1>8 DEF run
<1> HIDE DEF r
<1>10. PICK from, to : from = tb * blocksize /\ to = (tb + n) * blocksize
  OBVIOUS
<1>11. from \in Nat /\ to = from + n * blocksize
  BY <1>1, <1>2, <1>5, <1>10
<1>12. joined(image, t, report \o << r >>) = head(t, to)
  BY <1>0, <1>6, <1>7, <1>9, <1>10, <1>11, RunAdds
<1>13. joined(image, t, report') = head(t, to)
  BY <1>5, <1>12 DEF r
<1>14. QED  BY <1>1, <1>5, <1>10, <1>13

\* What a run, or a block, adds for the other masters, and before clean().
LEMMA BlocksAddHere ==
  ASSUME TypeInv, Unreported, ReportRun \/ ReportBlock, NEW m, m # t \/ pass # "clean"
  PROVE  joined(image, m, report') = reassembled(m)
<1>1. InReport /\ places # << >> /\ pc = "report"
  BY DEF ReportRun, ReportBlock, InReport
<1>2. /\ tb \in Nat /\ places \in Seq(Nat)
      /\ places[1] \in Nat /\ run_blocks \in Nat
      /\ DOMAIN places = 1 .. Len(places) /\ Len(places) \in Nat
  BY <1>1, AtBlock
<1>3. \A j \in Nat, n \in Nat : /\ run(tb, j, run_bytes(n)) \in RunRecords
                                /\ run(tb, j, run_bytes(n)).master = t
                                /\ run(tb, j, run_bytes(n)).pass = pass
  <2>1. ASSUME NEW j \in Nat, NEW n \in Nat
        PROVE  run(tb, j, run_bytes(n)) \in RunRecords
    BY <1>1, <1>2, RunType, RunBytesType
  <2>2. QED  BY <2>1 DEF run
<1>4. PICK more \in Seq(RunRecords) :
        /\ report' = report \o more
        /\ \A i \in 1 .. Len(more) : more[i].master = t /\ more[i].pass = pass
  <2>1. CASE ReportRun
    <3> DEFINE r == run(tb, places[1], run_bytes(run_blocks))
    <3>1. report' = Append(report, r)
      BY <2>1 DEF ReportRun
    <3>2. r \in RunRecords /\ r.master = t /\ r.pass = pass
      BY <1>2, <1>3
    <3> HIDE DEF r
    <3>3. report' = report \o << r >>
      BY <3>1, <3>2 DEF Unreported
    <3> DEFINE one == << r >>
    <3>4. one \in Seq(RunRecords) /\ Len(one) = 1 /\ one[1] = r
      BY <3>2
    <3>5. report' = report \o one
      BY <3>3
    <3> HIDE DEF one
    <3>6. \A i \in 1 .. Len(one) : one[i].master = t /\ one[i].pass = pass
      BY <3>2, <3>4
    <3>7. QED  BY <3>4, <3>5, <3>6
  <2>2. CASE ReportBlock
    <3> DEFINE more == [j \in DOMAIN places |-> run(tb, places[j], run_bytes(1))]
    <3>1. report' = report \o more
      BY <2>2 DEF ReportBlock
    <3>2. ASSUME NEW j \in 1 .. Len(places)
          PROVE  more[j] \in RunRecords /\ more[j].master = t /\ more[j].pass = pass
      <4>1. places[j] \in Nat /\ 1 \in Nat
        BY <1>2
      <4>2. more[j] = run(tb, places[j], run_bytes(1))
        BY <1>2
      <4>3. QED  BY <1>3, <4>1, <4>2
    <3>3. more = [j \in 1 .. Len(places) |-> more[j]]
      BY <1>2
    <3> HIDE DEF more
    <3>4. more \in Seq(RunRecords) /\ Len(more) = Len(places)
      BY <1>2, <3>2, <3>3
    <3>5. QED  BY <3>1, <3>2, <3>4
  <2>3. QED  BY <2>1, <2>2
<1>5. QED  BY <1>4, OthersAdd

(***************************************************************************)
(* The end of the cleaned report of such a master: the bytes behind the    *)
(* last block follow the blocks, and follow those of a copy.               *)
(***************************************************************************)
LEMMA TailAdds ==
  ASSUME GenuineInv, Intact, t \in DOMAIN masters, SingleLocations(t), pass = "clean",
         Growing(t), ReportTail
  PROVE  \/ /\ joined(image, t, report') = head(t, wholeBytes(t))
            /\ extra_bytes = 0 \/ report' = report
         \/ /\ joined(image, t, report') = head(t, wholeBytes(t) + extra_bytes)
            /\ extra_bytes # 0
<1>0. /\ TypeInv /\ Unreported /\ pc = "report" /\ tb >= size(filemap[t])
      /\ tb <= masterfile[t].blocks /\ reassembled(t) = head(t, tb * blocksize)
  BY DEF GenuineInv, SearchInv, WhereInv, ReportTail, AtReportEnd, Growing
<1>1. /\ size(filemap[t]) = masterfile[t].blocks
      /\ masterfile[t].blocks \in Nat
      /\ tb \in Nat
      /\ report \in Seq(RunRecords)
  BY <1>0, ReportingMaster DEF BlockFiles, TypeInv, Unreported
<1>2. tb = masterfile[t].blocks
  BY <1>0, <1>1
<1>3. reassembled(t) = head(t, wholeBytes(t))
  BY <1>0, <1>2 DEF wholeBytes
<1>4. CASE report' = report \o << >>
  <2>1. report' = report
    BY <1>1, <1>4
  <2>2. QED  BY <1>3, <2>1 DEF reassembled
<1>5. CASE extra_bytes # 0 /\ report' = report \o tailRuns /\ tailRuns # << >>
  <2>1. PICK r : tailRuns = << r >> /\ r.pass = "clean" /\ r.len = extra_bytes
    <3> DEFINE list     == filemap[t][size(filemap[t]) - 1]
               matching == { j \in DOMAIN list : tailMatches(list[j]) }
               first    == CHOOSE j \in matching : \A i \in matching : j <= i
               tail     == run(size(filemap[t]), tailBlock(list[first]), extra_bytes)
    <3>1. tailRuns = IF matching = {} THEN << >> ELSE << tail >>
      BY DEF tailRuns
    <3>2. tail.pass = "clean" /\ tail.len = extra_bytes
      BY DEF run
    <3> HIDE DEF tail, matching
    <3>3. QED  BY <1>5, <3>1, <3>2
  <2>2. r \in Range(tailRuns)
    BY <2>1 DEF Range
  <2>3. size(filemap[t]) > 0
    BY <1>5 DEF ReportTail
  <2>4. TrueRun(r) /\ r.master = t /\ r.file_offset = wholeBytes(t)
    BY <1>0, <1>5, <2>2, <2>3, TailIsTrue DEF wholeBytes
  <2>5. r \in RunRecords
    <3>1. tailRuns \in Seq(RunRecords)
      BY <1>0, <2>3, TailTyped
    <3>2. QED  BY <2>1, <3>1
  <2>6. PICK from, to : from = wholeBytes(t) /\ to = wholeBytes(t) + extra_bytes
    OBVIOUS
  <2>7. from \in Nat /\ to = from + r.len
    <3>1. blocksize \in Nat
      BY <1>0, Options DEF TypeInv
    <3>2. QED  BY <1>1, <2>1, <2>6, <3>1 DEF wholeBytes
  <2>8. joined(image, t, report \o << r >>) = head(t, to)
    BY <1>0, <1>3, <2>1, <2>4, <2>5, <2>6, <2>7, RunAdds
  <2>9. QED  BY <1>5, <2>1, <2>6, <2>8
<1>6. \/ report' = report \o << >>
      \/ extra_bytes # 0 /\ report' = report \o tailRuns
  BY DEF ReportTail
<1>7. CASE tailRuns = << >> /\ report' = report \o tailRuns
  BY <1>4, <1>7
<1>8. QED  BY <1>4, <1>5, <1>6, <1>7

\* What the end of a report adds for the other masters, and before clean().
LEMMA TailAddsHere ==
  ASSUME TypeInv, Unreported, ReportTail, NEW m, m # t \/ pass # "clean"
  PROVE  joined(image, m, report') = reassembled(m)
<1>1. /\ pc = "report"
      /\ extra_bytes = 0 \/ size(filemap[t]) > 0
      /\ \/ report' = report \o << >>
         \/ extra_bytes # 0 /\ pass = "clean" /\ report' = report \o tailRuns
  BY DEF ReportTail, AtReportEnd
<1>2. CASE report' = report \o << >>
  <2>1. report' = report
    BY <1>2 DEF Unreported
  <2>2. QED  BY <2>1 DEF reassembled
<1>3. CASE extra_bytes # 0 /\ pass = "clean" /\ report' = report \o tailRuns
  <2>1. tailRuns \in Seq(RunRecords)
    BY <1>1, <1>3, TailTyped
  <2>2. \A i \in 1 .. Len(tailRuns) : tailRuns[i].master = t
    <3>1. \A i \in 1 .. Len(tailRuns) : tailRuns[i] \in Range(tailRuns)
      BY <2>1 DEF Range
    <3>2. QED  BY <1>1, <1>3, <3>1, TailIsTrue
  <2>3. QED  BY <1>3, <2>1, <2>2, OthersAdd
<1>4. QED  BY <1>1, <1>2, <1>3

\* A sequence with something behind it is another one.
LEMMA LongerDiffers ==
  ASSUME NEW S, NEW a \in Seq(S), NEW b \in Seq(S), b # << >>
  PROVE  a \o b # a
<1>1. Len(a) \in Nat /\ Len(b) \in Nat \ {0}
  OBVIOUS
<1>2. Len(a \o b) = Len(a) + Len(b)
  OBVIOUS
<1>3. QED  BY <1>1, <1>2

\* The end of the report of such a master is its end, if there is a copy of it.
LEMMA TailOfCopy ==
  ASSUME GenuineInv, Sized, Intact, t \in DOMAIN masters, SingleLocations(t), pass = "clean",
         Growing(t), CopyFound(t), Copied(t), ReportTail
  PROVE  joined(image, t, report') = masters[t].bytes
<1>0. /\ TypeInv /\ Unreported /\ pc = "report" /\ cmd.x /\ ~ masters[t].device
      /\ extra_bytes = 0 \/ size(filemap[t]) > 0
  BY DEF GenuineInv, SearchInv, WhereInv, ReportTail, AtReportEnd, Copied
<1>1. /\ size(filemap[t]) = masterfile[t].blocks
      /\ filemap[t] \in [0 .. masterfile[t].blocks - 1 -> Seq(Nat)]
      /\ masters[t] \in Files /\ image \in Files /\ imagefile \in BlockFiles
      /\ masterfile[t] = opened(masters[t])
  BY <1>0, ReportingMaster DEF Sized, TypeInv
<1>2. blocksize \in Nat \ {0} /\ Len(masters[t].bytes) \in Nat /\ imagefile.blocks \in Nat
  BY <1>0, <1>1, Options DEF TypeInv, Files, BlockFiles
<1>3. PICK len, whole, extra, blocks :
        /\ len = Len(masters[t].bytes)
        /\ blocks = len \div blocksize
        /\ whole = blocks * blocksize
        /\ extra = len % blocksize
  OBVIOUS
<1>4. /\ wholeBytes(t) = whole /\ extra_bytes = extra /\ masterfile[t].blocks = blocks
  BY <1>0, <1>1, <1>3 DEF opened, wholeBytes, extra_bytes
<1>5. len \in Nat /\ blocks \in Nat /\ whole \in Nat /\ extra \in Nat /\ whole + extra = len
  <2>1. PICK bs \in Nat \ {0} : bs = blocksize
    BY <1>2
  <2>2. len \in Nat /\ blocks = len \div bs /\ whole = blocks * bs /\ extra = len % bs
    BY <1>2, <1>3, <2>1
  <2>3. blocks \in Nat /\ extra \in Nat
    BY <2>1, <2>2
  <2>4. whole \in Nat
    BY <2>2, <2>3
  <2>5. len = blocks * bs + extra
    BY <2>1, <2>2
  <2>6. QED  BY <2>2, <2>3, <2>4, <2>5
<1>6. head(t, len) = masters[t].bytes
  BY <1>1, <1>3, FrontEnds DEF head
<1>7. CASE extra = 0
  BY <1>4, <1>5, <1>6, <1>7, TailAdds
<1>8. CASE extra # 0
  <2>1. PICK n \in 0 .. imagefile.blocks - 1 : copyAt(t, n)
    BY DEF Copied
  <2>2. n \in Nat /\ blocks - 1 \in 0 .. blocks - 1 /\ blocks \in Nat \ {0}
    BY <1>0, <1>1, <1>2, <1>4, <1>5, <1>8
  <2>3. PICK list : list = filemap[t][blocks - 1]
    OBVIOUS
  <2>4. Len(list) = 1 /\ list \in Seq(Nat)
    BY <1>1, <1>4, <2>2, <2>3 DEF SingleLocations
  <2>5. contains(list, n + (blocks - 1))
    <3>1. list # << >>
      <4>1. Len(<< >>) = 0
        OBVIOUS
      <4>2. QED  BY <2>4, <4>1
    <3>2. QED  BY <1>1, <1>4, <2>1, <2>2, <2>3, <3>1 DEF CopyFound, OnCopy
  <2>6. PICK j \in DOMAIN list : list[j] = n + (blocks - 1)
    BY <2>5 DEF contains
  <2>7. tailMatches(list[j])
    <3>1. pread(image, len, n * blocksize) = masters[t].bytes
      BY <1>3, <2>1 DEF copyAt
    <3>2. PICK a : a = n * blocksize
      OBVIOUS
    <3>3. a \in Nat /\ tailBlock(list[j]) * blocksize = a + whole
      <4>1. tailBlock(list[j]) = n + blocks
        BY <1>5, <2>2, <2>6 DEF tailBlock
      <4>2. PICK bs \in Nat \ {0} : bs = blocksize
        BY <1>2
      <4>3. (n + blocks) * bs = n * bs + blocks * bs /\ n * bs \in Nat
        BY <1>5, <2>2
      <4>4. QED  BY <1>3, <3>2, <4>1, <4>2, <4>3
    <3>4. /\ pread(image, extra, a + whole) = pread(masters[t], extra, whole)
          /\ Len(pread(masters[t], extra, whole)) = extra
      BY <1>1, <1>3, <1>5, <1>8, <3>1, <3>2, <3>3, PartOfCopy, SMTT(30)
    <3>5. size(filemap[t]) * blocksize = whole
      BY <1>1, <1>3, <1>4
    <3>6. /\ ~ getblockFails(image, tailBlock(list[j]))
          /\ ~ getblockFails(masters[t], size(filemap[t]))
      <4>1. tailBlock(list[j]) = n + blocks
        BY <1>5, <2>2, <2>6 DEF tailBlock
      <4>2. masterfile[t].filesize % blocksize # 0
        BY <1>4, <1>8 DEF extra_bytes
      <4>3. QED  BY <1>1, <1>4, <2>1, <4>1, <4>2 DEF copyAt, endReadable
    <3>7. QED  BY <1>4, <3>3, <3>4, <3>5, <3>6 DEF tailMatches
  <2>8. tailRuns # << >>
    <3> DEFINE l        == filemap[t][size(filemap[t]) - 1]
               matching == { i \in DOMAIN l : tailMatches(l[i]) }
               first    == CHOOSE i \in matching : \A o \in matching : i <= o
               tail     == run(size(filemap[t]), tailBlock(l[first]), extra_bytes)
    <3>1. tailRuns = IF matching = {} THEN << >> ELSE << tail >>
      BY DEF tailRuns
    <3>2. l = list
      BY <1>1, <1>4, <2>3
    <3>3. j \in matching
      BY <2>6, <2>7, <3>2
    <3> HIDE DEF tail, matching
    <3>4. QED  BY <3>1, <3>3
  <2>9. report' = report \o tailRuns
    BY <1>0, <1>4, <1>8 DEF ReportTail
  <2>10. joined(image, t, report') = head(t, wholeBytes(t) + extra_bytes)
    <3>1. tailRuns \in Seq(RunRecords) /\ report \in Seq(RunRecords)
      BY <1>0, <1>4, <1>8, TailTyped DEF Unreported
    <3>2. report' # report
      BY <2>8, <2>9, <3>1, LongerDiffers
    <3>3. QED  BY <1>4, <1>8, <3>2, TailAdds
  <2>11. QED  BY <1>4, <1>5, <1>6, <2>10
<1>9. QED  BY <1>7, <1>8

\* What the steps behind the scan leave alone.
LEMMA AfterScan ==
  ASSUME [Next]_vars, pc' \in {"master", "clean", "report", "done"}
  PROVE  /\ UNCHANGED << image, cmd, masterfile, imagefile, blocknumber >>
         /\ \/ ScanEnd
            \/ pc \in {"master", "clean", "report", "done"}
BY DEF Next, Step, vars, input, loaded, block, found, printing, RejectOptions,
       AcceptOptions, NoMemory, OpenImageFails, OpenImage, OpenMasterFails,
       HashFileFails, OpenMaster, LoadBlock, LoadEnd, StartScan, ScanBlock, ScanEnd,
       ReportRaw, CleanAndReport, StartReport, ReportNotFound, ReportRun, ReportBlock,
       InReport, ReportTail, AtReportEnd, ReportTailOfNothing, Finish, Shrink, ExitWith

\* A copy stays one, and stays found.
LEMMA NextCopyFound ==
  ASSUME SearchInv, TypeInv', Intact, JoinedInv, [Next]_vars,
         pc' \in {"master", "clean", "report", "done"}, NEW m \in DOMAIN masters
  PROVE  /\ \A n : copyAt(m, n)' <=> copyAt(m, n)
         /\ CopyFound(m)'
<1>0. /\ TypeInv /\ masters' = masters /\ blocksize' = blocksize
      /\ UNCHANGED << image, cmd, masterfile, imagefile, blocknumber >>
      /\ ScanEnd \/ pc \in {"master", "clean", "report", "done"}
  BY Constant, AfterScan DEF SearchInv, WhereInv
<1>1. /\ m \in DOMAIN filemap /\ m \in DOMAIN filemap' /\ m \in DOMAIN masterfile
      /\ m \in Nat /\ m >= 1
  <2>1. Len(masterfile) = Len(masters) /\ Len(filemap) = Len(masters)
    BY <1>0 DEF TypeInv, Opened, ScanEnd
  <2>2. Len(filemap') = Len(masters')
    BY DEF TypeInv, Opened
  <2>3. DOMAIN filemap' = 1 .. Len(filemap')
    BY DEF TypeInv, FilemapInv
  <2>4. DOMAIN masters = 1 .. Len(masters)
    BY <1>0, Options DEF TypeInv
  <2>5. DOMAIN filemap = 1 .. Len(filemap) /\ DOMAIN masterfile = 1 .. Len(masterfile)
    BY <1>0, Numbered
  <2>6. QED  BY <1>0, <2>1, <2>2, <2>3, <2>4, <2>5
<1>2. /\ masterfile[m].blocks \in Nat
      /\ filemap[m] \in [0 .. masterfile[m].blocks - 1 -> Seq(Nat)]
      /\ filemap'[m] \in [0 .. masterfile[m].blocks - 1 -> Seq(Nat)]
  <2>1. masterfile[m].blocks \in Nat
    BY <1>0, <1>1, BlocksOf DEF TypeInv
  <2>2. filemap[m] \in [0 .. masterfile[m].blocks - 1 -> Seq(Nat)]
    BY <1>0, <1>1 DEF TypeInv, FilemapInv
  <2>3. filemap'[m] \in [0 .. masterfile'[m].blocks - 1 -> Seq(Nat)]
    BY <1>1 DEF TypeInv, FilemapInv
  <2>4. QED  BY <1>0, <2>1, <2>2, <2>3
<1>3. DOMAIN filemap'[m] = DOMAIN filemap[m]
  BY <1>2
<1>4. \A n : copyAt(m, n)' <=> copyAt(m, n)
  BY <1>0, <1>3 DEF copyAt, endReadable, getblockFails, Scanned
<1>5. CopyFound(m)
  <2>1. CASE ScanEnd
    BY <2>1, CopyIsFound DEF ScanEnd
  <2>2. CASE pc \in {"master", "clean", "report", "done"}
    BY <2>2 DEF JoinedInv
  <2>3. QED  BY <1>0, <2>1, <2>2
<1>6. ASSUME NEW n \in 0 .. imagefile.blocks - 1, OnCopy(filemap[m], n)
      PROVE  OnCopy(filemap'[m], n)
  <2>1. CASE filemap'[m] = filemap[m]
    BY <1>6, <2>1
  <2>2. CASE CleanAndReport /\ m = t
    <3>1. filemap'[m] = clean(filemap[m])
      BY <1>1, <2>2 DEF CleanAndReport, StartReport
    <3>2. n \in Nat
      BY <1>0 DEF TypeInv, BlockFiles
    <3>3. QED  BY <1>2, <1>6, <3>1, <3>2, CleanKeepsCopy
  <2>3. CASE ~ (CleanAndReport /\ m = t)
    <3>1. CASE CleanAndReport
      BY <1>1, <2>1, <2>3, <3>1 DEF CleanAndReport, StartReport
    <3>2. CASE ~ CleanAndReport
      BY <1>0, <2>1, <3>2, FoundKept DEF found, LoadEnd, ScanBlock, ScanEnd
    <3>3. QED  BY <3>1, <3>2
  <2>4. QED  BY <2>2, <2>3
<1>7. QED  BY <1>0, <1>4, <1>5, <1>6 DEF CopyFound

\* What is joined of a master, in the state behind a step.
LEMMA NextReassembly ==
  ASSUME GenuineInv, TypeInv', Finished, Sized, JoinedInv, Intact, [Next]_vars,
         pc' \in {"master", "clean", "report", "done"}, NEW m \in DOMAIN masters,
         \A n : copyAt(m, n)' <=> copyAt(m, n)
  PROVE  Reassembly(m)'
<1>0. /\ TypeInv /\ SearchInv /\ Unreported /\ masters' = masters /\ blocksize' = blocksize
      /\ UNCHANGED << image, cmd, masterfile, imagefile, blocknumber >>
      /\ ScanEnd \/ pc \in {"master", "clean", "report", "done"}
  BY Constant, AfterScan DEF GenuineInv, SearchInv, WhereInv
<1>1. m \in Nat /\ m >= 1 /\ m <= Len(masters) /\ t \in Nat /\ tb \in Nat
  BY <1>0, Options, SMTT(30) DEF TypeInv
<1> DEFINE R == joined(image, m, report')
           Ends(x) == /\ x \in { head(m, wholeBytes(m)),
                                 head(m, wholeBytes(m) + (masterfile[m].filesize % blocksize)) }
                      /\ Copied(m) => x = masters[m].bytes
<1>2. /\ reassembled(m)' = R
      /\ Whole(m)' <=> Ends(R)
      /\ Growing(m)' <=> tb' <= masterfile[m].blocks /\ R = head(m, tb' * blocksize)
      /\ Whole(m) <=> Ends(reassembled(m))
  <2>1. reassembled(m)' = R
    BY <1>0 DEF reassembled
  <2>2. Copied(m)' <=> Copied(m)
    BY <1>0 DEF Copied
  <2>3. head(m, wholeBytes(m))' = head(m, wholeBytes(m))
        /\ head(m, wholeBytes(m) + (masterfile[m].filesize % blocksize))' =
             head(m, wholeBytes(m) + (masterfile[m].filesize % blocksize))
        /\ head(m, tb * blocksize)' = head(m, tb' * blocksize)
    BY <1>0 DEF head, wholeBytes
  <2>4. QED  BY <1>0, <2>1, <2>2, <2>3 DEF Whole, Growing
<1>3. (SingleLocations(m)' <=> SingleLocations(m)) \/ filemap'[m] # filemap[m]
  BY DEF SingleLocations
<1> HIDE DEF Ends, R
<1>4. CASE ScanEnd
  <2>1. t' = 1 /\ pc' = "master" /\ report' = << >>
    BY <1>0, <1>4 DEF ScanEnd, Unreported, Reporting
  <2>2. R = << >>
    BY <1>0, <2>1, JoinedNone DEF R, TypeInv
  <2>3. QED  BY <1>1, <1>2, <2>1, <2>2 DEF Reassembly
<1>5. ASSUME pc \in {"master", "clean", "report", "done"}
      PROVE  Reassembly(m)'
  <2>1. Reassembly(m)
    BY <1>5 DEF JoinedInv
  <2>1a. CopyFound(m)
    BY <1>5 DEF JoinedInv
  <2>2. /\ m < t => (SingleLocations(m) => Ends(reassembled(m)))
        /\ m = t /\ pc = "report" /\ pass = "clean" => (SingleLocations(m) => Growing(m))
        /\ m > t \/ (m = t /\ ~ (pc = "report" /\ pass = "clean")) => reassembled(m) = << >>
    BY <1>2, <2>1 DEF Reassembly
  <2>3. ASSUME /\ m < t' => (SingleLocations(m)' => Ends(R))
               /\ m = t' /\ pc' = "report" /\ pass' = "clean" =>
                    (SingleLocations(m)' => tb' <= masterfile[m].blocks /\ R = head(m, tb' * blocksize))
               /\ m > t' \/ (m = t' /\ ~ (pc' = "report" /\ pass' = "clean")) => R = << >>
        PROVE  Reassembly(m)'
    BY <1>2, <2>3 DEF Reassembly
  <2>4. report' = report => R = reassembled(m)
    BY DEF R, reassembled
  <2>5. CASE ReportNotFound
    <3>1. /\ pc = "report" /\ pc' = "report" /\ t' = t /\ pass' = pass
          /\ report' = report /\ filemap' = filemap
          /\ filemap[t][tb] = << >> /\ InReport
      BY <2>5 DEF ReportNotFound, InReport, places, found
    <3>2. m = t => ~ SingleLocations(m)
      <4>1. tb \in DOMAIN filemap[t]
        BY <1>0, <3>1, AtBlock
      <4>2. Len(<< >>) = 0
        OBVIOUS
      <4>3. m = t /\ SingleLocations(m) => Len(filemap[t][tb]) = 1
        BY <4>1 DEF SingleLocations
      <4>4. QED  BY <3>1, <4>2, <4>3
    <3>3. QED  BY <1>3, <2>2, <2>3, <2>4, <3>1, <3>2
  <2>6. CASE ReportRun \/ ReportBlock
    <3>1. /\ pc = "report" /\ pc' = "report" /\ t' = t /\ pass' = pass /\ filemap' = filemap
      BY <2>6 DEF ReportRun, ReportBlock, InReport, found
    <3>2. CASE m # t \/ pass # "clean"
      <4>1. R = reassembled(m)
        BY <1>0, <2>6, <3>2, BlocksAddHere DEF R
      <4>2. QED  BY <1>3, <2>2, <2>3, <3>1, <3>2, <4>1
    <3>3. CASE m = t /\ pass = "clean"
      <4>1. SingleLocations(t) => tb' <= masterfile[t].blocks
                                  /\ joined(image, t, report') = head(t, tb' * blocksize)
        BY <2>2, <2>6, <3>1, <3>3, SingleAdds
      <4>2. QED  BY <1>1, <1>3, <2>3, <3>1, <3>3, <4>1 DEF R
    <3>4. QED  BY <3>2, <3>3
  <2>7. CASE ReportTail
    <3>1. /\ pc = "report" /\ filemap' = filemap
          /\ \/ pass = "raw" /\ pc' = "clean" /\ t' = t
             \/ pass # "raw" /\ pc' = "master" /\ t' = t + 1
          /\ pass \in {"raw", "clean"}
      BY <1>0, <2>7 DEF ReportTail, AtReportEnd, found, Unreported
    <3>2. CASE m # t \/ pass # "clean"
      <4>1. R = reassembled(m)
        BY <1>0, <2>7, <3>2, TailAddsHere DEF R
      <4>2. QED  BY <1>1, <1>3, <2>2, <2>3, <3>1, <3>2, <4>1
    <3>3. CASE m = t /\ pass = "clean"
      <4>1. ASSUME SingleLocations(t)
            PROVE  Ends(R)
        <5>1. Growing(t)
          BY <2>2, <3>1, <3>3, <4>1
        <5>2. joined(image, t, report') \in
                { head(t, wholeBytes(t)),
                  head(t, wholeBytes(t) + (masterfile[t].filesize % blocksize)) }
          BY <2>7, <3>3, <4>1, <5>1, TailAdds DEF extra_bytes
        <5>3. Copied(t) => joined(image, t, report') = masters[t].bytes
          BY <2>1a, <2>7, <3>3, <4>1, <5>1, TailOfCopy
        <5>4. QED  BY <3>3, <5>2, <5>3 DEF Ends, R
      <4>2. QED  BY <1>1, <1>3, <2>3, <3>1, <3>3, <4>1
    <3>4. QED  BY <3>2, <3>3
  <2>8. CASE ReportRaw
    <3>1. /\ pc = "master" /\ pc' = "report" /\ pass' = "raw" /\ t' = t
          /\ report' = report /\ filemap' = filemap
      BY <2>8 DEF ReportRaw, StartReport
    <3>2. QED  BY <1>3, <2>2, <2>3, <2>4, <3>1
  <2>9. CASE CleanAndReport
    <3>1. /\ pc # "report" /\ pc' = "report" /\ pass' = "clean" /\ tb' = 0 /\ t' = t
          /\ report' = report
          /\ filemap' = [filemap EXCEPT ![t] = clean(@)]
      BY <2>9 DEF CleanAndReport, StartReport
    <3>2. CASE m = t
      <4>1. R = << >>
        BY <2>2, <2>4, <3>1, <3>2
      <4>2. head(m, 0) = << >> /\ 0 * blocksize = 0 /\ 0 <= masterfile[m].blocks
        <5>1. masters[m] \in Files /\ blocksize \in Nat /\ m \in DOMAIN masterfile
          <6>1. Len(masterfile) = Len(masters) /\ DOMAIN masterfile = 1 .. Len(masterfile)
            BY <1>0, <1>5, Numbered DEF TypeInv, Opened
          <6>2. masters \in Seq(Files) /\ blocksize \in Nat
            BY <1>0, Options DEF TypeInv
          <6>3. QED  BY <1>1, <6>1, <6>2
        <5>2. masterfile[m].blocks \in Nat
          BY <1>0, <5>1, BlocksOf DEF TypeInv
        <5>3. QED  BY <5>1, <5>2, FrontEnds DEF head
      <4>3. QED  BY <1>1, <2>3, <3>1, <3>2, <4>1, <4>2
    <3>3. CASE m # t
      <4>1. filemap'[m] = filemap[m]
        BY <1>0, <3>1, <3>3 DEF TypeInv, FilemapInv
      <4>2. QED  BY <1>3, <2>2, <2>3, <2>4, <3>1, <3>3, <4>1
    <3>4. QED  BY <3>2, <3>3
  <2>10. CASE Finish
    <3>1. pc = "master" /\ pc' = "done" /\ t' = t /\ report' = report /\ filemap' = filemap
          /\ t > Len(masters)
      BY <2>10 DEF Finish, ExitWith, printing, found
    <3>2. QED  BY <1>1, <1>3, <2>2, <2>3, <2>4, <3>1
  <2>11. CASE UNCHANGED vars
    <3>1. pc' = pc /\ t' = t /\ tb' = tb /\ pass' = pass /\ report' = report /\ filemap' = filemap
      BY <2>11 DEF vars, printing, found
    <3>2. Growing(m) <=> tb' <= masterfile[m].blocks /\ reassembled(m) = head(m, tb' * blocksize)
      BY <3>1 DEF Growing
    <3>3. QED  BY <1>3, <2>2, <2>3, <2>4, <3>1, <3>2
  <2>12. QED
    BY <1>5, <2>5, <2>6, <2>7, <2>8, <2>9, <2>10, <2>11
    DEF Next, Step, RejectOptions, AcceptOptions, NoMemory, OpenImageFails, OpenImage,
        OpenMasterFails, HashFileFails, OpenMaster, LoadBlock, LoadEnd, StartScan,
        ScanBlock, ScanEnd, ReportTailOfNothing, AtReportEnd, Shrink, ExitWith
<1>6. QED  BY <1>0, <1>4, <1>5

\* The invariant holds initially.
LEMMA InitReassembly == Init => ReassemblyInv
<1> SUFFICES ASSUME Init PROVE ReassemblyInv
  OBVIOUS
<1>1. GenuineInv
  BY InitGenuine
<1>2. Sized
  BY DEF Init, Sized
<1>3. Finished /\ JoinedInv
  BY DEF Init, Finished, JoinedInv
<1>4. QED  BY <1>1, <1>2, <1>3 DEF ReassemblyInv

\* The invariant holds in every reachable state.
LEMMA SpecReassembly ==
  ASSUME Collisionless, SmallMasters
  PROVE  Spec => []ReassemblyInv
<1>1. ReassemblyInv /\ [Next]_vars => ReassemblyInv'
  <2> SUFFICES ASSUME ReassemblyInv, [Next]_vars PROVE ReassemblyInv'
    OBVIOUS
  <2>1. /\ GenuineInv /\ SearchInv /\ TypeInv /\ Genuine /\ Unreported
        /\ Finished /\ Sized /\ JoinedInv
    BY DEF ReassemblyInv, GenuineInv, SearchInv, WhereInv
  <2>2. SearchInv' /\ TypeInv'
    <3>1. SearchInv'
      BY <2>1, NextSearch
    <3>2. QED  BY <3>1 DEF SearchInv, WhereInv
  <2>3. GenuineInv'
    <3>1. Genuine' /\ Unreported'
      BY <2>1, <2>2, NextGenuine, NextUnreported
    <3>2. RunsAreGenuine'
      BY <2>1, <2>2, <3>1, NextRuns
    <3>3. QED  BY <2>2, <3>1, <3>2 DEF GenuineInv
  <2>4. Finished' /\ Sized'
    BY <2>1, NextFinished, NextSized
  <2>5. JoinedInv'
    <3> SUFFICES ASSUME Intact', pc' \in {"master", "clean", "report", "done"},
                        NEW m \in DOMAIN masters'
                 PROVE  Reassembly(m)' /\ CopyFound(m)'
      BY DEF JoinedInv
    <3>1. m \in DOMAIN masters
      BY <2>1, Constant
    <3>2. pc \notin {"options", "image", "failed"}
      BY AfterScan DEF ScanEnd
    <3>3. Intact
      BY <2>1, <2>2, <3>2, BlocksKept
    <3>4. (\A n : copyAt(m, n)' <=> copyAt(m, n)) /\ CopyFound(m)'
      BY <2>1, <2>2, <3>1, <3>3, NextCopyFound
    <3>5. Reassembly(m)'
      BY <2>1, <2>2, <3>1, <3>3, <3>4, NextReassembly
    <3>6. QED  BY <3>4, <3>5
  <2>6. QED  BY <2>3, <2>4, <2>5 DEF ReassemblyInv
<1>2. QED  BY InitReassembly, <1>1, PTL DEF Spec

\* When the program has ended, all masters are reported.
LEMMA ReassembledAtEnd ==
  ASSUME ReassemblyInv, pc = "done", Intact, NEW m \in DOMAIN masters, SingleLocations(m)
  PROVE  Whole(m)
<1>1. TypeInv /\ Finished /\ JoinedInv
  BY DEF ReassemblyInv, GenuineInv, SearchInv, WhereInv
<1>2. m \in Nat /\ m <= Len(masters) /\ Len(masters) \in Nat /\ t \in Nat
  BY <1>1, Options DEF TypeInv
<1>3. m < t
  BY <1>1, <1>2 DEF Finished
<1>4. QED  BY <1>1, <1>3 DEF JoinedInv, Reassembly

(***************************************************************************)
(* When the program has ended, the runs of the cleaned report of a master  *)
(* whose blocks are each left with one location, put one after the other,  *)
(* are the whole blocks of the file, with or without the bytes behind the  *)
(* last one.                                                               *)
(***************************************************************************)
THEOREM RunsMakeTheFile ==
  ASSUME Collisionless, SmallMasters
  PROVE  Spec => []FileReassembles
<1>1. ReassemblyInv => FileReassembles
  BY ReassembledAtEnd DEF FileReassembles, Whole
<1>2. Spec => []ReassemblyInv  BY SpecReassembly
<1>3. QED  BY <1>1, <1>2, PTL

(***************************************************************************)
(* A complete copy of a file at a block boundary, in the scanned range,    *)
(* whose whole blocks occur nowhere else, is reported to its last byte:    *)
(* clean() takes no block of it away, and the bytes behind the last block  *)
(* are looked for where they are.                                          *)
(***************************************************************************)
THEOREM CopiesAreReported ==
  ASSUME Collisionless, SmallMasters
  PROVE  Spec => []CopyIsReported
<1>1. ReassemblyInv => CopyIsReported
  BY ReassembledAtEnd DEF CopyIsReported, Whole, Copied
<1>2. Spec => []ReassemblyInv  BY SpecReassembly
<1>3. QED  BY <1>1, <1>2, PTL
=============================================================================
