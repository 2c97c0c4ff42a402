------------------------- MODULE JavaFragFindProofs -------------------------
(***************************************************************************)
(* What the Java port guarantees, proved for every image, every list of    *)
(* targets and every sector size: that it reports only after it has read   *)
(* everything, and only what is there; and that it implements the search   *)
(* of BlockSearch.                                                         *)
(***************************************************************************)
EXTENDS JavaFragFind, FilemapProofs

\* What the assumption says of the constants.
LEMMA Constants ==
  /\ SectorSize \in Nat \ {0}
  /\ TopBit \in Nat \ {0}
  /\ 0 \in Bytes
  /\ Images \subseteq Files
  /\ TargetLists \subseteq Seq(Files)
BY JavaFragFindAssumption DEF JavaFragFindAssumption

(***************************************************************************)
(* The search for the number of sectors.                                   *)
(***************************************************************************)
\* The powers of two that are tried are positive.
LEMMA Shifted ==
  ASSUME NEW i \in 0 .. TopBit
  PROVE  shifted[i] \in Nat \ {0}
<1> DEFINE P(one) == one = [b \in 0 .. TopBit |-> IF b = 0 THEN 1 ELSE 2 * one[b - 1]]
           Positive == Nat \ {0}
           step == [b \in Nat |-> [last \in Positive |-> 2 * last]]
<1>1. TopBit \in Nat
  BY Constants
<1>2. step \in Steps(Positive) /\ 1 \in Positive
  BY DEF Steps
<1>3. \A b \in Nat, last \in Positive : step[b][last] = 2 * last
  OBVIOUS
<1> HIDE DEF step, Positive
<1>4. PICK one : IsIteration(one, Positive, 1, step, TopBit)
  BY ONLY <1>1, <1>2, Iterates
<1>5. /\ one \in [0 .. TopBit -> Positive]
      /\ one[0] = 1
      /\ \A b \in 0 .. TopBit - 1 : one[b + 1] = step[b + 1][one[b]]
  BY <1>4 DEF IsIteration
<1>6. ASSUME NEW b \in 0 .. TopBit, b # 0
      PROVE  one[b] = 2 * one[b - 1]
  <2>1. b - 1 \in 0 .. TopBit - 1 /\ (b - 1) + 1 = b /\ b - 1 \in 0 .. TopBit /\ b \in Nat
    BY <1>1, <1>6
  <2>2. one[b - 1] \in Positive
    BY <1>5, <2>1
  <2>3. one[(b - 1) + 1] = step[(b - 1) + 1][one[b - 1]]
    BY <1>5, <2>1
  <2>4. QED  BY <1>3, <2>1, <2>2, <2>3
<1>7. P(one)
  BY <1>5, <1>6
<1>8. shifted = CHOOSE f : P(f)
  BY DEF shifted
<1> HIDE DEF P
<1>9. P(shifted)
  BY <1>7, <1>8
<1>10. shifted = [b \in 0 .. TopBit |-> IF b = 0 THEN 1 ELSE 2 * shifted[b - 1]]
  BY <1>9 DEF P
<1> DEFINE Good == { b \in Nat : b <= TopBit => shifted[b] \in Nat \ {0} }
<1>11. 0 \in Good
  BY <1>1, <1>10
<1>12. ASSUME NEW b \in Nat, b \in Good
       PROVE  b + 1 \in Good
  <2>1. CASE b + 1 <= TopBit
    <3>1. b + 1 \in 0 .. TopBit /\ b + 1 # 0 /\ (b + 1) - 1 = b /\ b <= TopBit
      BY <1>1, <2>1
    <3>2. shifted[b + 1] = 2 * shifted[b]
      BY <1>10, <3>1
    <3>3. QED  BY <1>12, <3>1, <3>2
  <2>2. QED  BY <2>1
<1> HIDE DEF Good
<1>13. Nat \subseteq Good
  BY <1>11, <1>12, NaturalInduction
<1>14. QED  BY <1>1, <1>13 DEF Good

\* The last sector found can be read, if one was found.
LEMMA Counted ==
  ASSUME NEW file \in Files
  PROVE  /\ counted(file)[1] \in Nat
         /\ counted(file)[1] # 0 => readable(file, counted(file)[1])
<1> DEFINE Found == { s \in Nat : s # 0 => readable(file, s) }
           more(i, s) == s + (IF readable(file, s + shifted[i]) THEN shifted[i] ELSE 0)
           P(upto) == upto = [i \in 1 .. TopBit + 1 |->
                               IF i = TopBit + 1 THEN 0 ELSE more(i, upto[i + 1])]
           step == [n \in Nat |-> [s \in Found |->
                     IF n \in 1 .. TopBit THEN more(TopBit + 1 - n, s) ELSE 0]]
<1>1. TopBit \in Nat \ {0}
  BY Constants
<1>2. 0 \in Found /\ Found \subseteq Nat
  OBVIOUS
<1>3. ASSUME NEW i \in 1 .. TopBit, NEW s \in Found
      PROVE  more(i, s) \in Found
  <2>1. shifted[i] \in Nat
    BY Shifted, <1>1
  <2>2. s + shifted[i] \in Nat
    BY <2>1
  <2>3. CASE readable(file, s + shifted[i])
    BY <2>2, <2>3
  <2>4. CASE ~ readable(file, s + shifted[i])
    BY <2>4
  <2>5. QED  BY <2>3, <2>4
<1> HIDE DEF Found, more
<1>4. step \in Steps(Found)
  <2>1. ASSUME NEW n \in 1 .. TopBit
        PROVE  TopBit + 1 - n \in 1 .. TopBit
    BY <1>1
  <2>2. QED  BY <1>2, <1>3, <2>1 DEF Steps
<1>5. \A n \in 1 .. TopBit, s \in Found : step[n][s] = more(TopBit + 1 - n, s)
  OBVIOUS
<1> HIDE DEF step
<1>6. PICK g : IsIteration(g, Found, 0, step, TopBit)
  BY ONLY <1>1, <1>2, <1>4, Iterates
<1>7. /\ g \in [0 .. TopBit -> Found]
      /\ g[0] = 0
      /\ \A n \in 0 .. TopBit - 1 : g[n + 1] = step[n + 1][g[n]]
  BY <1>6 DEF IsIteration
<1> DEFINE upto == [i \in 1 .. TopBit + 1 |-> g[TopBit + 1 - i]]
<1>8. upto[TopBit + 1] = 0
  BY <1>1, <1>7
<1>9. ASSUME NEW i \in 1 .. TopBit + 1, i # TopBit + 1
      PROVE  upto[i] = more(i, upto[i + 1])
  <2> DEFINE n == TopBit - i
  <2>1. /\ n \in 0 .. TopBit - 1
        /\ n + 1 \in 1 .. TopBit
        /\ n \in 0 .. TopBit
        /\ TopBit + 1 - i = n + 1
        /\ TopBit + 1 - (i + 1) = n
        /\ TopBit + 1 - (n + 1) = i
        /\ i + 1 \in 1 .. TopBit + 1
    BY <1>1, <1>9
  <2>2. upto[i] = g[n + 1] /\ upto[i + 1] = g[n]
    BY <2>1
  <2> HIDE DEF n, upto
  <2>3. g[n] \in Found
    BY <1>7, <2>1
  <2>4. g[n + 1] = more(TopBit + 1 - (n + 1), g[n])
    BY <1>5, <1>7, <2>1, <2>3
  <2>5. QED  BY <2>1, <2>2, <2>4
<1>10. DOMAIN upto = 1 .. TopBit + 1
  OBVIOUS
<1>11. upto = [i \in 1 .. TopBit + 1 |-> upto[i]]
  OBVIOUS
<1>12. ASSUME NEW i \in 1 .. TopBit + 1
       PROVE  upto[i] \in Found
  <2>1. TopBit + 1 - i \in 0 .. TopBit
    BY <1>1
  <2>2. QED  BY <1>7, <2>1
<1> HIDE DEF upto
<1>13. P(upto)
  BY <1>8, <1>9, <1>10, <1>11
<1>14. counted(file) = CHOOSE f : P(f)
  BY DEF counted, more
<1> HIDE DEF P
<1>15. P(counted(file))
  BY <1>13, <1>14
<1> DEFINE c == counted(file)
<1>16. c = [i \in 1 .. TopBit + 1 |-> IF i = TopBit + 1 THEN 0 ELSE more(i, c[i + 1])]
  BY <1>15 DEF P
<1> HIDE DEF c
<1> DEFINE Good == { n \in Nat : n <= TopBit => c[TopBit + 1 - n] \in Found }
<1>17. 0 \in Good
  BY <1>1, <1>2, <1>16
<1>18. ASSUME NEW n \in Nat, n \in Good
       PROVE  n + 1 \in Good
  <2>1. CASE n + 1 <= TopBit
    <3>1. /\ TopBit + 1 - (n + 1) \in 1 .. TopBit
          /\ TopBit + 1 - (n + 1) \in 1 .. TopBit + 1
          /\ TopBit + 1 - (n + 1) # TopBit + 1
          /\ (TopBit + 1 - (n + 1)) + 1 = TopBit + 1 - n
          /\ n <= TopBit
      BY <1>1, <2>1
    <3>2. c[TopBit + 1 - (n + 1)] = more(TopBit + 1 - (n + 1), c[TopBit + 1 - n])
      BY <1>16, <3>1
    <3>3. QED  BY <1>3, <1>18, <3>1, <3>2
  <2>2. QED  BY <2>1
<1> HIDE DEF Good
<1>19. Nat \subseteq Good
  BY <1>17, <1>18, NaturalInduction
<1>20. c[TopBit + 1 - TopBit] \in Found /\ TopBit + 1 - TopBit = 1
  BY <1>1, <1>19 DEF Good
<1>21. QED  BY <1>20 DEF c, Found

\* Blocks that end before the end of the file.
LEMMA WholeSectors ==
  ASSUME NEW L \in Nat, NEW S \in Nat \ {0}
  PROVE  /\ L \div S \in Nat
         /\ \A s \in Nat : s * S < L => s <= L \div S
<1>1. L < S * (L \div S + 1) /\ L \div S \in Nat
  OBVIOUS
<1>2. ASSUME NEW s \in Nat, s * S < L
      PROVE  s <= L \div S
  <2>1. s * S < (L \div S + 1) * S
    BY <1>1, <1>2
  <2>2. QED  BY <1>1, <2>1
<1>3. QED  BY <1>1, <1>2

\* The sectors counted are a number, and the file holds all of them; what is read is
\* a block.
LEMMA Sectors ==
  ASSUME NEW file \in Files
  PROVE  /\ totalSectors(file) \in Nat
         /\ 0 .. totalSectors(file) - 1 \subseteq wholeBlocks(file)
         /\ \A n \in Nat : getblock(file, n) \in Blocks
<1>1. /\ file.bytes \in Seq(Bytes)
      /\ Len(file.bytes) \in Nat
      /\ SectorSize \in Nat \ {0}
      /\ 0 \in Bytes
  BY Constants DEF Files
<1> DEFINE q == Len(file.bytes) \div SectorSize
<1>2. q \in Nat
  BY <1>1, WholeSectors
<1>3. totalSectors(file) \in Nat /\ totalSectors(file) <= q
  <2>1. CASE length(file) \div SectorSize # 0
    <3>1. length(file) = Len(file.bytes)
      <4>1. 0 \div SectorSize = 0
        BY <1>1
      <4>2. QED  BY <2>1, <4>1 DEF length
    <3>2. QED  BY <1>2, <2>1, <3>1 DEF totalSectors
  <2>2. CASE ~ (length(file) \div SectorSize # 0)
    <3>1. totalSectors(file) = counted(file)[1]
      BY <2>2 DEF totalSectors
    <3>2. counted(file)[1] \in Nat
      BY Counted
    <3>3. CASE counted(file)[1] = 0
      BY <1>2, <3>1, <3>3
    <3>4. CASE counted(file)[1] # 0
      <4>1. counted(file)[1] * SectorSize < Len(file.bytes)
        BY Counted, <3>4 DEF readable
      <4>2. QED  BY <1>1, <3>1, <3>2, <4>1, WholeSectors
    <3>5. QED  BY <3>3, <3>4
  <2>3. QED  BY <2>1, <2>2
<1>4. 0 .. totalSectors(file) - 1 \subseteq wholeBlocks(file)
  BY <1>2, <1>3 DEF wholeBlocks
<1>5. ASSUME NEW n \in Nat
      PROVE  getblock(file, n) \in Blocks
  <2>1. ASSUME NEW j \in 1 .. SectorSize, n * SectorSize + j <= Len(file.bytes)
        PROVE  file.bytes[n * SectorSize + j] \in Bytes
    <3>1. n * SectorSize \in Nat
      BY <1>1
    <3>2. n * SectorSize + j \in 1 .. Len(file.bytes)
      BY <1>1, <2>1, <3>1
    <3>3. QED  BY <1>1, <3>2
  <2>2. QED  BY <1>1, <2>1 DEF getblock, Blocks
<1>6. QED  BY <1>3, <1>4, <1>5

(***************************************************************************)
(* Types.  The tables grow with the targets that have been opened.         *)
(***************************************************************************)
\* A table from digests to target blocks.
Tables == [Sha1s -> Seq(Nat)]
\* The filemap of one target.
Maps   == UNION { [0 .. n - 1 -> Seq(Nat)] : n \in Nat }
\* The lines of the report.
Lines  == [target : Nat, tb : Nat, len : Nat, places : Seq(Nat)]

\* A filemap for each target, with a list for each of its blocks.
FilemapInv ==
  /\ filemap \in Seq(Maps)
  /\ \A m \in DOMAIN filemap : filemap[m] \in [0 .. blocks[m] - 1 -> Seq(Nat)]

\* The targets that are open are the first ones; all are before the search starts.
Opened ==
  /\ Len(sha1map) = Len(blocks)
  /\ Len(filemap) <= Len(blocks)
  /\ Len(blocks) <= Len(targetfiles)
  /\ pc = "open" => Len(blocks) = t - 1 /\ Len(filemap) = t - 1
  /\ pc = "load" => t <= Len(targetfiles) /\ Len(blocks) = t /\ Len(filemap) = t - 1
  /\ pc = "print" => t <= Len(targetfiles)
  /\ Started => Len(blocks) = Len(targetfiles) /\ Len(filemap) = Len(targetfiles)

\* What tells an exception of the search from one before it.
Thrown ==
  /\ pc # "exit" => thrown = "none"
  /\ pc \in {"open", "load"} => imageBlocks = 0

\* The types of the variables.
TypeInv ==
  /\ image \in Files
  /\ targetfiles \in Seq(Files)
  /\ pc \in {"open", "load", "search", "report", "print", "exit"}
  /\ blocks \in Seq(Nat)
  /\ sha1map \in Seq(Tables)
  /\ FilemapInv
  /\ imageBlocks \in Nat
  /\ blocknumber \in Nat
  /\ t \in 1 .. Len(targetfiles) + 1
  /\ tb \in Nat
  /\ printed \in Seq(Lines)
  /\ Opened
  /\ Thrown

\* The tables, the targets and the filemaps are numbered alike.
LEMMA Numbered ==
  ASSUME TypeInv
  PROVE  /\ DOMAIN sha1map = DOMAIN blocks
         /\ DOMAIN filemap \subseteq DOMAIN blocks
         /\ DOMAIN blocks \subseteq DOMAIN targetfiles
         /\ DOMAIN blocks = 1 .. Len(blocks) /\ Len(blocks) \in Nat
         /\ DOMAIN filemap = 1 .. Len(filemap) /\ Len(filemap) \in Nat
         /\ DOMAIN targetfiles = 1 .. Len(targetfiles) /\ Len(targetfiles) \in Nat
         /\ \A m \in DOMAIN blocks : blocks[m] \in Nat
         /\ \A m \in DOMAIN targetfiles : targetfiles[m] \in Files
<1>1. /\ blocks \in Seq(Nat)
      /\ sha1map \in Seq(Tables)
      /\ filemap \in Seq(Maps)
      /\ targetfiles \in Seq(Files)
      /\ Len(sha1map) = Len(blocks)
      /\ Len(filemap) <= Len(blocks)
      /\ Len(blocks) <= Len(targetfiles)
  BY DEF TypeInv, FilemapInv, Opened
<1>2. QED  BY <1>1

\* A filemap that is changed, or all of them.
LEMMA Remapped ==
  ASSUME TypeInv, NEW map, DOMAIN map = DOMAIN filemap,
         map = [m \in DOMAIN map |-> map[m]],
         \A m \in DOMAIN map : map[m] \in [0 .. blocks[m] - 1 -> Seq(Nat)]
  PROVE  map \in Seq(Maps) /\ Len(map) = Len(filemap)
<1>1. DOMAIN map = 1 .. Len(filemap) /\ Len(filemap) \in Nat
  BY Numbered
<1>2. \A m \in DOMAIN map : map[m] \in Maps
  BY Numbered DEF Maps
<1>3. QED  BY <1>1, <1>2

\* The digest of a block is one of the digests.
LEMMA Digests ==
  ASSUME NEW file \in Files, NEW n \in Nat
  PROVE  sha1[getblock(file, n)] \in Sha1s
BY Sectors DEF Sha1s

\* A block that is looked up makes lists longer by its number.
LEMMA MatchedLists ==
  ASSUME TypeInv, NEW h
  PROVE  /\ Matched(h) \in Seq(Maps)
         /\ Len(Matched(h)) = Len(filemap)
         /\ DOMAIN Matched(h) = DOMAIN filemap
         /\ \A m \in DOMAIN filemap : Matched(h)[m] \in [0 .. blocks[m] - 1 -> Seq(Nat)]
         /\ \A m \in DOMAIN filemap : \A b \in 0 .. blocks[m] - 1 :
              Matched(h)[m][b] = IF contains(sha1map[m][h], b)
                                 THEN Append(filemap[m][b], blocknumber)
                                 ELSE filemap[m][b]
<1>1. ASSUME NEW m \in DOMAIN filemap
      PROVE  /\ Matched(h)[m] \in [0 .. blocks[m] - 1 -> Seq(Nat)]
             /\ \A b \in 0 .. blocks[m] - 1 :
                  Matched(h)[m][b] = IF contains(sha1map[m][h], b)
                                     THEN Append(filemap[m][b], blocknumber)
                                     ELSE filemap[m][b]
  <2>1. filemap[m] \in [0 .. blocks[m] - 1 -> Seq(Nat)] /\ blocknumber \in Nat
    BY DEF TypeInv, FilemapInv
  <2>2. \A b \in 0 .. blocks[m] - 1 : Append(filemap[m][b], blocknumber) \in Seq(Nat)
    BY <2>1
  <2>3. QED  BY <2>1, <2>2 DEF Matched
<1>2. /\ DOMAIN Matched(h) = DOMAIN filemap
      /\ Matched(h) = [m \in DOMAIN Matched(h) |-> Matched(h)[m]]
  BY DEF Matched
<1> DEFINE map == Matched(h)
<1> HIDE DEF map
<1>3. map \in Seq(Maps) /\ Len(map) = Len(filemap)
  BY <1>1, <1>2, Remapped DEF map
<1>4. QED  BY <1>1, <1>2, <1>3 DEF map

\* The target that is reported has a filemap.
LEMMA ReportedTarget ==
  ASSUME TypeInv, pc \in {"report", "print"}, t <= Len(targetfiles)
  PROVE  /\ t \in DOMAIN filemap
         /\ blocks[t] \in Nat
         /\ filemap[t] \in [0 .. blocks[t] - 1 -> Seq(Nat)]
         /\ size(filemap[t]) = blocks[t]
<1>1. t \in DOMAIN filemap
  BY Numbered DEF TypeInv, Opened, Started, Searched
<1>2. blocks[t] \in Nat /\ filemap[t] \in [0 .. blocks[t] - 1 -> Seq(Nat)]
  BY <1>1, Numbered DEF TypeInv, FilemapInv
<1>3. \A n \in Nat : Cardinality(0 .. n - 1) = n
  BY FS_Interval
<1>4. DOMAIN filemap[t] = 0 .. blocks[t] - 1
  BY <1>2
<1>5. size(filemap[t]) = blocks[t]
  BY <1>2, <1>3, <1>4 DEF size
<1>6. QED  BY <1>1, <1>2, <1>5

\* clean() narrows the lists of one target.
LEMMA CleanStep ==
  ASSUME TypeInv, Clean
  PROVE  /\ filemap' \in Seq(Maps)
         /\ Len(filemap') = Len(filemap)
         /\ DOMAIN filemap' = DOMAIN filemap
         /\ \A m \in DOMAIN filemap :
              /\ filemap'[m] \in [0 .. blocks[m] - 1 -> Seq(Nat)]
              /\ \A b \in 0 .. blocks[m] - 1 : Narrowed(filemap'[m][b], filemap[m][b])
<1>1. /\ pc = "report" /\ t <= Len(targetfiles)
      /\ filemap' = [filemap EXCEPT ![t] = clean(filemap[t])]
  BY DEF Clean
<1>2. /\ t \in DOMAIN filemap
      /\ blocks[t] \in Nat
      /\ filemap[t] \in [0 .. blocks[t] - 1 -> Seq(Nat)]
  BY <1>1, ReportedTarget
<1>3. /\ clean(filemap[t]) \in [0 .. blocks[t] - 1 -> Seq(Nat)]
      /\ \A b \in 0 .. blocks[t] - 1 : Narrowed(clean(filemap[t])[b], filemap[t][b])
  BY <1>2, CleanNarrows
<1>4. ASSUME NEW m \in DOMAIN filemap
      PROVE  /\ filemap'[m] \in [0 .. blocks[m] - 1 -> Seq(Nat)]
             /\ \A b \in 0 .. blocks[m] - 1 : Narrowed(filemap'[m][b], filemap[m][b])
  <2>1. CASE m = t
    BY <1>1, <1>2, <1>3, <2>1
  <2>2. CASE m # t
    <3>1. filemap'[m] = filemap[m]
      BY <1>1, <2>2
    <3>2. QED  BY <3>1 DEF TypeInv, FilemapInv, Narrowed
  <2>3. QED  BY <2>1, <2>2
<1> DEFINE map == filemap'
<1>5. DOMAIN map = DOMAIN filemap /\ map = [m \in DOMAIN map |-> map[m]]
  BY <1>1, <1>2 DEF TypeInv, FilemapInv
<1> HIDE DEF map
<1>6. map \in Seq(Maps) /\ Len(map) = Len(filemap)
  BY <1>4, <1>5, Remapped DEF map
<1>7. QED  BY <1>4, <1>5, <1>6 DEF map

\* A target that is loaded has read one more block.
LEMMA LoadStep ==
  ASSUME TypeInv, LoadBlock
  PROVE  /\ sha1map' \in Seq(Tables)
         /\ Len(sha1map') = Len(sha1map)
         /\ t \in DOMAIN sha1map /\ t \in DOMAIN blocks /\ t \in DOMAIN targetfiles
<1>1. /\ pc = "load"
      /\ sha1map' = [sha1map EXCEPT ![t][sha1[getblock(targetfiles[t], blocknumber)]] =
                       Append(@, blocknumber)]
  BY DEF LoadBlock
<1>2. t \in DOMAIN sha1map /\ t \in DOMAIN blocks /\ t \in DOMAIN targetfiles
  BY <1>1, Numbered DEF TypeInv, Opened
<1> DEFINE h == sha1[getblock(targetfiles[t], blocknumber)]
<1>3. blocknumber \in Nat /\ sha1map \in Seq(Tables)
  BY DEF TypeInv
<1>4. h \in Sha1s
  BY <1>2, <1>3, Numbered, Digests
<1>5. sha1map[t] \in Tables
  BY <1>2, <1>3
<1> HIDE DEF h
<1>6. sha1map' = [sha1map EXCEPT ![t] = [sha1map[t] EXCEPT ![h] = Append(@, blocknumber)]]
  BY <1>1 DEF h
<1>7. [sha1map[t] EXCEPT ![h] = Append(@, blocknumber)] \in Tables
  <2>1. sha1map[t][h] \in Seq(Nat)
    BY <1>4, <1>5 DEF Tables
  <2>2. Append(sha1map[t][h], blocknumber) \in Seq(Nat)
    BY <1>3, <2>1
  <2>3. QED  BY <1>5, <2>2 DEF Tables
<1>8. QED  BY <1>2, <1>3, <1>6, <1>7

\* A line of a run: it has a block at least, ends in the file, and names a place.
LEMMA PrintedRun ==
  ASSUME TypeInv, pc = "print", tb < size(filemap[t]), filemap[t][tb] # << >>
  PROVE  LET first_ib == filemap[t][tb][1]
             len      == runlen(filemap[t], tb, first_ib)
         IN  /\ t \in DOMAIN filemap /\ t \in Nat
             /\ blocks[t] \in Nat
             /\ tb \in 0 .. blocks[t] - 1
             /\ filemap[t][tb] \in Seq(Nat)
             /\ 1 \in DOMAIN filemap[t][tb]
             /\ first_ib \in Nat
             /\ len \in 1 .. blocks[t] - tb
             /\ \A e \in 1 .. len - 1 : contains(filemap[t][tb + e], first_ib + e)
<1>1. /\ t \in DOMAIN filemap
      /\ blocks[t] \in Nat
      /\ filemap[t] \in [0 .. blocks[t] - 1 -> Seq(Nat)]
      /\ size(filemap[t]) = blocks[t]
  BY ReportedTarget DEF TypeInv, Opened
<1>2. tb \in 0 .. blocks[t] - 1
  BY <1>1 DEF TypeInv
<1>3. filemap[t][tb] \in Seq(Nat) /\ 1 \in DOMAIN filemap[t][tb]
  BY <1>1, <1>2
<1>4. filemap[t][tb][1] \in Nat
  BY <1>3
<1>5. t \in Nat
  BY <1>1, Numbered
<1> DEFINE first_ib == filemap[t][tb][1]
           len == runlen(filemap[t], tb, first_ib)
<1>6. /\ len \in 1 .. blocks[t] - tb
      /\ \A e \in 1 .. len - 1 : contains(filemap[t][tb + e], first_ib + e)
  BY <1>1, <1>2, <1>4, RunlenBounds
<1>7. QED  BY <1>1, <1>2, <1>3, <1>4, <1>5, <1>6

\* A program that starts has the types.
LEMMA InitTypes == Init => TypeInv
<1> SUFFICES ASSUME Init PROVE TypeInv
  OBVIOUS
<1>1. image \in Files /\ targetfiles \in Seq(Files)
  BY Constants DEF Init
<1>2. FilemapInv
  BY DEF Init, FilemapInv
<1>3. Len(targetfiles) \in Nat
  BY <1>1
<1>4. QED  BY <1>1, <1>2, <1>3 DEF Init, TypeInv, Opened, Thrown, Started, Searched

\* Every step keeps the types.
LEMMA NextTypes == TypeInv /\ [Next]_vars => TypeInv'
<1> SUFFICES ASSUME TypeInv, [Next]_vars PROVE TypeInv'
  OBVIOUS
<1> USE DEF disk, loaded
<1>1. CASE OpenTarget
  <2>1. /\ pc = "open" /\ t <= Len(targetfiles) /\ pc' = "load" /\ blocknumber' = 0
        /\ blocks' = Append(blocks, totalSectors(targetfiles[t]))
        /\ sha1map' = Append(sha1map, [h \in Sha1s |-> << >>])
        /\ UNCHANGED << disk, thrown, bs, filemap, imageBlocks, t, tb, printed >>
    BY <1>1 DEF OpenTarget
  <2>2. targetfiles[t] \in Files
    BY <2>1, Numbered DEF TypeInv
  <2>3. totalSectors(targetfiles[t]) \in Nat
    BY <2>2, Sectors
  <2>4. [h \in Sha1s |-> << >>] \in Tables
    BY DEF Tables
  <2>5. /\ blocks' \in Seq(Nat) /\ Len(blocks') = Len(blocks) + 1
        /\ \A m \in DOMAIN blocks : blocks'[m] = blocks[m]
    BY <2>1, <2>3, Numbered DEF TypeInv
  <2>6. sha1map' \in Seq(Tables) /\ Len(sha1map') = Len(sha1map) + 1
    BY <2>1, <2>4 DEF TypeInv
  <2>7. FilemapInv'
    BY <2>1, <2>5, Numbered DEF TypeInv, FilemapInv
  <2>8. Opened' /\ Thrown'
    BY <2>1, <2>5, <2>6 DEF TypeInv, Opened, Thrown, Started, Searched
  <2>9. QED  BY <2>1, <2>5, <2>6, <2>7, <2>8 DEF TypeInv
<1>2. CASE LoadBlock
  <2>1. sha1map' \in Seq(Tables) /\ Len(sha1map') = Len(sha1map)
    BY <1>2, LoadStep
  <2>2. FilemapInv' /\ Opened' /\ Thrown'
    BY <1>2, <2>1 DEF LoadBlock, TypeInv, FilemapInv, Opened, Thrown, Started, Searched
  <2>3. QED  BY <1>2, <2>1, <2>2 DEF LoadBlock, TypeInv
<1>3. CASE LoadEnd
  <2>1. /\ pc = "load" /\ pc' = "open" /\ t' = t + 1
        /\ filemap' = Append(filemap, [b \in 0 .. blocks[t] - 1 |-> << >>])
        /\ UNCHANGED << disk, thrown, loaded, imageBlocks, blocknumber, tb, printed >>
    BY <1>3 DEF LoadEnd
  <2>2. t <= Len(targetfiles) /\ Len(blocks) = t /\ Len(filemap) = t - 1
    BY <2>1 DEF TypeInv, Opened
  <2>3. t \in DOMAIN blocks /\ blocks[t] \in Nat
    BY <2>2, Numbered DEF TypeInv
  <2> DEFINE new == [b \in 0 .. blocks[t] - 1 |-> << >>]
  <2>4. new \in [0 .. blocks[t] - 1 -> Seq(Nat)] /\ new \in Maps
    BY <2>3 DEF Maps
  <2> HIDE DEF new
  <2>5. /\ filemap' \in Seq(Maps)
        /\ Len(filemap') = t
        /\ DOMAIN filemap' = 1 .. t
        /\ filemap'[t] = new
        /\ \A m \in DOMAIN filemap : filemap'[m] = filemap[m]
        /\ \A m \in DOMAIN filemap' : m \in DOMAIN filemap \/ m = t
    BY <2>1, <2>2, <2>4, Numbered DEF TypeInv, FilemapInv, new
  <2>6. FilemapInv'
    BY <2>1, <2>4, <2>5 DEF TypeInv, FilemapInv
  <2>7. Opened' /\ Thrown'
    BY <2>1, <2>2, <2>5 DEF TypeInv, Opened, Thrown, Started, Searched
  <2>8. t' \in 1 .. Len(targetfiles') + 1
    BY <2>1, <2>2, Numbered DEF TypeInv
  <2>9. QED  BY <2>1, <2>6, <2>7, <2>8 DEF TypeInv
<1>4. CASE OpenImage
  <2>1. totalSectors(image) \in Nat
    BY Sectors DEF TypeInv
  <2>2. FilemapInv' /\ Opened' /\ Thrown'
    BY <1>4 DEF OpenImage, TypeInv, FilemapInv, Opened, Thrown, Started, Searched
  <2>3. QED  BY <1>4, <2>1, <2>2 DEF OpenImage, TypeInv
<1>5. CASE SearchBlock
  <2>1. \E h : filemap' \in {filemap, Matched(h)}
    BY <1>5 DEF SearchBlock
  <2>2. FilemapInv' /\ Len(filemap') = Len(filemap)
    <3>1. blocks' = blocks
      BY <1>5 DEF SearchBlock
    <3>2. QED  BY <2>1, <3>1, MatchedLists DEF TypeInv, FilemapInv
  <2>3. Opened' /\ Thrown'
    BY <1>5, <2>2 DEF SearchBlock, TypeInv, Opened, Thrown, Started, Searched
  <2>4. QED  BY <1>5, <2>2, <2>3 DEF SearchBlock, TypeInv
<1>6. CASE SearchEnd
  <2>1. FilemapInv' /\ Opened' /\ Thrown'
    BY <1>6 DEF SearchEnd, TypeInv, FilemapInv, Opened, Thrown, Started, Searched
  <2>2. 1 \in 1 .. Len(targetfiles) + 1
    BY Numbered
  <2>3. QED  BY <1>6, <2>1, <2>2 DEF SearchEnd, TypeInv
<1>7. CASE Throws
  <2>1. FilemapInv' /\ Thrown'
    BY <1>7 DEF Throws, TypeInv, FilemapInv, Thrown
  <2>2. Started' => Started
    BY <1>7 DEF Throws, TypeInv, Thrown, Started, Searched
  <2>3. Opened'
    BY <1>7, <2>2 DEF Throws, TypeInv, Opened
  <2>4. QED  BY <1>7, <2>1, <2>3 DEF Throws, TypeInv
<1>8. CASE NullEntry
  <2>1. FilemapInv' /\ Opened' /\ Thrown'
    BY <1>8 DEF NullEntry, TypeInv, FilemapInv, Opened, Thrown, Started, Searched
  <2>2. QED  BY <1>8, <2>1 DEF NullEntry, TypeInv
<1>9. CASE Clean
  <2>1. FilemapInv' /\ Len(filemap') = Len(filemap)
    <3>1. blocks' = blocks
      BY <1>9 DEF Clean
    <3>2. QED  BY <1>9, <3>1, CleanStep DEF FilemapInv
  <2>2. Opened' /\ Thrown'
    BY <1>9, <2>1 DEF Clean, TypeInv, Opened, Thrown, Started, Searched
  <2>3. QED  BY <1>9, <2>1, <2>2 DEF Clean, TypeInv
<1>10. CASE PrintRun
  <2> DEFINE first_ib == filemap[t][tb][1]
             len      == runlen(filemap[t], tb, first_ib)
  <2>1. /\ t \in Nat
        /\ first_ib \in Nat
        /\ len \in Nat
    BY <1>10, PrintedRun DEF PrintRun
  <2>2. [target |-> t, tb |-> tb, len |-> len, places |-> << first_ib >>] \in Lines
    BY <2>1 DEF Lines, TypeInv
  <2>3. printed' \in Seq(Lines) /\ tb' \in Nat
    BY <1>10, <2>1, <2>2 DEF PrintRun, TypeInv
  <2>4. FilemapInv' /\ Opened' /\ Thrown'
    BY <1>10 DEF PrintRun, TypeInv, FilemapInv, Opened, Thrown, Started, Searched
  <2>5. QED  BY <1>10, <2>3, <2>4 DEF PrintRun, TypeInv
<1>11. CASE PrintBlock
  <2>1. t \in Nat /\ filemap[t][tb] \in Seq(Nat)
    BY <1>11, PrintedRun DEF PrintBlock
  <2>2. [target |-> t, tb |-> tb, len |-> 1, places |-> filemap[t][tb]] \in Lines
    BY <2>1 DEF Lines, TypeInv
  <2>3. printed' \in Seq(Lines) /\ tb' \in Nat
    BY <1>11, <2>2 DEF PrintBlock, TypeInv
  <2>4. FilemapInv' /\ Opened' /\ Thrown'
    BY <1>11 DEF PrintBlock, TypeInv, FilemapInv, Opened, Thrown, Started, Searched
  <2>5. QED  BY <1>11, <2>3, <2>4 DEF PrintBlock, TypeInv
<1>12. CASE PrintEnd
  <2>1. FilemapInv' /\ Opened' /\ Thrown'
    BY <1>12 DEF PrintEnd, TypeInv, FilemapInv, Opened, Thrown, Started, Searched
  <2>2. t + 1 \in 1 .. Len(targetfiles) + 1
    BY <1>12, Numbered DEF PrintEnd, TypeInv, Opened
  <2>3. QED  BY <1>12, <2>1, <2>2 DEF PrintEnd, TypeInv
<1>13. CASE Return
  <2>1. FilemapInv' /\ Opened' /\ Thrown'
    BY <1>13 DEF Return, TypeInv, FilemapInv, Opened, Thrown, Started, Searched
  <2>2. QED  BY <1>13, <2>1 DEF Return, TypeInv
<1>14. CASE UNCHANGED vars
  BY <1>14 DEF vars, TypeInv, FilemapInv, Opened, Thrown, Started, Searched
<1>15. QED
  BY <1>1, <1>2, <1>3, <1>4, <1>5, <1>6, <1>7, <1>8, <1>9, <1>10, <1>11, <1>12, <1>13,
     <1>14 DEF Next

\* The types hold in every state.
LEMMA SpecTypes == Spec => []TypeInv
BY InitTypes, NextTypes, PTL DEF Spec

-----------------------------------------------------------------------------
(***************************************************************************)
(* The tables have what was loaded.                                        *)
(***************************************************************************)
\* The blocks of target m that have been read.
Loaded(m) == IF pc = "load" /\ m = t THEN 0 .. blocknumber - 1 ELSE 0 .. blocks[m] - 1

\* Before the report.
Searching == pc \in {"open", "load", "search"}

\* A digest leads to the blocks that have it, and the prefilter knows all of them.
TablesInv ==
  /\ pc = "load" => blocknumber <= blocks[t]
  /\ Searching =>
       \A m \in DOMAIN blocks :
         /\ \A h \in Sha1s : \A b \in Nat :
              contains(sha1map[m][h], b) <=>
                b \in Loaded(m) /\ sha1[getblock(targetfiles[m], b)] = h
         /\ \A b \in Loaded(m) : /\ val3char[getblock(targetfiles[m], b)] \in bs
                                 /\ b \notin targetfiles[m].bad

\* Nothing that was read had an error.
ReadInv ==
  /\ Started => \A m \in DOMAIN blocks : \A b \in 0 .. blocks[m] - 1 :
                  b \notin targetfiles[m].bad
  /\ pc = "search" => /\ imageBlocks = totalSectors(image)
                      /\ \A n \in 0 .. blocknumber - 1 : n \notin image.bad
  /\ pc \in {"report", "print"} => \A n \in 0 .. imageBlocks - 1 : n \notin image.bad

\* Nothing is found before the search.
EmptyInv ==
  pc \in {"open", "load"} =>
    \A m \in DOMAIN filemap : \A b \in 0 .. blocks[m] - 1 : filemap[m][b] = << >>

\* Block b of target m is where its list says.
At(m, b, place) == getblock(image, place) = getblock(targetfiles[m], b)

\* What is listed is there.
GenuineInv ==
  \A m \in DOMAIN filemap : \A b \in 0 .. blocks[m] - 1 :
    \A j \in DOMAIN filemap[m][b] : At(m, b, filemap[m][b][j])

\* What a line says is there.
LineIsTrue(l) ==
  \A p \in DOMAIN l.places : \A e \in 0 .. l.len - 1 : At(l.target, l.tb + e, l.places[p] + e)

\* What is printed is there.
LinesAreTrue == \A j \in DOMAIN printed : LineIsTrue(printed[j])

\* What is printed is there, and follows a search without an error.
PrintedInv ==
  /\ Searching => printed = << >>
  /\ printed # << >> => \A n \in 0 .. imageBlocks - 1 : n \notin image.bad
  /\ printed # << >> => Started
  /\ LinesAreTrue

\* The inductive invariant of the search and its report.
SearchInv == TypeInv /\ TablesInv /\ ReadInv /\ EmptyInv /\ GenuineInv /\ PrintedInv

(***************************************************************************)
(* The tables follow the loading.                                          *)
(***************************************************************************)
\* The steps that leave the tables alone.
LEMMA TablesKept ==
  ASSUME TablesInv, UNCHANGED << targetfiles, loaded >>, Searching' => Searching,
         pc' = "load" => blocknumber' <= blocks[t'],
         \A m \in DOMAIN blocks : Searching' => Loaded(m)' = Loaded(m)
  PROVE  TablesInv'
BY DEF TablesInv, loaded

\* A table with nothing in it.
LEMMA EmptyTable ==
  ASSUME NEW h \in Sha1s, NEW b
  PROVE  ~ contains([g \in Sha1s |-> << >>][h], b)
BY DEF contains

\* A longer list contains what it did and the block at its end.
LEMMA ContainsAppend ==
  ASSUME NEW list \in Seq(Nat), NEW n \in Nat, NEW b
  PROVE  contains(Append(list, n), b) <=> contains(list, b) \/ b = n
<1>1. /\ DOMAIN Append(list, n) = 1 .. Len(list) + 1
      /\ DOMAIN list = 1 .. Len(list) /\ Len(list) \in Nat
      /\ \A j \in 1 .. Len(list) : Append(list, n)[j] = list[j]
      /\ Append(list, n)[Len(list) + 1] = n
  OBVIOUS
<1>2. /\ Len(list) + 1 \in 1 .. Len(list) + 1
      /\ \A j \in 1 .. Len(list) + 1 : j \in 1 .. Len(list) \/ j = Len(list) + 1
      /\ \A j \in 1 .. Len(list) : j \in 1 .. Len(list) + 1
  BY <1>1
<1>3. QED  BY <1>1, <1>2, Zenon DEF contains

\* Every step keeps the tables.
LEMMA NextTables == TypeInv /\ TablesInv /\ [Next]_vars => TablesInv'
<1> SUFFICES ASSUME TypeInv, TablesInv, [Next]_vars PROVE TablesInv'
  OBVIOUS
<1> USE DEF disk, loaded
<1>1. CASE OpenTarget
  <2>1. /\ pc = "open" /\ t <= Len(targetfiles) /\ pc' = "load" /\ blocknumber' = 0
        /\ blocks' = Append(blocks, totalSectors(targetfiles[t]))
        /\ sha1map' = Append(sha1map, [h \in Sha1s |-> << >>])
        /\ UNCHANGED << targetfiles, bs, t >>
    BY <1>1 DEF OpenTarget
  <2>2. Len(blocks) = t - 1 /\ Len(sha1map) = t - 1
    BY <2>1 DEF TypeInv, Opened
  <2>3. /\ DOMAIN blocks' = 1 .. t
        /\ DOMAIN blocks = 1 .. t - 1
        /\ t \in Nat
        /\ \A m \in 1 .. t - 1 : blocks'[m] = blocks[m] /\ sha1map'[m] = sha1map[m]
        /\ sha1map'[t] = [h \in Sha1s |-> << >>]
    BY <2>1, <2>2, Numbered DEF TypeInv
  <2>4. ASSUME NEW m \in DOMAIN blocks'
        PROVE  /\ \A h \in Sha1s : \A b \in Nat :
                    contains(sha1map'[m][h], b) <=>
                      b \in Loaded(m)' /\ sha1[getblock(targetfiles[m], b)] = h
               /\ \A b \in Loaded(m)' : /\ val3char[getblock(targetfiles[m], b)] \in bs'
                                        /\ b \notin targetfiles[m].bad
    <3>1. CASE m = t
      <4>1. Loaded(m)' = {}
        BY <2>1, <3>1 DEF Loaded
      <4>2. QED  BY <2>3, <3>1, <4>1, EmptyTable
    <3>2. CASE m # t
      <4>1. m \in 1 .. t - 1
        BY <2>3, <3>2
      <4>2. m \in DOMAIN blocks /\ Loaded(m)' = 0 .. blocks[m] - 1 /\ Loaded(m) = 0 .. blocks[m] - 1
        BY <2>1, <2>3, <3>2, <4>1 DEF Loaded
      <4>3. QED  BY <2>1, <2>3, <4>1, <4>2 DEF TablesInv, Searching
    <3>3. QED  BY <3>1, <3>2
  <2>5. totalSectors(targetfiles[t]) \in Nat
    BY <2>1, Numbered, Sectors DEF TypeInv
  <2>6. blocknumber' <= blocks'[t']
    BY <2>1, <2>2, <2>5, Numbered DEF TypeInv
  <2>7. pc' = "load" /\ targetfiles' = targetfiles
    BY <2>1
  <2>8. QED  BY ONLY <2>4, <2>6, <2>7, Zenon DEF TablesInv
<1>2. CASE LoadBlock
  <2> DEFINE buf == getblock(targetfiles[t], blocknumber)
  <2>1. /\ pc = "load" /\ pc' = "load"
        /\ blocknumber < blocks[t]
        /\ blocknumber \notin targetfiles[t].bad
        /\ bs' = bs \cup {val3char[buf]}
        /\ sha1map' = [sha1map EXCEPT ![t][sha1[buf]] = Append(@, blocknumber)]
        /\ blocknumber' = blocknumber + 1
        /\ UNCHANGED << targetfiles, blocks, t >>
    BY <1>2 DEF LoadBlock
  <2>2. t \in DOMAIN sha1map /\ t \in DOMAIN blocks /\ t \in DOMAIN targetfiles
    BY <1>2, LoadStep
  <2>3. blocknumber \in Nat /\ targetfiles[t] \in Files
    BY <2>2, Numbered DEF TypeInv
  <2>4. sha1[buf] \in Sha1s
    BY <2>3, Digests
  <2>5. ASSUME NEW m \in DOMAIN blocks'
        PROVE  /\ \A h \in Sha1s : \A b \in Nat :
                    contains(sha1map'[m][h], b) <=>
                      b \in Loaded(m)' /\ sha1[getblock(targetfiles[m], b)] = h
               /\ \A b \in Loaded(m)' : /\ val3char[getblock(targetfiles[m], b)] \in bs'
                                        /\ b \notin targetfiles[m].bad
    <3>1. /\ m \in DOMAIN blocks
          /\ \A h \in Sha1s : \A b \in Nat :
               contains(sha1map[m][h], b) <=>
                 b \in Loaded(m) /\ sha1[getblock(targetfiles[m], b)] = h
          /\ \A b \in Loaded(m) : /\ val3char[getblock(targetfiles[m], b)] \in bs
                                  /\ b \notin targetfiles[m].bad
      BY <2>1, <2>5 DEF TablesInv, Searching
    <3>2. CASE m # t
      <4>1. sha1map'[m] = sha1map[m] /\ Loaded(m)' = Loaded(m)
        BY <2>1, <3>2 DEF Loaded, TypeInv
      <4>2. QED  BY <2>1, <3>1, <4>1
    <3>3. CASE m = t
      <4>1. Loaded(m) = 0 .. blocknumber - 1 /\ Loaded(m)' = 0 .. blocknumber
        BY <2>1, <2>3, <3>3 DEF Loaded
      <4>2. \A b \in Nat : b \in Loaded(m)' <=> b \in Loaded(m) \/ b = blocknumber
        BY <2>3, <4>1
      <4>2a. Loaded(m)' \subseteq Nat
        BY <2>3, <4>1
      <4>3. ASSUME NEW h \in Sha1s
            PROVE  /\ sha1map[m][h] \in Seq(Nat)
                   /\ sha1map'[m][h] = IF h = sha1[buf] THEN Append(sha1map[m][h], blocknumber)
                                                        ELSE sha1map[m][h]
        <5>1. sha1map \in Seq(Tables) /\ sha1map[t] \in Tables
          BY <2>2 DEF TypeInv
        <5>2. QED  BY <2>1, <2>2, <2>4, <3>3, <5>1 DEF Tables
      <4>4. ASSUME NEW h \in Sha1s, NEW b \in Nat
            PROVE  contains(sha1map'[m][h], b) <=>
                     b \in Loaded(m)' /\ sha1[getblock(targetfiles[m], b)] = h
        <5>1. CASE h = sha1[buf]
          <6>1. contains(sha1map'[m][h], b) <=> contains(sha1map[m][h], b) \/ b = blocknumber
            BY <2>3, <4>3, <5>1, ContainsAppend
          <6>2. b = blocknumber => sha1[getblock(targetfiles[m], b)] = h
            BY <3>3, <5>1
          <6>3. QED  BY <3>1, <4>2, <6>1, <6>2
        <5>2. CASE h # sha1[buf]
          <6>1. contains(sha1map'[m][h], b) <=> contains(sha1map[m][h], b)
            BY <4>3, <5>2
          <6>2. b = blocknumber => sha1[getblock(targetfiles[m], b)] # h
            BY <3>3, <5>2
          <6>3. QED  BY <3>1, <4>2, <6>1, <6>2
        <5>3. QED  BY <5>1, <5>2
      <4>5. ASSUME NEW b \in Loaded(m)'
            PROVE  /\ val3char[getblock(targetfiles[m], b)] \in bs'
                   /\ b \notin targetfiles[m].bad
        <5>1. b \in Loaded(m) \/ b = blocknumber
          BY <4>2, <4>2a
        <5>2. QED  BY <2>1, <3>1, <3>3, <5>1
      <4>6. QED  BY <4>4, <4>5
    <3>4. QED  BY <3>2, <3>3
  <2>6. blocknumber' <= blocks'[t']
    BY <2>1, <2>2, <2>3, Numbered
  <2>7. QED  BY <2>1, <2>5, <2>6 DEF TablesInv
<1>3. CASE LoadEnd
  <2>1. /\ pc = "load" /\ pc' = "open"
        /\ blocknumber >= blocks[t]
        /\ t' = t + 1
        /\ UNCHANGED << targetfiles, loaded, blocknumber >>
    BY <1>3 DEF LoadEnd
  <2>2. t \in DOMAIN blocks /\ blocks[t] \in Nat /\ blocknumber \in Nat
    BY <2>1, Numbered DEF TypeInv, Opened
  <2>3. blocknumber = blocks[t]
    BY <2>1, <2>2 DEF TablesInv
  <2>4. \A m \in DOMAIN blocks : Loaded(m)' = Loaded(m)
    BY <2>1, <2>3 DEF Loaded
  <2>5. Searching
    BY <2>1 DEF Searching
  <2>6. QED  BY <2>1, <2>4, <2>5, TablesKept
<1>4. CASE OpenImage
  <2>1. Searching' => Searching
    BY <1>4 DEF OpenImage, Searching
  <2>2. \A m \in DOMAIN blocks : Loaded(m)' = Loaded(m)
    BY <1>4 DEF OpenImage, Loaded
  <2>3. QED  BY <1>4, <2>1, <2>2, TablesKept DEF OpenImage
<1>5. CASE SearchBlock
  <2>1. Searching' => Searching
    BY <1>5 DEF SearchBlock, Searching
  <2>2. \A m \in DOMAIN blocks : Loaded(m)' = Loaded(m)
    BY <1>5 DEF SearchBlock, Loaded
  <2>3. QED  BY <1>5, <2>1, <2>2, TablesKept DEF SearchBlock
<1>6. CASE SearchEnd \/ Throws \/ NullEntry \/ Clean \/ PrintRun \/ PrintBlock \/ PrintEnd \/ Return
  <2>1. ~ Searching'
    BY <1>6 DEF SearchEnd, Throws, NullEntry, Clean, PrintRun, PrintBlock, PrintEnd, Return,
                Searching
  <2>2. QED  BY <2>1 DEF TablesInv, Searching
<1>7. CASE UNCHANGED vars
  <2>1. /\ UNCHANGED << targetfiles, loaded >>
        /\ pc' = pc /\ blocknumber' = blocknumber /\ t' = t
    BY <1>7 DEF vars
  <2>2. Searching' => Searching
    BY <2>1 DEF Searching
  <2>3. \A m \in DOMAIN blocks : Loaded(m)' = Loaded(m)
    BY <2>1 DEF Loaded
  <2>4. pc' = "load" => blocknumber' <= blocks[t']
    BY <2>1 DEF TablesInv
  <2>5. QED  BY <2>1, <2>2, <2>3, <2>4, TablesKept
<1>8. QED
  BY <1>1, <1>2, <1>3, <1>4, <1>5, <1>6, <1>7 DEF Next

(***************************************************************************)
(* What was read had no error, and nothing is found before the search.     *)
(***************************************************************************)
\* Every step keeps what is known of errors.
LEMMA NextRead == TypeInv /\ TablesInv /\ ReadInv /\ [Next]_vars => ReadInv'
<1> SUFFICES ASSUME TypeInv, TablesInv, ReadInv, [Next]_vars PROVE ReadInv'
  OBVIOUS
<1> USE DEF disk, loaded
<1>1. CASE OpenTarget \/ LoadBlock \/ LoadEnd
  <2>1. pc' \in {"open", "load"}
    BY <1>1 DEF OpenTarget, LoadBlock, LoadEnd
  <2>2. ~ Started'
    BY <2>1 DEF Started, Searched
  <2>3. QED  BY <2>1, <2>2 DEF ReadInv
<1>2. CASE OpenImage
  <2>1. /\ pc' = "search" /\ blocknumber' = 0 /\ pc = "open"
        /\ imageBlocks' = totalSectors(image)
        /\ UNCHANGED << targetfiles, blocks, image >>
    BY <1>2 DEF OpenImage
  <2>2. ASSUME NEW m \in DOMAIN blocks, NEW b \in 0 .. blocks[m] - 1
        PROVE  b \notin targetfiles[m].bad
    <3>1. b \in Loaded(m)
      BY <2>1, <2>2 DEF Loaded
    <3>2. QED  BY <2>1, <3>1 DEF TablesInv, Searching
  <2>3. QED  BY <2>1, <2>2 DEF ReadInv
<1>3. CASE SearchBlock
  <2>1. /\ pc = "search" /\ pc' = "search" /\ blocknumber' = blocknumber + 1
        /\ blocknumber \notin image.bad
        /\ UNCHANGED << targetfiles, blocks, image, imageBlocks >>
    BY <1>3 DEF SearchBlock
  <2>2. Started
    BY <2>1 DEF Started
  <2>3. \A n \in 0 .. blocknumber' - 1 : n \in 0 .. blocknumber - 1 \/ n = blocknumber
    BY <2>1 DEF TypeInv
  <2>4. QED  BY <2>1, <2>2, <2>3 DEF ReadInv
<1>4. CASE SearchEnd
  <2>1. /\ pc = "search" /\ pc' = "report" /\ blocknumber >= imageBlocks
        /\ UNCHANGED << targetfiles, blocks, image, imageBlocks >>
    BY <1>4 DEF SearchEnd
  <2>2. Started
    BY <2>1 DEF Started
  <2>3. \A n \in 0 .. imageBlocks - 1 : n \in 0 .. blocknumber - 1
    BY <2>1 DEF TypeInv
  <2>4. QED  BY <2>1, <2>2, <2>3 DEF ReadInv
<1>5. CASE Throws \/ NullEntry \/ Return
  <2>1. /\ pc' = "exit"
        /\ UNCHANGED << targetfiles, blocks, image, imageBlocks >>
        /\ Started' => Started
    BY <1>5 DEF Throws, NullEntry, Return, TypeInv, Thrown, Started, Searched
  <2>2. QED  BY <2>1 DEF ReadInv
<1>6. CASE Clean \/ PrintRun \/ PrintBlock \/ PrintEnd
  <2>1. /\ pc \in {"report", "print"} /\ pc' \in {"report", "print"}
        /\ UNCHANGED << targetfiles, blocks, image, imageBlocks >>
    BY <1>6 DEF Clean, PrintRun, PrintBlock, PrintEnd
  <2>2. Started
    BY <2>1 DEF Started, Searched
  <2>3. QED  BY <2>1, <2>2 DEF ReadInv
<1>7. CASE UNCHANGED vars
  <2>1. /\ UNCHANGED << pc, targetfiles, blocks, image, imageBlocks, blocknumber >>
        /\ Started' => Started
    BY <1>7 DEF vars, Started, Searched
  <2>2. QED  BY <2>1 DEF ReadInv
<1>8. QED
  BY <1>1, <1>2, <1>3, <1>4, <1>5, <1>6, <1>7 DEF Next

\* Every step keeps the filemaps empty until the search.
LEMMA NextEmpty == TypeInv /\ EmptyInv /\ [Next]_vars => EmptyInv'
<1> SUFFICES ASSUME TypeInv, EmptyInv, [Next]_vars PROVE EmptyInv'
  OBVIOUS
<1> USE DEF disk, loaded
<1>1. CASE OpenTarget
  <2>1. /\ pc = "open" /\ t <= Len(targetfiles)
        /\ blocks' = Append(blocks, totalSectors(targetfiles[t]))
        /\ filemap' = filemap
    BY <1>1 DEF OpenTarget
  <2>2. \A m \in DOMAIN filemap : blocks'[m] = blocks[m]
    BY <2>1, Numbered DEF TypeInv
  <2>3. QED  BY <2>1, <2>2 DEF EmptyInv
<1>2. CASE LoadBlock
  BY <1>2 DEF LoadBlock, EmptyInv
<1>3. CASE LoadEnd
  <2>1. /\ pc = "load"
        /\ filemap' = Append(filemap, [b \in 0 .. blocks[t] - 1 |-> << >>])
        /\ blocks' = blocks
        /\ Len(filemap) = t - 1
    BY <1>3 DEF LoadEnd, TypeInv, Opened
  <2> DEFINE new == [b \in 0 .. blocks[t] - 1 |-> << >>]
  <2> HIDE DEF new
  <2>2. ASSUME NEW m \in DOMAIN filemap'
        PROVE  \/ m \in DOMAIN filemap /\ filemap'[m] = filemap[m]
               \/ m = t /\ filemap'[m] = new
    BY <2>1, Numbered DEF new, TypeInv, FilemapInv
  <2>3. QED  BY <2>1, <2>2 DEF EmptyInv, new
<1>4. CASE OpenImage \/ SearchBlock \/ SearchEnd \/ Throws \/ NullEntry \/ Clean \/ PrintRun \/ PrintBlock \/ PrintEnd \/ Return
  BY <1>4 DEF OpenImage, SearchBlock, SearchEnd, Throws, NullEntry, Clean, PrintRun, PrintBlock,
              PrintEnd, Return, EmptyInv
<1>5. CASE UNCHANGED vars
  BY <1>5 DEF vars, EmptyInv
<1>6. QED
  BY <1>1, <1>2, <1>3, <1>4, <1>5 DEF Next

(***************************************************************************)
(* A block of the image that is looked up is found at the equal blocks of  *)
(* the targets and at no other, with or without the prefilter.             *)
(***************************************************************************)
LEMMA LookupExact ==
  ASSUME Collisionless, TypeInv, TablesInv, pc = "search", SearchBlock,
         NEW m \in DOMAIN filemap, NEW b \in 0 .. blocks[m] - 1
  PROVE  filemap'[m][b] = IF At(m, b, blocknumber) THEN Append(filemap[m][b], blocknumber)
                          ELSE filemap[m][b]
<1> DEFINE buf == getblock(image, blocknumber)
<1>1. /\ m \in DOMAIN blocks
      /\ targetfiles[m] \in Files
      /\ image \in Files
      /\ blocknumber \in Nat
  BY Numbered DEF TypeInv
<1>2. buf \in Blocks /\ getblock(targetfiles[m], b) \in Blocks /\ sha1[buf] \in Sha1s
  BY <1>1, Sectors, Digests
<1>3. Loaded(m) = 0 .. blocks[m] - 1
  BY DEF Loaded
<1>3a. b \in Nat /\ b \in Loaded(m)
  BY <1>3
<1>3b. /\ \A h \in Sha1s : \A c \in Nat :
            contains(sha1map[m][h], c) <=>
              c \in Loaded(m) /\ sha1[getblock(targetfiles[m], c)] = h
       /\ \A c \in Loaded(m) : val3char[getblock(targetfiles[m], c)] \in bs
  BY <1>1 DEF TablesInv, Searching
<1> HIDE DEF buf
<1>4. /\ contains(sha1map[m][sha1[buf]], b) <=> sha1[getblock(targetfiles[m], b)] = sha1[buf]
      /\ val3char[getblock(targetfiles[m], b)] \in bs
  BY <1>2, <1>3a, <1>3b
<1>5. contains(sha1map[m][sha1[buf]], b) <=> At(m, b, blocknumber)
  BY <1>2, <1>4 DEF At, Collisionless, buf
<1>6. \/ val3char[buf] \notin bs /\ filemap' = filemap
      \/ val3char[buf] \in bs /\ filemap' = Matched(sha1[buf])
  BY DEF SearchBlock, buf
<1>7. CASE val3char[buf] \notin bs /\ filemap' = filemap
  <2>1. ~ At(m, b, blocknumber)
    BY <1>4, <1>7 DEF At, buf
  <2>2. QED  BY <1>7, <2>1
<1>8. CASE val3char[buf] \in bs /\ filemap' = Matched(sha1[buf])
  BY <1>5, <1>8, MatchedLists
<1>9. QED  BY <1>6, <1>7, <1>8

\* The places of a longer list.
LEMMA AppendPlaces ==
  ASSUME NEW list \in Seq(Nat), NEW n \in Nat, NEW j \in DOMAIN Append(list, n)
  PROVE  \/ j \in DOMAIN list /\ Append(list, n)[j] = list[j]
         \/ Append(list, n)[j] = n
OBVIOUS

\* Every step lists only what is there.
LEMMA NextGenuine ==
  Collisionless =>
    (TypeInv /\ TablesInv /\ GenuineInv /\ [Next]_vars => GenuineInv')
<1> SUFFICES ASSUME Collisionless, TypeInv, TablesInv, GenuineInv, [Next]_vars
             PROVE  GenuineInv'
  OBVIOUS
<1> USE DEF disk, loaded
<1>0. UNCHANGED << image, targetfiles >>
  BY DEF Next, OpenTarget, LoadBlock, LoadEnd, OpenImage, SearchBlock, SearchEnd, Throws,
         NullEntry, Clean, PrintRun, PrintBlock, PrintEnd, Return, vars
<1>0a. \A m, b, place : At(m, b, place)' <=> At(m, b, place)
  BY <1>0 DEF At
<1>1. CASE OpenTarget
  <2>1. /\ pc = "open" /\ t <= Len(targetfiles)
        /\ blocks' = Append(blocks, totalSectors(targetfiles[t]))
        /\ filemap' = filemap
    BY <1>1 DEF OpenTarget
  <2>2. \A m \in DOMAIN filemap : blocks'[m] = blocks[m]
    BY <2>1, Numbered DEF TypeInv
  <2>3. QED  BY <1>0a, <2>1, <2>2 DEF GenuineInv
<1>2. CASE LoadEnd
  <2>1. /\ pc = "load"
        /\ filemap' = Append(filemap, [b \in 0 .. blocks[t] - 1 |-> << >>])
        /\ blocks' = blocks
        /\ Len(filemap) = t - 1
    BY <1>2 DEF LoadEnd, TypeInv, Opened
  <2> DEFINE new == [b \in 0 .. blocks[t] - 1 |-> << >>]
  <2> HIDE DEF new
  <2>2. ASSUME NEW m \in DOMAIN filemap'
        PROVE  \/ m \in DOMAIN filemap /\ filemap'[m] = filemap[m]
               \/ m = t /\ filemap'[m] = new
    BY <2>1, Numbered DEF new, TypeInv, FilemapInv
  <2>3. QED  BY <1>0a, <2>1, <2>2 DEF GenuineInv, new
<1>3. CASE SearchBlock
  <2>1. pc = "search" /\ blocks' = blocks /\ DOMAIN filemap' = DOMAIN filemap
    BY <1>3, MatchedLists DEF SearchBlock
  <2>2. ASSUME NEW m \in DOMAIN filemap, NEW b \in 0 .. blocks[m] - 1,
               NEW j \in DOMAIN filemap'[m][b]
        PROVE  At(m, b, filemap'[m][b][j])
    <3>1. filemap'[m][b] = IF At(m, b, blocknumber) THEN Append(filemap[m][b], blocknumber)
                           ELSE filemap[m][b]
      BY <1>3, <2>1, LookupExact
    <3>2. filemap[m][b] \in Seq(Nat) /\ blocknumber \in Nat
      BY DEF TypeInv, FilemapInv
    <3>3. CASE At(m, b, blocknumber)
      <4>1. filemap'[m][b] = Append(filemap[m][b], blocknumber)
        BY <3>1, <3>3
      <4>2. \/ j \in DOMAIN filemap[m][b] /\ filemap'[m][b][j] = filemap[m][b][j]
            \/ filemap'[m][b][j] = blocknumber
        BY <3>2, <4>1, AppendPlaces
      <4>3. QED  BY <3>3, <4>2 DEF GenuineInv
    <3>4. CASE ~ At(m, b, blocknumber)
      BY <3>1, <3>4 DEF GenuineInv
    <3>5. QED  BY <3>3, <3>4
  <2>3. QED  BY <1>0a, <2>1, <2>2 DEF GenuineInv
<1>4. CASE Clean
  <2>1. blocks' = blocks /\ DOMAIN filemap' = DOMAIN filemap
    BY <1>4, CleanStep DEF Clean
  <2>2. ASSUME NEW m \in DOMAIN filemap, NEW b \in 0 .. blocks[m] - 1,
               NEW j \in DOMAIN filemap'[m][b]
        PROVE  At(m, b, filemap'[m][b][j])
    <3>1. /\ filemap'[m][b] \in Seq(Nat)
          /\ Narrowed(filemap'[m][b], filemap[m][b])
      BY <1>4, CleanStep
    <3>2. CASE filemap'[m][b] = filemap[m][b]
      BY <3>2 DEF GenuineInv
    <3>3. CASE Len(filemap'[m][b]) = 1 /\ contains(filemap[m][b], filemap'[m][b][1])
      <4>1. j = 1
        BY <3>1, <3>3
      <4>2. PICK k \in DOMAIN filemap[m][b] : filemap[m][b][k] = filemap'[m][b][1]
        BY <3>3 DEF contains
      <4>3. QED  BY <4>1, <4>2 DEF GenuineInv
    <3>4. QED  BY <3>1, <3>2, <3>3 DEF Narrowed
  <2>3. QED  BY <1>0a, <2>1, <2>2 DEF GenuineInv
<1>5. CASE LoadBlock \/ OpenImage \/ SearchEnd \/ Throws \/ NullEntry \/ PrintRun \/ PrintBlock \/ PrintEnd \/ Return \/ UNCHANGED vars
  <2>1. UNCHANGED << blocks, filemap >>
    BY <1>5 DEF LoadBlock, OpenImage, SearchEnd, Throws, NullEntry, PrintRun, PrintBlock,
                PrintEnd, Return, vars
  <2>2. QED  BY <1>0a, <2>1 DEF GenuineInv
<1>6. QED
  BY <1>1, <1>2, <1>3, <1>4, <1>5 DEF Next

(***************************************************************************)
(* The report.                                                             *)
(***************************************************************************)
\* A line of a run is true.
LEMMA RunIsTrue ==
  ASSUME TypeInv, GenuineInv, PrintRun
  PROVE  LineIsTrue([target |-> t, tb |-> tb, len |-> runlen(filemap[t], tb, filemap[t][tb][1]),
                     places |-> << filemap[t][tb][1] >>])
<1> DEFINE first_ib == filemap[t][tb][1]
           len == runlen(filemap[t], tb, first_ib)
<1>1. /\ t \in DOMAIN filemap
      /\ blocks[t] \in Nat
      /\ tb \in 0 .. blocks[t] - 1
      /\ 1 \in DOMAIN filemap[t][tb]
      /\ first_ib \in Nat
      /\ len \in 1 .. blocks[t] - tb
      /\ \A e \in 1 .. len - 1 : contains(filemap[t][tb + e], first_ib + e)
  BY PrintedRun DEF PrintRun
<1>2. ASSUME NEW e \in 0 .. len - 1
      PROVE  At(t, tb + e, first_ib + e)
  <2>1. tb + e \in 0 .. blocks[t] - 1
    BY <1>1
  <2>2. CASE e = 0
    <3>1. tb + e = tb /\ first_ib + e = first_ib
      BY <1>1, <2>2
    <3>2. QED  BY <1>1, <3>1 DEF GenuineInv
  <2>3. CASE e # 0
    <3>1. contains(filemap[t][tb + e], first_ib + e)
      BY <1>1, <2>3
    <3>2. PICK k \in DOMAIN filemap[t][tb + e] : filemap[t][tb + e][k] = first_ib + e
      BY <3>1 DEF contains
    <3>3. QED  BY <1>1, <2>1, <3>2 DEF GenuineInv
  <2>4. QED  BY <2>2, <2>3
<1>3. DOMAIN << first_ib >> = {1} /\ << first_ib >>[1] = first_ib
  OBVIOUS
<1> HIDE DEF first_ib, len
<1>4. QED  BY <1>2, <1>3 DEF LineIsTrue, first_ib, len

\* A line of a single block is true of each of its places.
LEMMA BlockIsTrue ==
  ASSUME TypeInv, GenuineInv, PrintBlock
  PROVE  LineIsTrue([target |-> t, tb |-> tb, len |-> 1, places |-> filemap[t][tb]])
<1>1. /\ t \in DOMAIN filemap
      /\ blocks[t] \in Nat
      /\ tb \in 0 .. blocks[t] - 1
      /\ filemap[t][tb] \in Seq(Nat)
  BY PrintedRun DEF PrintBlock
<1>2. ASSUME NEW p \in DOMAIN filemap[t][tb], NEW e \in 0 .. 1 - 1
      PROVE  At(t, tb + e, filemap[t][tb][p] + e)
  <2>1. filemap[t][tb][p] \in Nat
    BY <1>1
  <2>2. tb + e = tb /\ filemap[t][tb][p] + e = filemap[t][tb][p]
    BY <1>1, <2>1
  <2>3. QED  BY <1>1, <2>2 DEF GenuineInv
<1>3. QED  BY <1>2 DEF LineIsTrue

\* Every step keeps the report true.
LEMMA NextPrinted ==
  TypeInv /\ TablesInv /\ ReadInv /\ GenuineInv /\ PrintedInv /\ [Next]_vars => PrintedInv'
<1> SUFFICES ASSUME TypeInv, TablesInv, ReadInv, GenuineInv, PrintedInv, [Next]_vars
             PROVE  PrintedInv'
  OBVIOUS
<1> USE DEF disk, loaded
<1>0. UNCHANGED << image, targetfiles >>
  BY DEF Next, OpenTarget, LoadBlock, LoadEnd, OpenImage, SearchBlock, SearchEnd, Throws,
         NullEntry, Clean, PrintRun, PrintBlock, PrintEnd, Return, vars
<1>0a. (\A j \in DOMAIN printed' : LineIsTrue(printed'[j])) => LinesAreTrue'
  BY <1>0 DEF LinesAreTrue, LineIsTrue, At
<1>0b. printed' = printed => LinesAreTrue'
  BY <1>0a DEF PrintedInv, LinesAreTrue
<1>0c. printed \in Seq(Lines)
  BY DEF TypeInv
<1>0d. ASSUME NEW l \in Lines, LineIsTrue(l), printed' = Append(printed, l)
       PROVE  LinesAreTrue'
  <2>1. \A j \in DOMAIN printed' : (j \in DOMAIN printed /\ printed'[j] = printed[j]) \/ printed'[j] = l
    BY <1>0c, <1>0d
  <2>2. QED  BY <1>0a, <1>0d, <2>1 DEF PrintedInv, LinesAreTrue
<1>1. CASE PrintRun
  <2>1. /\ pc = "print" /\ pc' = "print" /\ imageBlocks' = imageBlocks
        /\ printed' = Append(printed, [target |-> t, tb |-> tb,
                                       len |-> runlen(filemap[t], tb, filemap[t][tb][1]),
                                       places |-> << filemap[t][tb][1] >>])
    BY <1>1 DEF PrintRun
  <2> DEFINE l == [target |-> t, tb |-> tb, len |-> runlen(filemap[t], tb, filemap[t][tb][1]),
                   places |-> << filemap[t][tb][1] >>]
  <2>2. LineIsTrue(l)
    BY <1>1, RunIsTrue
  <2>3. l \in Lines
    <3>1. /\ t \in Nat
          /\ filemap[t][tb][1] \in Nat
          /\ runlen(filemap[t], tb, filemap[t][tb][1]) \in Nat
      BY <1>1, PrintedRun DEF PrintRun
    <3>2. QED  BY <3>1 DEF Lines, TypeInv
  <2> HIDE DEF l
  <2>4. LinesAreTrue'
    BY <1>0d, <2>1, <2>2, <2>3 DEF l
  <2>5. Started' /\ ~ Searching'
    BY <2>1 DEF Started, Searched, Searching
  <2>6. QED  BY <1>0, <2>1, <2>4, <2>5 DEF PrintedInv, ReadInv
<1>2. CASE PrintBlock
  <2>1. /\ pc = "print" /\ pc' = "print" /\ imageBlocks' = imageBlocks
        /\ printed' = Append(printed, [target |-> t, tb |-> tb, len |-> 1,
                                       places |-> filemap[t][tb]])
    BY <1>2 DEF PrintBlock
  <2> DEFINE l == [target |-> t, tb |-> tb, len |-> 1, places |-> filemap[t][tb]]
  <2>2. LineIsTrue(l)
    BY <1>2, BlockIsTrue
  <2>3. l \in Lines
    <3>1. t \in Nat /\ filemap[t][tb] \in Seq(Nat)
      BY <1>2, PrintedRun DEF PrintBlock
    <3>2. QED  BY <3>1 DEF Lines, TypeInv
  <2> HIDE DEF l
  <2>4. LinesAreTrue'
    BY <1>0d, <2>1, <2>2, <2>3 DEF l
  <2>5. Started' /\ ~ Searching'
    BY <2>1 DEF Started, Searched, Searching
  <2>6. QED  BY <1>0, <2>1, <2>4, <2>5 DEF PrintedInv, ReadInv
<1>3. CASE OpenTarget \/ LoadBlock \/ LoadEnd \/ OpenImage \/ SearchBlock \/ SearchEnd \/ (Throws /\ Searching)
  <2>1. Searching /\ printed' = printed
    BY <1>3 DEF OpenTarget, LoadBlock, LoadEnd, OpenImage, SearchBlock, SearchEnd, Throws, Searching
  <2>2. printed' = << >>
    BY <2>1 DEF PrintedInv
  <2>3. LinesAreTrue'
    BY <1>0b, <2>2, <2>1
  <2>4. QED  BY <2>2, <2>3 DEF PrintedInv
<1>4. CASE NullEntry \/ Clean \/ PrintEnd \/ Return
  <2>1. /\ printed' = printed /\ imageBlocks' = imageBlocks
        /\ Started' /\ ~ Searching'
    BY <1>4 DEF NullEntry, Clean, PrintEnd, Return, TypeInv, Thrown, Started, Searched, Searching
  <2>2. QED  BY <1>0, <1>0b, <2>1 DEF PrintedInv
<1>5. CASE UNCHANGED vars
  <2>1. /\ printed' = printed /\ imageBlocks' = imageBlocks
        /\ Started' = Started /\ Searching' = Searching
    BY <1>5 DEF vars, Started, Searched, Searching
  <2>2. QED  BY <1>0, <1>0b, <2>1 DEF PrintedInv
<1>6. Throws => Searching
  BY DEF Throws, Searching
<1>7. QED
  BY <1>1, <1>2, <1>3, <1>4, <1>5, <1>6 DEF Next

-----------------------------------------------------------------------------
\* The invariant holds initially.
LEMMA InitSearch == Init => SearchInv
<1> SUFFICES ASSUME Init PROVE SearchInv
  OBVIOUS
<1>1. TypeInv
  BY InitTypes
<1>2. TablesInv /\ EmptyInv /\ GenuineInv
  BY DEF Init, TablesInv, EmptyInv, GenuineInv
<1>3. ReadInv /\ PrintedInv
  BY DEF Init, ReadInv, PrintedInv, LinesAreTrue, Started, Searched
<1>4. QED  BY <1>1, <1>2, <1>3 DEF SearchInv

\* A step keeps the invariant.
LEMMA NextSearch ==
  ASSUME Collisionless
  PROVE  SearchInv /\ [Next]_vars => SearchInv'
BY NextTypes, NextTables, NextRead, NextEmpty, NextGenuine, NextPrinted DEF SearchInv

\* The invariant holds in every reachable state.
LEMMA SpecSearch ==
  ASSUME Collisionless
  PROVE  Spec => []SearchInv
<1>1. SearchInv /\ [Next]_vars => SearchInv'
  BY NextSearch
<1>2. QED  BY InitSearch, <1>1, PTL DEF Spec

(***************************************************************************)
(* The port prints a line only after it has loaded every target and        *)
(* searched the whole image without an error, and what a line says is in   *)
(* the image: for every image, list of targets, sector size and prefilter. *)
(***************************************************************************)
THEOREM PrintedIsComplete ==
  ASSUME Collisionless
  PROVE  Spec => []ReportIsComplete
<1>1. SearchInv => ReportIsComplete
  <2> SUFFICES ASSUME SearchInv, printed # << >>
               PROVE  /\ \A n \in 0 .. imageBlocks - 1 : n \notin image.bad
                      /\ \A m \in DOMAIN targetfiles :
                           \A b \in 0 .. blocks[m] - 1 : b \notin targetfiles[m].bad
                      /\ \A j \in DOMAIN printed : \A p \in DOMAIN printed[j].places :
                           \A e \in 0 .. printed[j].len - 1 :
                             getblock(image, printed[j].places[p] + e) =
                               getblock(targetfiles[printed[j].target], printed[j].tb + e)
    BY DEF ReportIsComplete
  <2>1. TypeInv /\ ReadInv /\ PrintedInv
    BY DEF SearchInv
  <2>2. Started /\ DOMAIN blocks = DOMAIN targetfiles
    BY <2>1, Numbered DEF PrintedInv, TypeInv, Opened
  <2>3. \A m \in DOMAIN targetfiles : \A b \in 0 .. blocks[m] - 1 : b \notin targetfiles[m].bad
    BY <2>1, <2>2 DEF ReadInv
  <2>4. QED  BY <2>1, <2>3 DEF PrintedInv, LinesAreTrue, LineIsTrue, At
<1>2. Spec => []SearchInv
  BY SpecSearch
<1>3. QED  BY <1>1, <1>2, PTL

-----------------------------------------------------------------------------
(***************************************************************************)
(* Refinement of BlockSearch.  The operators name the terms that the       *)
(* refinement mapping substitutes for the variables.                       *)
(***************************************************************************)
AbsImage == [n \in wholeBlocks(image) |-> getblock(image, n)]

\* The blocks of the targets.
Contents ==
  [m \in DOMAIN targetfiles |-> [b \in DOMAIN filemap[m] |-> getblock(targetfiles[m], b)]]

\* What is searched for, and where it was found.
AbsTemplates == IF Started THEN Contents ELSE << >>
\* The lists once the search has started.
AbsWhere     == IF Started THEN filemap ELSE << >>
\* The block of the image that comes next.
AbsPosition  == IF Started THEN blocknumber ELSE 0
\* What the abstract search is doing.
AbsStage     == IF Searched THEN "reporting" ELSE IF Started THEN "searching" ELSE "loading"

\* The files do not change.
LEMMA DiskKept ==
  ASSUME [Next]_vars
  PROVE  UNCHANGED << image, targetfiles >> /\ AbsImage' = AbsImage
<1>1. UNCHANGED << image, targetfiles >>
  BY DEF Next, OpenTarget, LoadBlock, LoadEnd, OpenImage, SearchBlock, SearchEnd, Throws,
         NullEntry, Clean, PrintRun, PrintBlock, PrintEnd, Return, vars, disk
<1>2. QED  BY <1>1 DEF AbsImage, wholeBlocks, getblock

\* Lists for the same blocks are lists for the same contents.
LEMMA ContentsKept ==
  ASSUME TypeInv, TypeInv', Started, Started', [Next]_vars, blocks' = blocks
  PROVE  /\ DOMAIN filemap = DOMAIN targetfiles
         /\ DOMAIN filemap' = DOMAIN targetfiles
         /\ \A m \in DOMAIN targetfiles : /\ DOMAIN filemap[m] = 0 .. blocks[m] - 1
                                          /\ DOMAIN filemap'[m] = 0 .. blocks[m] - 1
         /\ Contents' = Contents
<1>1. targetfiles' = targetfiles
  BY DiskKept
<1>2. /\ Len(filemap) = Len(targetfiles) /\ Len(filemap') = Len(targetfiles)
      /\ targetfiles \in Seq(Files)
      /\ filemap \in Seq(Maps) /\ filemap' \in Seq(Maps)
  BY <1>1 DEF TypeInv, Opened, FilemapInv
<1>3. DOMAIN filemap = DOMAIN targetfiles /\ DOMAIN filemap' = DOMAIN targetfiles
  BY <1>2
<1>4. ASSUME NEW m \in DOMAIN targetfiles
      PROVE  /\ DOMAIN filemap[m] = 0 .. blocks[m] - 1
             /\ DOMAIN filemap'[m] = 0 .. blocks[m] - 1
  <2>1. filemap[m] \in [0 .. blocks[m] - 1 -> Seq(Nat)]
    BY <1>3 DEF TypeInv, FilemapInv
  <2>2. filemap'[m] \in [0 .. blocks[m] - 1 -> Seq(Nat)]
    BY <1>3 DEF TypeInv, FilemapInv
  <2>3. QED  BY <2>1, <2>2
<1>5. Contents' = Contents
  BY <1>1, <1>4 DEF Contents, getblock
<1>6. QED  BY <1>3, <1>4, <1>5

\* Initial states are initial states of the abstract search.
LEMMA SearchRefinementInit == Init => Search!AbsInit
BY DEF Init, Search!AbsInit, Started, Searched

(***************************************************************************)
(* Each step of the port is a step of the search for contents, or does not *)
(* show in it.                                                             *)
(***************************************************************************)
LEMMA SearchRefinementStep ==
  ASSUME Collisionless, SearchInv, SearchInv', [Next]_vars
  PROVE  [Search!AbsNext]_(Search!absvars)
<1>1. TypeInv /\ TypeInv' /\ TablesInv /\ ReadInv /\ EmptyInv
  BY DEF SearchInv
<1>2. AbsImage' = AbsImage /\ UNCHANGED << image, targetfiles >>
  BY DiskKept
<1> DEFINE AbsVars == << AbsImage, AbsTemplates, AbsWhere, AbsPosition, AbsStage >>
<1>3. /\ Search!absvars = AbsVars
      /\ Search!absvars' = AbsVars'
  BY DEF Search!absvars, AbsImage, AbsTemplates, AbsWhere, AbsPosition, AbsStage, Contents
<1>4. CASE OpenTarget \/ LoadBlock \/ LoadEnd \/ (Throws /\ pc # "search")
  <2>1. ~ Started /\ ~ Started'
    <3>1. /\ pc \in {"open", "load"}
          /\ pc' \in {"open", "load"} \/ (pc' = "exit" /\ thrown' = "IOException" /\ imageBlocks' = imageBlocks)
      BY <1>4 DEF OpenTarget, LoadBlock, LoadEnd, Throws
    <3>2. imageBlocks = 0
      BY <1>1, <3>1 DEF TypeInv, Thrown
    <3>3. QED  BY <3>1, <3>2 DEF Started, Searched
  <2>2. ~ Searched /\ ~ Searched'
    BY <2>1 DEF Started
  <2>3. AbsVars' = AbsVars
    BY <1>2, <2>1, <2>2 DEF AbsTemplates, AbsWhere, AbsPosition, AbsStage
  <2>4. QED  BY <1>3, <2>3
<1>5. CASE OpenImage
  <2>1. /\ pc = "open" /\ pc' = "search" /\ blocknumber' = 0
        /\ UNCHANGED << blocks, filemap >>
        /\ t > Len(targetfiles)
    BY <1>5 DEF OpenImage, loaded
  <2>2. ~ Started /\ ~ Searched /\ Started' /\ ~ Searched'
    BY <2>1 DEF Started, Searched
  <2>3. DOMAIN filemap = DOMAIN targetfiles
    BY <1>1, <1>2, <2>1, <2>2, Numbered DEF TypeInv, FilemapInv, Opened
  <2>4. Contents' = Contents
    BY <1>2, <2>1 DEF Contents, getblock
  <2>5. \A m \in DOMAIN filemap :
          /\ DOMAIN filemap[m] = 0 .. blocks[m] - 1
          /\ filemap[m] = [b \in 0 .. blocks[m] - 1 |-> << >>]
    BY <1>1, <2>1 DEF EmptyInv, TypeInv, FilemapInv
  <2>6. filemap = [m \in DOMAIN Contents |-> [b \in DOMAIN Contents[m] |-> << >>]]
    <3>1. filemap = [m \in DOMAIN filemap |-> filemap[m]]
      BY <1>1 DEF TypeInv, FilemapInv
    <3>2. /\ DOMAIN Contents = DOMAIN filemap
          /\ \A m \in DOMAIN filemap : DOMAIN Contents[m] = 0 .. blocks[m] - 1
      BY <2>3, <2>5 DEF Contents
    <3>3. \A m \in DOMAIN filemap : filemap[m] = [b \in DOMAIN Contents[m] |-> << >>]
      BY <2>5, <3>2
    <3> HIDE DEF Contents
    <3>4. QED  BY <3>1, <3>2, <3>3
  <2>7. /\ AbsStage = "loading" /\ AbsStage' = "searching"
        /\ AbsPosition' \in Nat
        /\ AbsTemplates' = Contents
        /\ AbsWhere' = filemap
    BY <2>1, <2>2, <2>4 DEF AbsStage, AbsPosition, AbsTemplates, AbsWhere
  <2>8. Search!Begin
    BY <1>2, <2>6, <2>7 DEF Search!Begin, AbsImage, AbsTemplates, AbsWhere, AbsPosition,
                            AbsStage, Contents
  <2>9. QED  BY <2>8 DEF Search!AbsNext
<1>6. CASE SearchBlock
  <2>1. /\ pc = "search" /\ pc' = "search"
        /\ blocknumber < imageBlocks /\ blocknumber' = blocknumber + 1
        /\ blocks' = blocks
    BY <1>6 DEF SearchBlock, loaded
  <2>2. Started /\ ~ Searched /\ Started' /\ ~ Searched'
    BY <2>1 DEF Started, Searched
  <2>3. /\ DOMAIN filemap = DOMAIN targetfiles
        /\ DOMAIN filemap' = DOMAIN targetfiles
        /\ \A m \in DOMAIN targetfiles : /\ DOMAIN filemap[m] = 0 .. blocks[m] - 1
                                         /\ DOMAIN filemap'[m] = 0 .. blocks[m] - 1
        /\ Contents' = Contents
    BY <1>1, <2>1, <2>2, ContentsKept
  <2>4. blocknumber \in wholeBlocks(image)
    <3>1. blocknumber \in 0 .. totalSectors(image) - 1
      BY <1>1, <2>1, Sectors DEF ReadInv, TypeInv
    <3>2. QED  BY <1>1, <3>1, Sectors DEF TypeInv
  <2>5. ASSUME NEW m \in DOMAIN filemap, NEW b \in 0 .. blocks[m] - 1
        PROVE  filemap'[m][b] = IF Contents[m][b] = AbsImage[blocknumber]
                                THEN Append(filemap[m][b], blocknumber)
                                ELSE filemap[m][b]
    <3>1. filemap'[m][b] = IF At(m, b, blocknumber) THEN Append(filemap[m][b], blocknumber)
                           ELSE filemap[m][b]
      BY <1>1, <1>6, <2>1, LookupExact
    <3>2. Contents[m][b] = getblock(targetfiles[m], b)
      BY <2>3 DEF Contents
    <3>3. AbsImage[blocknumber] = getblock(image, blocknumber)
      BY <2>4 DEF AbsImage
    <3>4. QED  BY <3>1, <3>2, <3>3 DEF At
  <2>6. DOMAIN Contents = DOMAIN filemap /\ \A m \in DOMAIN filemap : DOMAIN Contents[m] = 0 .. blocks[m] - 1
    BY <2>3 DEF Contents
  <2>7. filemap' = [m \in DOMAIN Contents |->
                     [b \in DOMAIN Contents[m] |->
                       IF Contents[m][b] = AbsImage[blocknumber]
                       THEN Append(filemap[m][b], blocknumber)
                       ELSE filemap[m][b]]]
    <3> DEFINE map == filemap'
               found(m, b) == IF Contents[m][b] = AbsImage[blocknumber]
                              THEN Append(filemap[m][b], blocknumber)
                              ELSE filemap[m][b]
    <3>1. /\ map \in Seq(Maps) /\ DOMAIN map = DOMAIN filemap
          /\ \A m \in DOMAIN map : map[m] \in [0 .. blocks[m] - 1 -> Seq(Nat)]
      BY <1>1, <2>1, <2>3 DEF TypeInv, FilemapInv
    <3>2. \A m \in DOMAIN filemap : \A b \in 0 .. blocks[m] - 1 : map[m][b] = found(m, b)
      BY <2>5
    <3> HIDE DEF map, found
    <3>3. map = [m \in DOMAIN filemap |-> map[m]]
      BY <3>1
    <3>4. ASSUME NEW m \in DOMAIN filemap
          PROVE  map[m] = [b \in DOMAIN Contents[m] |-> found(m, b)]
      <4>1. map[m] = [b \in 0 .. blocks[m] - 1 |-> map[m][b]]
        BY <3>1
      <4>2. QED  BY <2>6, <3>2, <4>1
    <3>5. map = [m \in DOMAIN Contents |-> [b \in DOMAIN Contents[m] |-> found(m, b)]]
      BY <2>6, <3>3, <3>4
    <3>6. QED  BY <3>5 DEF map, found
  <2>8. /\ AbsStage = "searching" /\ AbsStage' = "searching"
        /\ AbsPosition = blocknumber /\ AbsPosition' = blocknumber + 1
        /\ AbsTemplates = Contents /\ AbsTemplates' = Contents
        /\ AbsWhere = filemap /\ AbsWhere' = filemap'
        /\ DOMAIN AbsImage = wholeBlocks(image)
    BY <2>1, <2>2, <2>3 DEF AbsStage, AbsPosition, AbsTemplates, AbsWhere, AbsImage
  <2>9. Search!Search
    BY <1>2, <2>4, <2>7, <2>8 DEF Search!Search, AbsImage, AbsTemplates, AbsWhere, AbsPosition,
                            AbsStage, Contents
  <2>10. QED  BY <2>9 DEF Search!AbsNext
<1>7. CASE SearchEnd \/ (Throws /\ pc = "search")
  <2>1. /\ pc = "search"
        /\ UNCHANGED << blocks, filemap, blocknumber >>
    BY <1>7 DEF SearchEnd, Throws, loaded
  <2>2. Started /\ ~ Searched /\ Started' /\ Searched'
    BY <1>1, <1>7 DEF SearchEnd, Throws, Started, Searched, TypeInv
  <2>3. Contents' = Contents
    BY <1>1, <2>1, <2>2, ContentsKept
  <2>4. /\ AbsStage = "searching" /\ AbsStage' = "reporting"
        /\ AbsPosition' = AbsPosition
        /\ AbsTemplates' = AbsTemplates
        /\ AbsWhere' = AbsWhere
    BY <2>1, <2>2, <2>3 DEF AbsStage, AbsPosition, AbsTemplates, AbsWhere
  <2>5. Search!Stop
    BY <1>2, <2>4 DEF Search!Stop, AbsImage, AbsTemplates, AbsWhere, AbsPosition,
                      AbsStage, Contents
  <2>6. QED  BY <2>5 DEF Search!AbsNext
<1>8. CASE Clean
  <2>1. /\ pc = "report" /\ pc' = "print"
        /\ UNCHANGED << blocks, blocknumber >>
    BY <1>8 DEF Clean, loaded
  <2>2. Started /\ Searched /\ Started' /\ Searched'
    BY <2>1 DEF Started, Searched
  <2>3. /\ DOMAIN filemap = DOMAIN targetfiles
        /\ \A m \in DOMAIN targetfiles : DOMAIN filemap[m] = 0 .. blocks[m] - 1
        /\ Contents' = Contents
    BY <1>1, <2>1, <2>2, ContentsKept
  <2>4. ASSUME NEW m \in DOMAIN filemap, NEW b \in DOMAIN filemap[m]
        PROVE  \/ filemap'[m][b] = filemap[m][b]
               \/ \E j \in DOMAIN filemap[m][b] : filemap'[m][b] = << filemap[m][b][j] >>
    <3>1. /\ filemap'[m][b] \in Seq(Nat)
          /\ Narrowed(filemap'[m][b], filemap[m][b])
      BY <1>1, <1>8, <2>3, CleanStep
    <3>2. CASE filemap'[m][b] = filemap[m][b]
      BY <3>2
    <3>3. CASE Len(filemap'[m][b]) = 1 /\ contains(filemap[m][b], filemap'[m][b][1])
      <4>1. PICK k \in DOMAIN filemap[m][b] : filemap[m][b][k] = filemap'[m][b][1]
        BY <3>3 DEF contains
      <4>2. filemap'[m][b] = << filemap'[m][b][1] >>
        BY <3>1, <3>3
      <4>3. QED  BY <4>1, <4>2
    <3>4. QED  BY <3>1, <3>2, <3>3 DEF Narrowed
  <2>5. /\ AbsStage = "reporting" /\ AbsStage' = "reporting"
        /\ AbsPosition' = AbsPosition
        /\ AbsTemplates' = AbsTemplates
        /\ AbsWhere = filemap /\ AbsWhere' = filemap'
    BY <2>1, <2>2, <2>3 DEF AbsStage, AbsPosition, AbsTemplates, AbsWhere
  <2>6. Search!Narrow
    BY <1>2, <2>4, <2>5 DEF Search!Narrow, AbsImage, AbsTemplates, AbsWhere, AbsPosition,
                            AbsStage, Contents
  <2>7. QED  BY <2>6 DEF Search!AbsNext
<1>9. CASE NullEntry \/ PrintRun \/ PrintBlock \/ PrintEnd \/ Return \/ UNCHANGED vars
  <2>1. /\ UNCHANGED << blocks, filemap, blocknumber >>
        /\ Started' = Started /\ Searched' = Searched
    BY <1>1, <1>9 DEF NullEntry, PrintRun, PrintBlock, PrintEnd, Return, vars, loaded, Started,
                      Searched, TypeInv, Thrown
  <2>2. Contents' = Contents
    BY <1>2, <2>1 DEF Contents, getblock
  <2>3. AbsVars' = AbsVars
    BY <1>2, <2>1, <2>2 DEF AbsTemplates, AbsWhere, AbsPosition, AbsStage
  <2>4. QED  BY <1>3, <2>3
<1>10. QED
  BY <1>4, <1>5, <1>6, <1>7, <1>8, <1>9 DEF Next

(***************************************************************************)
(* The port implements BlockSearch, the search without digests and         *)
(* prefilter, also when an exception ends it.                              *)
(***************************************************************************)
THEOREM PortRefinement ==
  ASSUME Collisionless
  PROVE  Spec => ImplementsBlockSearch
<1>1. SearchInv /\ SearchInv' /\ [Next]_vars => [Search!AbsNext]_(Search!absvars)
  BY SearchRefinementStep
<1>2. Spec => []SearchInv
  BY SpecSearch
<1>3. QED
  BY <1>1, <1>2, SearchRefinementInit, PTL
  DEF Spec, ImplementsBlockSearch, Search!AbsSpec
=============================================================================
