----------------------------- MODULE MCFragFind -----------------------------
(***************************************************************************)
(* Instances of FragFind: files over the bytes 0 and 1, blocks of one, two *)
(* or three bytes.  The digest of a block is the number its bytes stand    *)
(* for; with blocks of two bytes 00 and 01 together set the bits of 10,    *)
(* which is then a false positive of the Bloom filter.                     *)
(***************************************************************************)
EXTENDS FragFind, TLC

Strings(n) == [1 .. n -> {0, 1}]

MCmd5 == [content \in Strings(1) \cup Strings(2) \cup Strings(3) |->
           FoldLeft(LAMBDA sofar, byte : 2 * sofar + byte, 0, content)]

MCHashes  == 0 .. 7
MCBits    == 0 .. 3
MCslice   == [h \in MCHashes |->
               << 0 :> 0 @@ 1 :> 1, 0 :> 1 @@ 1 :> 2, 0 :> 2 @@ 1 :> 0, 0 :> 3 @@ 1 :> 3,
                  0 :> 0 @@ 1 :> 3, 0 :> 1 @@ 1 :> 3, 0 :> 2 @@ 1 :> 3, 0 :> 1 @@ 1 :> 1
               >>[h + 1]]
MCGarbage == { << 1 >>, << 1, 1 >>, << 0, 1, 1 >> }

File(bytes) == [ exists |-> TRUE, device |-> FALSE, shrinks |-> FALSE,
                 bytes |-> bytes, bad |-> {} ]
Device(bytes) == [File(bytes) EXCEPT !.device = TRUE]
BadAt(n, file) == [file EXCEPT !.bad = {n}]
Shrinking(bytes) == [File(bytes) EXCEPT !.shrinks = TRUE]
Missing == [File(<< >>) EXCEPT !.exists = FALSE]

HashFile(lines, newline) ==
  [exists |-> TRUE, lines |-> lines, endsInNewline |-> newline]

Defaults == [ blocksize |-> 2, start |-> 0, end |-> 0, raw |-> FALSE, x |-> TRUE,
              M |-> 32, invalid |-> FALSE, md5deep |-> << >>, masters |-> << >> ]

On(images, commands) == [image : images, cmd : commands]

\* Every image of four blocks, with every master of two blocks, two and a
\* half, or three.
ReportRuns ==
  On({ File(s) : s \in Strings(8) },
     { [Defaults EXCEPT !.masters = << File(s) >>] :
         s \in Strings(4) \cup Strings(5) \cup Strings(6) })

\* Two masters that share blocks, images with a bad block, part of the image.
SearchRuns ==
  On({ File(s) : s \in Strings(6) } \cup { BadAt(1, File(<< 0, 1, 1, 0, 0, 0 >>)) },
     { [option EXCEPT !.masters = << File(s), b >>] :
         option \in { [Defaults EXCEPT !.end = 2, !.x = FALSE],
                      [Defaults EXCEPT !.start = 1, !.raw = TRUE] },
         s \in Strings(4),
         b \in { File(<< 0, 1, 0, 1, 1 >>), File(<< 1, 0 >>),
                 BadAt(1, File(<< 0, 0, 1, 0 >>)) } })

\* Files that are missing, empty, too short, too long, devices, unreadable or
\* truncated while they are scanned; blocks of one and three bytes.
FaultOptions ==
  { [Defaults EXCEPT !.raw = TRUE], [Defaults EXCEPT !.start = 1, !.end = 1],
    [Defaults EXCEPT !.start = 3, !.x = FALSE], [Defaults EXCEPT !.blocksize = 1],
    [Defaults EXCEPT !.blocksize = 3, !.raw = TRUE] }

FaultRuns ==
  On({ Missing, File(<< >>), File(<< 0 >>), Shrinking(<< 0, 1, 0, 0, 1 >>),
       Shrinking(<< 0, 1, 0, 1, 1, 0 >>), Device(<< 0, 1, 1, 0, 1, 0 >>),
       Device(<< >>), BadAt(0, File(<< 0, 1, 0, 1 >>)) },
     { [option EXCEPT !.masters = << a, b >>] :
         option \in FaultOptions,
         a \in { File(<< 0, 1, 0 >>), File(<< 0, 0 >>), Missing, File(<< 1 >>) },
         b \in { File(<< 0, 1, 0, 1 >>), File(<< 0, 1, 0, 0, 1 >>), File(<< >>),
                 Device(<< 0, 1, 0, 1 >>), BadAt(0, File(<< 1, 0 >>)) } })

DeviceRuns == { r \in FaultRuns : r.image.device }

\* The end of a master, or of the copy of it, can be read or cannot.
TailRuns ==
  On({ BadAt(n, File(s)) : n \in 1 .. 2,
                           s \in { << 0, 1, 1, 0, 1 >>, << 0, 1, 1, 0, 1, 1 >> } },
     { [Defaults EXCEPT !.masters = << a, b >>] :
         a \in { BadAt(n, File(<< 0, 1, 1, 0, 1 >>)) : n \in 1 .. 3 },
         b \in { File(<< 0, 1, 1 >>), BadAt(1, File(<< 0, 1, 1 >>)) } })

\* Command lines.
HashFiles ==
  { HashFile(lines, newline) :
      lines \in UNION { [1 .. n -> {"piece", "unnamed", "text"}] : n \in 0 .. 2 },
      newline \in BOOLEAN }
    \cup { [HashFile(<< >>, FALSE) EXCEPT !.exists = FALSE] }

Usual == [Defaults EXCEPT !.masters = << File(<< 0, 1 >>) >>]

CommandRuns ==
  On({ File(<< 0, 1, 1, 0 >>) },
     { [Usual EXCEPT !.md5deep = << file >>] : file \in HashFiles }
       \cup { Usual, Defaults, [Usual EXCEPT !.invalid = TRUE], [Usual EXCEPT !.M = 33],
              [Usual EXCEPT !.blocksize = 0] })

MCRuns == ReportRuns \cup SearchRuns \cup FaultRuns \cup TailRuns \cup CommandRuns

\* What the theorems about the search ask for holds of these instances.
ASSUME SearchAssumption == Collisionless /\ SmallMasters
=============================================================================
