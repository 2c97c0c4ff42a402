--------------------------- MODULE MCJavaFragFind ---------------------------
(***************************************************************************)
(* Instances of JavaFragFind: files over the bytes 0 and 1, sectors of two *)
(* bytes.  The prefilter does not tell 01 from 10.                         *)
(***************************************************************************)
EXTENDS JavaFragFind

MCSha1     == [block \in [1 .. 2 -> {0, 1}] |-> 2 * block[1] + block[2]]
MCVal3char == [block \in [1 .. 2 -> {0, 1}] |-> block[1] + block[2]]

\* What the theorems assume of digests holds of this one.
ASSUME MCCollisionless == Collisionless

File(bytes) == [exists |-> TRUE, device |-> FALSE, bytes |-> bytes, bad |-> {}]
Device(bytes) == [File(bytes) EXCEPT !.device = TRUE]
BadAt(n, file) == [file EXCEPT !.bad = {n}]
Missing == [File(<< >>) EXCEPT !.exists = FALSE]

MCImages ==
  { File(s) : s \in [1 .. 8 -> {0, 1}] }
    \cup { Missing, File(<< 0 >>), File(<< 0, 1, 0, 0, 1 >>),
           BadAt(1, File(<< 0, 0, 0, 0 >>)), BadAt(2, Device(<< 0, 1, 1, 0, 0, 0 >>)),
           Device(<< 0, 1, 1, 0, 1, 1, 0, 1, 0, 0 >>), Device(<< >>) }

MCTargets ==
  { << a, b >> : a \in { File(s) : s \in [1 .. 4 -> {0, 1}] \cup {<< 0, 1, 1, 0, 1 >>} },
                 b \in { File(<< 0, 1, 0, 0, 0, 1 >>), File(<< 1, 0 >>), Missing,
                         BadAt(1, File(<< 0, 0, 1, 0 >>)), File(<< 1 >>) } }
=============================================================================
