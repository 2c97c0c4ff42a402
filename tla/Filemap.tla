------------------------------ MODULE Filemap ------------------------------
(***************************************************************************)
(* The data structures of frag_find.cpp in which the matches are kept.     *)
(*                                                                         *)
(* A blocklist (class blocklist_t) is the sequence of image block numbers  *)
(* at which one block of a master file was seen.  A filemap (class         *)
(* filemap_t) has one blocklist for each block of the master file: a       *)
(* function on 0..n-1, because the source indexes its vector from 0.       *)
(***************************************************************************)
EXTENDS Integers, Sequences, FiniteSets

contains(blocklist, block) ==
  \E j \in DOMAIN blocklist : blocklist[j] = block

size(fm) == Cardinality(DOMAIN fm)

(***************************************************************************)
(* Mutants: the slips Pin and runlen are exposed to.                       *)
(***************************************************************************)
\* The neighbour's place is taken without asking whether the block was there.
PinAnywhere(neighbour, blocklist, offset) ==
  IF Len(neighbour) = 1 /\ Len(blocklist) > 1
  THEN << neighbour[1] + offset >>
  ELSE blocklist

\* front() of a neighbour that still has several places.
PinToUndecided(neighbour, blocklist, offset) ==
  IF /\ Len(neighbour) >= 1
     /\ Len(blocklist) > 1
     /\ contains(blocklist, neighbour[1] + offset)
  THEN << neighbour[1] + offset >>
  ELSE blocklist

\* The run goes to the end of the file without looking.
runlenUnchecked(fm, master_block, image_block) == size(fm) - master_block

(***************************************************************************)
(* filemap_t::clean.  When a neighbour of a block is in exactly one place  *)
(* and the block itself in several, the block is pinned to the place that  *)
(* lines up with the neighbour, if it is one of its own places.            *)
(***************************************************************************)
Pin(neighbour, blocklist, offset) ==
  IF /\ Len(neighbour) = 1
     /\ Len(blocklist) > 1
     /\ contains(blocklist, neighbour[1] + offset)
  THEN << neighbour[1] + offset >>
  ELSE blocklist

\* The first loop: upwards, each block against its already visited predecessor.
CleanUp(fm) ==
  LET up[b \in DOMAIN fm] ==
        IF b = 0 THEN fm[b] ELSE Pin(up[b - 1], fm[b], 1)
  IN  up

\* The second loop: downwards, each block against its successor.
CleanDown(fm) ==
  LET down[b \in DOMAIN fm] ==
        IF b = size(fm) - 1 THEN fm[b] ELSE Pin(down[b + 1], fm[b], -1)
  IN  down

clean(fm) == CleanDown(CleanUp(fm))

(***************************************************************************)
(* filemap_t::runlen: how many successive master blocks starting at        *)
(* master_block were seen at successive image blocks.  The loop never      *)
(* looks at the starting block itself, so the result is at least 1.        *)
(***************************************************************************)
runlen(fm, master_block, image_block) ==
  LET stops == { len \in 1 .. (size(fm) - master_block) :
                   \/ master_block + len = size(fm)
                   \/ ~ contains(fm[master_block + len], image_block + len) }
  IN  CHOOSE len \in stops : \A other \in stops : len <= other

found_count(fm) == Cardinality({ b \in DOMAIN fm : Len(fm[b]) > 0 })
=============================================================================
