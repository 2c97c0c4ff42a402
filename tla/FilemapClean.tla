---------------------------- MODULE FilemapClean ----------------------------
(***************************************************************************)
(* The two loops of filemap_t::clean (frag_find.cpp), one iteration per    *)
(* step, run on an arbitrary filemap of any number of master blocks.       *)
(*                                                                         *)
(* main() calls clean() once and wonders whether it "would make more sense *)
(* to iteratively clean" (frag_find.cpp:716).  The properties below say    *)
(* what one call achieves: it loses no block, invents no location, and     *)
(* leaves nothing for a second call to do.                                 *)
(***************************************************************************)
EXTENDS Filemap

CONSTANTS
  Sizes,      \* the numbers of blocks a master file may have
  Lists       \* the blocklists a filemap may be made of

ASSUME SizesAssumption == Sizes \subseteq Nat
ASSUME ListsAssumption == Lists \subseteq Seq(Nat)

VARIABLES
  N,          \* size(), the number of blocks of the master file
  fm,         \* *this
  fm0,        \* *this as it was when clean() was called (history)
  b,          \* the loop counter of the loop being run
  pc          \* "up": first loop, "down": second loop, "done": returned

vars == << N, fm, fm0, b, pc >>

Init ==
  /\ N \in Sizes
  /\ fm \in [0 .. N - 1 -> Lists]
  /\ fm0 = fm
  /\ b = 1
  /\ pc = "up"

(***************************************************************************)
(* Mutants of the loops.                                                   *)
(***************************************************************************)
\* The second loop also starts at 1 and stops before block 0.
DownExitEarly ==
  /\ pc = "down"
  /\ b < 1
  /\ pc' = "done"
  /\ UNCHANGED << N, fm, fm0, b >>

\* size() - 2 kept in a size_t: for 0 or 1 blocks it is a huge number, and
\* the second loop runs off the filemap and never returns.
UpExitUnsigned ==
  /\ pc = "up"
  /\ b >= N
  /\ N >= 2
  /\ pc' = "down"
  /\ b' = N - 2
  /\ UNCHANGED << N, fm, fm0 >>

\* The second loop predicts the wrong side of its neighbour.
DownStepPlusOne ==
  /\ pc = "down"
  /\ b >= 0
  /\ fm' = [fm EXCEPT ![b] = Pin(fm[b + 1], fm[b], 1)]
  /\ b' = b - 1
  /\ UNCHANGED << N, fm0, pc >>

(***************************************************************************)
(* One iteration of the first loop, and its exit.                          *)
(***************************************************************************)
UpStep ==
  /\ pc = "up"
  /\ b < N
  /\ fm' = [fm EXCEPT ![b] = Pin(fm[b - 1], fm[b], 1)]
  /\ b' = b + 1
  /\ UNCHANGED << N, fm0, pc >>

UpExit ==
  /\ pc = "up"
  /\ b >= N
  /\ pc' = "down"
  /\ b' = N - 2
  /\ UNCHANGED << N, fm, fm0 >>

(***************************************************************************)
(* One iteration of the second loop, and the return.                       *)
(***************************************************************************)
DownStep ==
  /\ pc = "down"
  /\ b >= 0
  /\ fm' = [fm EXCEPT ![b] = Pin(fm[b + 1], fm[b], -1)]
  /\ b' = b - 1
  /\ UNCHANGED << N, fm0, pc >>

DownExit ==
  /\ pc = "down"
  /\ b < 0
  /\ pc' = "done"
  /\ UNCHANGED << N, fm, fm0, b >>

Next == UpStep \/ UpExit \/ DownStep \/ DownExit

Spec == Init /\ [][Next]_vars

\* clean() is a plain call: it keeps running until it returns.
FairSpec == Spec /\ WF_vars(Next)
-----------------------------------------------------------------------------
(***************************************************************************)
(* Type invariant.                                                         *)
(***************************************************************************)
TypeOK ==
  /\ N \in Nat
  /\ fm  \in [0 .. N - 1 -> Seq(Nat)]
  /\ fm0 \in [0 .. N - 1 -> Seq(Nat)]
  /\ b \in Int
  /\ pc \in {"up", "down", "done"}

(***************************************************************************)
(* clean() only ever replaces a blocklist by one of its own entries: no    *)
(* master block that was found is lost, and none is moved to an image      *)
(* block where it was not seen (frag_find.cpp:134-137 and 145-148).        *)
(***************************************************************************)
OnlyNarrows ==
  \A c \in 0 .. N - 1 :
    \/ fm[c] = fm0[c]
    \/ /\ Len(fm[c]) = 1
       /\ contains(fm0[c], fm[c][1])

(***************************************************************************)
(* A blocklist is narrowed only in favour of a run: the block that was     *)
(* pinned continues a neighbour that has one location (the comment         *)
(* "only pick the sector that aligns", frag_find.cpp:126-128), and the     *)
(* later iterations do not take that neighbour away again.                 *)
(***************************************************************************)
Aligned(c, d) ==
  /\ d \in 0 .. N - 1
  /\ Len(fm[d]) = 1
  /\ fm[c][1] - fm[d][1] = c - d

NarrowedIsAligned ==
  \A c \in 0 .. N - 1 :
    fm[c] # fm0[c] => Aligned(c, c - 1) \/ Aligned(c, c + 1)

(***************************************************************************)
(* When clean() returns, neither loop has anything left to do on any block *)
(* -- although the second loop pins blocks after the first loop has gone   *)
(* past them -- so calling clean() again, which frag_find.cpp:716 suggests *)
(* as an improvement, would change nothing.                                *)
(***************************************************************************)
UpSettled(c)   == Pin(fm[c - 1], fm[c], 1) = fm[c]
DownSettled(c) == Pin(fm[c + 1], fm[c], -1) = fm[c]

NothingLeftToClean ==
  pc = "done" => /\ \A c \in 1 .. N - 1 : UpSettled(c)
                 /\ \A c \in 0 .. N - 2 : DownSettled(c)

(***************************************************************************)
(* The loops compute the function clean of module Filemap, which the model *)
(* of main() uses for the whole call.                                      *)
(***************************************************************************)
ComputesClean == pc = "done" => fm = clean(fm0)

(***************************************************************************)
(* Both loops end, also on a filemap of 0 blocks or of 1, where the second *)
(* loop starts at size() - 2, a wrapped size_t that only the int64_t       *)
(* counter turns back into -2 or -1 (frag_find.cpp:142).                   *)
(***************************************************************************)
Returns == <>(pc = "done")
=============================================================================
