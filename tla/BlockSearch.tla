---------------------------- MODULE BlockSearch ----------------------------
(***************************************************************************)
(* What frag_find promises: the search for the blocks of the master files  *)
(* in an image, without digests and without a Bloom filter.  The locations *)
(* of a block are those of the image blocks with the same content, in      *)
(* order; they may afterwards be narrowed, but never to nothing.           *)
(***************************************************************************)
EXTENDS Integers, Sequences

VARIABLES
  image,      \* image[n]: content of image block n
  templates,  \* templates[t][b]: content of block b of master t, once read
  where,      \* where[t][b]: image blocks with that content
  position,   \* next image block to look at
  stage       \* "loading", "searching", "reporting" or "void"

absvars == << image, templates, where, position, stage >>

AbsInit ==
  /\ stage = "loading"
  /\ templates = << >>
  /\ where = << >>

Begin ==
  /\ stage = "loading"
  /\ stage' = "searching"
  /\ position' \in Nat
  /\ where' = [t \in DOMAIN templates' |-> [b \in DOMAIN templates'[t] |-> << >>]]
  /\ UNCHANGED image

Search ==
  /\ stage = "searching"
  /\ position \in DOMAIN image
  /\ where' = [t \in DOMAIN templates |->
                [b \in DOMAIN templates[t] |->
                  IF templates[t][b] = image[position]
                  THEN Append(where[t][b], position)
                  ELSE where[t][b]]]
  /\ position' = position + 1
  /\ UNCHANGED << image, templates, stage >>

Stop ==
  /\ stage = "searching"
  /\ stage' = "reporting"
  /\ UNCHANGED << image, templates, where, position >>

Narrow ==
  /\ stage = "reporting"
  /\ \A t \in DOMAIN where : \A b \in DOMAIN where[t] :
       \/ where'[t][b] = where[t][b]
       \/ \E j \in DOMAIN where[t][b] : where'[t][b] = << where[t][b][j] >>
  /\ UNCHANGED << image, templates, position, stage >>

\* The files do not hold the blocks that were counted: nothing is promised.
Void == stage' = "void"

AbsNext == Begin \/ Search \/ Stop \/ Narrow \/ Void

AbsSpec == AbsInit /\ [][AbsNext]_absvars
=============================================================================
