--------------------------- MODULE MCFilemapClean ---------------------------
(***************************************************************************)
(* Instance of FilemapClean: every filemap of up to four master blocks     *)
(* over image blocks 0..LastImageBlock whose lists are ascending, as the   *)
(* scan leaves them, or one list that is not.                              *)
(***************************************************************************)
EXTENDS FilemapClean, SequencesExt

CONSTANT LastImageBlock

Ascending == { SetToSortSeq(S, <) : S \in SUBSET (0 .. LastImageBlock) }

MCSizes == 0 .. 4

MCLists == Ascending \union { << 2, 0 >> }

=============================================================================
