----------------------------- MODULE MCRDSFile -----------------------------
(***************************************************************************)
(* An instance of RDSFile: a buffer of 8 bytes, and every file of up to    *)
(* MaxLines lines of the given lengths -- less than half of the buffer,    *)
(* half, between half and whole, and more than the buffer -- which end     *)
(* with one byte (Unix) or two (the files of the RDS); the last one may    *)
(* end without.                                                            *)
(***************************************************************************)
EXTENDS RDSFile, SequencesExt

CONSTANTS MaxLines, LineLengths

text(l) == [i \in 1 .. l |-> "x"]

contents(ls, eol, endsWithEol) ==
  LET with == FlattenSeq([j \in DOMAIN ls |-> text(ls[j]) \o eol])
  IN  IF endsWithEol THEN with ELSE SubSeq(with, 1, Len(with) - Len(eol))

MCFiles ==
  {contents(ls, eol, last) :
     ls \in UNION {[1 .. m -> LineLengths] : m \in 1 .. MaxLines},
     eol \in {<< "n" >>, << "r", "n" >>},
     last \in BOOLEAN}
=============================================================================
