------------------------------ MODULE MCDfxml ------------------------------
(***************************************************************************)
(* An instance of Dfxml: one or two masters with up to two runs, names of  *)
(* every class.                                                            *)
(***************************************************************************)
EXTENDS Dfxml

master(name, runs) ==
  [filename |-> name, blocks |-> "4", filesize |-> "2050", md5 |-> "d0", runs |-> runs]

MCReports ==
  { << master("a&b", << "r1", "r2" >>), [master("a\nb", << >>) EXCEPT !.md5 = "d1"] >>,
    << master("plain", << >>), [master("a<b", << "r1" >>) EXCEPT !.blocks = "5"] >>,
    << master("plain", << "r1" >>), master("bad\f", << "r2" >>) >>,
    << master("a<b", << "r2" >>) >> }

MCMarkup     == {"a&b", "a<b"}
MCWhitespace == {"a\nb"}
MCIllegal    == {"bad\f"}
=============================================================================
