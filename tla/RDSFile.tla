------------------------------- MODULE RDSFile -------------------------------
(***************************************************************************)
(* Reading the lines of a large file through a small buffer (class RDSFile *)
(* of nsrl_bloom_creator.cpp), and what main() does with it: one getline() *)
(* at an offset, then nextline() again and again.                          *)
(*                                                                         *)
(* A line is the sequence of the positions of its bytes in the file, so    *)
(* that equal lines are not mistaken for each other.  As BloomFormat, the  *)
(* module can be extended together with Bloom.                             *)
(***************************************************************************)
EXTENDS Integers, Sequences, FiniteSets

CONSTANTS
  BufSize,    \* BUFSIZE: 1024
  Files,      \* contents of the file: sequences of "r", "n" and other bytes
  NextLines   \* how often main() calls nextline(): 10000

ASSUME RDSFileAssumption ==
  /\ BufSize \in Nat /\ BufSize >= 2
  /\ Files \subseteq Seq(STRING)
  /\ NextLines \in Nat

VARIABLES
  file,
  buf0,       \* first byte in the buffer
  buflen,     \* bytes in the buffer
  buf,        \* position in the file of each of them
  next_line,
  reads,      \* getline() and nextline() calls made
  asked,      \* offset of the first call
  returned    \* what they returned: the offset and the line

rdsvars == << file, buf0, buflen, buf, next_line, reads, asked, returned >>

Size         == Len(file)
isEol(p)     == file[p + 1] \in {"r", "n"}
largest(S)   == CHOOSE x \in S : \A y \in S : y <= x
smallest(S)  == CHOOSE x \in S : \A y \in S : x <= y

-----------------------------------------------------------------------------
RDSInit ==
  /\ file \in Files
  /\ buf0 = 0
  /\ buflen = 0
  /\ buf = << >>
  /\ next_line = 0
  /\ reads = 0
  /\ asked = 0
  /\ returned = << >>

\* The offset is in the buffer, and so is an end of line behind it.
loaded(offset) ==
  /\ offset \in buf0 .. buf0 + buflen - 1
  /\ \E i \in offset - buf0 .. buflen - 1 : isEol(buf[i + 1])

\* Half of the buffer lies before the offset.
firstOf(offset) == IF offset > BufSize \div 2 THEN offset - (BufSize \div 2) ELSE 0

\* Mutant: without the look for an end of line.
load_bufferUnchecked(offset) ==
  IF offset \in buf0 .. buf0 + buflen - 1
  THEN UNCHANGED << buf0, buflen, buf >>
  ELSE /\ buf0' = firstOf(offset)
       /\ buflen' = IF Size - buf0' > BufSize THEN BufSize ELSE Size - buf0'
       /\ buf' = [i \in 1 .. buflen' |-> buf0' + i - 1]

load_buffer(offset) ==
  IF loaded(offset)
  THEN UNCHANGED << buf0, buflen, buf >>
  ELSE /\ buf0' = firstOf(offset)
       /\ buflen' = IF Size - buf0' > BufSize THEN BufSize ELSE Size - buf0'
       /\ buf' = [i \in 1 .. buflen' |-> buf0' + i - 1]

(***************************************************************************)
(* getline behind load_buffer: o is the index of the offset in a buffer b  *)
(* with l bytes.  The loop that goes back ends at index 1 at the latest.   *)
(***************************************************************************)
lineStart(b, o)  == largest({i \in 0 .. o : i <= 1 \/ isEol(b[i])})
lineEnd(b, l, o) == smallest({i \in o .. l : i = l \/ isEol(b[i + 1])})

\* Mutant: one byte too many is taken for an end of line.
behindEolPlus(b, l, e) ==
  LET i == smallest({j \in e .. l : j = l \/ ~ isEol(b[j + 1])}) IN IF i < l THEN i + 1 ELSE l

behindEol(b, l, e) == smallest({i \in e .. l : i = l \/ ~ isEol(b[i + 1])})

getline(offset) ==
  /\ load_buffer(offset)
  /\ LET o == offset - buf0'
         s == lineStart(buf', o)
         e == lineEnd(buf', buflen', o)
     IN  /\ next_line' = behindEol(buf', buflen', e) + buf0'
         /\ returned' = Append(returned, [from |-> offset, line |-> SubSeq(buf', s + 1, e)])
  /\ reads' = reads + 1
  /\ UNCHANGED file

(***************************************************************************)
(* main(): the offset is an argument of the program; one inside the file.  *)
(***************************************************************************)
First(offset) ==
  /\ reads = 0
  /\ getline(offset)
  /\ asked' = offset

Nextline ==
  /\ reads \in 1 .. NextLines
  /\ getline(next_line)
  /\ UNCHANGED asked

RDSNext == Nextline \/ \E offset \in 0 .. Size : First(offset)

RDSSpec == RDSInit /\ [][RDSNext]_rdsvars
-----------------------------------------------------------------------------
(***************************************************************************)
(* The lines of the file, by their first positions.                        *)
(***************************************************************************)
Starts == {p \in 0 .. Size - 1 : ~ isEol(p) /\ (p = 0 \/ isEol(p - 1))}

Line(s) ==
  LET e == smallest({p \in s .. Size : p = Size \/ isEol(p)})
  IN  [i \in 1 .. e - s |-> s + i - 1]

\* The line that position p is in, by its first position.
lineOf(p) == largest({s \in Starts : s <= p})

\* The source assumes that a line is shorter than the buffer (lines 78 and 79).
\* What it needs is that it is shorter than the half of the buffer that lies on
\* each side of an offset; longer ones come in pieces.
isShort(s) == Len(Line(s)) < BufSize \div 2

\* Calls made before the end of the file that returned something.  (At the end
\* nextline() returns an empty line, or the last line again if no end of line
\* follows it.  It also returns an empty line where a buffer ends between the
\* two bytes of an end of line.)
lines == {j \in DOMAIN returned : returned[j].from < Size /\ returned[j].line # << >>}

(***************************************************************************)
(* getline() "return[s] the line that contains byte offset" (line 116), if *)
(* that is a short one; but the loop back to its beginning stops at index  *)
(* 1, which takes a byte from the first line of the file when that line is *)
(* asked for by another byte.  nextline() never returns a piece of a short *)
(* line, whichever way the buffer was loaded and whatever lines there are  *)
(* around it, and never goes back or returns anything twice, not even of a *)
(* line that is longer than the buffer.                                    *)
(***************************************************************************)
LinesAreWholeAndInOrder ==
  /\ reads > 0 /\ asked < Size /\ ~ isEol(asked) =>
       LET s == lineOf(asked)
       IN  isShort(s) /\ (s > 0 \/ asked = 0) => returned[1].line = Line(s)
  /\ \A j \in lines \ {1} :
       LET s == lineOf(returned[j].line[1])
       IN  isShort(s) => returned[j].line = Line(s)
  /\ \A i, j \in lines : i < j => returned[i].line[1] < returned[j].line[1]

(***************************************************************************)
(* And it leaves none out: every short line that begins behind the offset  *)
(* that was asked for and before next_line has been returned.              *)
(***************************************************************************)
NoLineIsSkipped ==
  reads > 0 =>
    \A s \in Starts :
      isShort(s) /\ s \in asked .. next_line - 1 =>
        \E j \in lines : returned[j].line = Line(s)
=============================================================================
