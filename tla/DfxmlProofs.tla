---------------------------- MODULE DfxmlProofs ----------------------------
(***************************************************************************)
(* The DFXML reader understands what the XML writer wrote, for reports of  *)
(* any number of masters with any number of runs, wherever the file ends   *)
(* and whenever the reader looks at it.                                    *)
(*                                                                         *)
(* A place in a report says which elements are open, how many masters are  *)
(* finished, and how many tokens of the next one are written.  The calls   *)
(* of main() lead from place to place (the course of a report), the tokens *)
(* do so in smaller steps (the trail of a document).  The writer is at the *)
(* end of the trail, the reader at the place its position has.             *)
(*                                                                         *)
(* From FilemapProofs come Iterates and NaturalInduction.                  *)
(***************************************************************************)
EXTENDS Dfxml, FilemapProofs

\* Tags of elements that are not inside of a fileobject, and all tags.
Other ==
  {"frag_find", "metadata", "dc:type", "creator", "program", "build_environment",
   "compiler", "execution_environment", "command_line", "start_time", "source",
   "image_filename", "blocksize"}

Tags == Other \cup {"fileobject", "filename", "blocks", "filesize", "hashdigest", "run"}

\* A place, and the one every report begins at.
Place == [stack : Seq(Tags), done : Nat, y : Nat]
at(stack, done, y) == [stack |-> stack, done |-> done, y |-> y]
Beginning == at(<< >>, 0, 0)

\* The attributes of an element: none, the type of a digest, or those of a run.
Attributes == {"", "md5"} \cup STRING

\* The calls main() makes, and the tokens it writes.
Ops ==
  [op : {"push"}, tag : Tags] \cup [op : {"pop", "close"}]
    \cup [op : {"xmlout"}, tag : Tags, words : Seq(STRING), attrs : Attributes,
          escape : BOOLEAN]

\* The forms a word is written in, and character data.
Forms == {"verbatim", "entities", "percent"}

Text == Seq(STRING \X Forms)

\* The tokens of a document.
Tokens ==
  [kind : {"start", "empty"}, tag : Tags, attrs : Attributes]
    \cup [kind : {"end"}, tag : Tags] \cup [kind : {"text"}, text : Text]

\* An illegal word is the name of a master.
Named(list, word) == word \in Illegal => \E j \in DOMAIN list : list[j].filename = word

(***************************************************************************)
(* The calls and their places.                                             *)
(***************************************************************************)
InFileobject(p) == p.stack # << >> /\ Last(p.stack) = "fileobject"

\* push(): of an element outside of the fileobjects, or of the next fileobject.
Pushes(list, p, c, q) ==
  /\ c.op = "push"
  /\ p.y = 0
  /\ \/ /\ c.tag \in Other
        /\ q = at(Append(p.stack, c.tag), p.done, 0)
     \/ /\ c.tag = "fileobject"
        /\ p.done + 1 \in DOMAIN list
        /\ q = at(Append(p.stack, c.tag), p.done, 1)

\* pop(): of an element outside of the fileobjects, or of a finished fileobject.
Pops(list, p, c, q) ==
  /\ c.op = "pop"
  /\ p.stack # << >>
  /\ \/ /\ p.y = 0
        /\ Last(p.stack) \in Other
        /\ q = at(Front(p.stack), p.done, 0)
     \/ /\ p.done + 1 \in DOMAIN list
        /\ p.y = 13 + Len(list[p.done + 1].runs)
        /\ Last(p.stack) = "fileobject"
        /\ q = at(Front(p.stack), p.done + 1, 0)

\* An element outside of the fileobjects.
PutsOther(list, p, c, q) ==
  /\ c.op = "xmlout"
  /\ p.y = 0
  /\ c.tag \in Other
  /\ \A j \in DOMAIN c.words :
       Named(list, c.words[j]) /\ (~ c.escape => c.words[j] \in Plain)
  /\ q = p

\* The properties of a master, each three tokens.
IsProperty(m, y, c) ==
  \/ y = 1 /\ c = plainout("filename", << m.filename >>)
  \/ y = 4 /\ c = plainout("blocks", << m.blocks >>)
  \/ y = 7 /\ c = plainout("filesize", << m.filesize >>)
  \/ y = 10 /\ c = xmlout("hashdigest", << m.md5 >>, "md5", FALSE)

\* A property of the next master.
PutsProperty(list, p, c, q) ==
  /\ p.done + 1 \in DOMAIN list
  /\ InFileobject(p)
  /\ IsProperty(list[p.done + 1], p.y, c)
  /\ q = at(p.stack, p.done, p.y + 3)

\* One of its runs.
PutsRun(list, p, c, q) ==
  /\ p.done + 1 \in DOMAIN list
  /\ InFileobject(p)
  /\ \E r \in DOMAIN list[p.done + 1].runs :
       /\ p.y = 12 + r
       /\ c = xmlout("run", << >>, list[p.done + 1].runs[r], FALSE)
  /\ q = at(p.stack, p.done, p.y + 1)

\* close(), when everything is popped.
Closes(list, p, c, q) ==
  c.op = "close" /\ p = at(<< >>, Len(list), 0) /\ q = p

\* Call c leads from place p to place q.
Leads(list, p, c, q) ==
  \/ Pushes(list, p, c, q)
  \/ Pops(list, p, c, q)
  \/ PutsOther(list, p, c, q)
  \/ PutsProperty(list, p, c, q)
  \/ PutsRun(list, p, c, q)
  \/ Closes(list, p, c, q)

\* The calls s lead from p to q.
Follows(list, s, p, q, via) ==
  /\ via \in [1 .. Len(s) + 1 -> Place]
  /\ via[1] = p
  /\ via[Len(s) + 1] = q
  /\ \A k \in 1 .. Len(s) : Leads(list, via[k], s[k], via[k + 1])

\* There are places in between.
Piece(list, s, p, q) ==
  s \in Seq(Ops) /\ p \in Place /\ q \in Place /\ \E via : Follows(list, s, p, q, via)

-----------------------------------------------------------------------------
(***************************************************************************)
(* Every report has a course: the calls of the head, of each master and of *)
(* the tail lead from the beginning to the end, one after the other.       *)
(***************************************************************************)
\* No calls lead nowhere.
LEMMA PieceBegins ==
  ASSUME NEW list, NEW p \in Place
  PROVE  Piece(list, << >>, p, p)
<1>1. Follows(list, << >>, p, p, [k \in 1 .. 1 |-> p])
  BY DEF Follows
<1>2. QED  BY <1>1 DEF Piece

\* One more call.
LEMMA PieceGrows ==
  ASSUME NEW list, NEW s, NEW p, NEW q, Piece(list, s, p, q),
         NEW c \in Ops, NEW r \in Place, Leads(list, q, c, r)
  PROVE  Piece(list, Append(s, c), p, r)
<1> DEFINE t == Append(s, c)
<1>1. s \in Seq(Ops) /\ p \in Place /\ q \in Place /\ Len(s) \in Nat
  BY DEF Piece
<1>2. PICK via : Follows(list, s, p, q, via)
  BY DEF Piece
<1> DEFINE new == [k \in 1 .. Len(s) + 2 |-> IF k <= Len(s) + 1 THEN via[k] ELSE r]
<1>3. t \in Seq(Ops) /\ Len(t) = Len(s) + 1 /\ t[Len(s) + 1] = c
      /\ \A k \in 1 .. Len(s) : t[k] = s[k]
  BY <1>1
<1>4. new \in [1 .. Len(t) + 1 -> Place] /\ new[1] = p /\ new[Len(t) + 1] = r
  BY <1>1, <1>2, <1>3 DEF Follows
<1>5. ASSUME NEW k \in 1 .. Len(t)
      PROVE  Leads(list, new[k], t[k], new[k + 1])
  <2>1. CASE k <= Len(s)
    <3>1. new[k] = via[k] /\ new[k + 1] = via[k + 1] /\ k \in 1 .. Len(s)
      BY <1>1, <1>3, <2>1
    <3>2. QED  BY <1>2, <1>3, <3>1 DEF Follows
  <2>2. CASE k = Len(s) + 1
    <3>1. new[k] = q /\ new[k + 1] = r
      BY <1>1, <1>2, <2>2 DEF Follows
    <3>2. QED  BY <1>3, <2>2, <3>1
  <2>3. QED  BY <1>1, <1>3, <2>1, <2>2
<1> HIDE DEF new
<1>6. Follows(list, t, p, r, new)
  BY <1>4, <1>5 DEF Follows
<1>7. QED  BY <1>1, <1>3, <1>6 DEF Piece

\* One piece after the other.
LEMMA PiecesJoin ==
  ASSUME NEW list, NEW s, NEW t, NEW p, NEW q, NEW r,
         Piece(list, s, p, q), Piece(list, t, q, r)
  PROVE  Piece(list, s \o t, p, r)
<1> DEFINE u == s \o t
           n == Len(s)
<1>1. /\ s \in Seq(Ops) /\ t \in Seq(Ops) /\ p \in Place /\ q \in Place /\ r \in Place
      /\ Len(s) \in Nat /\ Len(t) \in Nat
  BY DEF Piece
<1>2. PICK via : Follows(list, s, p, q, via)
  BY DEF Piece
<1>3. PICK then : Follows(list, t, q, r, then)
  BY DEF Piece
<1> DEFINE new == [k \in 1 .. n + Len(t) + 1 |-> IF k <= n THEN via[k] ELSE then[k - n]]
<1>4. u \in Seq(Ops) /\ Len(u) = n + Len(t)
      /\ (\A k \in 1 .. n : u[k] = s[k]) /\ (\A k \in 1 .. Len(t) : u[n + k] = t[k])
  BY <1>1
<1>5. new \in [1 .. Len(u) + 1 -> Place]
  <2>1. ASSUME NEW k \in 1 .. Len(u) + 1
        PROVE  new[k] \in Place
    <3>1. CASE k <= n
      BY <1>1, <1>2, <1>4, <3>1, SMTT(30) DEF Follows
    <3>2. CASE k > n
      <4>1. k - n \in 1 .. Len(t) + 1
        BY <1>1, <1>4, <3>2
      <4>2. QED  BY <1>1, <1>3, <1>4, <3>2, <4>1 DEF Follows
    <3>3. QED  BY <1>1, <1>4, <3>1, <3>2
  <2>2. QED  BY <1>4, <2>1
<1>6. new[n + 1] = q /\ new[Len(u) + 1] = r
  BY <1>1, <1>3, <1>4 DEF Follows
<1>7. new[1] = p
  <2>1. CASE n = 0
    BY <1>2, <1>6, <2>1 DEF Follows
  <2>2. CASE n # 0
    BY <1>1, <1>2, <2>2 DEF Follows
  <2>3. QED  BY <2>1, <2>2
<1>8. ASSUME NEW k \in 1 .. Len(u)
      PROVE  Leads(list, new[k], u[k], new[k + 1])
  <2>1. CASE k <= n
    <3>1. new[k] = via[k] /\ k \in 1 .. n
      BY <1>1, <1>4, <2>1
    <3>2. new[k + 1] = via[k + 1]
      <4>1. CASE k = n
        BY <1>2, <1>6, <4>1 DEF Follows
      <4>2. CASE k < n
        BY <1>1, <1>4, <4>2
      <4>3. QED  BY <1>1, <1>4, <2>1, <4>1, <4>2
    <3>3. QED  BY <1>2, <1>4, <3>1, <3>2 DEF Follows
  <2>2. CASE k > n
    <3> DEFINE j == k - n
    <3>1. j \in 1 .. Len(t) /\ k = n + j /\ (k + 1) - n = j + 1
      BY <1>1, <1>4, <2>2
    <3>2. new[k] = then[j] /\ new[k + 1] = then[j + 1]
      BY <1>1, <1>4, <2>2, <3>1
    <3> HIDE DEF j
    <3>3. u[k] = t[j]
      BY <1>4, <3>1
    <3>4. QED  BY <1>3, <3>1, <3>2, <3>3 DEF Follows
  <2>3. QED  BY <1>1, <1>4, <2>1, <2>2
<1> HIDE DEF new
<1>9. Follows(list, u, p, r, new)
  BY <1>4, <1>5, <1>6, <1>7, <1>8 DEF Follows
<1>10. QED  BY <1>1, <1>4, <1>9 DEF Piece

-----------------------------------------------------------------------------
\* A sequence of one word.
LEMMA OneWord ==
  ASSUME NEW S, NEW x \in S
  PROVE  << x >> \in Seq(S)
OBVIOUS

\* Nothing before it changes nothing.
LEMMA BeforeOne ==
  ASSUME NEW x
  PROVE  << >> \o << x >> = << x >>
<1>1. x \in {x}
  OBVIOUS
<1>2. << x >> \in Seq({x})
  BY <1>1, OneWord
<1> DEFINE s == << x >>
<1> HIDE DEF s
<1>3. s \in Seq({x})
  BY <1>2 DEF s
<1>4. << >> \o s = s
  BY <1>3
<1>5. QED  BY <1>4 DEF s

\* What is put on a stack comes off it.
LEMMA Unstacked ==
  ASSUME NEW S, NEW s \in Seq(S), NEW x \in S
  PROVE  /\ Append(s, x) \in Seq(S)
         /\ Append(s, x) # << >>
         /\ Last(Append(s, x)) = x
         /\ Front(Append(s, x)) = s
<1>1. /\ Append(s, x) \in Seq(S)
      /\ Len(Append(s, x)) = Len(s) + 1
      /\ Append(s, x)[Len(s) + 1] = x
      /\ \A j \in 1 .. Len(s) : Append(s, x)[j] = s[j]
      /\ Len(s) \in Nat
  OBVIOUS
<1>2. Front(Append(s, x)) = s
  <2> DEFINE f == Front(Append(s, x))
  <2>1. f = SubSeq(Append(s, x), 1, Len(s))
    BY <1>1 DEF Front
  <2>2. f \in Seq(S) /\ Len(f) = Len(s) /\ \A j \in 1 .. Len(s) : f[j] = s[j]
    BY <1>1, <2>1
  <2> HIDE DEF f
  <2>3. f = [j \in 1 .. Len(s) |-> f[j]] /\ s = [j \in 1 .. Len(s) |-> s[j]]
    BY <2>2
  <2>4. f = s
    BY <2>2, <2>3
  <2>5. QED  BY <2>4 DEF f
<1>3. QED  BY <1>1, <1>2 DEF Last

\* A call of push() for an element other than fileobject.
LEMMA PiecePushes ==
  ASSUME NEW list, NEW s, NEW p, NEW stack \in Seq(Tags), NEW d \in Nat,
         Piece(list, s, p, at(stack, d, 0)), NEW tag \in Other
  PROVE  Piece(list, Append(s, push(tag)), p, at(Append(stack, tag), d, 0))
<1> DEFINE q == at(stack, d, 0)
           r == at(Append(stack, tag), d, 0)
<1>1. push(tag) \in Ops /\ r \in Place
  BY DEF Ops, Place, at, push, Tags
<1>2. Leads(list, q, push(tag), r)
  BY DEF Leads, Pushes, at, push
<1> HIDE DEF q, r
<1>3. Piece(list, s, p, q)
  BY DEF q
<1>4. Piece(list, Append(s, push(tag)), p, r)
  BY <1>1, <1>2, <1>3, PieceGrows
<1>5. QED  BY <1>4 DEF r

\* A call of pop() that ends it.
LEMMA PiecePops ==
  ASSUME NEW list, NEW s, NEW p, NEW stack \in Seq(Tags), NEW d \in Nat,
         NEW tag \in Other, Piece(list, s, p, at(Append(stack, tag), d, 0))
  PROVE  Piece(list, Append(s, pop), p, at(stack, d, 0))
<1> DEFINE q == at(Append(stack, tag), d, 0)
           r == at(stack, d, 0)
<1>1. pop \in Ops /\ r \in Place
  BY DEF Ops, Place, at, pop
<1>2. Append(stack, tag) # << >> /\ Last(Append(stack, tag)) = tag
      /\ Front(Append(stack, tag)) = stack
  BY Unstacked DEF Tags
<1>3. Leads(list, q, pop, r)
  BY <1>2 DEF Leads, Pops, at, pop
<1> HIDE DEF q, r
<1>4. Piece(list, s, p, q)
  BY DEF q
<1>5. Piece(list, Append(s, pop), p, r)
  BY <1>1, <1>3, <1>4, PieceGrows
<1>6. QED  BY <1>5 DEF r

\* A call of xmlout().
LEMMA OutTyped ==
  ASSUME NEW tag \in Tags, NEW words \in Seq(STRING), NEW attrs \in Attributes,
         NEW escape \in BOOLEAN
  PROVE  xmlout(tag, words, attrs, escape) \in Ops
<1>1. xmlout(tag, words, attrs, escape)
        \in [op : {"xmlout"}, tag : Tags, words : Seq(STRING), attrs : Attributes,
            escape : BOOLEAN]
  BY Zenon DEF xmlout
<1>2. QED  BY <1>1 DEF Ops

\* A call of xmlout() outside of the fileobjects.
LEMMA PiecePuts ==
  ASSUME NEW list, NEW s, NEW p, NEW stack \in Seq(Tags), NEW d \in Nat,
         Piece(list, s, p, at(stack, d, 0)),
         NEW tag \in Other, NEW words \in Seq(STRING), NEW escape \in BOOLEAN,
         \A j \in DOMAIN words :
           Named(list, words[j]) /\ (~ escape => words[j] \in Plain)
  PROVE  Piece(list, Append(s, xmlout(tag, words, "", escape)), p, at(stack, d, 0))
<1> DEFINE q == at(stack, d, 0)
           c == xmlout(tag, words, "", escape)
<1>1. c \in Ops /\ q \in Place
  <2>1. tag \in Tags
    BY DEF Tags
  <2>2. "" \in Attributes
    BY DEF Attributes
  <2>3. xmlout(tag, words, "", escape) \in Ops
    BY ONLY <2>1, <2>2, words \in Seq(STRING), escape \in BOOLEAN, OutTyped, Zenon
  <2>4. QED  BY <2>3 DEF Place, at
<1>2. Leads(list, q, c, q)
  BY DEF Leads, PutsOther, at, xmlout
<1> HIDE DEF q, c
<1>3. Piece(list, s, p, q)
  BY DEF q
<1>4. Piece(list, Append(s, c), p, q)
  BY <1>1, <1>2, <1>3, PieceGrows
<1>5. QED  BY <1>4 DEF q, c

\* Words of the program itself can be put anywhere.
LEMMA PieceTells ==
  ASSUME NEW list, NEW s, NEW p, NEW stack \in Seq(Tags), NEW d \in Nat,
         Piece(list, s, p, at(stack, d, 0)),
         NEW tag \in Other, NEW escape \in BOOLEAN, NEW word \in Plain
  PROVE  Piece(list, Append(s, xmlout(tag, << word >>, "", escape)), p, at(stack, d, 0))
<1>1. << word >> \in Seq(STRING) /\ DOMAIN << word >> = {1} /\ << word >>[1] = word
  <2>1. word \in STRING
    BY DEF Plain
  <2>2. << word >> \in Seq(STRING)
    BY <2>1, OneWord
  <2>3. DOMAIN << word >> = 1 .. 1
    OBVIOUS
  <2>4. QED  BY <2>2, <2>3
<1>2. Named(list, word)
  BY DEF Named, Plain
<1>3. \A j \in DOMAIN << word >> :
        Named(list, << word >>[j]) /\ (~ escape => << word >>[j] \in Plain)
  BY <1>1, <1>2
<1> DEFINE words == << word >>
<1> HIDE DEF words
<1>4. words \in Seq(STRING)
      /\ \A j \in DOMAIN words :
           Named(list, words[j]) /\ (~ escape => words[j] \in Plain)
  BY <1>1, <1>3 DEF words
<1>5. Piece(list, Append(s, xmlout(tag, words, "", escape)), p, at(stack, d, 0))
  BY <1>4, PiecePuts
<1>6. QED  BY <1>5 DEF words

-----------------------------------------------------------------------------
inReport == Append(<< >>, "frag_find")
inCreator == Append(inReport, "creator")
inSource == Append(inReport, "source")
inMaster == Append(inSource, "fileobject")

\* The stacks are sequences of tags.
LEMMA StacksTyped ==
  /\ << >> \in Seq(Tags)
  /\ inReport \in Seq(Tags)
  /\ inCreator \in Seq(Tags)
  /\ inSource \in Seq(Tags)
  /\ inMaster \in Seq(Tags)
<1>1. << >> \in Seq(Tags)
  OBVIOUS
<1>2. "frag_find" \in Tags /\ "creator" \in Tags /\ "source" \in Tags
      /\ "fileobject" \in Tags
  BY DEF Tags, Other
<1>3. inReport \in Seq(Tags)
  BY <1>1, <1>2, Unstacked DEF inReport
<1>4. inCreator \in Seq(Tags) /\ inSource \in Seq(Tags)
  BY <1>2, <1>3, Unstacked DEF inCreator, inSource
<1>5. inMaster \in Seq(Tags)
  BY <1>2, <1>4, Unstacked DEF inMaster
<1>6. QED  BY <1>1, <1>3, <1>4, <1>5

\* Two sequences with the same elements are one.
LEMMA SameElements ==
  ASSUME NEW S, NEW s \in Seq(S), NEW t \in Seq(S), Len(s) = Len(t),
         \A j \in 1 .. Len(s) : s[j] = t[j]
  PROVE  s = t
<1>1. s = [j \in 1 .. Len(s) |-> s[j]] /\ t = [j \in 1 .. Len(t) |-> t[j]]
  OBVIOUS
<1>2. QED  BY <1>1

\* One sequence behind another.
LEMMA Joined ==
  ASSUME NEW S, NEW s \in Seq(S), NEW t \in Seq(S)
  PROVE  /\ Len(s) \in Nat /\ Len(s \o t) = Len(s) + Len(t)
         /\ \A k \in 1 .. Len(t) : (s \o t)[Len(s) + k] = t[k]
OBVIOUS

\* A sequence with one element more.
LEMMA OneMore ==
  ASSUME NEW S, NEW s \in Seq(S), NEW x \in S, NEW t \in Seq(S),
         Len(t) = Len(s) + 1, t[Len(s) + 1] = x, \A j \in 1 .. Len(s) : s[j] = t[j]
  PROVE  Append(s, x) = t
<1>1. Append(s, x) \in Seq(S) /\ Len(Append(s, x)) = Len(t)
  OBVIOUS
<1>2. ASSUME NEW j \in 1 .. Len(t)
      PROVE  Append(s, x)[j] = t[j]
  OBVIOUS
<1>3. QED  BY <1>1, <1>2, SameElements

\* Tuples, one element after the other.
LEMMA FourTuples ==
  ASSUME NEW a, NEW b, NEW c, NEW d
  PROVE  /\ Append(<< >>, a) = << a >>
         /\ Append(<< a >>, b) = << a, b >>
         /\ Append(<< a, b >>, c) = << a, b, c >>
         /\ Append(<< a, b, c >>, d) = << a, b, c, d >>
<1> DEFINE S == {a, b, c, d}
<1>1. a \in S /\ b \in S /\ c \in S /\ d \in S
  OBVIOUS
<1> HIDE DEF S
<1>2. Append(<< >>, a) = << a >>
  OBVIOUS
<1>3. Append(<< a >>, b) = << a, b >>
  <2> DEFINE s == << a >>
             t == << a, b >>
  <2>1. s \in Seq(S) /\ t \in Seq(S)
    BY <1>1
  <2>2. /\ Len(s) = 1 /\ Len(t) = 2 /\ t[2] = b
        /\ s[1] = t[1]
    OBVIOUS
  <2> HIDE DEF s, t
  <2>3. \A j \in 1 .. Len(s) : s[j] = t[j]
    BY <2>2
  <2>4. Len(t) = Len(s) + 1 /\ t[Len(s) + 1] = b /\ b \in S
    BY <1>1, <2>2
  <2>5. Append(s, b) = t
    BY ONLY <2>1, <2>3, <2>4, OneMore
  <2>6. QED  BY <2>5 DEF s, t
<1>4. Append(<< a, b >>, c) = << a, b, c >>
  <2> DEFINE s == << a, b >>
             t == << a, b, c >>
  <2>1. s \in Seq(S) /\ t \in Seq(S)
    BY <1>1
  <2>2. /\ Len(s) = 2 /\ Len(t) = 3 /\ t[3] = c
        /\ s[1] = t[1] /\ s[2] = t[2]
    OBVIOUS
  <2> HIDE DEF s, t
  <2>3. \A j \in 1 .. Len(s) : s[j] = t[j]
    BY <2>2
  <2>4. Len(t) = Len(s) + 1 /\ t[Len(s) + 1] = c /\ c \in S
    BY <1>1, <2>2
  <2>5. Append(s, c) = t
    BY ONLY <2>1, <2>3, <2>4, OneMore
  <2>6. QED  BY <2>5 DEF s, t
<1>5. Append(<< a, b, c >>, d) = << a, b, c, d >>
  <2> DEFINE s == << a, b, c >>
             t == << a, b, c, d >>
  <2>1. s \in Seq(S) /\ t \in Seq(S)
    BY <1>1
  <2>2. /\ Len(s) = 3 /\ Len(t) = 4 /\ t[4] = d
        /\ s[1] = t[1] /\ s[2] = t[2] /\ s[3] = t[3]
    OBVIOUS
  <2> HIDE DEF s, t
  <2>3. \A j \in 1 .. Len(s) : s[j] = t[j]
    BY <2>2
  <2>4. Len(t) = Len(s) + 1 /\ t[Len(s) + 1] = d /\ d \in S
    BY <1>1, <2>2
  <2>5. Append(s, d) = t
    BY ONLY <2>1, <2>3, <2>4, OneMore
  <2>6. QED  BY <2>5 DEF s, t
<1>6. QED  BY <1>2, <1>3, <1>4, <1>5

\* The same for six.
LEMMA Tuples ==
  ASSUME NEW a, NEW b, NEW c, NEW d, NEW e, NEW f
  PROVE  /\ Append(<< >>, a) = << a >>
         /\ Append(<< a >>, b) = << a, b >>
         /\ Append(<< a, b >>, c) = << a, b, c >>
         /\ Append(<< a, b, c >>, d) = << a, b, c, d >>
         /\ Append(<< a, b, c, d >>, e) = << a, b, c, d, e >>
         /\ Append(<< a, b, c, d, e >>, f) = << a, b, c, d, e, f >>
<1> DEFINE S == {a, b, c, d, e, f}
<1>1. a \in S /\ b \in S /\ c \in S /\ d \in S /\ e \in S /\ f \in S
  OBVIOUS
<1> HIDE DEF S
<1>5. /\ Append(<< >>, a) = << a >>
      /\ Append(<< a >>, b) = << a, b >>
      /\ Append(<< a, b >>, c) = << a, b, c >>
      /\ Append(<< a, b, c >>, d) = << a, b, c, d >>
  BY ONLY FourTuples
<1>6. Append(<< a, b, c, d >>, e) = << a, b, c, d, e >>
  <2> DEFINE s == << a, b, c, d >>
             t == << a, b, c, d, e >>
  <2>1. s \in Seq(S) /\ t \in Seq(S)
    BY <1>1
  <2>2. /\ Len(s) = 4 /\ Len(t) = 5 /\ t[5] = e
        /\ s[1] = t[1] /\ s[2] = t[2] /\ s[3] = t[3] /\ s[4] = t[4]
    OBVIOUS
  <2> HIDE DEF s, t
  <2>3. \A j \in 1 .. Len(s) : s[j] = t[j]
    BY <2>2
  <2>4. Len(t) = Len(s) + 1 /\ t[Len(s) + 1] = e /\ e \in S
    BY <1>1, <2>2
  <2>5. Append(s, e) = t
    BY ONLY <2>1, <2>3, <2>4, OneMore
  <2>6. QED  BY <2>5 DEF s, t
<1>7. Append(<< a, b, c, d, e >>, f) = << a, b, c, d, e, f >>
  <2> DEFINE s == << a, b, c, d, e >>
             t == << a, b, c, d, e, f >>
  <2>1. s \in Seq(S) /\ t \in Seq(S)
    BY <1>1
  <2>2. /\ Len(s) = 5 /\ Len(t) = 6 /\ t[6] = f
        /\ s[1] = t[1] /\ s[2] = t[2] /\ s[3] = t[3] /\ s[4] = t[4] /\ s[5] = t[5]
    OBVIOUS
  <2> HIDE DEF s, t
  <2>3. \A j \in 1 .. Len(s) : s[j] = t[j]
    BY <2>2
  <2>4. Len(t) = Len(s) + 1 /\ t[Len(s) + 1] = f /\ f \in S
    BY <1>1, <2>2
  <2>5. Append(s, f) = t
    BY ONLY <2>1, <2>3, <2>4, OneMore
  <2>6. QED  BY <2>5 DEF s, t
<1>8. QED  BY <1>5, <1>6, <1>7
\* The first calls of main(), up to the description of the program.
LEMMA HeadPiece ==
  ASSUME NEW list
  PROVE  Piece(list,
           << push("frag_find"), push("metadata"),
              xmlout("dc:type", << "Hash-Based Carving Report" >>, "", FALSE), pop,
              push("creator"), plainout("program", << "frag_find" >>) >>,
           Beginning, at(inCreator, 0, 0))
<1> DEFINE a == push("frag_find")
           b == push("metadata")
           c == xmlout("dc:type", << "Hash-Based Carving Report" >>, "", FALSE)
           d == pop
           e == push("creator")
           f == plainout("program", << "frag_find" >>)
<1> USE StacksTyped
<1> HIDE DEF a, b, c, d, e, f
<1>t. /\ Append(<< >>, a) = << a >>
      /\ Append(<< a >>, b) = << a, b >>
      /\ Append(<< a, b >>, c) = << a, b, c >>
      /\ Append(<< a, b, c >>, d) = << a, b, c, d >>
      /\ Append(<< a, b, c, d >>, e) = << a, b, c, d, e >>
      /\ Append(<< a, b, c, d, e >>, f) = << a, b, c, d, e, f >>
  BY ONLY Tuples
<1>a. /\ {"frag_find", "metadata", "creator", "program", "dc:type"} \subseteq Other
      /\ FALSE \in BOOLEAN /\ TRUE \in BOOLEAN /\ 0 \in Nat
  BY DEF Other
<1>b. "Hash-Based Carving Report" \in Plain /\ "frag_find" \in Plain
  BY ReportsAssumption
<1>c. Beginning \in Place
  BY DEF Beginning, Place, at
<1>1. Piece(list, << >>, Beginning, at(<< >>, 0, 0))
  BY <1>c, PieceBegins DEF Beginning
<1>2. Piece(list, << a >>, Beginning, at(inReport, 0, 0))
  <2>1. Piece(list, Append(<< >>, a), Beginning, at(Append(<< >>, "frag_find"), 0, 0))
    BY <1>a, <1>1, PiecePushes DEF a
  <2>2. QED  BY <2>1, <1>t DEF inReport
<1>3. Piece(list, << a, b >>, Beginning, at(Append(inReport, "metadata"), 0, 0))
  <2>1. Piece(list, Append(<< a >>, b), Beginning, at(Append(inReport, "metadata"), 0, 0))
    BY <1>a, <1>2, PiecePushes DEF b
  <2>2. QED  BY <2>1, <1>t
<1>4. Piece(list, << a, b, c >>, Beginning, at(Append(inReport, "metadata"), 0, 0))
  <2>1. Append(inReport, "metadata") \in Seq(Tags)
    BY <1>a, Unstacked DEF Tags
  <2>2. Piece(list, Append(<< a, b >>, c), Beginning, at(Append(inReport, "metadata"), 0, 0))
    BY <1>a, <1>b, <1>3, <2>1, PieceTells DEF c
  <2>3. QED  BY <2>2, <1>t
<1>5. Piece(list, << a, b, c, d >>, Beginning, at(inReport, 0, 0))
  <2>1. Piece(list, Append(<< a, b, c >>, d), Beginning, at(inReport, 0, 0))
    BY <1>a, <1>4, PiecePops DEF d
  <2>2. QED  BY <2>1, <1>t
<1>6. Piece(list, << a, b, c, d, e >>, Beginning, at(inCreator, 0, 0))
  <2>1. Piece(list, Append(<< a, b, c, d >>, e), Beginning, at(inCreator, 0, 0))
    BY <1>a, <1>5, PiecePushes DEF inCreator, e
  <2>2. QED  BY <2>1, <1>t
<1>7. Piece(list, << a, b, c, d, e, f >>, Beginning, at(inCreator, 0, 0))
  <2>1. Piece(list, Append(<< a, b, c, d, e >>, f), Beginning, at(inCreator, 0, 0))
    BY <1>a, <1>b, <1>6, PieceTells DEF plainout, f
  <2>2. QED  BY <2>1, <1>t
<1>8. QED  BY <1>7 DEF a, b, c, d, e, f

\* What the elements opened for the environment are in.
inBuild == Append(inCreator, "build_environment")
inExecution == Append(inCreator, "execution_environment")

\* The build environment opens and closes its element.
LEMMA BuildPiece ==
  ASSUME NEW list
  PROVE  Piece(list, add_DFXML_build_environment,
               at(inCreator, 0, 0), at(inCreator, 0, 0))
<1> DEFINE a == push("build_environment")
           b == plainout("compiler", << "GCC" >>)
           c == pop
<1> USE StacksTyped
<1> HIDE DEF a, b, c
<1>t. /\ Append(<< >>, a) = << a >>
      /\ Append(<< a >>, b) = << a, b >>
      /\ Append(<< a, b >>, c) = << a, b, c >>
  BY ONLY Tuples, ZenonT(60)
<1>a. /\ {"build_environment", "compiler"} \subseteq Other
      /\ TRUE \in BOOLEAN /\ 0 \in Nat
  BY DEF Other
<1>b. "GCC" \in Plain
  BY ReportsAssumption
<1>c. inBuild \in Seq(Tags) /\ at(inCreator, 0, 0) \in Place
  <2>1. "build_environment" \in Tags
    BY <1>a DEF Tags
  <2>2. inBuild \in Seq(Tags)
    BY <2>1, Unstacked DEF inBuild
  <2>3. QED  BY <2>2 DEF Place, at
<1>1. Piece(list, << >>, at(inCreator, 0, 0), at(inCreator, 0, 0))
  BY <1>c, PieceBegins
<1>2. Piece(list, << a >>, at(inCreator, 0, 0), at(inBuild, 0, 0))
  <2>1. Piece(list, Append(<< >>, a), at(inCreator, 0, 0), at(inBuild, 0, 0))
    BY <1>a, <1>1, PiecePushes DEF a, inBuild
  <2>2. QED  BY <2>1, <1>t
<1>3. Piece(list, << a, b >>, at(inCreator, 0, 0), at(inBuild, 0, 0))
  <2>1. Piece(list, Append(<< a >>, b), at(inCreator, 0, 0), at(inBuild, 0, 0))
    BY <1>a, <1>b, <1>c, <1>2, PieceTells DEF plainout, b
  <2>2. QED  BY <2>1, <1>t
<1>4. Piece(list, << a, b, c >>, at(inCreator, 0, 0), at(inCreator, 0, 0))
  <2>1. Piece(list, Append(<< a, b >>, c), at(inCreator, 0, 0), at(inCreator, 0, 0))
    BY <1>a, <1>3, PiecePops DEF c, inBuild
  <2>2. QED  BY <2>1, <1>t
<1>5. QED  BY <1>4 DEF a, b, c, add_DFXML_build_environment

\* The command line names the masters.
LEMMA ExecutionPiece ==
  ASSUME NEW list, NEW words \in Seq(STRING),
         \A j \in DOMAIN words : Named(list, words[j])
  PROVE  Piece(list, add_DFXML_execution_environment(words),
               at(inCreator, 0, 0), at(inCreator, 0, 0))
<1> DEFINE a == push("execution_environment")
           b == plainout("command_line", words)
           c == plainout("start_time", << "now" >>)
           d == pop
<1> USE StacksTyped
<1> HIDE DEF a, b, c, d
<1>t. /\ Append(<< >>, a) = << a >>
      /\ Append(<< a >>, b) = << a, b >>
      /\ Append(<< a, b >>, c) = << a, b, c >>
      /\ Append(<< a, b, c >>, d) = << a, b, c, d >>
  BY ONLY FourTuples
<1>a. /\ {"execution_environment", "command_line", "start_time"} \subseteq Other
      /\ TRUE \in BOOLEAN /\ 0 \in Nat
  BY DEF Other
<1>b. "now" \in Plain
  BY ReportsAssumption
<1>c. inExecution \in Seq(Tags) /\ at(inCreator, 0, 0) \in Place
  <2>1. "execution_environment" \in Tags
    BY <1>a DEF Tags
  <2>2. inExecution \in Seq(Tags)
    BY <2>1, Unstacked DEF inExecution
  <2>3. QED  BY <2>2 DEF Place, at
<1>1. Piece(list, << >>, at(inCreator, 0, 0), at(inCreator, 0, 0))
  BY <1>c, PieceBegins
<1>2. Piece(list, << a >>, at(inCreator, 0, 0), at(inExecution, 0, 0))
  <2>1. Piece(list, Append(<< >>, a), at(inCreator, 0, 0), at(inExecution, 0, 0))
    BY <1>a, <1>1, PiecePushes DEF a, inExecution
  <2>2. QED  BY <2>1, <1>t
<1>3. Piece(list, << a, b >>, at(inCreator, 0, 0), at(inExecution, 0, 0))
  <2>1. Piece(list, Append(<< a >>, b), at(inCreator, 0, 0), at(inExecution, 0, 0))
    BY <1>a, <1>c, <1>2, PiecePuts DEF plainout, b
  <2>2. QED  BY <2>1, <1>t
<1>4. Piece(list, << a, b, c >>, at(inCreator, 0, 0), at(inExecution, 0, 0))
  <2>1. Piece(list, Append(<< a, b >>, c), at(inCreator, 0, 0), at(inExecution, 0, 0))
    BY <1>a, <1>b, <1>c, <1>3, PieceTells DEF plainout, c
  <2>2. QED  BY <2>1, <1>t
<1>5. Piece(list, << a, b, c, d >>, at(inCreator, 0, 0), at(inCreator, 0, 0))
  <2>1. Piece(list, Append(<< a, b, c >>, d), at(inCreator, 0, 0), at(inCreator, 0, 0))
    BY <1>a, <1>4, PiecePops DEF d, inExecution
  <2>2. QED  BY <2>1, <1>t
<1>6. QED  BY <1>5 DEF a, b, c, d, add_DFXML_execution_environment

\* The last calls before the masters.
LEMMA SourcePiece ==
  ASSUME NEW list
  PROVE  Piece(list,
           << pop, push("source"), plainout("image_filename", << "image" >>),
              plainout("blocksize", << "512" >>) >>,
           at(inCreator, 0, 0), at(inSource, 0, 0))
<1> DEFINE a == pop
           b == push("source")
           c == plainout("image_filename", << "image" >>)
           d == plainout("blocksize", << "512" >>)
<1> USE StacksTyped
<1> HIDE DEF a, b, c, d
<1>t. /\ Append(<< >>, a) = << a >>
      /\ Append(<< a >>, b) = << a, b >>
      /\ Append(<< a, b >>, c) = << a, b, c >>
      /\ Append(<< a, b, c >>, d) = << a, b, c, d >>
  BY ONLY FourTuples
<1>a. /\ {"creator", "source", "image_filename", "blocksize"} \subseteq Other
      /\ TRUE \in BOOLEAN /\ 0 \in Nat
  BY DEF Other
<1>b. "image" \in Plain /\ "512" \in Plain
  BY ReportsAssumption
<1>c. at(inCreator, 0, 0) \in Place
  BY <1>a DEF Place, at
<1>1. Piece(list, << >>, at(inCreator, 0, 0), at(inCreator, 0, 0))
  BY <1>c, PieceBegins
<1>2. Piece(list, << a >>, at(inCreator, 0, 0), at(inReport, 0, 0))
  <2>1. Piece(list, Append(<< >>, a), at(inCreator, 0, 0), at(inReport, 0, 0))
    BY <1>a, <1>1, PiecePops DEF a, inCreator
  <2>2. QED  BY <2>1, <1>t
<1>3. Piece(list, << a, b >>, at(inCreator, 0, 0), at(inSource, 0, 0))
  <2>1. Piece(list, Append(<< a >>, b), at(inCreator, 0, 0), at(inSource, 0, 0))
    BY <1>a, <1>2, PiecePushes DEF b, inSource
  <2>2. QED  BY <2>1, <1>t
<1>4. Piece(list, << a, b, c >>, at(inCreator, 0, 0), at(inSource, 0, 0))
  <2>1. Piece(list, Append(<< a, b >>, c), at(inCreator, 0, 0), at(inSource, 0, 0))
    BY <1>a, <1>b, <1>3, PieceTells DEF plainout, c
  <2>2. QED  BY <2>1, <1>t
<1>5. Piece(list, << a, b, c, d >>, at(inCreator, 0, 0), at(inSource, 0, 0))
  <2>1. Piece(list, Append(<< a, b, c >>, d), at(inCreator, 0, 0), at(inSource, 0, 0))
    BY <1>a, <1>b, <1>4, PieceTells DEF plainout, d
  <2>2. QED  BY <2>1, <1>t
<1>6. QED  BY <1>5 DEF a, b, c, d

\* The calls after the last master.
LEMMA TailPiece ==
  ASSUME NEW list, Len(list) \in Nat
  PROVE  Piece(list, << pop, pop, [op |-> "close"] >>,
               at(inSource, Len(list), 0), at(<< >>, Len(list), 0))
<1> DEFINE a == pop
           b == pop
           c == [op |-> "close"]
           n == Len(list)
<1> USE StacksTyped
<1> HIDE DEF a, b, c
<1>t. /\ Append(<< >>, a) = << a >>
      /\ Append(<< a >>, b) = << a, b >>
      /\ Append(<< a, b >>, c) = << a, b, c >>
  BY ONLY Tuples, ZenonT(60)
<1>a. {"source", "frag_find"} \subseteq Other
  BY DEF Other
<1>b. at(inSource, n, 0) \in Place /\ at(<< >>, n, 0) \in Place
  BY DEF Place, at
<1>1. Piece(list, << >>, at(inSource, n, 0), at(inSource, n, 0))
  BY <1>b, PieceBegins
<1>2. Piece(list, << a >>, at(inSource, n, 0), at(inReport, n, 0))
  <2>1. Piece(list, Append(<< >>, a), at(inSource, n, 0), at(inReport, n, 0))
    BY <1>a, <1>1, PiecePops DEF a, inSource
  <2>2. QED  BY <2>1, <1>t
<1>3. Piece(list, << a, b >>, at(inSource, n, 0), at(<< >>, n, 0))
  <2>1. Piece(list, Append(<< a >>, b), at(inSource, n, 0), at(<< >>, n, 0))
    BY <1>a, <1>2, PiecePops DEF b, inReport
  <2>2. QED  BY <2>1, <1>t
<1>4. Piece(list, << a, b, c >>, at(inSource, n, 0), at(<< >>, n, 0))
  <2>1. c \in Ops
    BY DEF Ops, c
  <2>2. Leads(list, at(<< >>, n, 0), c, at(<< >>, n, 0))
    BY DEF Leads, Closes, c
  <2>3. Piece(list, Append(<< a, b >>, c), at(inSource, n, 0), at(<< >>, n, 0))
    BY <1>b, <1>3, <2>1, <2>2, PieceGrows
  <2>4. QED  BY <2>3, <1>t
<1>5. QED  BY <1>4 DEF a, b, c

-----------------------------------------------------------------------------
\* What is reported of a master.
Masters ==
  [filename : STRING, blocks : Plain, filesize : Plain, md5 : Plain, runs : Seq(STRING)]

\* A report is a sequence of such records.
LEMMA ReportsTyped ==
  ASSUME NEW list \in Reports
  PROVE  /\ list \in Seq(Masters)
         /\ Len(list) \in Nat
         /\ DOMAIN list = 1 .. Len(list)
         /\ \A j \in DOMAIN list :
              /\ list[j] \in Masters
              /\ list[j].filename \in STRING
              /\ list[j].blocks \in STRING /\ list[j].blocks \in Plain
              /\ list[j].filesize \in STRING /\ list[j].filesize \in Plain
              /\ list[j].md5 \in STRING /\ list[j].md5 \in Plain
              /\ list[j].runs \in Seq(STRING)
              /\ Len(list[j].runs) \in Nat
              /\ DOMAIN list[j].runs = 1 .. Len(list[j].runs)
<1>1. list \in Seq(Masters)
  BY ReportsAssumption DEF Masters
<1>2. Len(list) \in Nat /\ DOMAIN list = 1 .. Len(list)
      /\ \A j \in DOMAIN list : list[j] \in Masters
  BY <1>1
<1>3. ASSUME NEW j \in DOMAIN list
      PROVE  /\ list[j].filename \in STRING
             /\ list[j].blocks \in STRING /\ list[j].blocks \in Plain
             /\ list[j].filesize \in STRING /\ list[j].filesize \in Plain
             /\ list[j].md5 \in STRING /\ list[j].md5 \in Plain
             /\ list[j].runs \in Seq(STRING)
             /\ Len(list[j].runs) \in Nat
             /\ DOMAIN list[j].runs = 1 .. Len(list[j].runs)
  <2>1. list[j] \in Masters
    BY <1>2
  <2>2. /\ list[j].filename \in STRING /\ list[j].blocks \in Plain
        /\ list[j].filesize \in Plain /\ list[j].md5 \in Plain
        /\ list[j].runs \in Seq(STRING)
    BY <2>1 DEF Masters
  <2>3. \A word \in Plain : word \in STRING
    BY DEF Plain
  <2>4. list[j].blocks \in STRING /\ list[j].filesize \in STRING /\ list[j].md5 \in STRING
    BY <2>2, <2>3
  <2>5. Len(list[j].runs) \in Nat /\ DOMAIN list[j].runs = 1 .. Len(list[j].runs)
    BY <2>2
  <2>6. QED  BY <2>2, <2>4, <2>5
<1>4. QED  BY <1>1, <1>2, <1>3

\* A property of the master that is being written.
LEMMA PieceProperty ==
  ASSUME NEW list, NEW s, NEW p, NEW d \in Nat, NEW y \in Nat, NEW z \in Nat, z = y + 3,
         d + 1 \in DOMAIN list,
         Piece(list, s, p, at(inMaster, d, y)),
         NEW c \in Ops,
         IsProperty(list[d + 1], y, c)
  PROVE  Piece(list, Append(s, c), p, at(inMaster, d, z))
<1> DEFINE q == at(inMaster, d, y)
           r == at(inMaster, d, z)
<1>1. r \in Place /\ q.stack = inMaster /\ q.done = d /\ q.y = y
      /\ r = at(q.stack, q.done, q.y + 3)
  BY StacksTyped DEF Place, at
<1>2. InFileobject(q)
  <2>1. inSource \in Seq(Tags) /\ "fileobject" \in Tags
    BY StacksTyped DEF Tags
  <2>2. inMaster # << >> /\ Last(inMaster) = "fileobject"
    BY <2>1, Unstacked DEF inMaster
  <2>3. QED  BY <1>1, <2>2 DEF InFileobject
<1> HIDE DEF q, r
<1>3. Leads(list, q, c, r)
  BY <1>1, <1>2 DEF Leads, PutsProperty
<1>4. Piece(list, s, p, q)
  BY DEF q
<1>5. Piece(list, Append(s, c), p, r)
  BY <1>1, <1>3, <1>4, PieceGrows
<1>6. QED  BY <1>5 DEF r

\* A master is begun, and its properties are put.
LEMMA PropertiesPiece ==
  ASSUME NEW list \in Reports, NEW d \in Nat, d + 1 \in DOMAIN list
  PROVE  Piece(list, properties(list[d + 1]), at(inSource, d, 0), at(inMaster, d, 13))
<1> DEFINE m == list[d + 1]
           a == push("fileobject")
           b == plainout("filename", << m.filename >>)
           c == plainout("blocks", << m.blocks >>)
           e == plainout("filesize", << m.filesize >>)
           f == xmlout("hashdigest", << m.md5 >>, "md5", FALSE)
           from == at(inSource, d, 0)
<1>a. << m.filename >> \in Seq(STRING) /\ << m.blocks >> \in Seq(STRING)
      /\ << m.filesize >> \in Seq(STRING) /\ << m.md5 >> \in Seq(STRING)
  <2>1. m.filename \in STRING /\ m.blocks \in STRING /\ m.filesize \in STRING
        /\ m.md5 \in STRING
    BY ReportsTyped
  <2> HIDE DEF m
  <2>2. QED  BY <2>1, OneWord
<1>b. /\ {"filename", "blocks", "filesize", "hashdigest", "fileobject"} \subseteq Tags
      /\ "" \in Attributes
      /\ "md5" \in Attributes
      /\ TRUE \in BOOLEAN
      /\ FALSE \in BOOLEAN
  <2>1. {"filename", "blocks", "filesize", "hashdigest", "fileobject"} \subseteq Tags
    BY DEF Tags
  <2>2. "" \in Attributes
    BY DEF Attributes
  <2>3. "md5" \in Attributes
    BY DEF Attributes
  <2>4. QED  BY <2>1, <2>2, <2>3
<1>c. a \in Ops
  BY <1>b DEF push, Ops
<1>d. b \in Ops /\ c \in Ops /\ e \in Ops
  <2> HIDE DEF m
  <2>1. QED  BY <1>a, <1>b, OutTyped DEF plainout
<1>e. f \in Ops
  <2> HIDE DEF m
  <2>1. QED  BY <1>a, <1>b, OutTyped
<1> HIDE DEF a, b, c, e, f
<1>t. /\ Append(<< >>, a) = << a >>
      /\ Append(<< a >>, b) = << a, b >>
      /\ Append(<< a, b >>, c) = << a, b, c >>
      /\ Append(<< a, b, c >>, e) = << a, b, c, e >>
      /\ Append(<< a, b, c, e >>, f) = << a, b, c, e, f >>
      /\ Append(<< a, b, c, e, f >>, f) = << a, b, c, e, f, f >>
  BY ONLY Tuples
<1>f. from \in Place /\ at(inMaster, d, 1) \in Place
  BY StacksTyped DEF Place, at
<1>1. Piece(list, << >>, from, from)
  BY <1>f, PieceBegins
<1>2. Piece(list, << a >>, from, at(inMaster, d, 1))
  <2>1. Leads(list, from, a, at(inMaster, d, 1))
    BY DEF Leads, Pushes, at, a, push, inMaster
  <2>2. Piece(list, Append(<< >>, a), from, at(inMaster, d, 1))
    BY <1>c, <1>f, <1>1, <2>1, PieceGrows
  <2>3. QED  BY <2>2, <1>t
<1> HIDE DEF from
<1>3. Piece(list, << a, b >>, from, at(inMaster, d, 4))
  <2>0. IsProperty(list[d + 1], 1, b)
    BY DEF IsProperty, b
  <2>1. Piece(list, Append(<< a >>, b), from, at(inMaster, d, 4))
    BY <1>2, <1>d, <2>0, PieceProperty
  <2>2. QED  BY <2>1, <1>t
<1>4. Piece(list, << a, b, c >>, from, at(inMaster, d, 7))
  <2>0. IsProperty(list[d + 1], 4, c)
    BY DEF IsProperty, c
  <2>1. Piece(list, Append(<< a, b >>, c), from, at(inMaster, d, 7))
    BY <1>3, <1>d, <2>0, PieceProperty
  <2>2. QED  BY <2>1, <1>t
<1>5. Piece(list, << a, b, c, e >>, from, at(inMaster, d, 10))
  <2>0. IsProperty(list[d + 1], 7, e)
    BY DEF IsProperty, e
  <2>1. Piece(list, Append(<< a, b, c >>, e), from, at(inMaster, d, 10))
    BY <1>4, <1>d, <2>0, PieceProperty
  <2>2. QED  BY <2>1, <1>t
<1>6. Piece(list, << a, b, c, e, f >>, from, at(inMaster, d, 13))
  <2>0. IsProperty(list[d + 1], 10, f)
    BY DEF IsProperty, f
  <2>1. Piece(list, Append(<< a, b, c, e >>, f), from, at(inMaster, d, 13))
    BY <1>5, <1>e, <2>0, PieceProperty
  <2>2. QED  BY <2>1, <1>t
<1>7. QED  BY <1>6 DEF a, b, c, e, f, from, properties

\* Then its runs, one token each.
LEMMA RunsPiece ==
  ASSUME NEW list \in Reports, NEW d \in Nat, d + 1 \in DOMAIN list
  PROVE  Piece(list, runElements(list[d + 1]), at(inMaster, d, 13),
               at(inMaster, d, 13 + Len(list[d + 1].runs)))
<1> DEFINE m == list[d + 1]
           n == Len(m.runs)
           s == runElements(m)
           via == [k \in 1 .. n + 1 |-> at(inMaster, d, 12 + k)]
<1>1. n \in Nat /\ DOMAIN m.runs = 1 .. n /\ m.runs \in Seq(STRING)
  BY ReportsTyped
<1>2. \A k \in 1 .. n + 1 : at(inMaster, d, 12 + k) \in Place
  BY StacksTyped DEF Place, at
<1>3. at(inMaster, d, 13) \in Place /\ at(inMaster, d, 13 + n) \in Place
  BY <1>1, StacksTyped DEF Place, at
<1>4. \A k \in 1 .. n : xmlout("run", << >>, m.runs[k], FALSE) \in Ops
  <2>1. ASSUME NEW k \in 1 .. n
        PROVE  xmlout("run", << >>, m.runs[k], FALSE) \in Ops
    <3>1. m.runs[k] \in STRING
      BY <1>1
    <3> DEFINE attrs == m.runs[k]
    <3> HIDE DEF attrs
    <3>2. attrs \in Attributes
      BY <3>1 DEF Attributes, attrs
    <3>3. "run" \in Tags /\ << >> \in Seq(STRING) /\ FALSE \in BOOLEAN
      BY DEF Tags
    <3>4. xmlout("run", << >>, attrs, FALSE) \in Ops
      BY <3>2, <3>3, OutTyped
    <3>5. QED  BY <3>4 DEF attrs
  <2>2. QED  BY <2>1
<1>5. /\ s = [k \in 1 .. n |-> xmlout("run", << >>, m.runs[k], FALSE)]
      /\ s \in Seq(Ops)
      /\ Len(s) = n
  <2>1. s = [k \in 1 .. n |-> xmlout("run", << >>, m.runs[k], FALSE)]
    BY <1>1 DEF runElements
  <2> HIDE DEF s, n, m
  <2>2. s \in [1 .. n -> Ops]
    BY <1>4, <2>1
  <2>3. s \in Seq(Ops) /\ Len(s) = n
    BY <1>1, <2>2
  <2>4. QED  BY <2>1, <2>3
<1>6. InFileobject(at(inMaster, d, 13))
  <2>1. inSource \in Seq(Tags) /\ "fileobject" \in Tags
    BY StacksTyped DEF Tags
  <2>2. inMaster # << >> /\ Last(inMaster) = "fileobject"
    BY <2>1, Unstacked DEF inMaster
  <2>3. QED  BY <2>2 DEF InFileobject, at
<1> HIDE DEF n, s
<1>7. ASSUME NEW k \in 1 .. n
      PROVE  Leads(list, via[k], s[k], via[k + 1])
  <2>1. k \in 1 .. n + 1 /\ k + 1 \in 1 .. n + 1 /\ 12 + (k + 1) = (12 + k) + 1
    BY <1>1
  <2>2. via[k] = at(inMaster, d, 12 + k) /\ via[k + 1] = at(inMaster, d, (12 + k) + 1)
    BY <2>1
  <2>3. InFileobject(at(inMaster, d, 12 + k))
    BY <1>6 DEF InFileobject, at
  <2>4. PutsRun(list, at(inMaster, d, 12 + k), s[k], at(inMaster, d, (12 + k) + 1))
    BY <1>1, <1>5, <2>3 DEF PutsRun, at
  <2>5. QED  BY <2>2, <2>4 DEF Leads
<1>8. Follows(list, s, at(inMaster, d, 13), at(inMaster, d, 13 + n), via)
  <2>1. via \in [1 .. Len(s) + 1 -> Place]
    BY <1>2, <1>5
  <2>2. via[1] = at(inMaster, d, 13) /\ via[Len(s) + 1] = at(inMaster, d, 13 + n)
    <3>1. 12 + 1 = 13 /\ 12 + (n + 1) = 13 + n /\ 1 \in 1 .. n + 1 /\ n + 1 \in 1 .. n + 1
      BY <1>1
    <3>2. via[1] = at(inMaster, d, 12 + 1) /\ via[n + 1] = at(inMaster, d, 12 + (n + 1))
      BY <3>1
    <3>3. QED  BY <1>5, <3>1, <3>2
  <2> HIDE DEF via
  <2>3. QED  BY <1>5, <1>7, <2>1, <2>2 DEF Follows
<1> HIDE DEF via
<1>9. Piece(list, s, at(inMaster, d, 13), at(inMaster, d, 13 + n))
  BY <1>3, <1>5, <1>8 DEF Piece
<1>10. QED  BY <1>9 DEF s, n

\* All calls for one master.
LEMMA FileobjectPiece ==
  ASSUME NEW list \in Reports, NEW d \in Nat, d + 1 \in DOMAIN list
  PROVE  Piece(list, fileobject(list[d + 1]), at(inSource, d, 0), at(inSource, d + 1, 0))
<1> DEFINE m == list[d + 1]
           n == Len(m.runs)
           q == at(inMaster, d, 13 + n)
           r == at(inSource, d + 1, 0)
<1>1. n \in Nat
  BY ReportsTyped
<1>2. Piece(list, properties(m) \o runElements(m), at(inSource, d, 0), q)
  BY PropertiesPiece, RunsPiece, PiecesJoin
<1>3. q \in Place /\ r \in Place /\ pop \in Ops
  BY <1>1, StacksTyped DEF Place, at, Ops, pop
<1>4. inMaster # << >> /\ Last(inMaster) = "fileobject" /\ Front(inMaster) = inSource
  <2>1. inSource \in Seq(Tags) /\ "fileobject" \in Tags
    BY StacksTyped DEF Tags
  <2>2. QED  BY <2>1, Unstacked DEF inMaster
<1>5. Leads(list, q, pop, r)
  BY <1>1, <1>4 DEF Leads, Pops, at, pop
<1>6. Piece(list, << >>, q, q)
  BY <1>3, PieceBegins
<1>7. Piece(list, << pop >>, q, r)
  <2>1. Append(<< >>, pop) = << pop >>
    BY FourTuples
  <2> HIDE DEF q, r
  <2>2. Piece(list, Append(<< >>, pop), q, r)
    BY <1>3, <1>5, <1>6, PieceGrows
  <2>3. QED  BY <2>1, <2>2
<1> HIDE DEF q, r
<1>8. Piece(list, properties(m) \o runElements(m) \o << pop >>, at(inSource, d, 0), r)
  BY <1>2, <1>7, PiecesJoin
<1>9. QED  BY <1>8 DEF r, fileobject

\* What FlattenSeq computes: the function its CHOOSE finds.
LEMMA FlattenUnfolds ==
  ASSUME NEW S, NEW seqs, NEW n \in Nat, Len(seqs) = n, n # 0,
         \A j \in 1 .. n : seqs[j] \in Seq(S)
  PROVE  \E f : /\ FlattenSeq(seqs) = f[n]
                /\ f[1] = seqs[1]
                /\ \A j \in 2 .. n : f[j] = f[j - 1] \o seqs[j]
<1> DEFINE P(f) == f = [j \in 1 .. n |-> IF j = 1 THEN seqs[j] ELSE f[j - 1] \o seqs[j]]
           step == [j \in Nat |-> [s \in Seq(S) |->
                     IF j \in 2 .. n THEN s \o seqs[j] ELSE IF j = 1 THEN seqs[1] ELSE << >>]]
<1>1. step \in Steps(Seq(S))
  <2>1. \A j \in 1 .. n : \A s \in Seq(S) : s \o seqs[j] \in Seq(S)
    OBVIOUS
  <2>2. 1 \in 1 .. n /\ << >> \in Seq(S)
    OBVIOUS
  <2>3. \A j \in 2 .. n : j \in 1 .. n
    OBVIOUS
  <2>4. QED  BY <2>1, <2>2, <2>3 DEF Steps
<1>2. << >> \in Seq(S)
  OBVIOUS
<1> HIDE DEF step
<1>3. PICK g : IsIteration(g, Seq(S), << >>, step, n)
  BY ONLY <1>1, <1>2, n \in Nat, Iterates
<1>4. /\ g \in [0 .. n -> Seq(S)]
      /\ \A i \in 0 .. n - 1 : g[i + 1] = step[i + 1][g[i]]
  BY <1>3 DEF IsIteration
<1>5. ASSUME NEW j \in 1 .. n
      PROVE  g[j] = IF j = 1 THEN seqs[j] ELSE g[j - 1] \o seqs[j]
  <2>1. j - 1 \in 0 .. n - 1 /\ (j - 1) + 1 = j /\ j - 1 \in 0 .. n /\ j \in Nat
    OBVIOUS
  <2>2. g[j] = step[j][g[j - 1]] /\ g[j - 1] \in Seq(S)
    BY <1>4, <2>1
  <2>3. CASE j = 1
    BY <2>1, <2>2, <2>3 DEF step
  <2>4. CASE j # 1
    <3>1. j \in 2 .. n
      BY <2>4
    <3>2. step[j] = [s \in Seq(S) |-> IF j \in 2 .. n THEN s \o seqs[j]
                                      ELSE IF j = 1 THEN seqs[1] ELSE << >>]
      BY <2>1 DEF step
    <3>3. step[j][g[j - 1]] = g[j - 1] \o seqs[j]
      BY <2>2, <3>1, <3>2
    <3>4. QED  BY <2>2, <2>4, <3>3
  <2>5. QED  BY <2>3, <2>4
<1> DEFINE h == [j \in 1 .. n |-> g[j]]
<1>6. P(h)
  <2>1. ASSUME NEW j \in 1 .. n
        PROVE  h[j] = IF j = 1 THEN seqs[j] ELSE h[j - 1] \o seqs[j]
    <3>1. j # 1 => j - 1 \in 1 .. n
      OBVIOUS
    <3>2. QED  BY <1>5, <3>1
  <2>2. QED  BY <2>1
<1> HIDE DEF h
<1> DEFINE f == CHOOSE u : P(u)
<1>7. P(f)
  BY <1>6
<1>8. FlattenSeq(seqs) = f[n]
  BY Zenon DEF FlattenSeq
<1>9. /\ f[1] = seqs[1]
      /\ \A j \in 2 .. n : f[j] = f[j - 1] \o seqs[j]
  <2> HIDE DEF f
  <2>1. 1 \in 1 .. n
    OBVIOUS
  <2>2. \A j \in 2 .. n : j \in 1 .. n /\ j # 1
    OBVIOUS
  <2>3. f = [j \in 1 .. n |-> IF j = 1 THEN seqs[j] ELSE f[j - 1] \o seqs[j]]
    BY <1>7
  <2>4. \A j \in 1 .. n : f[j] = IF j = 1 THEN seqs[j] ELSE f[j - 1] \o seqs[j]
    BY <2>3, Zenon
  <2>5. QED  BY <2>1, <2>2, <2>4
<1> HIDE DEF f
<1>10. QED  BY <1>8, <1>9

\* The calls for all masters.
LEMMA ListPiece ==
  ASSUME NEW list \in Reports
  PROVE  Piece(list, FlattenSeq([j \in DOMAIN list |-> fileobject(list[j])]),
               at(inSource, 0, 0), at(inSource, Len(list), 0))
<1> DEFINE n == Len(list)
           seqs == [j \in DOMAIN list |-> fileobject(list[j])]
           from == at(inSource, 0, 0)
<1>1. n \in Nat /\ DOMAIN list = 1 .. n
  BY ReportsTyped
<1>2. from \in Place
  BY StacksTyped DEF Place, at
<1>3. \A j \in 1 .. n : seqs[j] = fileobject(list[j])
  BY <1>1
<1>4. ASSUME NEW j \in 1 .. n
      PROVE  Piece(list, seqs[j], at(inSource, j - 1, 0), at(inSource, j, 0))
  <2>1. j - 1 \in Nat /\ (j - 1) + 1 = j /\ j \in DOMAIN list
    BY <1>1
  <2> DEFINE d == j - 1
  <2> HIDE DEF d
  <2>2. d \in Nat /\ d + 1 = j /\ d + 1 \in DOMAIN list
    BY <2>1 DEF d
  <2>3. Piece(list, fileobject(list[d + 1]), at(inSource, d, 0), at(inSource, d + 1, 0))
    BY <2>2, FileobjectPiece
  <2>4. QED  BY <1>3, <2>2, <2>3 DEF d
<1>5. Len(seqs) = n
  BY <1>1
<1> HIDE DEF seqs, n
<1>6. CASE n = 0
  <2>1. FlattenSeq(seqs) = seqs
    BY <1>5, <1>6 DEF FlattenSeq
  <2>2. seqs = << >>
    BY <1>1, <1>6 DEF seqs
  <2>3. Piece(list, << >>, from, from)
    BY <1>2, PieceBegins
  <2>4. QED  BY <1>6, <2>1, <2>2, <2>3 DEF seqs, n
<1>7. CASE n # 0
  <2>1. \A j \in 1 .. n : seqs[j] \in Seq(Ops)
    BY <1>4 DEF Piece
  <2>2. PICK f : /\ FlattenSeq(seqs) = f[n]
                 /\ f[1] = seqs[1]
                 /\ \A j \in 2 .. n : f[j] = f[j - 1] \o seqs[j]
    BY <1>1, <1>5, <1>7, <2>1, FlattenUnfolds, ZenonT(60)
  <2> DEFINE Good == { k \in Nat : k \in 1 .. n => Piece(list, f[k], from, at(inSource, k, 0)) }
  <2>3. 0 \in Good
    OBVIOUS
  <2>4. ASSUME NEW k \in Nat, k \in Good
        PROVE  k + 1 \in Good
    <3> SUFFICES ASSUME k + 1 \in 1 .. n
                 PROVE  Piece(list, f[k + 1], from, at(inSource, k + 1, 0))
      OBVIOUS
    <3>1. CASE k = 0
      <4>1. Piece(list, seqs[1], at(inSource, 1 - 1, 0), at(inSource, 1, 0))
        BY <1>4, <3>1
      <4>2. QED  BY <2>2, <3>1, <4>1
    <3>2. CASE k # 0
      <4>1. k \in 1 .. n /\ k + 1 \in 2 .. n /\ (k + 1) - 1 = k
        BY <1>1, <3>2
      <4>2. Piece(list, f[k], from, at(inSource, k, 0))
        BY <2>4, <4>1
      <4>3. Piece(list, seqs[k + 1], at(inSource, k, 0), at(inSource, k + 1, 0))
        BY <1>4, <4>1
      <4>4. f[k + 1] = f[k] \o seqs[k + 1]
        BY <2>2, <4>1
      <4> HIDE DEF from
      <4>5. QED  BY <4>2, <4>3, <4>4, PiecesJoin
    <3>3. QED  BY <3>1, <3>2
  <2>5. n \in Good
    <3> HIDE DEF Good
    <3>1. Nat \subseteq Good
      BY <2>3, <2>4, NaturalInduction
    <3>2. QED  BY <1>1, <3>1
  <2>6. n \in 1 .. n
    BY <1>1, <1>7
  <2>7. QED  BY <2>2, <2>5, <2>6 DEF seqs, n
<1>8. QED  BY <1>6, <1>7

\* Every report has a course, and closes the file at its end.
LEMMA ReportPiece ==
  ASSUME NEW list \in Reports
  PROVE  /\ Piece(list, calls(list), Beginning, at(<< >>, Len(list), 0))
         /\ Len(calls(list)) \in Nat \ {0}
         /\ calls(list)[Len(calls(list))].op = "close"
<1> DEFINE a == << push("frag_find"), push("metadata"),
                   xmlout("dc:type", << "Hash-Based Carving Report" >>, "", FALSE), pop,
                   push("creator"), plainout("program", << "frag_find" >>) >>
           b == add_DFXML_build_environment
           words == [j \in DOMAIN list |-> list[j].filename]
           c == add_DFXML_execution_environment(words)
           d == << pop, push("source"), plainout("image_filename", << "image" >>),
                   plainout("blocksize", << "512" >>) >>
           e == FlattenSeq([j \in DOMAIN list |-> fileobject(list[j])])
           f == << pop, pop, [op |-> "close"] >>
           creator == at(inCreator, 0, 0)
           last == at(<< >>, Len(list), 0)
<1>1. Piece(list, a, Beginning, creator)
  BY HeadPiece
<1>2. Piece(list, b, creator, creator)
  BY BuildPiece
<1>3. Piece(list, c, creator, creator)
  <2>1. words \in Seq(STRING) /\ DOMAIN words = DOMAIN list
    BY ReportsTyped
  <2>2. \A j \in DOMAIN words : Named(list, words[j])
    BY <2>1 DEF Named
  <2> HIDE DEF words
  <2>3. QED  BY <2>1, <2>2, ExecutionPiece
<1>4. Piece(list, d, creator, at(inSource, 0, 0))
  BY SourcePiece
<1>5. Piece(list, e, at(inSource, 0, 0), at(inSource, Len(list), 0))
  BY ListPiece
<1>6. Piece(list, f, at(inSource, Len(list), 0), last)
  BY ReportsTyped, TailPiece
<1>7. calls(list) = a \o b \o c \o d \o e \o f
  BY DEF calls
<1>7a. f \in Seq(Ops) /\ Len(f) = 3 /\ f[3].op = "close"
  <2>1. f \in Seq(Ops)
    BY <1>6 DEF Piece
  <2>2. QED  BY <2>1
<1> HIDE DEF a, b, c, d, e, f, creator, last
<1>8. Piece(list, a \o b, Beginning, creator)
  BY <1>1, <1>2, PiecesJoin
<1>9. Piece(list, a \o b \o c, Beginning, creator)
  BY <1>3, <1>8, PiecesJoin
<1>10. Piece(list, a \o b \o c \o d, Beginning, at(inSource, 0, 0))
  BY <1>4, <1>9, PiecesJoin
<1>11. Piece(list, a \o b \o c \o d \o e, Beginning, at(inSource, Len(list), 0))
  BY <1>5, <1>10, PiecesJoin
<1>12. Piece(list, a \o b \o c \o d \o e \o f, Beginning, last)
  BY <1>6, <1>11, PiecesJoin
<1>13. a \o b \o c \o d \o e \in Seq(Ops)
  BY <1>11 DEF Piece
<1>14. Len(calls(list)) \in Nat \ {0} /\ calls(list)[Len(calls(list))].op = "close"
  <2> DEFINE g == a \o b \o c \o d \o e
  <2> HIDE DEF g
  <2>1. g \in Seq(Ops)
    BY <1>13 DEF g
  <2>2. Len(g \o f) = Len(g) + 3 /\ (g \o f)[Len(g) + 3] = f[3] /\ Len(g) \in Nat
    <3>1. f \in Seq(Ops)
      BY <1>7a
    <3>2. /\ Len(g) \in Nat /\ Len(g \o f) = Len(g) + Len(f)
          /\ \A k \in 1 .. Len(f) : (g \o f)[Len(g) + k] = f[k]
      BY ONLY <2>1, <3>1, Joined
    <3>3. 3 \in 1 .. Len(f)
      BY <1>7a
    <3>4. QED  BY <1>7a, <3>2, <3>3
  <2>3. calls(list) = g \o f
    BY <1>7 DEF g
  <2>4. QED  BY <1>7a, <2>2, <2>3
<1>15. QED  BY <1>7, <1>12, <1>14 DEF last

\* The course of a report.
Course(list) ==
  CHOOSE via : Follows(list, calls(list), Beginning, at(<< >>, Len(list), 0), via)

\* It begins at the beginning, ends at the end, and every call leads on.
LEMMA CourseFollows ==
  ASSUME NEW list \in Reports
  PROVE  /\ calls(list) \in Seq(Ops)
         /\ Course(list) \in [1 .. Len(calls(list)) + 1 -> Place]
         /\ Course(list)[1] = Beginning
         /\ Course(list)[Len(calls(list)) + 1] = at(<< >>, Len(list), 0)
         /\ \A k \in 1 .. Len(calls(list)) :
              Leads(list, Course(list)[k], calls(list)[k], Course(list)[k + 1])
<1>1. calls(list) \in Seq(Ops)
      /\ \E via : Follows(list, calls(list), Beginning, at(<< >>, Len(list), 0), via)
  BY ReportPiece DEF Piece
<1>2. Follows(list, calls(list), Beginning, at(<< >>, Len(list), 0), Course(list))
  BY <1>1, Zenon DEF Course
<1>3. QED  BY <1>1, <1>2 DEF Follows

-----------------------------------------------------------------------------
(***************************************************************************)
(* The tokens and their places.                                            *)
(***************************************************************************)
\* The property of a master whose first token comes after i others.
Properties == {1, 4, 7, 10}

propertyTag(i) ==
  CASE i = 1 -> "filename" [] i = 4 -> "blocks" [] i = 7 -> "filesize" [] i = 10 -> "hashdigest"

propertyWord(m, i) ==
  CASE i = 1 -> m.filename [] i = 4 -> m.blocks [] i = 7 -> m.filesize [] i = 10 -> m.md5

propertyText(m, i) ==
  IF i = 10 THEN asItIs(<< m.md5 >>) ELSE xmlescape(<< propertyWord(m, i) >>)

\* Only a file name is illegal, and what is written as it is has no markup.
Readable(list, t) ==
  t.kind = "text" =>
    \A j \in DOMAIN t.text :
      /\ Named(list, t.text[j][1])
      /\ t.text[j][2] = "verbatim" => t.text[j][1] \notin Markup

\* An element other than fileobject, outside of one.
OtherToken(p, t, q) ==
  /\ p.y = 0
  /\ \/ /\ t.kind = "start"
        /\ t.tag \in Other
        /\ q = at(Append(p.stack, t.tag), p.done, 0)
     \/ /\ t.kind = "end"
        /\ t.tag \in Other
        /\ p.stack # << >> /\ Last(p.stack) = t.tag
        /\ q = at(Front(p.stack), p.done, 0)
     \/ /\ t.kind \in {"text", "empty"}
        /\ q = p

\* A fileobject begins.
FirstToken(list, p, t, q) ==
  /\ p.y = 0
  /\ p.done + 1 \in DOMAIN list
  /\ t.kind = "start"
  /\ t.tag = "fileobject"
  /\ q = at(Append(p.stack, t.tag), p.done, 1)

\* A token of one of its properties.
PropertyToken(list, p, t, q) ==
  /\ p.done + 1 \in DOMAIN list
  /\ \E i \in Properties :
       \/ /\ p.y = i
          /\ t.kind = "start"
          /\ t.tag = propertyTag(i)
          /\ i = 10 => t.attrs = "md5"
          /\ q = at(Append(p.stack, t.tag), p.done, i + 1)
       \/ /\ p.y = i + 1
          /\ t.kind = "text"
          /\ t.text = propertyText(list[p.done + 1], i)
          /\ q = at(p.stack, p.done, i + 2)
       \/ /\ p.y = i + 2
          /\ t.kind = "end"
          /\ t.tag = propertyTag(i)
          /\ p.stack # << >> /\ Last(p.stack) = t.tag
          /\ Len(p.stack) > 1 /\ p.stack[Len(p.stack) - 1] = "fileobject"
          /\ q = at(Front(p.stack), p.done, i + 3)

\* A run.
RunToken(list, p, t, q) ==
  /\ p.done + 1 \in DOMAIN list
  /\ t.kind = "empty"
  /\ t.tag = "run"
  /\ \E r \in DOMAIN list[p.done + 1].runs :
       p.y = 12 + r /\ t.attrs = list[p.done + 1].runs[r]
  /\ q = at(p.stack, p.done, p.y + 1)

\* It ends.
LastToken(list, p, t, q) ==
  /\ p.done + 1 \in DOMAIN list
  /\ p.y = 13 + Len(list[p.done + 1].runs)
  /\ t.kind = "end"
  /\ t.tag = "fileobject"
  /\ p.stack # << >> /\ Last(p.stack) = t.tag
  /\ q = at(Front(p.stack), p.done + 1, 0)

\* Token t leads from place p to place q.
Moves(list, p, t, q) ==
  /\ Readable(list, t)
  /\ \/ OtherToken(p, t, q)
     \/ FirstToken(list, p, t, q)
     \/ PropertyToken(list, p, t, q)
     \/ RunToken(list, p, t, q)
     \/ LastToken(list, p, t, q)

\* The tokens s lead from the beginning to q.
IsTrail(list, s, trail, q) ==
  /\ trail \in [0 .. Len(s) -> Place]
  /\ trail[0] = Beginning
  /\ trail[Len(s)] = q
  /\ \A k \in 0 .. Len(s) - 1 : Moves(list, trail[k], s[k + 1], trail[k + 1])

\* A new trail that begins as the old one.
Prolongs(new, trail, n) == \A k \in 0 .. n : new[k] = trail[k]

\* One more token.
LEMMA TrailGrows ==
  ASSUME NEW list, NEW s \in Seq(Tokens), NEW trail, NEW p, IsTrail(list, s, trail, p),
         NEW t \in Tokens, NEW q \in Place, Moves(list, p, t, q)
  PROVE  \E new : IsTrail(list, Append(s, t), new, q) /\ Prolongs(new, trail, Len(s))
<1> DEFINE n == Len(s)
           u == Append(s, t)
           new == [k \in 0 .. n + 1 |-> IF k <= n THEN trail[k] ELSE q]
<1>1. n \in Nat /\ Len(u) = n + 1 /\ u[n + 1] = t /\ \A k \in 1 .. n : u[k] = s[k]
  OBVIOUS
<1>2. /\ trail \in [0 .. n -> Place] /\ trail[0] = Beginning /\ trail[n] = p
      /\ \A k \in 0 .. n - 1 : Moves(list, trail[k], s[k + 1], trail[k + 1])
  BY DEF IsTrail
<1> HIDE DEF n, u
<1>3. new \in [0 .. n + 1 -> Place] /\ new[0] = Beginning /\ new[n + 1] = q
      /\ \A k \in 0 .. n : new[k] = trail[k]
  BY <1>1, <1>2
<1> HIDE DEF new
<1>4. ASSUME NEW k \in 0 .. n
      PROVE  Moves(list, new[k], u[k + 1], new[k + 1])
  <2>1. CASE k = n
    BY <1>1, <1>2, <1>3, <2>1
  <2>2. CASE k # n
    <3>1. k \in 0 .. n - 1 /\ k + 1 \in 0 .. n /\ k + 1 \in 1 .. n
      BY <1>1, <2>2
    <3>2. new[k] = trail[k] /\ new[k + 1] = trail[k + 1] /\ u[k + 1] = s[k + 1]
      BY <1>1, <1>3, <3>1
    <3>3. QED  BY <1>2, <3>1, <3>2
  <2>3. QED  BY <2>1, <2>2
<1>5. IsTrail(list, u, new, q)
  <2>1. Len(u) - 1 = n
    BY <1>1
  <2>2. QED  BY <1>1, <1>3, <1>4, <2>1 DEF IsTrail
<1>6. Prolongs(new, trail, n)
  BY <1>3 DEF Prolongs
<1>7. QED  BY <1>5, <1>6 DEF u, n

\* Three more tokens.
LEMMA TrailGrowsByThree ==
  ASSUME NEW list, NEW s \in Seq(Tokens), NEW trail, NEW p, IsTrail(list, s, trail, p),
         NEW a \in Tokens, NEW b \in Tokens, NEW c \in Tokens,
         NEW u \in Place, NEW v \in Place, NEW q \in Place,
         Moves(list, p, a, u), Moves(list, u, b, v), Moves(list, v, c, q)
  PROVE  \E new : IsTrail(list, s \o << a, b, c >>, new, q) /\ Prolongs(new, trail, Len(s))
<1> DEFINE s1 == Append(s, a)
           s2 == Append(s1, b)
           s3 == Append(s2, c)
<1>1. s1 \in Seq(Tokens) /\ Len(s1) = Len(s) + 1 /\ Len(s) \in Nat
  OBVIOUS
<1>2. s2 \in Seq(Tokens) /\ Len(s2) = Len(s) + 2
  OBVIOUS
<1>3. s \o << a, b, c >> = s3
  <2>1. << a, b, c >> \in Seq(Tokens)
    OBVIOUS
  <2>2. s \o << a, b, c >> \in Seq(Tokens) /\ s3 \in Seq(Tokens)
        /\ Len(s \o << a, b, c >>) = Len(s) + 3 /\ Len(s3) = Len(s) + 3
    BY <2>1
  <2>3. ASSUME NEW j \in 1 .. Len(s) + 3
        PROVE  (s \o << a, b, c >>)[j] = s3[j]
    <3>1. j \in 1 .. Len(s) \/ j = Len(s) + 1 \/ j = Len(s) + 2 \/ j = Len(s) + 3
      BY <1>1
    <3>2. QED  BY <3>1, <2>1
  <2>4. QED  BY <2>2, <2>3, SameElements
<1>4. PICK t1 : IsTrail(list, s1, t1, u) /\ Prolongs(t1, trail, Len(s))
  BY TrailGrows
<1> HIDE DEF s1
<1>5. PICK t2 : IsTrail(list, s2, t2, v) /\ Prolongs(t2, t1, Len(s1))
  BY <1>1, <1>4, TrailGrows
<1> HIDE DEF s2
<1>6. PICK t3 : IsTrail(list, s3, t3, q) /\ Prolongs(t3, t2, Len(s2))
  BY <1>2, <1>5, TrailGrows
<1>7. Prolongs(t3, trail, Len(s))
  <2>1. \A k \in 0 .. Len(s) : k \in 0 .. Len(s1) /\ k \in 0 .. Len(s2)
    BY <1>1, <1>2
  <2>2. QED  BY <1>4, <1>5, <1>6, <2>1 DEF Prolongs
<1>8. QED  BY <1>3, <1>6, <1>7

-----------------------------------------------------------------------------
(***************************************************************************)
(* What xmlout() writes.                                                   *)
(***************************************************************************)
\* Every word has a form, and none with markup is written verbatim when escaped.
LEMMA Escaped ==
  ASSUME NEW words \in Seq(STRING), NEW escape \in BOOLEAN
  PROVE  LET text == IF escape THEN xmlescape(words) ELSE asItIs(words) IN
         /\ text \in Text
         /\ DOMAIN text = DOMAIN words
         /\ \A j \in DOMAIN words :
              /\ text[j][1] = words[j]
              /\ text[j][2] \in Forms
              /\ escape => (text[j][2] = "verbatim" => words[j] \notin Markup)
<1> DEFINE text == IF escape THEN xmlescape(words) ELSE asItIs(words)
           form(j) == IF escape THEN CASE words[j] \in Markup     -> "entities"
                                       [] words[j] \in Whitespace -> "percent"
                                       [] OTHER                   -> "verbatim"
                      ELSE "verbatim"
<1>1. DOMAIN words = 1 .. Len(words) /\ Len(words) \in Nat
      /\ \A j \in DOMAIN words : words[j] \in STRING
  OBVIOUS
<1>2. text = [j \in DOMAIN words |-> << words[j], form(j) >>]
  <2>1. CASE escape
    BY <2>1 DEF xmlescape
  <2>2. CASE ~ escape
    BY <2>2 DEF asItIs
  <2>3. QED  BY <2>1, <2>2
<1>3. \A j \in DOMAIN words : form(j) \in Forms
  BY DEF Forms
<1>4. \A j \in DOMAIN words : escape => (form(j) = "verbatim" => words[j] \notin Markup)
  OBVIOUS
<1> HIDE DEF text, form
<1>5. text \in Text
  <2>1. \A j \in 1 .. Len(words) : << words[j], form(j) >> \in STRING \X Forms
    BY <1>1, <1>3
  <2>2. text \in [1 .. Len(words) -> STRING \X Forms]
    BY <1>1, <1>2, <2>1
  <2>3. QED  BY <1>1, <2>2 DEF Text
<1>6. DOMAIN text = DOMAIN words
      /\ \A j \in DOMAIN words : text[j][1] = words[j] /\ text[j][2] = form(j)
  BY <1>2
<1>7. /\ text \in Text
      /\ DOMAIN text = DOMAIN words
      /\ \A j \in DOMAIN words :
           /\ text[j][1] = words[j]
           /\ text[j][2] \in Forms
           /\ escape => (text[j][2] = "verbatim" => words[j] \notin Markup)
  BY <1>3, <1>4, <1>5, <1>6
<1>8. QED  BY <1>7 DEF text

\* What the parser makes of a property.
LEMMA Parsed ==
  ASSUME NEW m \in Masters, NEW i \in Properties
  PROVE  /\ propertyText(m, i) \in Text
         /\ parsed(propertyText(m, i)) = asText(propertyWord(m, i))
<1> DEFINE w == propertyWord(m, i)
<1>1. m.filename \in STRING /\ m.blocks \in Plain /\ m.filesize \in Plain /\ m.md5 \in Plain
  BY DEF Masters
<1>2. w \in STRING /\ (i = 10 => w = m.md5 /\ w \in Plain)
  BY <1>1 DEF propertyWord, Properties, Plain
<1>3. propertyText(m, i) = IF i = 10 THEN asItIs(<< w >>) ELSE xmlescape(<< w >>)
  BY <1>2 DEF propertyText
<1> HIDE DEF w
<1>4. << w >> \in Seq(STRING) /\ DOMAIN << w >> = {1} /\ << w >>[1] = w
  <2>1. << w >> \in Seq(STRING)
    BY <1>2, OneWord
  <2>2. DOMAIN << w >> = 1 .. 1
    OBVIOUS
  <2>3. QED  BY <2>1, <2>2
<1>5. propertyText(m, i) \in Text
  <2> DEFINE words == << w >>
  <2> HIDE DEF words
  <2>1. words \in Seq(STRING) /\ TRUE \in BOOLEAN /\ FALSE \in BOOLEAN
    BY <1>4 DEF words
  <2>2. xmlescape(words) \in Text
    BY <2>1, Escaped
  <2>3. asItIs(words) \in Text
    BY <2>1, Escaped
  <2>4. QED  BY <1>3, <2>2, <2>3 DEF words
<1> DEFINE form == IF w \in Whitespace THEN "percent" ELSE "verbatim"
<1>6. parsed(xmlescape(<< w >>)) = [j \in {1} |-> << w, form >>]
  <2> DEFINE words == << w >>
             how == CASE w \in Markup     -> "entities"
                      [] w \in Whitespace -> "percent"
                      [] OTHER            -> "verbatim"
  <2>1. DOMAIN words = {1} /\ words[1] = w
    BY <1>4
  <2> HIDE DEF words
  <2>2. DOMAIN xmlescape(words) = {1} /\ xmlescape(words)[1] = << w, how >>
    BY <2>1 DEF xmlescape
  <2> DEFINE text == xmlescape(words)
  <2> HIDE DEF text, how
  <2>3. parsed(text) = [j \in {1} |-> << w, IF how = "entities" THEN "verbatim" ELSE how >>]
    <3>1. DOMAIN text = {1} /\ text[1] = << w, how >>
      BY <2>2 DEF text
    <3>2. text[1][1] = w /\ text[1][2] = how
      BY <3>1
    <3>3. QED  BY <3>1, <3>2 DEF parsed
  <2>4. ~ (w \in Markup /\ w \in Whitespace)
    BY XmlAssumption
  <2>5. (IF how = "entities" THEN "verbatim" ELSE how) = form
    BY <2>4 DEF how
  <2> HIDE DEF form
  <2>6. QED  BY <2>3, <2>5 DEF text, words
<1>7. i = 10 => parsed(asItIs(<< w >>)) = [j \in {1} |-> << w, form >>]
  <2> DEFINE words == << w >>
  <2>1. DOMAIN words = {1} /\ words[1] = w
    BY <1>4
  <2> HIDE DEF words
  <2>2. DOMAIN asItIs(words) = {1} /\ asItIs(words)[1] = << w, "verbatim" >>
    BY <2>1 DEF asItIs
  <2> DEFINE text == asItIs(words)
  <2> HIDE DEF text
  <2>3. parsed(text) = [j \in {1} |-> << w, "verbatim" >>]
    <3>1. DOMAIN text = {1} /\ text[1] = << w, "verbatim" >>
      BY <2>2 DEF text
    <3>2. text[1][1] = w /\ text[1][2] = "verbatim"
      BY <3>1
    <3>3. (IF text[1][2] = "entities" THEN "verbatim" ELSE text[1][2]) = "verbatim"
      BY <3>2
    <3>4. parsed(text) = [j \in {1} |-> << text[j][1], IF text[j][2] = "entities"
                                          THEN "verbatim" ELSE text[j][2] >>]
      BY <3>1 DEF parsed
    <3>5. QED  BY <3>2, <3>3, <3>4
  <2>4. i = 10 => form = "verbatim"
    BY <1>2 DEF Plain
  <2> HIDE DEF form
  <2>5. QED  BY <2>3, <2>4 DEF text, words
<1>8. asText(w) = [j \in {1} |-> << w, form >>]
  <2>1. asText(w) = << << w, form >> >>
    BY DEF asText
  <2> HIDE DEF form
  <2>2. 1 .. 1 = {1}
    OBVIOUS
  <2>3. << << w, form >> >> = [j \in 1 .. 1 |-> << w, form >>]
    OBVIOUS
  <2>4. QED  BY <2>1, <2>2, <2>3
<1>9. QED  BY <1>3, <1>5, <1>6, <1>7, <1>8 DEF w

-----------------------------------------------------------------------------
(***************************************************************************)
(* The reader at a place.                                                  *)
(***************************************************************************)
\* What it has of master m when y of its tokens are read.
Partly(m, y, T, H, R) ==
  /\ \A i \in Properties \ {10} :
       y >= i + 3 =>
         propertyTag(i) \in DOMAIN T /\ T[propertyTag(i)] = asText(propertyWord(m, i))
  /\ y >= 13 => H["md5"] = asText(m.md5)
  /\ R \in Seq(STRING)
  /\ Len(R) = IF y >= 13 THEN y - 13 ELSE 0
  /\ \A r \in 1 .. Len(R) : R[r] = m.runs[r]

\* An object of the reader.
Object(T, H, R) == [_tags |-> T, hashdigest |-> H, byte_runs |-> R]

\* The text of an element, until the next one begins.
TextOf(m, y) ==
  /\ \A i \in Properties :
       /\ y = i + 1 => cdata = << >>
       /\ y = i + 2 => cdata = asText(propertyWord(m, i))
  /\ y \in {11, 12} => hashdigest_type = "md5"

\* A reader at place p has the objects of the masters before it, and its part of the next.
Understood(p) ==
  /\ tagstack = p.stack
  /\ p.done <= Len(masters)
  /\ delivered = [j \in 1 .. p.done |-> delivered[j]]
  /\ \A j \in 1 .. p.done : isObjectOf(delivered[j], masters[j])
  /\ p.y = 0 => fileobject_ = NoObject
  /\ p.y # 0 => /\ p.done + 1 \in DOMAIN masters
                /\ TextOf(masters[p.done + 1], p.y)
                /\ \E T, H, R : /\ fileobject_ = Object(T, H, R)
                                /\ Partly(masters[p.done + 1], p.y, T, H, R)

\* m[key] = value, and the others as they were.
LEMMA PutPuts ==
  ASSUME NEW m, NEW key, NEW value
  PROVE  /\ DOMAIN Put(m, key, value) = DOMAIN m \cup {key}
         /\ Put(m, key, value)[key] = value
         /\ \A x \in DOMAIN m : x # key => Put(m, key, value)[x] = m[x]
BY DEF Put

\* An object is not the mark for none.
LEMMA ObjectParts ==
  ASSUME NEW T, NEW H, NEW R
  PROVE  /\ Object(T, H, R) # NoObject
         /\ Object(T, H, R)._tags = T
         /\ Object(T, H, R).hashdigest = H
         /\ Object(T, H, R).byte_runs = R
<1>1. DOMAIN NoObject = {"none"}
  BY DEF NoObject
<1>2. DOMAIN Object(T, H, R) = {"_tags", "hashdigest", "byte_runs"}
  BY DEF Object
<1>3. QED  BY <1>1, <1>2 DEF Object

\* The numbers of the tokens of the properties.
LEMMA PropertyNumbers ==
  /\ \A i \in Properties : i \in Nat /\ i <= 10 /\ i # 0 /\ propertyTag(i) \in Tags
                           /\ propertyTag(i) # "fileobject"
                           /\ (propertyTag(i) = "hashdigest" <=> i = 10)
                           /\ propertyTag(i) # "run"
  /\ \A i, j \in Properties :
       /\ propertyTag(i) = propertyTag(j) => i = j
       /\ i + 1 = j + 1 \/ i + 2 = j + 2 \/ i + 3 = j + 3 => i = j
       /\ i + 1 # j + 2 /\ i + 1 # j /\ i + 2 # j /\ i + 1 # j + 3
       /\ i # j + 2 /\ i # j + 1 /\ i + 3 # j + 1 /\ i + 3 # j + 2 /\ i + 2 # j + 3
  /\ \A i \in Properties : /\ (i + 1 = 11 => i = 10)
                           /\ (i + 2 = 12 => i = 10)
                           /\ i + 1 # 12 /\ i + 2 # 11
                           /\ i + 3 # 11 /\ i + 3 # 12
                           /\ (i + 3 >= 13 => i = 10)
<1>1. \A i \in Properties : i = 1 \/ i = 4 \/ i = 7 \/ i = 10
  BY DEF Properties
<1>2. propertyTag(1) = "filename" /\ propertyTag(4) = "blocks" /\ propertyTag(7) = "filesize"
      /\ propertyTag(10) = "hashdigest"
  BY DEF propertyTag
<1>3. \A i \in Properties : i \in Nat /\ i <= 10 /\ i # 0 /\ propertyTag(i) \in Tags
                           /\ propertyTag(i) # "fileobject"
                           /\ (propertyTag(i) = "hashdigest" <=> i = 10)
                           /\ propertyTag(i) # "run"
  BY <1>1, <1>2 DEF Tags
<1>4. ASSUME NEW i \in Properties, NEW j \in Properties
      PROVE  /\ propertyTag(i) = propertyTag(j) => i = j
             /\ i + 1 = j + 1 \/ i + 2 = j + 2 \/ i + 3 = j + 3 => i = j
             /\ i + 1 # j + 2 /\ i + 1 # j /\ i + 2 # j /\ i + 1 # j + 3
             /\ i # j + 2 /\ i # j + 1 /\ i + 3 # j + 1 /\ i + 3 # j + 2 /\ i + 2 # j + 3
  BY <1>1, <1>2
<1>5. \A i \in Properties : /\ (i + 1 = 11 => i = 10)
                           /\ (i + 2 = 12 => i = 10)
                           /\ i + 1 # 12 /\ i + 2 # 11
                           /\ i + 3 # 11 /\ i + 3 # 12
                           /\ (i + 3 >= 13 => i = 10)
  BY <1>1
<1>6. QED  BY <1>3, <1>4, <1>5

\* A step of the reader leaves the report alone.
Reading(p, q) ==
  /\ masters \in Reports
  /\ p \in Place /\ q \in Place
  /\ Understood(p)
  /\ Moves(masters, p, token, q)
  /\ masters' = masters

\* A start tag.
LEMMA StartUnderstood ==
  ASSUME NEW p, NEW q, Reading(p, q), StartElement
  PROVE  Understood(q)'
<1>1. /\ token.kind = "start" /\ masters' = masters
      /\ tagstack' = Append(tagstack, token.tag)
      /\ cdata' = << >>
      /\ fileobject_' = IF token.tag = "fileobject" THEN NewObject ELSE fileobject_
      /\ hashdigest_type' = IF token.tag = "hashdigest" THEN token.attrs ELSE hashdigest_type
      /\ delivered' = delivered
  BY DEF StartElement, cdataAtStart, resetCdata, Reads, Reading
<1>2. /\ tagstack = p.stack
      /\ p.done <= Len(masters)
      /\ delivered = [j \in 1 .. p.done |-> delivered[j]]
      /\ \A j \in 1 .. p.done : isObjectOf(delivered[j], masters[j])
  BY DEF Reading, Understood
<1> DEFINE Same == /\ q.done = p.done
                   /\ q.stack = Append(p.stack, token.tag)
<1>3. ASSUME Same
      PROVE  /\ tagstack' = q.stack
             /\ q.done <= Len(masters')
             /\ delivered' = [j \in 1 .. q.done |-> delivered'[j]]
             /\ \A j \in 1 .. q.done : isObjectOf(delivered'[j], masters'[j])
  BY <1>1, <1>2, <1>3
<1>4. \/ OtherToken(p, token, q)
      \/ FirstToken(masters, p, token, q)
      \/ PropertyToken(masters, p, token, q)
  BY <1>1 DEF Reading, Moves, RunToken, LastToken
<1>5. CASE OtherToken(p, token, q)
  <2>1. token.tag # "fileobject" /\ p.y = 0 /\ q.y = 0 /\ Same
    BY <1>1, <1>5 DEF OtherToken, Other, at
  <2>2. fileobject_' = NoObject
    BY <1>1, <2>1 DEF Reading, Understood
  <2>3. QED  BY <1>3, <2>1, <2>2 DEF Understood
<1>6. CASE FirstToken(masters, p, token, q)
  <2>1. token.tag = "fileobject" /\ q.y = 1 /\ Same /\ p.done + 1 \in DOMAIN masters
    BY <1>6 DEF FirstToken, at
  <2>2. fileobject_' = Object(Nothing, Nothing, << >>)
    BY <1>1, <2>1 DEF NewObject, Object
  <2>3. Partly(masters[p.done + 1], 1, Nothing, Nothing, << >>)
    BY PropertyNumbers DEF Partly
  <2>4. TextOf(masters[p.done + 1], 1)'
    BY PropertyNumbers DEF TextOf
  <2>5. QED  BY <1>1, <1>3, <2>1, <2>2, <2>3, <2>4 DEF Understood
<1>7. CASE PropertyToken(masters, p, token, q)
  <2>1. PICK i \in Properties :
          /\ p.y = i
          /\ token.tag = propertyTag(i)
          /\ i = 10 => token.attrs = "md5"
          /\ q = at(Append(p.stack, token.tag), p.done, i + 1)
    BY <1>1, <1>7 DEF PropertyToken
  <2>2. q.y = i + 1 /\ Same /\ p.done + 1 \in DOMAIN masters /\ token.tag # "fileobject"
        /\ i # 0 /\ i \in Nat
    BY <1>7, <2>1, PropertyNumbers DEF PropertyToken, at
  <2> DEFINE m == masters[p.done + 1]
  <2>3. PICK T, H, R : fileobject_ = Object(T, H, R) /\ Partly(m, i, T, H, R)
    BY <2>1, <2>2 DEF Reading, Understood
  <2>4. fileobject_' = Object(T, H, R)
    BY <1>1, <2>2, <2>3
  <2> HIDE DEF m
  <2>5. Partly(m, i + 1, T, H, R)
    <3>1. \A j \in Properties : i + 1 >= j + 3 => i >= j + 3
      BY PropertyNumbers DEF Properties
    <3>2. ~ (i >= 13) /\ ~ (i + 1 >= 13)
      BY PropertyNumbers DEF Properties
    <3>3. QED  BY <2>3, <3>1, <3>2 DEF Partly
  <2>6. TextOf(m, i + 1)'
    <3>1. cdata' = << >>
      BY <1>1
    <3>2. \A j \in Properties : i + 1 # j + 2
      BY PropertyNumbers
    <3>3. i + 1 \in {11, 12} => hashdigest_type' = "md5"
      BY <1>1, <2>1, PropertyNumbers
    <3>4. m' = m
      BY <1>1 DEF m
    <3>5. QED  BY <3>1, <3>2, <3>3, <3>4 DEF TextOf
  <2>7. QED  BY <1>1, <1>3, <2>2, <2>4, <2>5, <2>6 DEF Understood, m
<1>8. QED  BY <1>4, <1>5, <1>6, <1>7

\* Character data.
LEMMA TextUnderstood ==
  ASSUME NEW p, NEW q, Reading(p, q), CharacterData
  PROVE  Understood(q)'
<1>1. /\ token.kind = "text" /\ masters' = masters
      /\ cdata' = cdata \o parsed(token.text)
      /\ tagstack' = tagstack /\ fileobject_' = fileobject_
      /\ hashdigest_type' = hashdigest_type /\ delivered' = delivered
  BY DEF CharacterData, Reads, Reading
<1>2. Understood(p)
  BY DEF Reading
<1>3. OtherToken(p, token, q) \/ PropertyToken(masters, p, token, q)
  BY <1>1 DEF Reading, Moves, RunToken, LastToken, FirstToken
<1>4. CASE OtherToken(p, token, q)
  <2>1. q = p /\ p.y = 0
    BY <1>1, <1>4 DEF OtherToken
  <2>2. QED  BY <1>1, <1>2, <2>1 DEF Understood
<1>5. CASE PropertyToken(masters, p, token, q)
  <2>1. PICK i \in Properties :
          /\ p.y = i + 1
          /\ token.text = propertyText(masters[p.done + 1], i)
          /\ q = at(p.stack, p.done, i + 2)
    BY <1>1, <1>5 DEF PropertyToken
  <2> DEFINE m == masters[p.done + 1]
  <2>2. /\ q.y = i + 2 /\ q.done = p.done /\ q.stack = p.stack
        /\ p.done + 1 \in DOMAIN masters /\ i \in Nat
    BY <1>5, <2>1, PropertyNumbers DEF PropertyToken, at
  <2>3. m \in Masters
    BY <2>2, ReportsTyped DEF Reading
  <2>4. PICK T, H, R : fileobject_ = Object(T, H, R) /\ Partly(m, i + 1, T, H, R)
    BY <1>2, <2>1, <2>2 DEF Understood
  <2>5. cdata = << >> /\ (i + 1 \in {11, 12} => hashdigest_type = "md5")
    BY <1>2, <2>1, <2>2 DEF Understood, TextOf
  <2> HIDE DEF m
  <2>6. cdata' = asText(propertyWord(m, i))
    <3>1. parsed(propertyText(m, i)) = asText(propertyWord(m, i))
      BY <2>3, Parsed
    <3>2. asText(propertyWord(m, i)) = << << propertyWord(m, i),
            IF propertyWord(m, i) \in Whitespace THEN "percent" ELSE "verbatim" >> >>
      BY DEF asText
    <3> DEFINE t == asText(propertyWord(m, i))
    <3>3. << >> \o t = t
      BY <3>2, BeforeOne
    <3> HIDE DEF t
    <3>4. cdata' = << >> \o t
      BY <1>1, <2>1, <2>5, <3>1 DEF t, m
    <3>5. QED  BY <3>3, <3>4 DEF t
  <2>7. Partly(m, i + 2, T, H, R)
    <3>1. \A j \in Properties : i + 2 >= j + 3 => i + 1 >= j + 3
      BY PropertyNumbers DEF Properties
    <3>2. ~ (i + 1 >= 13) /\ ~ (i + 2 >= 13)
      BY PropertyNumbers DEF Properties
    <3>3. QED  BY <2>4, <3>1, <3>2 DEF Partly
  <2>8. TextOf(m, i + 2)'
    <3>1. \A j \in Properties : i + 2 # j + 1 /\ (i + 2 = j + 2 => i = j)
      BY PropertyNumbers
    <3>2. i + 2 \in {11, 12} => hashdigest_type' = "md5"
      <4>1. i + 2 \in {11, 12} => i + 1 \in {11, 12}
        BY PropertyNumbers DEF Properties
      <4>2. QED  BY <1>1, <2>5, <4>1
    <3>3. m' = m
      BY <1>1 DEF m
    <3>4. QED  BY <2>6, <3>1, <3>2, <3>3 DEF TextOf
  <2>9. i + 2 # 0
    BY <2>2
  <2>10. QED  BY <1>1, <1>2, <2>2, <2>4, <2>7, <2>8, <2>9 DEF Understood, m
<1>6. QED  BY <1>3, <1>4, <1>5

\* An empty element.
LEMMA EmptyUnderstood ==
  ASSUME NEW p, NEW q, Reading(p, q), EmptyElement
  PROVE  Understood(q)'
<1>1. /\ token.kind = "empty" /\ masters' = masters
      /\ cdata' = << >>
      /\ tagstack' = tagstack /\ hashdigest_type' = hashdigest_type /\ delivered' = delivered
      /\ fileobject_' =
           IF fileobject_ = NoObject THEN NoObject
           ELSE [fileobject_ EXCEPT
                   !.byte_runs = IF token.tag = "run" THEN Append(@, token.attrs) ELSE @,
                   !._tags = Put(@, token.tag, << >>)]
  BY DEF EmptyElement, cdataAtStart, resetCdata, Reads, Reading
<1>2. Understood(p) /\ masters \in Reports
  BY DEF Reading
<1>3. OtherToken(p, token, q) \/ RunToken(masters, p, token, q)
  BY <1>1 DEF Reading, Moves, PropertyToken, LastToken, FirstToken
<1>4. CASE OtherToken(p, token, q)
  <2>1. q = p /\ p.y = 0
    BY <1>1, <1>4 DEF OtherToken
  <2>2. fileobject_' = NoObject
    BY <1>1, <1>2, <2>1 DEF Understood
  <2>3. QED  BY <1>1, <1>2, <2>1, <2>2 DEF Understood
<1>5. CASE RunToken(masters, p, token, q)
  <2> DEFINE m == masters[p.done + 1]
  <2>1. PICK r \in DOMAIN m.runs : p.y = 12 + r /\ token.attrs = m.runs[r]
    BY <1>5 DEF RunToken
  <2>2. /\ token.tag = "run" /\ q = at(p.stack, p.done, p.y + 1)
        /\ p.done + 1 \in DOMAIN masters
    BY <1>5 DEF RunToken
  <2>3. m.runs \in Seq(STRING) /\ DOMAIN m.runs = 1 .. Len(m.runs) /\ Len(m.runs) \in Nat
    BY <1>2, <2>2, ReportsTyped
  <2>4. r \in Nat /\ r >= 1 /\ m.runs[r] \in STRING /\ p.y # 0 /\ p.y >= 13
    BY <2>1, <2>3
  <2>5. q.y = 13 + r /\ q.done = p.done /\ q.stack = p.stack
    BY <2>1, <2>2, <2>4 DEF at
  <2>6. PICK T, H, R : fileobject_ = Object(T, H, R) /\ Partly(m, 12 + r, T, H, R)
    BY <1>2, <2>1, <2>2, <2>4 DEF Understood
  <2> DEFINE T2 == Put(T, "run", << >>)
             R2 == Append(R, m.runs[r])
  <2>7. fileobject_' = Object(T2, H, R2)
    <3>1. fileobject_ # NoObject /\ fileobject_._tags = T /\ fileobject_.byte_runs = R
      BY <2>6, ObjectParts
    <3>2. fileobject_' = [fileobject_ EXCEPT !.byte_runs = Append(R, m.runs[r]),
                                             !._tags = Put(T, "run", << >>)]
      BY <1>1, <2>1, <2>2, <3>1
    <3> HIDE DEF T2, R2
    <3>3. [Object(T, H, R) EXCEPT !.byte_runs = R2, !._tags = T2] = Object(T2, H, R2)
      <4>1. [Object(T, H, R) EXCEPT !.byte_runs = R2] = Object(T, H, R2)
        BY DEF Object
      <4>2. [Object(T, H, R2) EXCEPT !._tags = T2] = Object(T2, H, R2)
        BY DEF Object
      <4>3. QED  BY <4>1, <4>2
    <3>4. QED  BY <2>6, <3>2, <3>3 DEF T2, R2
  <2> HIDE DEF m
  <2>8. Partly(m, 13 + r, T2, H, R2)
    <3>1. \A i \in Properties \ {10} :
            propertyTag(i) \in DOMAIN T /\ T[propertyTag(i)] = asText(propertyWord(m, i))
      <4>1. \A i \in Properties : 12 + r >= i + 3
        BY <2>4, PropertyNumbers
      <4>2. QED  BY <2>6, <4>1 DEF Partly
    <3>2. \A i \in Properties \ {10} :
            propertyTag(i) \in DOMAIN T2 /\ T2[propertyTag(i)] = asText(propertyWord(m, i))
      <4>1. \A i \in Properties : propertyTag(i) # "run"
        BY PropertyNumbers
      <4>2. DOMAIN T2 = DOMAIN T \cup {"run"} /\ \A x \in DOMAIN T : x # "run" => T2[x] = T[x]
        BY DEF Put
      <4> HIDE DEF T2
      <4>3. QED  BY <3>1, <4>1, <4>2
    <3>3. H["md5"] = asText(m.md5)
      BY <2>4, <2>6 DEF Partly
    <3>4. R \in Seq(STRING) /\ Len(R) = r - 1 /\ \A k \in 1 .. Len(R) : R[k] = m.runs[k]
      BY <2>4, <2>6 DEF Partly
    <3>5. R2 \in Seq(STRING) /\ Len(R2) = r /\ \A k \in 1 .. Len(R2) : R2[k] = m.runs[k]
      BY <2>4, <3>4
    <3> HIDE DEF T2, R2
    <3>6. Len(R2) = IF 13 + r >= 13 THEN (13 + r) - 13 ELSE 0
      BY <2>4, <3>5
    <3>7. QED  BY <3>2, <3>3, <3>5, <3>6 DEF Partly
  <2>9. TextOf(m, 13 + r)'
    <3>1. \A j \in Properties : 13 + r # j + 1 /\ 13 + r # j + 2
      BY <2>4, PropertyNumbers
    <3>2. 13 + r \notin {11, 12}
      BY <2>4
    <3>3. m' = m
      BY <1>1 DEF m
    <3>4. QED  BY <3>1, <3>2, <3>3 DEF TextOf
  <2>10. 13 + r # 0
    BY <2>4
  <2> HIDE DEF T2, R2
  <2>11. QED  BY <1>1, <1>2, <2>2, <2>5, <2>7, <2>8, <2>9, <2>10 DEF Understood, m
<1>6. QED  BY <1>3, <1>4, <1>5

\* A sequence, given as a function, and one more element.
LEMMA OneMoreOf ==
  ASSUME NEW n \in Nat, NEW s, s = [j \in 1 .. n |-> s[j]], NEW x
  PROVE  /\ Len(s) = n
         /\ Append(s, x) = [j \in 1 .. n + 1 |-> IF j <= n THEN s[j] ELSE x]
<1> DEFINE S == { s[j] : j \in 1 .. n } \cup {x}
<1>1. s \in [1 .. n -> S]
  OBVIOUS
<1>2. x \in S
  OBVIOUS
<1> HIDE DEF S
<1>3. s \in Seq(S) /\ Len(s) = n
  BY <1>1
<1>4. QED  BY <1>2, <1>3

\* The end of a fileobject: the object goes to the callback.
LEMMA FileobjectUnderstood ==
  ASSUME NEW p, NEW q, Reading(p, q), FileobjectEnd
  PROVE  Understood(q)'
<1>1. /\ token.kind = "end" /\ token.tag = "fileobject" /\ masters' = masters
      /\ tagstack' = Front(tagstack)
      /\ delivered' = Append(delivered, fileobject_)
      /\ fileobject_' = NoObject
  BY DEF FileobjectEnd, Reads, Reading
<1>2. Understood(p) /\ masters \in Reports /\ p \in Place
  BY DEF Reading
<1>3. LastToken(masters, p, token, q)
  <2>1. ~ OtherToken(p, token, q)
    BY <1>1 DEF OtherToken, Other
  <2>2. ~ PropertyToken(masters, p, token, q)
    BY <1>1, PropertyNumbers DEF PropertyToken
  <2>3. ~ FirstToken(masters, p, token, q) /\ ~ RunToken(masters, p, token, q)
    BY <1>1 DEF FirstToken, RunToken
  <2>4. QED  BY <2>1, <2>2, <2>3 DEF Reading, Moves
<1> DEFINE n == p.done
           m == masters[n + 1]
<1>4. /\ n \in Nat /\ n + 1 \in DOMAIN masters /\ p.y = 13 + Len(m.runs)
      /\ q.stack = Front(p.stack) /\ q.done = n + 1 /\ q.y = 0
  BY <1>2, <1>3 DEF LastToken, Place, at
<1>5. /\ DOMAIN masters = 1 .. Len(masters) /\ Len(masters) \in Nat
      /\ m.runs \in Seq(STRING) /\ Len(m.runs) \in Nat
  BY <1>2, <1>4, ReportsTyped
<1>6. PICK T, H, R : fileobject_ = Object(T, H, R) /\ Partly(m, p.y, T, H, R)
  BY <1>2, <1>4, <1>5 DEF Understood
<1>7. isObjectOf(fileobject_, m)
  <2>1. p.y >= 13
    BY <1>4, <1>5
  <2> HIDE DEF m
  <2>2. \A i \in Properties \ {10} : T[propertyTag(i)] = asText(propertyWord(m, i))
    <3>1. p.y \in Nat /\ \A i \in Properties : p.y >= i + 3
      BY <1>2, <2>1 DEF Properties, Place
    <3>2. QED  BY <1>6, <3>1 DEF Partly
  <2>3. H["md5"] = asText(m.md5)
    BY <1>6, <2>1 DEF Partly
  <2>4. /\ T["filename"] = asText(m.filename)
        /\ T["blocks"] = asText(m.blocks)
        /\ T["filesize"] = asText(m.filesize)
    <3>1. 1 \in Properties \ {10} /\ 4 \in Properties \ {10} /\ 7 \in Properties \ {10}
      BY DEF Properties
    <3>2. propertyTag(1) = "filename" /\ propertyTag(4) = "blocks" /\ propertyTag(7) = "filesize"
      BY DEF propertyTag
    <3>3. /\ propertyWord(m, 1) = m.filename
          /\ propertyWord(m, 4) = m.blocks
          /\ propertyWord(m, 7) = m.filesize
      BY DEF propertyWord
    <3>4. QED  BY <2>2, <3>1, <3>2, <3>3
  <2>5. R = m.runs
    <3>1. /\ R \in Seq(STRING) /\ Len(R) = Len(m.runs)
          /\ \A r \in 1 .. Len(R) : R[r] = m.runs[r]
      BY <1>4, <1>5, <1>6, <2>1 DEF Partly
    <3>2. QED  BY <1>5, <3>1, SameElements
  <2>6. QED  BY <1>6, <2>3, <2>4, <2>5, ObjectParts DEF isObjectOf
<1>8. /\ delivered = [j \in 1 .. n |-> delivered[j]]
      /\ \A j \in 1 .. n : isObjectOf(delivered[j], masters[j])
  BY <1>2 DEF Understood
<1> HIDE DEF n, m
<1>9. delivered' = [j \in 1 .. n + 1 |-> IF j <= n THEN delivered[j] ELSE fileobject_]
  BY <1>1, <1>4, <1>8, OneMoreOf
<1>10. delivered' = [j \in 1 .. n + 1 |-> delivered'[j]]
  BY <1>9
<1>11. ASSUME NEW j \in 1 .. n + 1
       PROVE  isObjectOf(delivered'[j], masters[j])
  <2>1. CASE j \in 1 .. n
    <3>1. delivered'[j] = delivered[j]
      BY <1>4, <1>9, <2>1
    <3>2. QED  BY <1>8, <2>1, <3>1
  <2>2. CASE j = n + 1
    <3>1. delivered'[j] = fileobject_
      BY <1>4, <1>9, <2>2
    <3>2. QED  BY <1>7, <2>2, <3>1 DEF m
  <2>3. QED  BY <1>4, <2>1, <2>2
<1>12. tagstack' = q.stack
  BY <1>1, <1>2, <1>4 DEF Understood
<1>13. q.done <= Len(masters)
  BY <1>4, <1>5
<1>14. \A j \in 1 .. q.done : isObjectOf(delivered'[j], masters'[j])
  BY <1>1, <1>4, <1>11
<1>15. QED  BY <1>1, <1>4, <1>10, <1>12, <1>13, <1>14 DEF Understood
\* The end of a digest.
LEMMA HashdigestUnderstood ==
  ASSUME NEW p, NEW q, Reading(p, q), HashdigestEnd
  PROVE  Understood(q)'
<1>1. /\ token.kind = "end" /\ token.tag = "hashdigest" /\ masters' = masters
      /\ tagstack' = Front(tagstack)
      /\ cdata' = << >>
      /\ fileobject_' =
           IF Len(tagstack) > 1 /\ tagstack[Len(tagstack) - 1] = "fileobject"
           THEN [fileobject_ EXCEPT !.hashdigest = Put(@, hashdigest_type, cdata)]
           ELSE fileobject_
      /\ hashdigest_type' = hashdigest_type /\ delivered' = delivered
  BY DEF HashdigestEnd, Reads, Reading
<1>2. Understood(p) /\ masters \in Reports /\ p \in Place
  BY DEF Reading
<1>3. PropertyToken(masters, p, token, q)
  <2>1. ~ OtherToken(p, token, q)
    BY <1>1 DEF OtherToken, Other
  <2>2. /\ ~ LastToken(masters, p, token, q) /\ ~ FirstToken(masters, p, token, q)
        /\ ~ RunToken(masters, p, token, q)
    BY <1>1 DEF FirstToken, RunToken, LastToken
  <2>3. QED  BY <2>1, <2>2 DEF Reading, Moves
<1>4. /\ p.y = 12 /\ Len(p.stack) > 1 /\ p.stack[Len(p.stack) - 1] = "fileobject"
      /\ q = at(Front(p.stack), p.done, 13)
  <2>1. PICK i \in Properties :
          /\ p.y = i + 2
          /\ token.tag = propertyTag(i)
          /\ Len(p.stack) > 1 /\ p.stack[Len(p.stack) - 1] = "fileobject"
          /\ q = at(Front(p.stack), p.done, i + 3)
    BY <1>1, <1>3 DEF PropertyToken
  <2>2. i = 10
    BY <1>1, <2>1, PropertyNumbers
  <2>3. QED  BY <2>1, <2>2
<1> DEFINE m == masters[p.done + 1]
<1>5. /\ q.y = 13 /\ q.done = p.done /\ q.stack = Front(p.stack)
      /\ p.done + 1 \in DOMAIN masters
  BY <1>3, <1>4 DEF PropertyToken, at
<1>6. PICK T, H, R : fileobject_ = Object(T, H, R) /\ Partly(m, 12, T, H, R)
  BY <1>2, <1>4, <1>5 DEF Understood
<1>7. cdata = asText(m.md5) /\ hashdigest_type = "md5" /\ tagstack = p.stack
  <2>1. TextOf(m, 12)
    BY <1>2, <1>4, <1>5 DEF Understood
  <2>2. 10 \in Properties /\ 12 = 10 + 2 /\ propertyWord(m, 10) = m.md5
    BY DEF Properties, propertyWord
  <2> HIDE DEF m
  <2>3. QED  BY <1>2, <2>1, <2>2 DEF TextOf, Understood
<1> HIDE DEF m
<1> DEFINE H2 == Put(H, "md5", asText(m.md5))
<1>8. fileobject_' = Object(T, H2, R)
  <2>1. fileobject_.hashdigest = H
    BY <1>6, ObjectParts
  <2>2. fileobject_' = [fileobject_ EXCEPT !.hashdigest =
                         Put(fileobject_.hashdigest, "md5", asText(m.md5))]
    BY <1>1, <1>4, <1>7
  <2>3. fileobject_' = [fileobject_ EXCEPT !.hashdigest = H2]
    BY <2>1, <2>2
  <2> HIDE DEF H2
  <2>4. [Object(T, H, R) EXCEPT !.hashdigest = H2] = Object(T, H2, R)
    BY DEF Object
  <2>5. QED  BY <1>6, <2>3, <2>4
<1>9. H2["md5"] = asText(m.md5)
  BY DEF Put
<1> HIDE DEF H2
<1>10. Partly(m, 13, T, H2, R)
  <2>1. \A i \in Properties \ {10} : 12 >= i + 3
    BY DEF Properties
  <2>2. R \in Seq(STRING) /\ Len(R) = 0
    BY <1>6 DEF Partly
  <2>3. QED  BY <1>6, <1>9, <2>1, <2>2 DEF Partly
<1>11. TextOf(m, 13)'
  <2>1. \A i \in Properties : 13 # i + 1 /\ 13 # i + 2
    BY DEF Properties
  <2>2. 13 \notin {11, 12}
    OBVIOUS
  <2>3. QED  BY <2>1, <2>2 DEF TextOf
<1>12. /\ tagstack' = q.stack /\ q.done <= Len(masters')
       /\ delivered' = [j \in 1 .. q.done |-> delivered'[j]]
       /\ \A j \in 1 .. q.done : isObjectOf(delivered'[j], masters'[j])
  BY <1>1, <1>2, <1>5, <1>7 DEF Understood
<1>13. /\ q.y # 0 /\ q.done + 1 \in DOMAIN masters' /\ masters'[q.done + 1] = m
       /\ TextOf(masters[q.done + 1], q.y)'
  BY <1>1, <1>5, <1>11 DEF m
<1>14. Partly(masters'[q.done + 1], q.y, T, H2, R)
  BY <1>5, <1>10, <1>13
<1>15. QED  BY <1>8, <1>12, <1>13, <1>14 DEF Understood
\* The end of any other element.
LEMMA OtherUnderstood ==
  ASSUME NEW p, NEW q, Reading(p, q), OtherEnd
  PROVE  Understood(q)'
<1>1. /\ token.kind = "end" /\ token.tag \notin {"fileobject", "hashdigest"}
      /\ masters' = masters
      /\ tagstack' = Front(tagstack)
      /\ cdata' = << >>
      /\ fileobject_' = IF fileobject_ = NoObject THEN NoObject
                        ELSE [fileobject_ EXCEPT !._tags = Put(@, token.tag, cdata)]
      /\ hashdigest_type' = hashdigest_type /\ delivered' = delivered
  BY DEF OtherEnd, Reads, Reading
<1>2. Understood(p) /\ masters \in Reports /\ p \in Place
  BY DEF Reading
<1>3. OtherToken(p, token, q) \/ PropertyToken(masters, p, token, q)
  BY <1>1 DEF Reading, Moves, FirstToken, RunToken, LastToken
<1>4. ASSUME q.done = p.done, q.stack = Front(p.stack)
      PROVE  /\ tagstack' = q.stack /\ q.done <= Len(masters')
             /\ delivered' = [j \in 1 .. q.done |-> delivered'[j]]
             /\ \A j \in 1 .. q.done : isObjectOf(delivered'[j], masters'[j])
  BY <1>1, <1>2, <1>4 DEF Understood
<1>5. CASE OtherToken(p, token, q)
  <2>1. p.y = 0 /\ q.y = 0 /\ q.done = p.done /\ q.stack = Front(p.stack)
    BY <1>1, <1>5 DEF OtherToken, at
  <2>2. fileobject_' = NoObject
    BY <1>1, <1>2, <2>1 DEF Understood
  <2>3. QED  BY <1>4, <2>1, <2>2 DEF Understood
<1>6. CASE PropertyToken(masters, p, token, q)
  <2>1. PICK i \in Properties :
          /\ p.y = i + 2
          /\ token.tag = propertyTag(i)
          /\ q = at(Front(p.stack), p.done, i + 3)
    BY <1>1, <1>6 DEF PropertyToken
  <2>2. i \in Properties \ {10} /\ (i = 1 \/ i = 4 \/ i = 7)
    BY <1>1, <2>1, PropertyNumbers DEF Properties
  <2> DEFINE m == masters[p.done + 1]
  <2>3. /\ q.y = i + 3 /\ q.y # 0 /\ p.y # 0
        /\ q.done = p.done /\ q.stack = Front(p.stack)
        /\ p.done + 1 \in DOMAIN masters
    BY <1>6, <2>1, <2>2 DEF PropertyToken, at
  <2>4. PICK T, H, R : fileobject_ = Object(T, H, R) /\ Partly(m, i + 2, T, H, R)
    BY <1>2, <2>1, <2>3 DEF Understood
  <2>5. TextOf(m, i + 2)
    BY <1>2, <2>1, <2>3 DEF Understood
  <2>6. m' = m /\ masters'[q.done + 1] = m /\ q.done + 1 \in DOMAIN masters'
    BY <1>1, <2>3
  <2> HIDE DEF m
  <2>7. cdata = asText(propertyWord(m, i))
    BY <2>2, <2>5 DEF TextOf
  <2> DEFINE T2 == Put(T, propertyTag(i), cdata)
  <2>8. fileobject_' = Object(T2, H, R)
    <3>1. fileobject_ # NoObject /\ fileobject_._tags = T
      BY <2>4, ObjectParts
    <3>2. fileobject_' = [fileobject_ EXCEPT !._tags = Put(fileobject_._tags, token.tag, cdata)]
      BY <1>1, <3>1
    <3>3. fileobject_' = [fileobject_ EXCEPT !._tags = T2]
      BY <2>1, <3>1, <3>2
    <3> HIDE DEF T2
    <3>4. [Object(T, H, R) EXCEPT !._tags = T2] = Object(T2, H, R)
      BY DEF Object
    <3>5. QED  BY <2>4, <3>3, <3>4
  <2>9. /\ DOMAIN T2 = DOMAIN T \cup {propertyTag(i)}
        /\ T2[propertyTag(i)] = cdata
        /\ \A x \in DOMAIN T : x # propertyTag(i) => T2[x] = T[x]
    BY DEF Put
  <2> HIDE DEF T2
  <2>10. Partly(m, i + 3, T2, H, R)
    <3>1. ASSUME NEW j \in Properties \ {10}, i + 3 >= j + 3
          PROVE  propertyTag(j) \in DOMAIN T2
                 /\ T2[propertyTag(j)] = asText(propertyWord(m, j))
      <4>1. CASE j = i
        BY <2>7, <2>9, <4>1
      <4>2. CASE j # i
        <5>1. i + 2 >= j + 3 /\ propertyTag(j) # propertyTag(i)
          <6>1. i + 2 >= j + 3
            BY <2>2, <3>1, <4>2 DEF Properties
          <6>2. QED  BY <4>2, <6>1, PropertyNumbers
        <5>2. propertyTag(j) \in DOMAIN T /\ T[propertyTag(j)] = asText(propertyWord(m, j))
          BY <2>4, <5>1 DEF Partly
        <5>3. QED  BY <2>9, <5>1, <5>2
      <4>3. QED  BY <4>1, <4>2
    <3>2. ~ (i + 2 >= 13) /\ ~ (i + 3 >= 13)
      BY <2>2
    <3>3. R \in Seq(STRING) /\ Len(R) = 0 /\ \A r \in 1 .. Len(R) : R[r] = m.runs[r]
      BY <2>4, <3>2 DEF Partly
    <3>4. QED  BY <3>1, <3>2, <3>3 DEF Partly
  <2>11. TextOf(m, i + 3)'
    <3>1. \A j \in Properties : i + 3 # j + 1 /\ i + 3 # j + 2
      BY <2>2 DEF Properties
    <3>2. i + 3 \notin {11, 12}
      BY <2>2
    <3>3. QED  BY <2>6, <3>1, <3>2 DEF TextOf
  <2>12. TextOf(masters[q.done + 1], q.y)'
    BY <2>3, <2>6, <2>11
  <2>13. Partly(masters'[q.done + 1], q.y, T2, H, R)
    BY <2>3, <2>6, <2>10
  <2>14. QED  BY <1>4, <2>3, <2>6, <2>8, <2>12, <2>13 DEF Understood
<1>7. QED  BY <1>3, <1>5, <1>6
-----------------------------------------------------------------------------
(***************************************************************************)
(* The writer at the end of the trail.                                     *)
(***************************************************************************)
\* What push() writes, the text of an element, and what xmlout() writes.
pushed(c)  == start(c.tag, "")
textOf(c)  == IF c.escape THEN xmlescape(c.words) ELSE asItIs(c.words)
written(c) == IF c.words = << >> THEN << emptyTag(c.tag, c.attrs) >>
              ELSE << start(c.tag, c.attrs), chars(textOf(c)), end(c.tag) >>

\* The tokens are tokens.
LEMMA TokensTyped ==
  ASSUME NEW tag \in Tags, NEW attrs \in Attributes, NEW text \in Text
  PROVE  /\ start(tag, attrs) \in Tokens
         /\ emptyTag(tag, attrs) \in Tokens
         /\ chars(text) \in Tokens
         /\ end(tag) \in Tokens
<1>1. start(tag, attrs) \in [kind : {"start", "empty"}, tag : Tags, attrs : Attributes]
  BY DEF start
<1>2. emptyTag(tag, attrs) \in [kind : {"start", "empty"}, tag : Tags, attrs : Attributes]
  BY DEF emptyTag
<1>3. chars(text) \in [kind : {"text"}, text : Text]
  BY DEF chars
<1>4. end(tag) \in [kind : {"end"}, tag : Tags]
  BY DEF end
<1>5. QED  BY <1>1, <1>2, <1>3, <1>4 DEF Tokens

\* A place is what its parts are.
LEMMA PlaceParts ==
  ASSUME NEW p \in Place
  PROVE  p.stack \in Seq(Tags) /\ p.done \in Nat /\ p.y \in Nat
         /\ p = at(p.stack, p.done, p.y)
BY DEF Place, at

\* The call for a property.
LEMMA PropertyParts ==
  ASSUME NEW m, NEW y, NEW c, IsProperty(m, y, c)
  PROVE  /\ y \in Properties
         /\ c.op = "xmlout" /\ c.tag = propertyTag(y) /\ c.words = << propertyWord(m, y) >>
         /\ y = 10 => c.attrs = "md5"
         /\ c.escape = (y # 10)
<1>1. CASE y = 1 /\ c = plainout("filename", << m.filename >>)
  <2> DEFINE tag == "filename"
             words == << m.filename >>
             attrs == ""
             escape == TRUE
  <2>0. c = xmlout(tag, words, attrs, escape)
    BY <1>1 DEF plainout
  <2> HIDE DEF tag, words, attrs, escape
  <2>1. c.op = "xmlout" /\ c.tag = tag /\ c.words = words /\ c.attrs = attrs
        /\ c.escape = escape
    BY <2>0 DEF xmlout
  <2>2. propertyTag(y) = "filename" /\ propertyWord(m, y) = m.filename
    BY <1>1 DEF propertyTag, propertyWord
  <2>3. y \in Properties /\ y # 10
    BY <1>1 DEF Properties
  <2>4. QED  BY <1>1, <2>1, <2>2, <2>3, Zenon DEF tag, words, attrs, escape
<1>2. CASE y = 4 /\ c = plainout("blocks", << m.blocks >>)
  <2> DEFINE tag == "blocks"
             words == << m.blocks >>
             attrs == ""
             escape == TRUE
  <2>0. c = xmlout(tag, words, attrs, escape)
    BY <1>2 DEF plainout
  <2> HIDE DEF tag, words, attrs, escape
  <2>1. c.op = "xmlout" /\ c.tag = tag /\ c.words = words /\ c.attrs = attrs
        /\ c.escape = escape
    BY <2>0 DEF xmlout
  <2>2. propertyTag(y) = "blocks" /\ propertyWord(m, y) = m.blocks
    BY <1>2 DEF propertyTag, propertyWord
  <2>3. y \in Properties /\ y # 10
    BY <1>2 DEF Properties
  <2>4. QED  BY <1>2, <2>1, <2>2, <2>3, Zenon DEF tag, words, attrs, escape
<1>3. CASE y = 7 /\ c = plainout("filesize", << m.filesize >>)
  <2> DEFINE tag == "filesize"
             words == << m.filesize >>
             attrs == ""
             escape == TRUE
  <2>0. c = xmlout(tag, words, attrs, escape)
    BY <1>3 DEF plainout
  <2> HIDE DEF tag, words, attrs, escape
  <2>1. c.op = "xmlout" /\ c.tag = tag /\ c.words = words /\ c.attrs = attrs
        /\ c.escape = escape
    BY <2>0 DEF xmlout
  <2>2. propertyTag(y) = "filesize" /\ propertyWord(m, y) = m.filesize
    BY <1>3 DEF propertyTag, propertyWord
  <2>3. y \in Properties /\ y # 10
    BY <1>3 DEF Properties
  <2>4. QED  BY <1>3, <2>1, <2>2, <2>3, Zenon DEF tag, words, attrs, escape
<1>4. CASE y = 10 /\ c = xmlout("hashdigest", << m.md5 >>, "md5", FALSE)
  <2> DEFINE tag == "hashdigest"
             words == << m.md5 >>
             attrs == "md5"
             escape == FALSE
  <2>0. c = xmlout(tag, words, attrs, escape)
    BY <1>4
  <2> HIDE DEF tag, words, attrs, escape
  <2>1. c.op = "xmlout" /\ c.tag = tag /\ c.words = words /\ c.attrs = attrs
        /\ c.escape = escape
    BY <2>0 DEF xmlout
  <2>2. propertyTag(y) = "hashdigest" /\ propertyWord(m, y) = m.md5
    BY <1>4 DEF propertyTag, propertyWord
  <2>3. y \in Properties
    BY <1>4 DEF Properties
  <2>4. QED  BY <1>4, <2>1, <2>2, <2>3, Zenon DEF tag, words, attrs, escape
<1>5. QED  BY <1>1, <1>2, <1>3, <1>4 DEF IsProperty

\* Each way on is for one operation.
LEMMA LeadsBy ==
  ASSUME NEW list, NEW p, NEW c, NEW q, Leads(list, p, c, q)
  PROVE  /\ c.op = "push" => Pushes(list, p, c, q)
         /\ c.op = "pop" => Pops(list, p, c, q)
         /\ c.op = "close" => Closes(list, p, c, q)
         /\ c.op = "xmlout" => \/ PutsOther(list, p, c, q)
                               \/ PutsProperty(list, p, c, q)
                               \/ PutsRun(list, p, c, q)
<1>1. Pushes(list, p, c, q) => c.op = "push"
  BY DEF Pushes
<1>2. Pops(list, p, c, q) => c.op = "pop"
  BY DEF Pops
<1>3. PutsOther(list, p, c, q) => c.op = "xmlout"
  BY DEF PutsOther
<1>4. PutsProperty(list, p, c, q) => c.op = "xmlout"
  BY PropertyParts DEF PutsProperty
<1>5. ASSUME PutsRun(list, p, c, q)
      PROVE  c.op = "xmlout"
  <2>1. PICK r \in DOMAIN list[p.done + 1].runs :
          c = xmlout("run", << >>, list[p.done + 1].runs[r], FALSE)
    BY <1>5 DEF PutsRun
  <2> DEFINE attrs == list[p.done + 1].runs[r]
  <2> HIDE DEF attrs
  <2>2. c = xmlout("run", << >>, attrs, FALSE)
    BY <2>1 DEF attrs
  <2>3. QED  BY <2>2 DEF xmlout
<1>6. Closes(list, p, c, q) => c.op = "close"
  BY DEF Closes
<1>7. QED  BY <1>1, <1>2, <1>3, <1>4, <1>5, <1>6 DEF Leads

\* push() goes on with the trail, and so does the stack.
LEMMA PushTrail ==
  ASSUME NEW list, NEW s \in Seq(Tokens), NEW trail, NEW p \in Place,
         IsTrail(list, s, trail, p), NEW c \in Ops, NEW q \in Place,
         Leads(list, p, c, q), c.op = "push"
  PROVE  /\ pushed(c) \in Tokens
         /\ q.stack = Append(p.stack, c.tag)
         /\ \E new : IsTrail(list, Append(s, pushed(c)), new, q)
                     /\ Prolongs(new, trail, Len(s))
<1>1. Pushes(list, p, c, q)
  BY LeadsBy
<1>2. c.tag \in Tags /\ "" \in Attributes
  <2>1. c.tag \in Tags
    BY <1>1 DEF Pushes, Tags
  <2>2. "" \in Attributes
    BY Zenon DEF Attributes
  <2>3. QED  BY <2>1, <2>2
<1> DEFINE t == start(c.tag, "")
<1>3. t \in Tokens
  <2>1. << >> \in Text
    BY DEF Text
  <2>2. QED  BY <1>2, <2>1, TokensTyped, Zenon
<1>4. t.kind = "start" /\ t.tag = c.tag
  BY DEF start
<1>5. Readable(list, t)
  BY <1>4 DEF Readable
<1> HIDE DEF t
<1>6. OtherToken(p, t, q) \/ FirstToken(list, p, t, q)
  BY <1>1, <1>4 DEF Pushes, OtherToken, FirstToken
<1>7. Moves(list, p, t, q)
  BY <1>5, <1>6 DEF Moves
<1>8. q.stack = Append(p.stack, c.tag)
  BY <1>1 DEF Pushes, at
<1>9. \E new : IsTrail(list, Append(s, t), new, q) /\ Prolongs(new, trail, Len(s))
  BY <1>3, <1>7, TrailGrows
<1>10. QED  BY <1>3, <1>8, <1>9, Zenon DEF t, pushed

\* pop() too.
LEMMA PopTrail ==
  ASSUME NEW list, NEW s \in Seq(Tokens), NEW trail, NEW p \in Place,
         IsTrail(list, s, trail, p), NEW c \in Ops, NEW q \in Place,
         Leads(list, p, c, q), c.op = "pop"
  PROVE  /\ end(Last(p.stack)) \in Tokens
         /\ q.stack = Front(p.stack)
         /\ \E new : IsTrail(list, Append(s, end(Last(p.stack))), new, q)
                     /\ Prolongs(new, trail, Len(s))
<1>1. Pops(list, p, c, q)
  BY LeadsBy
<1> DEFINE tag == Last(p.stack)
           t == end(tag)
<1>2. tag \in Tags
  BY <1>1 DEF Pops, Tags
<1>3. t \in Tokens
  <2>1. << >> \in Text
    BY DEF Text
  <2>2. "md5" \in Attributes
    BY Zenon DEF Attributes
  <2>3. QED  BY <1>2, <2>1, <2>2, TokensTyped, Zenon
<1>4. t.kind = "end" /\ t.tag = tag
  BY DEF end
<1>5. Readable(list, t)
  BY <1>4 DEF Readable
<1> HIDE DEF t
<1>6. OtherToken(p, t, q) \/ LastToken(list, p, t, q)
  BY <1>1, <1>4 DEF Pops, OtherToken, LastToken
<1>7. Moves(list, p, t, q)
  BY <1>5, <1>6 DEF Moves
<1>8. q.stack = Front(p.stack)
  BY <1>1 DEF Pops, at
<1>9. \E new : IsTrail(list, Append(s, t), new, q) /\ Prolongs(new, trail, Len(s))
  BY <1>3, <1>7, TrailGrows
<1>10. QED  BY <1>3, <1>8, <1>9 DEF t

\* The text of an element is text, and of a name only what the name has.
LEMMA TextWritten ==
  ASSUME NEW list, NEW c, c.words \in Seq(STRING), c.escape \in BOOLEAN,
         \A j \in DOMAIN c.words :
           Named(list, c.words[j]) /\ (~ c.escape => c.words[j] \in Plain)
  PROVE  textOf(c) \in Text /\ Readable(list, chars(textOf(c)))
<1> DEFINE words == c.words
           escape == c.escape
           text == IF escape THEN xmlescape(words) ELSE asItIs(words)
<1>1. /\ text \in Text
      /\ DOMAIN text = DOMAIN words
      /\ \A j \in DOMAIN words :
           /\ text[j][1] = words[j]
           /\ escape => (text[j][2] = "verbatim" => words[j] \notin Markup)
  <2> HIDE DEF words, escape
  <2>1. words \in Seq(STRING) /\ escape \in BOOLEAN
    BY DEF words, escape
  <2>2. QED  BY <2>1, Escaped
<1>2. textOf(c) = text
  BY DEF textOf
<1> HIDE DEF text
<1>3. \A j \in DOMAIN words : words[j] \in Plain => words[j] \notin Markup
  BY DEF Plain
<1>4. \A j \in DOMAIN text : /\ Named(list, text[j][1])
                             /\ text[j][2] = "verbatim" => text[j][1] \notin Markup
  BY <1>1, <1>3
<1>5. chars(text).text = text
  BY DEF chars
<1>6. QED  BY <1>1, <1>2, <1>4, <1>5 DEF Readable

\* The tags of an element.
LEMMA TagsWritten ==
  ASSUME NEW list, NEW tag, NEW attrs
  PROVE  /\ start(tag, attrs).kind = "start" /\ start(tag, attrs).tag = tag
         /\ start(tag, attrs).attrs = attrs /\ Readable(list, start(tag, attrs))
         /\ end(tag).kind = "end" /\ end(tag).tag = tag /\ Readable(list, end(tag))
         /\ emptyTag(tag, attrs).kind = "empty" /\ emptyTag(tag, attrs).tag = tag
         /\ emptyTag(tag, attrs).attrs = attrs /\ Readable(list, emptyTag(tag, attrs))
<1>1. /\ start(tag, attrs).kind = "start" /\ start(tag, attrs).tag = tag
      /\ start(tag, attrs).attrs = attrs
  BY DEF start
<1>2. end(tag).kind = "end" /\ end(tag).tag = tag
  BY DEF end
<1>3. /\ emptyTag(tag, attrs).kind = "empty" /\ emptyTag(tag, attrs).tag = tag
      /\ emptyTag(tag, attrs).attrs = attrs
  BY DEF emptyTag
<1>4. QED  BY <1>1, <1>2, <1>3 DEF Readable

\* An element with a text goes on with the trail by three tokens.
LEMMA ElementTrail ==
  ASSUME NEW list \in Reports, NEW s \in Seq(Tokens), NEW trail, NEW p \in Place,
         IsTrail(list, s, trail, p), NEW c \in Ops, NEW q \in Place,
         Leads(list, p, c, q), c.op = "xmlout", c.words # << >>
  PROVE  /\ written(c) \in Seq(Tokens)
         /\ q.stack = p.stack
         /\ \E new : IsTrail(list, s \o written(c), new, q) /\ Prolongs(new, trail, Len(s))
<1> DEFINE a == start(c.tag, c.attrs)
           b == chars(textOf(c))
           e == end(c.tag)
<1>1. written(c) = << a, b, e >>
  BY DEF written
<1>2. c.tag \in Tags /\ c.words \in Seq(STRING) /\ c.attrs \in Attributes /\ c.escape \in BOOLEAN
  <2>1. c \in [op : {"xmlout"}, tag : Tags, words : Seq(STRING), attrs : Attributes,
               escape : BOOLEAN]
    BY DEF Ops
  <2> HIDE DEF Attributes
  <2>2. QED  BY <2>1
<1>3. /\ a.kind = "start" /\ a.tag = c.tag /\ a.attrs = c.attrs /\ Readable(list, a)
      /\ e.kind = "end" /\ e.tag = c.tag /\ Readable(list, e)
  BY TagsWritten
<1>4. b.kind = "text" /\ b.text = textOf(c)
  BY DEF chars
<1>5. p.stack \in Seq(Tags) /\ p.done \in Nat /\ p.y \in Nat /\ p = at(p.stack, p.done, p.y)
  BY PlaceParts
<1> DEFINE inner == Append(p.stack, c.tag)
<1>6. inner \in Seq(Tags) /\ inner # << >> /\ Last(inner) = c.tag /\ Front(inner) = p.stack
      /\ Len(inner) = Len(p.stack) + 1
      /\ \A j \in 1 .. Len(p.stack) : inner[j] = p.stack[j]
  BY <1>2, <1>5, Unstacked
<1>7. ~ PutsRun(list, p, c, q)
  <2>1. ASSUME NEW r \in DOMAIN list[p.done + 1].runs,
               c = xmlout("run", << >>, list[p.done + 1].runs[r], FALSE)
        PROVE  FALSE
    <3> DEFINE attrs == list[p.done + 1].runs[r]
    <3> HIDE DEF attrs
    <3>1. c = xmlout("run", << >>, attrs, FALSE)
      BY <2>1 DEF attrs
    <3>2. QED  BY <3>1 DEF xmlout
  <2>2. QED  BY <2>1 DEF PutsRun
<1>8. \A j \in DOMAIN c.words :
        Named(list, c.words[j]) /\ (~ c.escape => c.words[j] \in Plain)
  <2>1. CASE PutsOther(list, p, c, q)
    BY <2>1 DEF PutsOther
  <2>2. CASE PutsProperty(list, p, c, q)
    <3> DEFINE m == list[p.done + 1]
               w == propertyWord(m, p.y)
    <3>1. /\ p.y \in Properties /\ c.words = << w >> /\ c.escape = (p.y # 10)
      BY <2>2, PropertyParts DEF PutsProperty
    <3>2. p.done + 1 \in DOMAIN list /\ m \in Masters
      BY <2>2, ReportsTyped DEF PutsProperty
    <3>3. (p.y = 1 /\ w = m.filename) \/ (p.y # 1 /\ w \in Plain)
      <4> HIDE DEF m
      <4>1. m.blocks \in Plain /\ m.filesize \in Plain /\ m.md5 \in Plain
        BY <3>2 DEF Masters
      <4>2. QED  BY <3>1, <4>1 DEF Properties, propertyWord
    <3>4. Named(list, w)
      BY <3>2, <3>3 DEF Named, Plain
    <3>5. DOMAIN c.words = {1} /\ c.words[1] = w
      <4> HIDE DEF w
      <4>1. DOMAIN << w >> = 1 .. 1 /\ << w >>[1] = w
        OBVIOUS
      <4>2. QED  BY <3>1, <4>1
    <3>6. ~ c.escape => w \in Plain
      <4> HIDE DEF w, m
      <4>1. ~ c.escape => p.y = 10
        BY <3>1, Zenon
      <4>2. QED  BY <3>3, <4>1
    <3> HIDE DEF w
    <3>7. QED  BY <3>4, <3>5, <3>6
  <2>3. QED  BY <1>7, <2>1, <2>2, LeadsBy
<1>9. textOf(c) \in Text /\ Readable(list, b)
  BY <1>2, <1>8, TextWritten
<1>10. a \in Tokens /\ b \in Tokens /\ e \in Tokens
  BY <1>2, <1>9, TokensTyped
<1> HIDE DEF a, b, e, inner
<1> DEFINE Goes(u, v) == Moves(list, p, a, u) /\ Moves(list, u, b, v) /\ Moves(list, v, e, q)
<1>11. ASSUME PutsOther(list, p, c, q)
       PROVE  /\ at(inner, p.done, 0) \in Place
              /\ Goes(at(inner, p.done, 0), at(inner, p.done, 0))
  <2> DEFINE u == at(inner, p.done, 0)
  <2>1. u \in Place /\ u.stack = inner /\ u.done = p.done /\ u.y = 0
    BY <1>5, <1>6 DEF at, Place
  <2>2. q = p /\ p.y = 0 /\ c.tag \in Other /\ p = at(p.stack, p.done, 0)
    BY <1>5, <1>11 DEF PutsOther
  <2>3. OtherToken(p, a, u)
    BY <1>3, <2>2 DEF OtherToken, inner
  <2>4. OtherToken(u, b, u)
    BY <1>4, <2>1 DEF OtherToken
  <2> HIDE DEF u
  <2>5. OtherToken(u, e, q)
    BY <1>3, <1>6, <2>1, <2>2 DEF OtherToken
  <2>6. QED  BY <1>3, <1>9, <2>1, <2>3, <2>4, <2>5 DEF Moves, u
<1>12. ASSUME PutsProperty(list, p, c, q)
       PROVE  /\ at(inner, p.done, p.y + 1) \in Place /\ at(inner, p.done, p.y + 2) \in Place
              /\ Goes(at(inner, p.done, p.y + 1), at(inner, p.done, p.y + 2))
  <2> DEFINE u == at(inner, p.done, p.y + 1)
             v == at(inner, p.done, p.y + 2)
             m == list[p.done + 1]
  <2>1. /\ u \in Place /\ u.stack = inner /\ u.done = p.done /\ u.y = p.y + 1
        /\ v \in Place /\ v.stack = inner /\ v.done = p.done /\ v.y = p.y + 2
    BY <1>5, <1>6 DEF at, Place
  <2>2. /\ p.done + 1 \in DOMAIN list /\ p.stack # << >> /\ Last(p.stack) = "fileobject"
        /\ q = at(p.stack, p.done, p.y + 3)
    BY <1>12 DEF PutsProperty, InFileobject
  <2>3. /\ p.y \in Properties /\ c.tag = propertyTag(p.y)
        /\ c.words = << propertyWord(m, p.y) >>
        /\ p.y = 10 => c.attrs = "md5"
        /\ c.escape = (p.y # 10)
    BY <1>12, PropertyParts DEF PutsProperty
  <2>4. b.text = propertyText(m, p.y)
    <3>1. textOf(c) = IF p.y = 10 THEN asItIs(<< propertyWord(m, p.y) >>)
                      ELSE xmlescape(<< propertyWord(m, p.y) >>)
      BY <2>3 DEF textOf
    <3>2. p.y = 10 => propertyWord(m, p.y) = m.md5
      BY DEF propertyWord
    <3>3. QED  BY <1>4, <3>1, <3>2 DEF propertyText
  <2>5. PropertyToken(list, p, a, u)
    BY <1>3, <2>2, <2>3 DEF PropertyToken, inner
  <2>6. PropertyToken(list, u, b, v)
    <3> HIDE DEF u
    <3>1. v = at(u.stack, u.done, p.y + 2)
      BY <2>1
    <3> HIDE DEF v, m
    <3>2. list[u.done + 1] = m /\ u.done + 1 \in DOMAIN list
      BY <2>1, <2>2 DEF m
    <3>3. QED  BY <1>4, <2>1, <2>3, <2>4, <3>1, <3>2 DEF PropertyToken
  <2>7. PropertyToken(list, v, e, q)
    <3> HIDE DEF v, u, m
    <3>1. q = at(Front(v.stack), v.done, p.y + 3)
      BY <1>6, <2>1, <2>2
    <3>2. v.stack # << >> /\ Last(v.stack) = e.tag
      BY <1>3, <1>6, <2>1
    <3>3. Len(v.stack) > 1 /\ v.stack[Len(v.stack) - 1] = "fileobject"
      <4>1. Len(p.stack) \in Nat \ {0} /\ p.stack[Len(p.stack)] = "fileobject"
        BY <1>5, <2>2 DEF Last
      <4>2. QED  BY <1>6, <2>1, <4>1
    <3>4. QED  BY <1>3, <2>1, <2>2, <2>3, <3>1, <3>2, <3>3 DEF PropertyToken
  <2>8. QED  BY <1>3, <1>9, <2>1, <2>5, <2>6, <2>7 DEF Moves
<1>13. PICK u \in Place, v \in Place : Goes(u, v)
  <2>1. PutsOther(list, p, c, q) \/ PutsProperty(list, p, c, q)
    BY <1>7, LeadsBy
  <2> HIDE DEF Goes
  <2>2. QED  BY <1>11, <1>12, <2>1
<1>14. \E new : IsTrail(list, s \o << a, b, e >>, new, q) /\ Prolongs(new, trail, Len(s))
  BY <1>10, <1>13, TrailGrowsByThree
<1>15. q.stack = p.stack
  BY <1>7, LeadsBy DEF PutsOther, PutsProperty, at
<1>16. << a, b, e >> \in Seq(Tokens)
  BY <1>10
<1>17. QED  BY <1>1, <1>14, <1>15, <1>16
\* An empty element goes on with it by one.
LEMMA EmptyTrail ==
  ASSUME NEW list, NEW s \in Seq(Tokens), NEW trail, NEW p \in Place,
         IsTrail(list, s, trail, p), NEW c \in Ops, NEW q \in Place,
         Leads(list, p, c, q), c.op = "xmlout", c.words = << >>
  PROVE  /\ written(c) \in Seq(Tokens)
         /\ q.stack = p.stack
         /\ \E new : IsTrail(list, s \o written(c), new, q) /\ Prolongs(new, trail, Len(s))
<1> DEFINE t == emptyTag(c.tag, c.attrs)
<1>1. written(c) = << t >>
  BY DEF written
<1>2. c.tag \in Tags /\ c.attrs \in Attributes
  <2>1. c \in [op : {"xmlout"}, tag : Tags, words : Seq(STRING), attrs : Attributes,
               escape : BOOLEAN]
    BY DEF Ops
  <2> HIDE DEF Attributes
  <2>2. QED  BY <2>1
<1>3. t \in Tokens
  <2>1. << >> \in Text
    BY DEF Text
  <2>2. QED  BY <1>2, <2>1, TokensTyped, Zenon
<1>4. t.kind = "empty" /\ t.tag = c.tag /\ t.attrs = c.attrs /\ Readable(list, t)
  BY TagsWritten
<1> HIDE DEF t
<1>5. ~ PutsProperty(list, p, c, q)
  <2>1. ASSUME PutsProperty(list, p, c, q)
        PROVE  FALSE
    <3>1. c.words = << propertyWord(list[p.done + 1], p.y) >>
      BY <2>1, PropertyParts, ZenonT(60) DEF PutsProperty
    <3> DEFINE w == propertyWord(list[p.done + 1], p.y)
    <3> HIDE DEF w
    <3>2. << w >> # << >>
      OBVIOUS
    <3>3. QED  BY <3>1, <3>2 DEF w
  <2>2. QED  BY <2>1
<1>6. PutsOther(list, p, c, q) \/ PutsRun(list, p, c, q)
  BY <1>5, LeadsBy
<1>7. Moves(list, p, t, q) /\ q.stack = p.stack
  <2>1. CASE PutsOther(list, p, c, q)
    <3>1. OtherToken(p, t, q) /\ q = p
      BY <1>4, <2>1 DEF PutsOther, OtherToken
    <3>2. QED  BY <1>4, <3>1 DEF Moves
  <2>2. CASE PutsRun(list, p, c, q)
    <3>1. PICK r \in DOMAIN list[p.done + 1].runs :
            p.y = 12 + r /\ c = xmlout("run", << >>, list[p.done + 1].runs[r], FALSE)
      BY <2>2 DEF PutsRun
    <3> DEFINE attrs == list[p.done + 1].runs[r]
    <3>2. c.tag = "run" /\ c.attrs = attrs
      <4> HIDE DEF attrs
      <4>1. c = xmlout("run", << >>, attrs, FALSE)
        BY <3>1 DEF attrs
      <4>2. QED  BY <4>1 DEF xmlout
    <3>3. RunToken(list, p, t, q) /\ q.stack = p.stack
      BY <1>4, <2>2, <3>1, <3>2 DEF PutsRun, RunToken, at
    <3>4. QED  BY <1>4, <3>3 DEF Moves
  <2>3. QED  BY <1>6, <2>1, <2>2
<1>8. << t >> \in Seq(Tokens) /\ s \o << t >> = Append(s, t)
  BY <1>3
<1>9. \E new : IsTrail(list, Append(s, t), new, q) /\ Prolongs(new, trail, Len(s))
  BY <1>3, <1>7, TrailGrows
<1>10. QED  BY <1>1, <1>7, <1>8, <1>9

-----------------------------------------------------------------------------
(***************************************************************************)
(* The invariant.  The writer is on its course, the document has a trail   *)
(* that ends where the writer is, and the reader understands what it has   *)
(* read of it.                                                             *)
(***************************************************************************)
there == Course(masters)[ip]

\* The writer is on its course, and its stack is the one of the place.
CallInv ==
  /\ masters \in Reports
  /\ ip \in 1 .. Len(calls(masters)) + 1
  /\ writer = "running" => ip <= Len(calls(masters))
  /\ writer = "closed" => there = at(<< >>, Len(masters), 0)
  /\ tag_stack = there.stack

\* What is on disk was written, and what was read is on disk.
DiskInv ==
  /\ out \in Seq(Tokens)
  /\ onDisk \in 0 .. Len(out)
  /\ pos \in 0 .. onDisk
  /\ LostTokensCarryNoData

\* The document has a trail to the place of the writer; the reader is at a place of it.
TrailInv ==
  \E trail, p : /\ IsTrail(masters, out, trail, there)
                /\ trail[pos] = p
                /\ Understood(p)

\* The parser has stopped for a reason.
ErrorInv == reading = "error" => \E j \in DOMAIN masters : masters[j].filename \in Illegal

\* The invariant.
DocumentInv == CallInv /\ DiskInv /\ TrailInv /\ ErrorInv

\* It holds at the start.
LEMMA DocumentInit == Init => DocumentInv
<1> SUFFICES ASSUME Init
             PROVE  DocumentInv
  OBVIOUS
<1>1. /\ masters \in Reports /\ ip = 1 /\ writer = "running" /\ out = << >> /\ onDisk = 0
      /\ tag_stack = << >> /\ reading = "reading" /\ pos = 0 /\ tagstack = << >>
      /\ fileobject_ = NoObject /\ delivered = << >>
  BY DEF Init, XmlInit
<1>2. there = Beginning /\ Len(calls(masters)) \in Nat \ {0}
  BY <1>1, CourseFollows, ReportPiece DEF there
<1>3. Beginning \in Place /\ Beginning.stack = << >> /\ Beginning.done = 0 /\ Beginning.y = 0
  BY DEF Beginning, at, Place
<1>4. CallInv
  BY <1>1, <1>2, <1>3 DEF CallInv
<1>5. DiskInv
  BY <1>1 DEF DiskInv, LostTokensCarryNoData
<1>6. TrailInv
  <2> DEFINE trail == [k \in {0} |-> Beginning]
  <2>1. IsTrail(masters, out, trail, there)
    <3>1. Len(out) = 0 /\ 0 .. 0 = {0}
      BY <1>1
    <3>2. QED  BY <1>2, <1>3, <3>1 DEF IsTrail
  <2>2. Understood(Beginning)
    <3>1. Len(masters) \in Nat
      BY <1>1, ReportsTyped
    <3>2. delivered = [j \in 1 .. 0 |-> delivered[j]]
      BY <1>1
    <3>3. QED  BY <1>1, <1>3, <3>1, <3>2 DEF Understood
  <2>3. trail[pos] = Beginning
    BY <1>1
  <2> HIDE DEF trail
  <2>4. QED  BY <2>1, <2>2, <2>3 DEF TrailInv
<1>7. ErrorInv
  BY <1>1 DEF ErrorInv
<1>8. QED  BY <1>4, <1>5, <1>6, <1>7 DEF DocumentInv

\* The program is at the call its course has here.
LEMMA CallOnCourse ==
  ASSUME CallInv, NEW op, Calls(op)
  PROVE  /\ ip \in 1 .. Len(calls(masters)) /\ Len(calls(masters)) \in Nat
         /\ call \in Ops /\ call.op = op /\ call = calls(masters)[ip]
         /\ there \in Place /\ there' \in Place
         /\ there' = Course(masters)[ip + 1]
         /\ Leads(masters, there, call, there')
         /\ masters' = masters /\ ip' = ip + 1 /\ full' = full
<1>1. masters \in Reports /\ ip \in 1 .. Len(calls(masters)) + 1
      /\ ip <= Len(calls(masters))
  BY DEF CallInv, Calls
<1>2. call.op = op /\ masters' = masters /\ ip' = ip + 1 /\ full' = full
  BY DEF Calls
<1>3. call = calls(masters)[ip]
  BY <1>1 DEF call, Scripts
<1>4. Len(calls(masters)) \in Nat
  BY <1>1, ReportPiece
<1>5. ip \in 1 .. Len(calls(masters))
  BY <1>1, <1>4
<1>6. /\ calls(masters) \in Seq(Ops)
      /\ Course(masters) \in [1 .. Len(calls(masters)) + 1 -> Place]
      /\ Leads(masters, Course(masters)[ip], calls(masters)[ip], Course(masters)[ip + 1])
  BY <1>1, <1>5, CourseFollows
<1>7. call \in Ops
  BY <1>3, <1>5, <1>6
<1>8. there' = Course(masters)[ip + 1]
  BY <1>2 DEF there
<1>9. there \in Place /\ there' \in Place
  <2>1. ip + 1 \in 1 .. Len(calls(masters)) + 1
    BY <1>4, <1>5
  <2>2. QED  BY <1>1, <1>6, <1>8, <2>1 DEF there
<1>10. Leads(masters, there, call, there')
  BY <1>3, <1>6, <1>8 DEF there
<1>11. QED  BY <1>2, <1>3, <1>4, <1>5, <1>7, <1>8, <1>9, <1>10

\* A call that is not the last one leaves another to make.
LEMMA CallGoesOn ==
  ASSUME CallInv, NEW op, Calls(op), op # "close", writer' = writer,
         tag_stack' = there'.stack
  PROVE  CallInv'
<1>1. /\ ip \in 1 .. Len(calls(masters)) /\ Len(calls(masters)) \in Nat
      /\ call.op = op /\ call = calls(masters)[ip]
      /\ masters' = masters /\ ip' = ip + 1
  BY CallOnCourse
<1>2. masters \in Reports /\ writer = "running"
  BY DEF CallInv, Calls
<1>3. ip # Len(calls(masters))
  BY <1>1, <1>2, ReportPiece
<1>4. ip' \in 1 .. Len(calls(masters)) + 1 /\ ip' <= Len(calls(masters))
  BY <1>1, <1>3
<1>5. QED  BY <1>1, <1>2, <1>4 DEF CallInv

\* The reader has what it had when the writer goes on.
LEMMA StillUnderstood ==
  ASSUME NEW p, Understood(p), masters' = masters, UNCHANGED readvars
  PROVE  Understood(p)'
<1>1. pos' = pos /\ tagstack' = tagstack /\ cdata' = cdata /\ fileobject_' = fileobject_
      /\ hashdigest_type' = hashdigest_type /\ delivered' = delivered
  BY DEF readvars
<1> DEFINE m == masters[p.done + 1]
<1>2. m' = m
  OBVIOUS
<1>3. TextOf(m, p.y)' <=> TextOf(m, p.y)
  <2> HIDE DEF m
  <2>1. QED  BY <1>1, <1>2 DEF TextOf
<1>4. QED  BY <1>1, <1>3 DEF Understood

\* A longer trail is a trail of the longer document.
LEMMA TrailGoesOn ==
  ASSUME TrailInv, DiskInv, masters' = masters, UNCHANGED readvars,
         \A trail : IsTrail(masters, out, trail, there) =>
           \E new : IsTrail(masters, out, new, there)' /\ Prolongs(new, trail, Len(out))
  PROVE  TrailInv'
<1>1. PICK trail, p : /\ IsTrail(masters, out, trail, there)
                      /\ trail[pos] = p
                      /\ Understood(p)
  BY DEF TrailInv
<1>2. PICK new : IsTrail(masters, out, new, there)' /\ Prolongs(new, trail, Len(out))
  BY <1>1
<1>3. pos \in 0 .. Len(out)
  BY DEF DiskInv
<1>4. new[pos] = p
  BY <1>1, <1>2, <1>3 DEF Prolongs
<1>5. pos' = pos
  BY DEF readvars
<1>6. Understood(p)'
  BY <1>1, StillUnderstood
<1>7. (new[pos] = p)'
  BY <1>4, <1>5
<1>8. QED  BY <1>2, <1>6, <1>7 DEF TrailInv

-----------------------------------------------------------------------------
(***************************************************************************)
(* The steps of the writer.                                                *)
(***************************************************************************)
\* What the invariant says of the sizes.
LEMMA Sizes ==
  ASSUME DiskInv
  PROVE  /\ out \in Seq(Tokens) /\ Len(out) \in Nat /\ onDisk \in Nat /\ pos \in Nat
         /\ onDisk <= Len(out) /\ pos <= onDisk
BY DEF DiskInv

\* push()
LEMMA PushKeeps ==
  ASSUME DocumentInv, Push, UNCHANGED readvars
  PROVE  DocumentInv'
<1> DEFINE t == pushed(call)
<1>1. /\ CallInv /\ DiskInv /\ TrailInv /\ ErrorInv
      /\ Calls("push") /\ onDisk' = onDisk /\ writer' = writer
      /\ out' = Append(out, t)
      /\ tag_stack' = Append(tag_stack, call.tag)
      /\ pos' = pos /\ reading' = reading
  BY DEF DocumentInv, Push, readvars, pushed
<1>2. /\ call \in Ops /\ call.op = "push" /\ there \in Place /\ there' \in Place
      /\ Leads(masters, there, call, there')
      /\ masters' = masters /\ full' = full
  BY <1>1, CallOnCourse
<1>3. out \in Seq(Tokens)
  BY <1>1 DEF DiskInv
<1>4. ASSUME NEW trail, IsTrail(masters, out, trail, there)
      PROVE  /\ t \in Tokens /\ there'.stack = Append(there.stack, call.tag)
             /\ \E new : IsTrail(masters, Append(out, t), new, there')
                         /\ Prolongs(new, trail, Len(out))
  <2>1. t \in Tokens
    BY <1>2, <1>3, <1>4, PushTrail
  <2>2. there'.stack = Append(there.stack, call.tag)
    <3>1. Pushes(masters, there, call, there')
      BY <1>2, LeadsBy
    <3> DEFINE p == there
               q == there'
               c == call
    <3> HIDE DEF p, q, c
    <3>2. Pushes(masters, p, c, q)
      BY <3>1 DEF p, q, c
    <3>3. q.stack = Append(p.stack, c.tag)
      BY <3>2 DEF Pushes, at
    <3>4. QED  BY <3>3 DEF p, q, c
  <2>3. \E new : IsTrail(masters, Append(out, t), new, there') /\ Prolongs(new, trail, Len(out))
    BY <1>2, <1>3, <1>4, PushTrail
  <2>4. QED  BY <2>1, <2>2, <2>3
<1>5. t \in Tokens /\ there'.stack = Append(there.stack, call.tag)
  BY <1>1, <1>4 DEF TrailInv
<1>6. CallInv'
  BY <1>1, <1>5, CallGoesOn DEF CallInv
<1>7. TrailInv'
  <2>1. \A trail : IsTrail(masters, out, trail, there) =>
          \E new : IsTrail(masters, out, new, there)' /\ Prolongs(new, trail, Len(out))
    BY <1>1, <1>2, <1>4 DEF IsTrail
  <2>2. QED  BY <1>1, <1>2, <2>1, TrailGoesOn
<1>8. DiskInv'
  <2>1. t.kind = "start"
    BY DEF pushed, start
  <2> HIDE DEF t
  <2>2. /\ out' \in Seq(Tokens) /\ Len(out') = Len(out) + 1 /\ out'[Len(out) + 1] = t
        /\ \A j \in 1 .. Len(out) : out'[j] = out[j]
    BY <1>1, <1>3, <1>5
  <2>3. LostTokensCarryNoData'
    <3> SUFFICES ASSUME ~ full, NEW j \in onDisk + 1 .. Len(out) + 1
                 PROVE  out'[j].kind \in {"start", "end"}
      BY <1>1, <1>2, <2>2 DEF LostTokensCarryNoData
    <3>1. CASE j = Len(out) + 1
      BY <2>1, <2>2, <3>1
    <3>2. CASE j # Len(out) + 1
      <4>1. j \in onDisk + 1 .. Len(out) /\ j \in 1 .. Len(out)
        BY <1>1, <3>2, Sizes
      <4>2. out[j].kind \in {"start", "end"}
        BY <1>1, <4>1 DEF DiskInv, LostTokensCarryNoData
      <4>3. QED  BY <2>2, <4>1, <4>2
    <3>3. QED  BY <3>1, <3>2
  <2>4. onDisk' \in 0 .. Len(out') /\ pos' \in 0 .. onDisk'
    BY <1>1, <2>2, Sizes
  <2>5. QED  BY <2>2, <2>3, <2>4 DEF DiskInv
<1>9. ErrorInv'
  BY <1>1, <1>2 DEF ErrorInv
<1>10. QED  BY <1>6, <1>7, <1>8, <1>9 DEF DocumentInv

\* pop()
LEMMA PopKeeps ==
  ASSUME DocumentInv, Pop, UNCHANGED readvars
  PROVE  DocumentInv'
<1> DEFINE t == end(Last(tag_stack))
<1>1. /\ CallInv /\ DiskInv /\ TrailInv /\ ErrorInv
      /\ Calls("pop") /\ onDisk' = onDisk /\ writer' = writer
      /\ out' = Append(out, t)
      /\ tag_stack' = Front(tag_stack)
      /\ pos' = pos /\ reading' = reading
  BY DEF DocumentInv, Pop, readvars
<1>2. /\ call \in Ops /\ call.op = "pop" /\ there \in Place /\ there' \in Place
      /\ Leads(masters, there, call, there')
      /\ masters' = masters /\ full' = full
  BY <1>1, CallOnCourse
<1>3. out \in Seq(Tokens) /\ tag_stack = there.stack
  BY <1>1 DEF DiskInv, CallInv
<1>4. ASSUME NEW trail, IsTrail(masters, out, trail, there)
      PROVE  /\ t \in Tokens /\ there'.stack = Front(there.stack)
             /\ \E new : IsTrail(masters, Append(out, t), new, there')
                         /\ Prolongs(new, trail, Len(out))
  BY <1>2, <1>3, <1>4, PopTrail
<1>5. t \in Tokens /\ there'.stack = Front(there.stack)
  BY <1>1, <1>4 DEF TrailInv
<1>6. CallInv'
  BY <1>1, <1>3, <1>5, CallGoesOn
<1>7. TrailInv'
  <2>1. \A trail : IsTrail(masters, out, trail, there) =>
          \E new : IsTrail(masters, out, new, there)' /\ Prolongs(new, trail, Len(out))
    BY <1>1, <1>2, <1>4 DEF IsTrail
  <2>2. QED  BY <1>1, <1>2, <2>1, TrailGoesOn
<1>8. DiskInv'
  <2>1. t.kind = "end"
    BY DEF end
  <2> HIDE DEF t
  <2>2. /\ out' \in Seq(Tokens) /\ Len(out') = Len(out) + 1 /\ out'[Len(out) + 1] = t
        /\ \A j \in 1 .. Len(out) : out'[j] = out[j]
    BY <1>1, <1>3, <1>5
  <2>3. LostTokensCarryNoData'
    <3> SUFFICES ASSUME ~ full, NEW j \in onDisk + 1 .. Len(out) + 1
                 PROVE  out'[j].kind \in {"start", "end"}
      BY <1>1, <1>2, <2>2 DEF LostTokensCarryNoData
    <3>1. CASE j = Len(out) + 1
      BY <2>1, <2>2, <3>1
    <3>2. CASE j # Len(out) + 1
      <4>1. j \in onDisk + 1 .. Len(out) /\ j \in 1 .. Len(out)
        BY <1>1, <3>2, Sizes
      <4>2. out[j].kind \in {"start", "end"}
        BY <1>1, <4>1 DEF DiskInv, LostTokensCarryNoData
      <4>3. QED  BY <2>2, <4>1, <4>2
    <3>3. QED  BY <3>1, <3>2
  <2>4. onDisk' \in 0 .. Len(out') /\ pos' \in 0 .. onDisk'
    BY <1>1, <2>2, Sizes
  <2>5. QED  BY <2>2, <2>3, <2>4 DEF DiskInv
<1>9. ErrorInv'
  BY <1>1, <1>2 DEF ErrorInv
<1>10. QED  BY <1>6, <1>7, <1>8, <1>9 DEF DocumentInv

\* xmlout()
LEMMA XmlOutKeeps ==
  ASSUME DocumentInv, XmlOut, UNCHANGED readvars
  PROVE  DocumentInv'
<1>1. /\ CallInv /\ DiskInv /\ TrailInv /\ ErrorInv
      /\ Calls("xmlout") /\ onDisk' = flushed /\ writer' = writer /\ tag_stack' = tag_stack
      /\ out' = out \o written(call)
      /\ pos' = pos /\ reading' = reading
  BY DEF DocumentInv, XmlOut, readvars, written, textOf
<1>2. /\ call \in Ops /\ call.op = "xmlout" /\ there \in Place /\ there' \in Place
      /\ Leads(masters, there, call, there')
      /\ masters' = masters /\ full' = full
  BY <1>1, CallOnCourse
<1>3. out \in Seq(Tokens) /\ tag_stack = there.stack /\ masters \in Reports
  BY <1>1 DEF DiskInv, CallInv
<1>4. ASSUME NEW trail, IsTrail(masters, out, trail, there)
      PROVE  /\ written(call) \in Seq(Tokens) /\ there'.stack = there.stack
             /\ \E new : IsTrail(masters, out \o written(call), new, there')
                         /\ Prolongs(new, trail, Len(out))
  <2>1. CASE call.words = << >>
    BY <1>2, <1>3, <1>4, <2>1, EmptyTrail
  <2>2. CASE call.words # << >>
    BY <1>2, <1>3, <1>4, <2>2, ElementTrail
  <2>3. QED  BY <2>1, <2>2
<1>5. written(call) \in Seq(Tokens) /\ there'.stack = there.stack
  BY <1>1, <1>4 DEF TrailInv
<1>6. CallInv'
  BY <1>1, <1>3, <1>5, CallGoesOn
<1>7. TrailInv'
  <2>1. \A trail : IsTrail(masters, out, trail, there) =>
          \E new : IsTrail(masters, out, new, there)' /\ Prolongs(new, trail, Len(out))
    BY <1>1, <1>2, <1>4 DEF IsTrail
  <2>2. QED  BY <1>1, <1>2, <2>1, TrailGoesOn
<1>8. DiskInv'
  <2>1. out' \in Seq(Tokens) /\ Len(out') \in Nat /\ Len(out') >= Len(out)
    BY <1>1, <1>3, <1>5
  <2>2. onDisk' = IF full THEN onDisk ELSE Len(out')
    BY <1>1 DEF flushed
  <2>3. onDisk' \in 0 .. Len(out') /\ pos' \in 0 .. onDisk'
    BY <1>1, <2>1, <2>2, Sizes
  <2>4. LostTokensCarryNoData'
    BY <1>2, <2>1, <2>2 DEF LostTokensCarryNoData
  <2>5. QED  BY <2>1, <2>3, <2>4 DEF DiskInv
<1>9. ErrorInv'
  BY <1>1, <1>2 DEF ErrorInv
<1>10. QED  BY <1>6, <1>7, <1>8, <1>9 DEF DocumentInv

\* close()
LEMMA CloseKeeps ==
  ASSUME DocumentInv, Close, UNCHANGED readvars
  PROVE  DocumentInv'
<1>1. /\ CallInv /\ DiskInv /\ TrailInv /\ ErrorInv
      /\ Calls("close") /\ onDisk' = flushed /\ writer' = "closed" /\ tag_stack' = tag_stack
      /\ out' = out /\ pos' = pos /\ reading' = reading
  BY DEF DocumentInv, Close, readvars
<1>2. /\ call.op = "close" /\ Leads(masters, there, call, there')
      /\ masters' = masters /\ full' = full /\ ip' = ip + 1
      /\ ip \in 1 .. Len(calls(masters)) /\ Len(calls(masters)) \in Nat
  BY <1>1, CallOnCourse
<1>3. there = at(<< >>, Len(masters), 0) /\ there' = there
  <2>1. Closes(masters, there, call, there')
    BY <1>2, LeadsBy
  <2>2. QED  BY <2>1 DEF Closes
<1>4. CallInv'
  <2>1. masters \in Reports /\ tag_stack = there.stack
    BY <1>1 DEF CallInv
  <2>2. ip' \in 1 .. Len(calls(masters)) + 1
    BY <1>2
  <2> HIDE DEF there
  <2>3. there' = at(<< >>, Len(masters'), 0) /\ tag_stack' = there'.stack
    BY <1>1, <1>2, <1>3, <2>1
  <2>4. QED  BY <1>1, <1>2, <2>1, <2>2, <2>3 DEF CallInv
<1>5. TrailInv'
  <2>1. \A trail : IsTrail(masters, out, trail, there) =>
          \E new : IsTrail(masters, out, new, there)' /\ Prolongs(new, trail, Len(out))
    <3> SUFFICES ASSUME NEW trail, IsTrail(masters, out, trail, there)
                 PROVE  IsTrail(masters, out, trail, there)' /\ Prolongs(trail, trail, Len(out))
      OBVIOUS
    <3>1. IsTrail(masters', out', trail, there')
      BY <1>1, <1>2, <1>3
    <3>2. QED  BY <3>1 DEF IsTrail, Prolongs
  <2>2. QED  BY <1>1, <1>2, <2>1, TrailGoesOn
<1>6. DiskInv'
  <2>1. onDisk' = IF full THEN onDisk ELSE Len(out)
    BY <1>1 DEF flushed
  <2>2. LostTokensCarryNoData'
    BY <1>1, <1>2, <2>1, Sizes DEF LostTokensCarryNoData
  <2>3. out' \in Seq(Tokens) /\ onDisk' \in 0 .. Len(out') /\ pos' \in 0 .. onDisk'
    BY <1>1, <2>1, Sizes
  <2>4. QED  BY <2>2, <2>3 DEF DiskInv
<1>7. ErrorInv'
  BY <1>1, <1>2 DEF ErrorInv
<1>8. QED  BY <1>4, <1>5, <1>6, <1>7 DEF DocumentInv

\* Numbers behind the further of two are behind both.
LEMMA Further ==
  ASSUME NEW a \in Nat, NEW b \in Nat, NEW n \in Nat, b > a, NEW j \in b + 1 .. n
  PROVE  j \in a + 1 .. n
OBVIOUS

\* The stream is written out, the disk is full, the program is killed.
LEMMA AroundKeeps ==
  ASSUME DocumentInv, Spill \/ DiskFull \/ Kill, UNCHANGED readvars
  PROVE  DocumentInv'
<1>1. /\ CallInv /\ DiskInv /\ TrailInv /\ ErrorInv
      /\ masters' = masters /\ ip' = ip /\ out' = out /\ tag_stack' = tag_stack
      /\ writer' = writer \/ writer' = "killed"
      /\ pos' = pos /\ reading' = reading
  BY DEF DocumentInv, Spill, DiskFull, Kill, readvars
<1>2. there' = there
  BY <1>1 DEF there
<1>3. CallInv'
  BY <1>1, <1>2 DEF CallInv
<1>4. TrailInv'
  <2>1. \A trail : IsTrail(masters, out, trail, there) =>
          \E new : IsTrail(masters, out, new, there)' /\ Prolongs(new, trail, Len(out))
    <3> SUFFICES ASSUME NEW trail, IsTrail(masters, out, trail, there)
                 PROVE  IsTrail(masters, out, trail, there)' /\ Prolongs(trail, trail, Len(out))
      OBVIOUS
    <3>1. IsTrail(masters', out', trail, there')
      BY <1>1, <1>2
    <3>2. QED  BY <3>1 DEF IsTrail, Prolongs
  <2>2. QED  BY <1>1, <2>1, TrailGoesOn
<1>5. DiskInv'
  <2>1. CASE Spill
    <3>1. onDisk' \in onDisk + 1 .. Len(out) /\ full' = full
      BY <2>1 DEF Spill
    <3>2. onDisk' \in 0 .. Len(out') /\ pos' \in 0 .. onDisk'
      BY <1>1, <3>1, Sizes
    <3>3. LostTokensCarryNoData'
      <4>1. ASSUME NEW j \in onDisk' + 1 .. Len(out)
            PROVE  j \in onDisk + 1 .. Len(out)
        <5>1. onDisk \in Nat /\ Len(out) \in Nat /\ onDisk' \in Nat /\ onDisk' > onDisk
          BY <1>1, <3>1, Sizes
        <5>2. QED  BY <4>1, <5>1, Further
      <4>2. QED  BY <1>1, <3>1, <4>1 DEF DiskInv, LostTokensCarryNoData
    <3>4. QED  BY <1>1, <3>2, <3>3 DEF DiskInv
  <2>2. CASE DiskFull
    BY <1>1, <2>2 DEF DiskFull, DiskInv, LostTokensCarryNoData
  <2>3. CASE Kill
    BY <1>1, <2>3 DEF Kill, DiskInv, LostTokensCarryNoData
  <2>4. QED  BY <2>1, <2>2, <2>3
<1>6. ErrorInv'
  BY <1>1 DEF ErrorInv
<1>7. QED  BY <1>3, <1>4, <1>5, <1>6 DEF DocumentInv

-----------------------------------------------------------------------------
(***************************************************************************)
(* The steps of the reader.                                                *)
(***************************************************************************)
\* Where it is, and where the next token leads it.
LEMMA NextToken ==
  ASSUME CallInv, DiskInv, pos < onDisk,
         NEW trail, IsTrail(masters, out, trail, there)
  PROVE  /\ trail[pos] \in Place /\ trail[pos + 1] \in Place
         /\ Moves(masters, trail[pos], token, trail[pos + 1])
<1>1. /\ Len(out) \in Nat /\ onDisk \in Nat /\ pos \in Nat
      /\ onDisk <= Len(out) /\ pos <= onDisk
  BY Sizes
<1>2. pos \in 0 .. Len(out) - 1 /\ pos \in 0 .. Len(out) /\ pos + 1 \in 0 .. Len(out)
  BY <1>1
<1>3. QED  BY <1>2 DEF IsTrail, token

\* What it makes of the token is what it should.
LEMMA TokenUnderstood ==
  ASSUME NEW p, NEW q, Reading(p, q),
         \/ StartElement \/ EmptyElement \/ FileobjectEnd \/ HashdigestEnd \/ OtherEnd
         \/ CharacterData
  PROVE  Understood(q)'
BY StartUnderstood, EmptyUnderstood, FileobjectUnderstood, HashdigestUnderstood,
   OtherUnderstood, TextUnderstood

\* A token is consumed.
LEMMA TokenKeeps ==
  ASSUME DocumentInv,
         \/ StartElement \/ EmptyElement \/ FileobjectEnd \/ HashdigestEnd \/ OtherEnd
         \/ CharacterData
  PROVE  DocumentInv'
<1>1. CallInv /\ DiskInv /\ TrailInv /\ ErrorInv
  BY DEF DocumentInv
<1>2. \E kind : Reads(kind)
  BY DEF StartElement, EmptyElement, FileobjectEnd, HashdigestEnd, OtherEnd, CharacterData
<1>3. /\ pos < onDisk /\ pos' = pos + 1 /\ reading = "reading" /\ reading' = reading
      /\ masters' = masters /\ ip' = ip /\ writer' = writer /\ out' = out
      /\ onDisk' = onDisk /\ full' = full /\ tag_stack' = tag_stack
  BY <1>2 DEF Reads, xmlvars
<1>4. there' = there
  BY <1>3 DEF there
<1>5. CallInv'
  BY <1>1, <1>3, <1>4 DEF CallInv
<1>6. DiskInv'
  <2>1. pos' \in 0 .. onDisk'
    BY <1>1, <1>3, Sizes
  <2>2. LostTokensCarryNoData'
    BY <1>1, <1>3 DEF DiskInv, LostTokensCarryNoData
  <2>3. QED  BY <1>1, <1>3, <2>1, <2>2 DEF DiskInv
<1>7. TrailInv'
  <2>1. PICK trail, p : /\ IsTrail(masters, out, trail, there)
                        /\ trail[pos] = p
                        /\ Understood(p)
    BY <1>1 DEF TrailInv
  <2>2. PICK q : q = trail[pos + 1]
    OBVIOUS
  <2>3. p \in Place /\ q \in Place /\ Moves(masters, p, token, q)
    BY <1>1, <1>3, <2>1, <2>2, NextToken
  <2>4. Reading(p, q)
    BY <1>1, <1>3, <2>1, <2>3 DEF Reading, CallInv
  <2>5. Understood(q)'
    BY <2>4, TokenUnderstood
  <2>6. (trail[pos] = q)'
    BY <1>3, <2>2
  <2>7. IsTrail(masters, out, trail, there)'
    <3>1. IsTrail(masters', out', trail, there')
      BY <1>3, <1>4, <2>1
    <3>2. QED  BY <3>1 DEF IsTrail
  <2>8. QED  BY <2>5, <2>6, <2>7 DEF TrailInv
<1>8. ErrorInv'
  BY <1>3 DEF ErrorInv
<1>9. QED  BY <1>5, <1>6, <1>7, <1>8 DEF DocumentInv

\* When the reader stops, it and the document stay as they are.
LEMMA ReaderStops ==
  ASSUME CallInv, DiskInv, TrailInv,
         masters' = masters, ip' = ip, writer' = writer, out' = out,
         onDisk' = onDisk, full' = full, tag_stack' = tag_stack,
         pos' = pos, tagstack' = tagstack, cdata' = cdata,
         fileobject_' = fileobject_, hashdigest_type' = hashdigest_type,
         delivered' = delivered
  PROVE  CallInv' /\ DiskInv' /\ TrailInv'
<1>1. there' = there
  BY DEF there
<1>2. CallInv'
  BY <1>1 DEF CallInv
<1>3. DiskInv'
  <2>1. LostTokensCarryNoData'
    BY DEF DiskInv, LostTokensCarryNoData
  <2>2. QED  BY <2>1 DEF DiskInv
<1>4. TrailInv'
  <2>1. PICK trail, p : /\ IsTrail(masters, out, trail, there)
                        /\ trail[pos] = p
                        /\ Understood(p)
    BY DEF TrailInv
  <2>2. IsTrail(masters, out, trail, there)'
    <3>1. IsTrail(masters', out', trail, there')
      BY <1>1, <2>1
    <3>2. QED  BY <3>1 DEF IsTrail
  <2>3. Understood(p)'
    <3> DEFINE m == masters[p.done + 1]
    <3>1. m' = m
      OBVIOUS
    <3>2. TextOf(m, p.y)' <=> TextOf(m, p.y)
      <4> HIDE DEF m
      <4>1. QED  BY <3>1 DEF TextOf
    <3>3. QED  BY <2>1, <3>2 DEF Understood
  <2>4. (trail[pos] = p)'
    BY <2>1
  <2>5. QED  BY <2>2, <2>3, <2>4 DEF TrailInv
<1>5. QED  BY <1>2, <1>3, <1>4

\* The parser stops, but for a word that can be in no document.
LEMMA ErrorKeeps ==
  ASSUME DocumentInv, XmlError
  PROVE  DocumentInv'
<1>1. CallInv /\ DiskInv /\ TrailInv /\ ErrorInv
  BY DEF DocumentInv
<1>2. /\ pos < onDisk /\ ~ wellFormed(token) /\ UNCHANGED << xmlvars, pos, tagstack, cdata,
         fileobject_, hashdigest_type, delivered >>
  BY DEF XmlError
<1>3. \E j \in DOMAIN masters : masters[j].filename \in Illegal
  <2>1. PICK trail, p : /\ IsTrail(masters, out, trail, there)
                        /\ trail[pos] = p
                        /\ Understood(p)
    BY <1>1 DEF TrailInv
  <2>2. PICK q : q = trail[pos + 1]
    OBVIOUS
  <2>3. Moves(masters, p, token, q)
    BY <1>1, <1>2, <2>1, <2>2, NextToken
  <2>4. token.kind = "end" => tagstack # << >> /\ Last(tagstack) = token.tag
    <3>1. tagstack = p.stack
      BY <2>1 DEF Understood
    <3>2. token.kind = "end" => p.stack # << >> /\ Last(p.stack) = token.tag
      BY <2>3 DEF Moves, OtherToken, FirstToken, PropertyToken, RunToken, LastToken
    <3>3. QED  BY <3>1, <3>2
  <2>5. token.kind = "text" /\ \E j \in DOMAIN token.text :
          \/ token.text[j][1] \in Illegal
          \/ token.text[j][2] = "verbatim" /\ token.text[j][1] \in Markup
    BY <1>2, <2>4 DEF wellFormed
  <2>6. PICK j \in DOMAIN token.text : token.text[j][1] \in Illegal
    BY <2>3, <2>5 DEF Moves, Readable
  <2>7. Named(masters, token.text[j][1])
    BY <2>3, <2>5 DEF Moves, Readable
  <2>8. QED  BY <2>6, <2>7 DEF Named
<1>4. /\ masters' = masters /\ ip' = ip /\ writer' = writer /\ out' = out
      /\ onDisk' = onDisk /\ full' = full /\ tag_stack' = tag_stack
      /\ pos' = pos /\ tagstack' = tagstack /\ cdata' = cdata
      /\ fileobject_' = fileobject_ /\ hashdigest_type' = hashdigest_type
      /\ delivered' = delivered
  BY <1>2 DEF xmlvars
<1>5. CallInv' /\ DiskInv' /\ TrailInv'
  BY <1>1, <1>4, ReaderStops
<1>6. ErrorInv'
  BY <1>3, <1>4 DEF ErrorInv
<1>7. QED  BY <1>5, <1>6 DEF DocumentInv

\* The end of the file.
LEMMA EofKeeps ==
  ASSUME DocumentInv, EndOfFile
  PROVE  DocumentInv'
<1>1. CallInv /\ DiskInv /\ TrailInv /\ ErrorInv
  BY DEF DocumentInv
<1>2. /\ masters' = masters /\ ip' = ip /\ writer' = writer /\ out' = out
      /\ onDisk' = onDisk /\ full' = full /\ tag_stack' = tag_stack
      /\ pos' = pos /\ tagstack' = tagstack /\ cdata' = cdata
      /\ fileobject_' = fileobject_ /\ hashdigest_type' = hashdigest_type
      /\ delivered' = delivered /\ reading' = "eof"
  BY DEF EndOfFile, xmlvars
<1>3. CallInv' /\ DiskInv' /\ TrailInv'
  BY <1>1, <1>2, ReaderStops
<1>4. ErrorInv'
  BY <1>2 DEF ErrorInv
<1>5. QED  BY <1>3, <1>4 DEF DocumentInv

\* Every step keeps the invariant.
LEMMA DocumentNext == DocumentInv /\ [Next]_vars => DocumentInv'
<1> SUFFICES ASSUME DocumentInv, [Next]_vars
             PROVE  DocumentInv'
  OBVIOUS
<1>1. CASE Push /\ UNCHANGED readvars
  BY <1>1, PushKeeps
<1>2. CASE Pop /\ UNCHANGED readvars
  BY <1>2, PopKeeps
<1>3. CASE XmlOut /\ UNCHANGED readvars
  BY <1>3, XmlOutKeeps
<1>4. CASE Close /\ UNCHANGED readvars
  BY <1>4, CloseKeeps
<1>5. CASE (Spill \/ DiskFull \/ Kill) /\ UNCHANGED readvars
  BY <1>5, AroundKeeps
<1>6. CASE \/ StartElement \/ EmptyElement \/ FileobjectEnd \/ HashdigestEnd \/ OtherEnd
           \/ CharacterData
  BY <1>6, TokenKeeps
<1>7. CASE XmlError
  BY <1>7, ErrorKeeps
<1>8. CASE EndOfFile
  BY <1>8, EofKeeps
<1>9. CASE UNCHANGED vars
  <2>1. CallInv /\ DiskInv /\ TrailInv /\ ErrorInv
    BY DEF DocumentInv
  <2>2. /\ masters' = masters /\ ip' = ip /\ writer' = writer /\ out' = out
        /\ onDisk' = onDisk /\ full' = full /\ tag_stack' = tag_stack
        /\ pos' = pos /\ tagstack' = tagstack /\ cdata' = cdata
        /\ fileobject_' = fileobject_ /\ hashdigest_type' = hashdigest_type
        /\ delivered' = delivered /\ reading' = reading
    BY <1>9 DEF vars, xmlvars, readvars
  <2>3. CallInv' /\ DiskInv' /\ TrailInv'
    BY <2>1, <2>2, ReaderStops
  <2>4. ErrorInv'
    BY <2>1, <2>2 DEF ErrorInv
  <2>5. QED  BY <2>3, <2>4 DEF DocumentInv
<1>10. QED
  BY <1>1, <1>2, <1>3, <1>4, <1>5, <1>6, <1>7, <1>8, <1>9
  DEF Next, ReadStep, WriteStep, XmlNext

\* It always holds.
LEMMA DocumentHolds == Spec => []DocumentInv
<1>1. Init => DocumentInv
  BY DocumentInit
<1>2. DocumentInv /\ [Next]_vars => DocumentInv'
  BY DocumentNext
<1>3. QED  BY <1>1, <1>2, PTL DEF Spec

-----------------------------------------------------------------------------
(***************************************************************************)
(* What it says of the reports.                                            *)
(***************************************************************************)
\* A reader that has read everything is where the writer is.
LEMMA CaughtUp ==
  ASSUME DocumentInv, pos = Len(out)
  PROVE  Understood(there)
<1>1. PICK trail, p : /\ IsTrail(masters, out, trail, there)
                      /\ trail[pos] = p
                      /\ Understood(p)
  BY DEF DocumentInv, TrailInv
<1>2. p = there
  BY <1>1 DEF IsTrail
<1>3. QED  BY <1>1, <1>2 DEF Understood

(***************************************************************************)
(* Whatever the report, a reader that has caught up with the writer has    *)
(* the same elements open, and a closed report has none (xml::push and     *)
(* xml::pop, startElement and endElement).                                 *)
(***************************************************************************)
THEOREM OpenElementsAgree == Spec => []NestingAgrees
<1>1. ASSUME DocumentInv
      PROVE  NestingAgrees
  <2>1. tag_stack = there.stack
    BY <1>1 DEF DocumentInv, CallInv
  <2>2. pos = Len(out) => tagstack = tag_stack
    BY <1>1, <2>1, CaughtUp DEF Understood
  <2>3. writer = "closed" => tag_stack = << >>
    BY <1>1, <2>1 DEF DocumentInv, CallInv, at
  <2>4. QED  BY <2>2, <2>3 DEF NestingAgrees
<1>2. QED  BY <1>1, DocumentHolds, PTL

\* The objects are as many as the place says.
LEMMA DeliveredAsFar ==
  ASSUME masters \in Reports, NEW p \in Place, Understood(p)
  PROVE  /\ DOMAIN delivered = 1 .. p.done /\ Len(delivered) = p.done
         /\ p.done <= Len(masters)
         /\ \A j \in 1 .. p.done : isObjectOf(delivered[j], masters[j])
<1>1. p.done \in Nat /\ delivered = [j \in 1 .. p.done |-> delivered[j]]
  BY DEF Understood, Place
<1>2. Len(delivered) = p.done
  BY <1>1, OneMoreOf
<1>3. DOMAIN delivered = 1 .. p.done
  BY <1>1
<1>4. QED  BY <1>2, <1>3 DEF Understood

(***************************************************************************)
(* However many masters and runs a report has, and wherever the writing    *)
(* stopped, the objects read are those of the first masters, whole and in  *)
(* order (endElement of a fileobject calls the callback).                  *)
(***************************************************************************)
THEOREM ObjectsAreWhole == Spec => []DeliveredArePrefix
<1>1. ASSUME DocumentInv
      PROVE  DeliveredArePrefix
  <2>1. PICK trail, p : /\ IsTrail(masters, out, trail, there)
                        /\ trail[pos] = p
                        /\ Understood(p)
    BY <1>1 DEF DocumentInv, TrailInv
  <2>2. p \in Place
    <3>1. pos \in 0 .. Len(out)
      BY <1>1 DEF DocumentInv, DiskInv
    <3>2. QED  BY <2>1, <3>1 DEF IsTrail
  <2>3. /\ DOMAIN delivered = 1 .. p.done /\ Len(delivered) = p.done
        /\ p.done <= Len(masters)
        /\ \A j \in 1 .. p.done : isObjectOf(delivered[j], masters[j])
    BY <1>1, <2>1, <2>2, DeliveredAsFar DEF DocumentInv, CallInv
  <2>4. QED  BY <2>3 DEF DeliveredArePrefix
<1>2. QED  BY <1>1, DocumentHolds, PTL

(***************************************************************************)
(* A report that was written to its end is read to its end, and the parser *)
(* gives up on none whose file names can be in an XML document.            *)
(***************************************************************************)
THEOREM ReportsAreRead == Spec => []ClosedReportIsRead
<1>1. ASSUME DocumentInv
      PROVE  ClosedReportIsRead
  <2>1. ASSUME writer = "closed", pos = Len(out)
        PROVE  Len(delivered) = Len(masters)
    <3>1. masters \in Reports /\ there = at(<< >>, Len(masters), 0)
      BY <1>1, <2>1 DEF DocumentInv, CallInv
    <3>2. PICK p : p = at(<< >>, Len(masters), 0)
      OBVIOUS
    <3>3. Understood(p)
      BY <1>1, <2>1, <3>1, <3>2, CaughtUp DEF Understood
    <3>4. p \in Place /\ p.done = Len(masters)
      BY <3>1, <3>2, ReportsTyped DEF Place, at
    <3>5. QED  BY <3>1, <3>3, <3>4, DeliveredAsFar
  <2>2. reading = "error" => \E j \in DOMAIN masters : masters[j].filename \in Illegal
    BY <1>1 DEF DocumentInv, ErrorInv
  <2>3. QED  BY <2>1, <2>2 DEF ClosedReportIsRead
<1>2. QED  BY <1>1, DocumentHolds, PTL

(***************************************************************************)
(* What a kill can lose of a report is tags of push() and pop(): xmlout()  *)
(* flushes what it wrote (xml::xmlout ends with endl).                     *)
(***************************************************************************)
THEOREM DataIsFlushed == Spec => []LostTokensCarryNoData
<1>1. DocumentInv => LostTokensCarryNoData
  BY DEF DocumentInv, DiskInv
<1>2. QED  BY <1>1, DocumentHolds, PTL
=============================================================================
