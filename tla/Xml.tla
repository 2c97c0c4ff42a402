-------------------------------- MODULE Xml --------------------------------
(***************************************************************************)
(* The XML writer (class xml in xml.cpp) and what main() of frag_find      *)
(* writes with it when -x is given.                                        *)
(*                                                                         *)
(* The output is a sequence of tokens: start tags, end tags, empty-element *)
(* tags and character data.  Character data is a sequence of words, each   *)
(* in the form it is written in: as it is, with its markup characters as   *)
(* entities, or with its white space as %0A and the like.  The stream is   *)
(* buffered: a token is on disk after the next flush, or earlier.          *)
(***************************************************************************)
EXTENDS Integers, Sequences, SequencesExt

CONSTANTS
  Markup,      \* words with characters like < and &
  Whitespace,  \* words with newlines, returns or tabs
  Illegal,     \* words with bytes no XML document may contain
  Reports      \* what there is to report: a sequence with one record per
               \* master: filename, blocks, filesize, md5 and runs

ASSUME XmlAssumption ==
  Markup \cap Whitespace = {} /\ (Markup \cup Whitespace) \cap Illegal = {}

\* Counts, sizes, digests and what the program says of itself are plain words:
\* only file names are of the other kinds.
Plain == STRING \ (Markup \cup Whitespace \cup Illegal)

ASSUME ReportsAssumption ==
  /\ \A list \in Reports :
       list \in Seq([filename : STRING, blocks : Plain, filesize : Plain, md5 : Plain,
                    runs : Seq(STRING)])
  /\ \A word \in {"GCC", "now", "frag_find", "Hash-Based Carving Report", "image", "512"} :
       word \in Plain

VARIABLES
  masters,    \* the report being written
  ip,         \* next call main() makes
  writer,     \* "running", "closed", or "killed"
  out,        \* what was written to the stream
  onDisk,     \* how many tokens of it are in the file
  full,       \* the disk is full: nothing more gets there
  tag_stack,
  tags        \* every tag that was ever written

xmlvars == << masters, ip, writer, out, onDisk, full, tag_stack, tags >>

start(tag, attrs)     == [kind |-> "start", tag |-> tag, attrs |-> attrs]
end(tag)              == [kind |-> "end", tag |-> tag]
emptyTag(tag, attrs)  == [kind |-> "empty", tag |-> tag, attrs |-> attrs]
chars(text)           == [kind |-> "text", text |-> text]

asItIs(words) == [j \in DOMAIN words |-> << words[j], "verbatim" >>]

\* xml::spaces: what a line is indented by.
spaces(stack) == [j \in DOMAIN stack |-> << "  ", "verbatim" >>]

\* Mutant: the value is written without escaping it.
xmlescapeNot(words) == asItIs(words)

xmlescape(words) ==
  [j \in DOMAIN words |->
    << words[j], CASE words[j] \in Markup     -> "entities"
                   [] words[j] \in Whitespace -> "percent"
                   [] OTHER                   -> "verbatim" >>]

(***************************************************************************)
(* The calls main() makes, in order: the head of the report, one           *)
(* fileobject for each master with a run element for each run print_report *)
(* was given, and the two elements that are still open.                    *)
(***************************************************************************)
push(tag) == [op |-> "push", tag |-> tag]
pop       == [op |-> "pop"]
xmlout(tag, words, attrs, escape) ==
  [op |-> "xmlout", tag |-> tag, words |-> words, attrs |-> attrs, escape |-> escape]
plainout(tag, words) == xmlout(tag, words, "", TRUE)

add_DFXML_build_environment ==
  << push("build_environment"), plainout("compiler", << "GCC" >>), pop >>

add_DFXML_execution_environment(command_line) ==
  << push("execution_environment"), plainout("command_line", command_line),
     plainout("start_time", << "now" >>), pop >>

properties(m) ==
  << push("fileobject"),
     plainout("filename", << m.filename >>),
     plainout("blocks", << m.blocks >>),
     plainout("filesize", << m.filesize >>),
     xmlout("hashdigest", << m.md5 >>, "md5", FALSE) >>

runElements(m) == [j \in DOMAIN m.runs |-> xmlout("run", << >>, m.runs[j], FALSE)]

\* Mutants: the element is closed before the runs, or not at all.
fileobjectPoppedEarly(m) == properties(m) \o << pop >> \o runElements(m)
fileobjectNotPopped(m)   == properties(m) \o runElements(m)

fileobject(m) == properties(m) \o runElements(m) \o << pop >>

calls(list) ==
  << push("frag_find"), push("metadata"),
     xmlout("dc:type", << "Hash-Based Carving Report" >>, "", FALSE), pop,
     push("creator"), plainout("program", << "frag_find" >>) >>
  \o add_DFXML_build_environment
  \o add_DFXML_execution_environment([j \in DOMAIN list |-> list[j].filename])
  \o << pop, push("source"), plainout("image_filename", << "image" >>),
        plainout("blocksize", << "512" >>) >>
  \o FlattenSeq([j \in DOMAIN list |-> fileobject(list[j])])
  \o << pop, pop, [op |-> "close"] >>

Scripts == [list \in Reports |-> calls(list)]
call    == Scripts[masters][ip]

-----------------------------------------------------------------------------
\* The constructor writes the XML declaration, which is no token.
XmlInit ==
  /\ masters \in Reports
  /\ ip = 1
  /\ writer = "running"
  /\ out = << >>
  /\ onDisk = 0
  /\ full = FALSE
  /\ tag_stack = << >>
  /\ tags = {}

\* main() makes its next call, which is op.
Calls(op) ==
  /\ writer = "running"
  /\ call.op = op
  /\ ip' = ip + 1
  /\ UNCHANGED << masters, full >>

flushed == IF full THEN onDisk ELSE Len(out')

\* Mutant: xmlout without the flush.
XmlOutBuffered ==
  /\ Calls("xmlout")
  /\ LET text == IF call.escape THEN xmlescape(call.words) ELSE asItIs(call.words)
     IN  /\ out' = out \o (IF call.words = << >>
                           THEN << emptyTag(call.tag, call.attrs) >>
                           ELSE << start(call.tag, call.attrs), chars(text), end(call.tag) >>)
         /\ tags' = tags \cup {call.tag}
  /\ UNCHANGED << onDisk, writer, tag_stack >>

(***************************************************************************)
(* xml::push, xml::pop.                                                    *)
(***************************************************************************)
Push ==
  /\ Calls("push")
  /\ LET tag == call.tag IN
     /\ out' = Append(out, start(tag, ""))
     /\ tag_stack' = Append(tag_stack, tag)
     /\ tags' = tags \cup {tag}
  /\ UNCHANGED << onDisk, writer >>

\* verify_tag drops the slash before it notes the tag, so tags gets no new one.
Pop ==
  /\ Calls("pop")
  /\ tag_stack # << >>
  /\ out' = Append(out, end(Last(tag_stack)))
  /\ tag_stack' = Front(tag_stack)
  /\ tags' = tags \cup {Last(tag_stack)}
  /\ UNCHANGED << onDisk, writer >>

(***************************************************************************)
(* xml::xmlout and xmlprintf: an element on a line of its own, flushed.    *)
(***************************************************************************)
XmlOut ==
  /\ Calls("xmlout")
  /\ LET text == IF call.escape THEN xmlescape(call.words) ELSE asItIs(call.words)
     IN  /\ out' = out \o (IF call.words = << >>
                           THEN << emptyTag(call.tag, call.attrs) >>
                           ELSE << start(call.tag, call.attrs), chars(text), end(call.tag) >>)
         /\ tags' = tags \cup {call.tag}
  /\ onDisk' = flushed
  /\ UNCHANGED << writer, tag_stack >>

\* make_dtd is FALSE whatever the constructor is given: the stream is closed.
Close ==
  /\ Calls("close")
  /\ writer' = "closed"
  /\ UNCHANGED << out, tag_stack, tags >>
  /\ onDisk' = flushed

(***************************************************************************)
(* Around the program: the stream writes its buffer when it is full, the   *)
(* disk has no more room (nobody looks at the state of the stream), the    *)
(* program is killed.                                                      *)
(***************************************************************************)
Spill ==
  /\ writer = "running"
  /\ ~ full
  /\ onDisk' \in onDisk + 1 .. Len(out)
  /\ UNCHANGED << masters, ip, writer, out, full, tag_stack, tags >>

DiskFull ==
  /\ writer = "running"
  /\ ~ full
  /\ full' = TRUE
  /\ UNCHANGED << masters, ip, writer, out, onDisk, tag_stack, tags >>

Kill ==
  /\ writer = "running"
  /\ writer' = "killed"
  /\ UNCHANGED << masters, ip, out, onDisk, full, tag_stack, tags >>

XmlNext == Push \/ Pop \/ XmlOut \/ Close \/ Spill \/ DiskFull \/ Kill
=============================================================================
