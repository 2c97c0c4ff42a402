------------------------------- MODULE Dfxml -------------------------------
(***************************************************************************)
(* The DFXML reader (file_object_reader in dfxml.cpp) on the file the      *)
(* writer of module Xml is writing, has written, or was killed over: the   *)
(* expat callbacks, and read_dfxml, which feeds the parser line by line.   *)
(* frag_find writes no volume element, so the branches for it are left     *)
(* out.                                                                    *)
(***************************************************************************)
EXTENDS Xml

VARIABLES
  reading,         \* "reading", "error" or "eof"
  pos,             \* tokens consumed
  tagstack,        \* self.tagstack
  cdata,           \* self.cdata
  fileobject_,     \* self.fileobject, or NoObject
  hashdigest_type,
  delivered        \* the objects the callback was given

readvars == << reading, pos, tagstack, cdata, fileobject_, hashdigest_type, delivered >>
vars     == << xmlvars, readvars >>

Nothing   == [x \in {} |-> << >>]
NewObject == [_tags |-> Nothing, hashdigest |-> Nothing, byte_runs |-> << >>]
NoObject  == [none |-> TRUE]

\* m[key] = value of a std::map.
Put(m, key, value) == [x \in DOMAIN m \cup {key} |-> IF x = key THEN value ELSE m[x]]

Init ==
  /\ XmlInit
  /\ reading = "reading"
  /\ pos = 0
  /\ tagstack = << >>
  /\ cdata = << >>
  /\ fileobject_ = NoObject
  /\ hashdigest_type = ""
  /\ delivered = << >>

(***************************************************************************)
(* The parser: the next token, which it must find to be well-formed.       *)
(* Entities are resolved, percent encodings are ordinary characters to it. *)
(***************************************************************************)
token == out[pos + 1]

parsed(text) ==
  [j \in DOMAIN text |->
    << text[j][1], IF text[j][2] = "entities" THEN "verbatim" ELSE text[j][2] >>]

wellFormed(tok) ==
  /\ tok.kind = "end" => tagstack # << >> /\ Last(tagstack) = tok.tag
  /\ tok.kind = "text" =>
       \A j \in DOMAIN tok.text :
         /\ tok.text[j][1] \notin Illegal
         /\ tok.text[j][2] = "verbatim" => tok.text[j][1] \notin Markup

Reads(kind) ==
  /\ reading = "reading"
  /\ pos < onDisk
  /\ token.kind = kind
  /\ wellFormed(token)
  /\ pos' = pos + 1
  /\ UNCHANGED << xmlvars, reading >>

(***************************************************************************)
(* startElement.  The spaces a line begins with come with its tag; where   *)
(* the reader is, as many elements are open as the writer had open         *)
(* (NestingAgrees).  In front of an end tag of pop() there are spaces as   *)
(* well, but no such element has a text anybody keeps.                     *)
(***************************************************************************)
keepCdata(text)  == text     \* mutant: startElement leaves cdata as it is
resetCdata(text) == << >>

cdataAtStart == resetCdata(cdata \o spaces(tagstack))

StartElement ==
  /\ Reads("start")
  /\ tagstack' = Append(tagstack, token.tag)
  /\ cdata' = cdataAtStart
  /\ fileobject_' = IF token.tag = "fileobject" THEN NewObject ELSE fileobject_
  /\ hashdigest_type' = IF token.tag = "hashdigest" THEN token.attrs ELSE hashdigest_type
  /\ UNCHANGED delivered

\* startElement and endElement of an empty element: a run, which also becomes
\* a tag without a value.
EmptyElement ==
  /\ Reads("empty")
  /\ cdata' = << >>
  /\ fileobject_' =
       IF fileobject_ = NoObject THEN NoObject
       ELSE [fileobject_ EXCEPT
               !.byte_runs = IF token.tag = "run" THEN Append(@, token.attrs) ELSE @,
               !._tags = Put(@, token.tag, cdataAtStart)]
  /\ UNCHANGED << tagstack, hashdigest_type, delivered >>

(***************************************************************************)
(* endElement.                                                             *)
(***************************************************************************)
FileobjectEnd ==
  /\ Reads("end")
  /\ token.tag = "fileobject"
  /\ tagstack' = Front(tagstack)
  /\ cdata' = << >>
  /\ delivered' = Append(delivered, fileobject_)
  /\ fileobject_' = NoObject
  /\ UNCHANGED hashdigest_type

HashdigestEnd ==
  /\ Reads("end")
  /\ token.tag = "hashdigest"
  /\ tagstack' = Front(tagstack)
  /\ cdata' = << >>
  /\ fileobject_' =
       IF Len(tagstack) > 1 /\ tagstack[Len(tagstack) - 1] = "fileobject"
       THEN [fileobject_ EXCEPT !.hashdigest = Put(@, hashdigest_type, cdata)]
       ELSE fileobject_
  /\ UNCHANGED << hashdigest_type, delivered >>

OtherEnd ==
  /\ Reads("end")
  /\ token.tag \notin {"fileobject", "hashdigest"}
  /\ tagstack' = Front(tagstack)
  /\ cdata' = << >>
  /\ fileobject_' = IF fileobject_ = NoObject THEN NoObject
                    ELSE [fileobject_ EXCEPT !._tags = Put(@, token.tag, cdata)]
  /\ UNCHANGED << hashdigest_type, delivered >>

CharacterData ==
  /\ Reads("text")
  /\ cdata' = cdata \o parsed(token.text)
  /\ UNCHANGED << tagstack, fileobject_, hashdigest_type, delivered >>

(***************************************************************************)
(* read_dfxml: an error ends the reading, with a message; so does the end  *)
(* of the file, and what the parser says about the document then is not    *)
(* looked at.                                                              *)
(***************************************************************************)
XmlError ==
  /\ reading = "reading"
  /\ pos < onDisk
  /\ ~ wellFormed(token)
  /\ reading' = "error"
  /\ UNCHANGED << xmlvars, pos, tagstack, cdata, fileobject_, hashdigest_type, delivered >>

EndOfFile ==
  /\ reading = "reading"
  /\ pos = onDisk
  /\ reading' = "eof"
  /\ UNCHANGED << xmlvars, pos, tagstack, cdata, fileobject_, hashdigest_type, delivered >>

ReadStep ==
  \/ StartElement
  \/ EmptyElement
  \/ FileobjectEnd
  \/ HashdigestEnd
  \/ OtherEnd
  \/ CharacterData
  \/ XmlError
  \/ EndOfFile

WriteStep == XmlNext /\ UNCHANGED readvars

Next == ReadStep \/ WriteStep

Spec == Init /\ [][Next]_vars
-----------------------------------------------------------------------------
(***************************************************************************)
(* A reader that has caught up with the writer has the same elements open, *)
(* so the end tags it meets are those it expects (dfxml.cpp:95-98), and a  *)
(* closed report has no element left open.                                 *)
(***************************************************************************)
NestingAgrees ==
  /\ pos = Len(out) => tagstack = tag_stack
  /\ writer = "closed" => tag_stack = << >>

(***************************************************************************)
(* What the reader makes of a master: each property as text, the digest,   *)
(* and the runs in the order of the report.                                *)
(***************************************************************************)
asText(word) == << << word, IF word \in Whitespace THEN "percent" ELSE "verbatim" >> >>

isObjectOf(o, m) ==
  /\ o._tags["filename"] = asText(m.filename)
  /\ o._tags["blocks"] = asText(m.blocks)
  /\ o._tags["filesize"] = asText(m.filesize)
  /\ o.hashdigest["md5"] = asText(m.md5)
  /\ o.byte_runs = m.runs

(***************************************************************************)
(* However the writing ended -- killed, on a full disk, or still going on  *)
(* -- the objects read are those of the first masters, in order, each with *)
(* all of its runs: nothing is delivered in part.                          *)
(***************************************************************************)
DeliveredArePrefix ==
  /\ Len(delivered) <= Len(masters)
  /\ \A j \in DOMAIN delivered : isObjectOf(delivered[j], masters[j])

(***************************************************************************)
(* A report written to its end is read to its end, markup characters in    *)
(* file names included, if its words can be in an XML document at all.     *)
(***************************************************************************)
ClosedReportIsRead ==
  /\ writer = "closed" /\ ~ full /\ reading = "eof" /\ pos = Len(out) =>
       Len(delivered) = Len(masters)
  /\ reading = "error" => \E j \in DOMAIN masters : masters[j].filename \in Illegal

(***************************************************************************)
(* A kill loses no run and no property of a file that was already written: *)
(* only tags of push() and pop() can still be in the buffer.               *)
(***************************************************************************)
LostTokensCarryNoData ==
  ~ full => \A j \in onDisk + 1 .. Len(out) : out[j].kind \in {"start", "end"}
=============================================================================
