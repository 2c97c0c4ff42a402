-------------------------- MODULE BloomFileProofs --------------------------
(***************************************************************************)
(* What the file operations of bloom.c guarantee, proved for any number of *)
(* processes, objects, files and names, and any size of the vector.        *)
(***************************************************************************)
EXTENDS BloomFile, FiniteSetTheorems, WellFoundedInduction, TLAPS

(***************************************************************************)
(* Types.                                                                  *)
(***************************************************************************)
Ats == {"zero", "failed", "exited", "faulted", "header", "vector", "map",
        "read", "mapping", "closing", "ready", "store", "count"}

\* What an object can be, field by field.
Blooms == [at : Ats, fd : Fds \cup {-1}, vec : {"none", "memory", "file", "MAP_FAILED"},
           path : Names \cup {NoName}, file : Inodes \cup {NoFile},
           memory : SUBSET Items, added : Nat, written : 0 .. Chunks,
           item : SUBSET Items, loaded : SUBSET Items]

\* What past can say of a file.
Pasts == [adds : SUBSET Items, raced : SUBSET Items, calls : Nat, missed : Nat, sessions : Nat,
          shared : BOOLEAN, abandoned : BOOLEAN, detached : BOOLEAN, dropped : BOOLEAN]

\* The standard input is descriptor 0, and it alone.
Tables == { table \in [Fds -> Inodes \cup {Free, Stdin}] :
              \A d \in Fds : table[d] = Stdin <=> d = 0 }

\* Inside nsrl_bloom_create.
Creating(o) == o.at \in {"header", "vector", "map"}

\* Inside nsrl_bloom_open, with the file open.
Opening(o) == o.at \in {"read", "mapping", "closing"}

\* What an object is like at each statement its owner can be at.
Stage(p, o) ==
  /\ o.at \in {"zero", "exited", "faulted"} => o = [Zeroed EXCEPT !.at = o.at]
  /\ Creating(o) \/ Opening(o) =>
       o.fd \in Fds \ {0} /\ o.file \in Inodes /\ o.path \in Names
  /\ Creating(o) => o.vec \in {"none", "memory"} /\ p \in setup.writers
  /\ Creating(o) /\ o.vec = "none" => o.added = 0
  /\ Opening(o) => o.vec = "none"
  /\ o.at = "vector" => o.written < Chunks
  /\ o.at = "map" => o.written = Chunks
  /\ o.at \notin {"vector", "map", "failed"} => o.written = 0
  /\ o.vec = "file" => o.at \in {"ready", "store", "count"} /\ o.file \in Inodes
  /\ o.vec = "memory" => p \in setup.writers
  /\ o.at \in {"store", "count"} => o.vec \in {"memory", "file"} /\ p \in setup.writers
  /\ o.at = "store" => \E h \in Items : o.item = {h} /\ o.loaded \subseteq OfByte(h)

\* The types of the variables, and the shape an object has at its statement.
TypeInv ==
  /\ setup \in Setups
  /\ inode \in [Inodes -> Files]
  /\ dir \in [Names -> Inodes \cup {NoFile}]
  /\ fdt \in [Procs -> Tables]
  /\ past \in [Inodes -> Pasts]
  /\ crossed \in BOOLEAN
  /\ bloom = [p \in Procs |-> [b \in setup.filters[p] |-> bloom[p][b]]]
  /\ \A o \in Objects : At(o) \in Blooms /\ Stage(o[1], At(o))

(***************************************************************************)
(* Descriptors: an object that has one open has it for its own file and    *)
(* for itself alone.                                                       *)
(***************************************************************************)
FdOf(o) == OnFd(o[1], At(o))

\* An object of the process has descriptor d, or its file was dropped.
Owned(p, d) ==
  \/ \E b \in setup.filters[p] : bloom[p][b].fd = d
  \/ past[fdt[p][d]].dropped

\* No descriptor is used for another file, by two objects, or by none.
DescriptorInv ==
  /\ \A o \in Objects :
       /\ FdOf(o) \in {At(o).file, Free}
       /\ At(o).at # "failed" => At(o).fd = 0 \/ FdOf(o) # Free
       /\ At(o).vec = "file" => FdOf(o) = At(o).file
  /\ \A o1, o2 \in Objects :
       o1[1] = o2[1] /\ At(o1).fd = At(o2).fd /\ FdOf(o1) # Free => o1 = o2
  /\ \A p \in Procs : \A d \in Fds \ {0} : fdt[p][d] # Free => Owned(p, d)

(***************************************************************************)
(* Names: a file has one name, and one object writes it.                   *)
(***************************************************************************)
NameInv ==
  /\ \A n1, n2 \in Names : dir[n1] = dir[n2] /\ dir[n1] # NoFile => n1 = n2
  /\ \A o \in Objects : Writing(At(o)) => dir[At(o).path] = At(o).file
  /\ \A o1, o2 \in Objects :
       Writing(At(o1)) /\ Writing(At(o2)) /\ At(o1).file = At(o2).file => o1 = o2

(***************************************************************************)
(* How far a file is written.                                              *)
(***************************************************************************)
Complete(n) ==
  \/ Whole(inode[dir[n]])
  \/ past[dir[n]].abandoned
  \/ \E o \in Objects : Writing(At(o)) /\ At(o).file = dir[n]

\* What the writer of a file has put in it so far.
Extent(o, f) ==
  /\ Writing(o) => f.chunks = o.written
  /\ o.at \in {"vector", "map", "mapping"} \/ o.vec = "file" => f.header = "good"
  /\ o.at = "map" => f.chunks = Chunks

\* A file that has a name is as far as its writer, or complete.
WrittenInv ==
  /\ \A o \in Objects : Extent(At(o), inode[At(o).file])
  /\ \A n \in Names : dir[n] # NoFile => Complete(n)

(***************************************************************************)
(* What is in the vector of a file.                                        *)
(***************************************************************************)
\* In the vector of file i, or stored while another was at the same byte.
Kept(i, h) == h \in inode[i].vector \/ h \in past[i].raced

\* Between load and store of a byte, another has stored in it.
ByteKnown(o) ==
  \A h \in At(o).item : \A other \in OfByte(h) :
    \/ other \in At(o).loaded <=> other \in inode[At(o).file].vector
    \/ other \in past[At(o).file].raced

\* What an object that is at work on a file knows of the vector of the file.
ObjectVector(o) ==
  LET i == At(o).file IN
  /\ At(o).vec = "file" /\ At(o).at \in {"store", "count"} =>
       \A h \in At(o).item : chunkOf[h] <= inode[i].chunks
  /\ At(o).vec = "file" /\ At(o).at = "store" => ByteKnown(o)
  /\ At(o).vec = "file" /\ At(o).at = "count" => \A h \in At(o).item : Kept(i, h)
  /\ At(o).at \in {"vector", "map"} =>
       \A h \in At(o).memory : chunkOf[h] <= At(o).written => Kept(i, h)
  /\ Writing(At(o)) => \A h \in past[i].adds : chunkOf[h] <= At(o).written

\* Every add that was told to be done is kept.
FileVector(i) ==
  /\ inode[i].header = "none" => past[i].adds = {}
  /\ \A h \in past[i].adds : Kept(i, h)

\* Objects and files together.
VectorInv ==
  /\ \A o \in Objects : ObjectVector(o)
  /\ \A i \in Inodes : FileVector(i)

(***************************************************************************)
(* What the header of a file says.                                         *)
(***************************************************************************)
Alone(i) == ~ past[i].detached /\ ~ past[i].shared
\* The calls the header may miss: fewer than InfoEvery in each session, and
\* InfoEvery with each update that was not written.
Lag(sessions) == (InfoEvery - 1) * sessions
Skipped(missed) == InfoEvery * missed

\* Of the updates that were not written, some came before the session of the
\* object, which then read a counter that was too small, and some in it.
Behind(o, f, h) ==
  \E before, since \in Nat :
    /\ before + since = h.missed
    /\ h.calls <= o.added + Lag(h.sessions - 1) + Skipped(before)
    /\ o.added - (o.added % InfoEvery) <= f.added + Skipped(since)

\* The counter of an object against the calls and the header of its file.
ObjectHeader(o) ==
  LET i == At(o).file IN
  /\ At(o).vec = "memory" /\ At(o).at \notin {"header", "failed"} /\ FdOf(o) # Free =>
       past[i].detached
  /\ At(o).vec = "file" \/ At(o).at = "mapping" =>
       past[i].detached \/ At(o).added <= past[i].calls
  /\ At(o).vec = "file" /\ InUse(o) /\ Alone(i) =>
       past[i].sessions > 0 /\ Behind(At(o), inode[i], past[i])
  /\ At(o).at = "mapping" /\ InUse(o) /\ Alone(i) => At(o).added = inode[i].added
  /\ Creating(At(o)) /\ Alone(i) => past[i].calls = 0

\* The header of a file against the calls on it.
FileHeader(i) ==
  /\ inode[i].header = "none" => past[i].calls = 0
  /\ ~ past[i].detached => inode[i].added <= past[i].calls
  /\ Alone(i) => past[i].calls <= inode[i].added + Lag(past[i].sessions)
                                               + Skipped(past[i].missed)

\* Two objects at work on a file are known to share it.
Sharing(o1, o2) ==
  InUse(o1) /\ InUse(o2) /\ At(o1).file = At(o2).file => o1 = o2 \/ past[At(o1).file].shared

\* Objects and files together.
HeaderInv ==
  /\ \A o \in Objects : ObjectHeader(o)
  /\ \A o1, o2 \in Objects : Sharing(o1, o2)
  /\ \A i \in Inodes : FileHeader(i)

\* The inductive invariant.  What a descriptor leads to says nothing any more once
\* an object has used a descriptor of another file; the types and the names hold still.
FilesInv ==
  /\ TypeInv
  /\ NameInv
  /\ crossed \/ (DescriptorInv /\ WrittenInv /\ VectorInv /\ HeaderInv)

-----------------------------------------------------------------------------
\* What the assumption says of the situation the system starts in.
LEMMA Situation ==
  ASSUME setup \in Setups
  PROVE  /\ setup.file \in Files
         /\ setup.names \subseteq Names
         /\ setup.items \subseteq Items
         /\ setup.writers \subseteq Procs
         /\ setup.filters \in [Procs -> SUBSET Filters]
         /\ Chunks \in Nat \ {0}
         /\ InfoEvery \in Nat \ {0}
         /\ MaxFd \in Nat
         /\ MaxFiles \in Nat
         /\ NoName \notin Names
         /\ chunkOf \in [Items -> 1 .. Chunks]
         /\ EmptyFile \in Files
BY BloomFileAssumption DEF BloomFileAssumption, EmptyFile, Files, Headers

\* The objects are the pairs of a process and one of its filters.
LEMMA ObjectPairs ==
  ASSUME TypeInv
  PROVE  /\ \A p \in Procs : \A b \in setup.filters[p] :
              << p, b >> \in Objects /\ At(<< p, b >>) = bloom[p][b]
         /\ \A o \in Objects :
              /\ o = << o[1], o[2] >> /\ o[1] \in Procs /\ o[2] \in setup.filters[o[1]]
              /\ At(o) = bloom[o[1]][o[2]]
<1>1. setup.filters \in [Procs -> SUBSET Filters]
  BY Situation DEF TypeInv
<1>2. QED  BY <1>1 DEF Objects, At

\* A step of one object leaves the others as they are.
LEMMA OneObject ==
  ASSUME TypeInv, UNCHANGED setup,
         NEW p \in Procs, NEW b \in setup.filters[p], NEW object, Set(p, b, object)
  PROVE  /\ Objects' = Objects
         /\ << p, b >> \in Objects
         /\ \A o \in Objects : o # << p, b >> => At(o)' = At(o)
         /\ At(<< p, b >>)' = object
         /\ bloom' = [q \in Procs |-> [c \in setup.filters[q] |-> bloom'[q][c]]]
<1>1. bloom = [q \in Procs |-> [c \in setup.filters[q] |-> bloom[q][c]]]
  BY DEF TypeInv
<1>2. bloom' = [q \in Procs |-> [c \in setup.filters[q] |->
                  IF q = p /\ c = b THEN object ELSE bloom[q][c]]]
  BY <1>1 DEF Set
<1>3. \A q \in Procs : \A c \in setup.filters[q] :
        bloom'[q][c] = IF q = p /\ c = b THEN object ELSE bloom[q][c]
  BY <1>2
<1>4. Objects' = Objects /\ << p, b >> \in Objects
  BY ObjectPairs DEF Objects
<1>5. ASSUME NEW o \in Objects, o # << p, b >>
      PROVE  At(o)' = At(o)
  BY <1>3, <1>5, ObjectPairs DEF At
<1>6. At(<< p, b >>)' = object
  BY <1>3 DEF At
<1>7. bloom' = [q \in Procs |-> [c \in setup.filters[q] |-> bloom'[q][c]]]
  BY <1>2, <1>3
<1>8. QED  BY <1>4, <1>5, <1>6, <1>7

\* When a process is gone its objects are.
LEMMA AllEnd ==
  ASSUME TypeInv, NEW p \in Procs, NEW at, Ends(p, at)
  PROVE  /\ Objects' = Objects
         /\ \A o \in Objects : At(o)' = IF o[1] = p THEN [Zeroed EXCEPT !.at = at] ELSE At(o)
         /\ bloom' = [q \in Procs |-> [c \in setup.filters[q] |-> bloom'[q][c]]]
         /\ setup' = setup
<1>1. bloom = [q \in Procs |-> [c \in setup.filters[q] |-> bloom[q][c]]]
  BY DEF TypeInv
<1>2. setup' = setup
  BY DEF Ends
<1>3. bloom' = [q \in Procs |-> [c \in setup.filters[q] |->
                  IF q = p THEN [Zeroed EXCEPT !.at = at] ELSE bloom[q][c]]]
  BY <1>1 DEF Ends
<1>4. \A q \in Procs : \A c \in setup.filters[q] :
        bloom'[q][c] = IF q = p THEN [Zeroed EXCEPT !.at = at] ELSE bloom[q][c]
  BY <1>3
<1>5. Objects' = Objects
  BY <1>2 DEF Objects
<1>6. ASSUME NEW o \in Objects
      PROVE  At(o)' = IF o[1] = p THEN [Zeroed EXCEPT !.at = at] ELSE At(o)
  BY <1>4, ObjectPairs DEF At
<1>7. bloom' = [q \in Procs |-> [c \in setup.filters[q] |-> bloom'[q][c]]]
  BY <1>3, <1>4
<1>8. QED  BY <1>2, <1>5, <1>6, <1>7

\* A set of natural numbers has a least member.
LEMMA Smallest ==
  ASSUME NEW S, S \subseteq Nat, S # {}
  PROVE  \E n \in S : \A m \in S : n <= m
<1>1. PICK below : /\ IsWellFoundedOn(below, Nat)
                   /\ \A m, n \in Nat : m < n => << m, n >> \in below
  <2> DEFINE below == OpToRel(<, Nat)
  <2>1. IsWellFoundedOn(below, Nat) /\ \A m, n \in Nat : m < n => << m, n >> \in below
    BY NatLessThanWellFounded DEF OpToRel
  <2> HIDE DEF below
  <2>2. QED  BY <2>1
<1>2. PICK n \in S : \A m \in S : ~ (<< m, n >> \in below)
  BY <1>1, WFMin, ZenonT(60)
<1>3. ASSUME NEW m \in S
      PROVE  n <= m
  <2>1. m \in Nat /\ n \in Nat /\ ~ (m < n)
    BY <1>1, <1>2
  <2>2. QED  BY <2>1
<1>4. QED  BY <1>3

\* The lowest free descriptor is free, and not the standard input.
LEMMA Lowest ==
  ASSUME TypeInv, NEW p \in Procs, FreeFds(p) # {}
  PROVE  NewFd(p) \in Fds \ {0} /\ fdt[p][NewFd(p)] = Free
<1>1. FreeFds(p) \subseteq Nat
  BY Situation DEF TypeInv, FreeFds, Fds
<1>2. \E d \in FreeFds(p) : \A e \in FreeFds(p) : d <= e
  BY <1>1, Smallest
<1>3. NewFd(p) \in FreeFds(p)
  BY <1>2 DEF NewFd, Min
<1>4. fdt[p] \in Tables
  BY DEF TypeInv
<1>5. QED  BY <1>3, <1>4 DEF FreeFds, Tables, Free, Stdin

\* A descriptor that is open stands for a file.
LEMMA OpenFile ==
  ASSUME TypeInv, NEW o \in Objects
  PROVE  /\ FdOf(o) \in Inodes \cup {Free}
         /\ FdOf(o) # Free => At(o).fd \in Fds \ {0} /\ FdOf(o) = fdt[o[1]][At(o).fd]
<1>1. fdt[o[1]] \in Tables
  BY ObjectPairs DEF TypeInv
<1>2. QED  BY <1>1 DEF FdOf, OnFd, Tables

-----------------------------------------------------------------------------
\* A step of one object keeps the types when each part of it does.
LEMMA ObjectTyped ==
  ASSUME TypeInv, UNCHANGED setup,
         NEW p \in Procs, NEW b \in setup.filters[p], NEW object, Set(p, b, object),
         object \in Blooms, Stage(p, object),
         inode' \in [Inodes -> Files], dir' \in [Names -> Inodes \cup {NoFile}],
         fdt' \in [Procs -> Tables], past' \in [Inodes -> Pasts], crossed' \in BOOLEAN
  PROVE  TypeInv'
<1>1. /\ Objects' = Objects
      /\ \A o \in Objects : o # << p, b >> => At(o)' = At(o)
      /\ At(<< p, b >>)' = object
      /\ bloom' = [q \in Procs |-> [c \in setup.filters[q] |-> bloom'[q][c]]]
  BY OneObject
<1>2. ASSUME NEW o \in Objects
      PROVE  At(o)' \in Blooms /\ Stage(o[1], At(o))'
  <2>1. CASE o = << p, b >>
    BY <1>1, <2>1 DEF Stage
  <2>2. CASE o # << p, b >>
    BY <1>1, <2>2 DEF TypeInv, Stage
  <2>3. QED  BY <2>1, <2>2
<1>3. QED  BY <1>1, <1>2 DEF TypeInv

\* The types of an object and of what it stands for.
LEMMA Typed ==
  ASSUME TypeInv, NEW p \in Procs, NEW b \in setup.filters[p]
  PROVE  /\ bloom[p][b] \in Blooms
         /\ Stage(p, bloom[p][b])
         /\ fdt[p] \in Tables
         /\ OnFd(p, bloom[p][b]) \in Inodes \cup {Free}
         /\ bloom[p][b].file \in Inodes => inode[bloom[p][b].file] \in Files
         /\ Zeroed \in Blooms
         /\ Stage(p, Zeroed)
<1>1. << p, b >> \in Objects /\ At(<< p, b >>) = bloom[p][b]
  BY ObjectPairs
<1>2. bloom[p][b] \in Blooms /\ Stage(p, bloom[p][b])
  BY <1>1 DEF TypeInv
<1>3. OnFd(p, bloom[p][b]) \in Inodes \cup {Free}
  BY <1>1, OpenFile DEF FdOf
<1>4. Zeroed \in Blooms /\ Stage(p, Zeroed)
  <2>1. Zeroed \in Blooms
    BY Situation DEF Zeroed, Blooms, Ats, Fds, TypeInv
  <2>2. Zeroed = [Zeroed EXCEPT !.at = "zero"]
    BY DEF Zeroed
  <2>3. Stage(p, Zeroed)
    BY <2>2 DEF Zeroed, Stage, Creating, Opening
  <2>4. QED  BY <2>1, <2>3
<1>5. QED  BY <1>2, <1>3, <1>4 DEF TypeInv

\* An end of a process keeps the types.
LEMMA EndTyped ==
  ASSUME TypeInv, NEW p \in Procs, NEW at \in {"zero", "exited", "faulted"}, Ends(p, at)
  PROVE  TypeInv'
<1>1. /\ Objects' = Objects /\ setup' = setup
      /\ \A o \in Objects : At(o)' = IF o[1] = p THEN [Zeroed EXCEPT !.at = at] ELSE At(o)
      /\ bloom' = [q \in Procs |-> [c \in setup.filters[q] |-> bloom'[q][c]]]
  BY AllEnd
<1>2. [Zeroed EXCEPT !.at = at] \in Blooms /\ Stage(p, [Zeroed EXCEPT !.at = at])
  BY Situation DEF Zeroed, Blooms, Ats, Stage, Creating, Opening, Fds, TypeInv
<1>3. \A o \in Objects : At(o)' \in Blooms /\ Stage(o[1], At(o))'
  BY <1>1, <1>2, ZenonT(60) DEF TypeInv, Stage
<1>4. FreshTable \in Tables
  BY Situation DEF TypeInv, FreshTable, Tables, Fds, Stdin, Free, Inodes
<1>5. fdt' \in [Procs -> Tables]
  BY <1>4 DEF Ends, TypeInv
<1>6. past' \in [Inodes -> Pasts]
  BY ZenonT(60) DEF Ends, TypeInv, Pasts
<1>7. QED  BY <1>1, <1>3, <1>5, <1>6 DEF Ends, TypeInv, files

\* The update of the info in the header keeps the files typed.
LEMMA InfoTyped ==
  ASSUME TypeInv, NEW p \in Procs, NEW o \in Blooms, OnFd(p, o) \in Inodes \cup {Free}
  PROVE  InfoUpdate(p, o) \in [Inodes -> Files]
BY DEF TypeInv, InfoUpdate, Files, Headers, Blooms

\* open() takes a free descriptor that is not the standard input.
LEMMA OpenTyped ==
  ASSUME TypeInv, NEW p \in Procs, NEW i \in Inodes, FreeFds(p) # {}
  PROVE  [fdt EXCEPT ![p][NewFd(p)] = i] \in [Procs -> Tables]
<1>1. NewFd(p) \in Fds \ {0}
  BY Lowest
<1>2. i # Stdin
  BY Situation DEF TypeInv, Inodes, Stdin
<1>3. QED  BY <1>1, <1>2 DEF TypeInv, Tables

\* close() keeps the tables of descriptors typed.
LEMMA CloseTyped ==
  ASSUME TypeInv, NEW p \in Procs, NEW d
  PROVE  Closed(p, d) \in [Procs -> Tables]
BY DEF TypeInv, Tables, Closed, Free, Stdin

\* The greater of two numbers.
LEMMA Greater ==
  ASSUME NEW a \in Int, NEW b \in Int
  PROVE  Max({a, b}) \in {a, b} /\ Max({a, b}) >= a /\ Max({a, b}) >= b
<1>1. \E x \in {a, b} : \A y \in {a, b} : x >= y
  OBVIOUS
<1>2. QED  BY <1>1 DEF Max

\* The begin of a session keeps the history typed.
LEMMA SessionTyped ==
  ASSUME TypeInv, NEW o, o.file \in Inodes, Session(o)
  PROVE  past' \in [Inodes -> Pasts]
BY DEF TypeInv, Session, Pasts

\* The open() of a file to write it, from create() or from write().
LEMMA WriteOpenTyped ==
  ASSUME TypeInv, NEW p \in Procs, NEW b \in setup.filters[p], NEW n \in Names,
         NEW o \in Blooms, Stage(p, o), OnFd(p, o) \in Inodes \cup {Free},
         p \in setup.writers, o.vec \in {"none", "memory"}, o.vec = "none" => o.added = 0,
         o.at \in {"zero", "ready"}, WriteOpen(p, b, n, o)
  PROVE  TypeInv'
<1>1. past' \in [Inodes -> Pasts]
  <2>1. CASE OnFd(p, o) = Free
    BY <2>1 DEF TypeInv, WriteOpen
  <2>2. CASE OnFd(p, o) \in Inodes /\ OnFd(p, o) # Free
    <3>1. past' = [past EXCEPT ![OnFd(p, o)].dropped = TRUE]
      BY <2>2 DEF WriteOpen
    <3>2. past \in [Inodes -> Pasts]
      BY DEF TypeInv
    <3>3. QED  BY <2>2, <3>1, <3>2 DEF Pasts
  <2>3. QED  BY <2>1, <2>2
<1>2. UNCHANGED setup
  BY DEF WriteOpen
<1>3. CASE /\ Set(p, b, [o EXCEPT !.at = "failed", !.fd = -1])
           /\ UNCHANGED << files, fdt, crossed >>
  <2> DEFINE object == [o EXCEPT !.at = "failed", !.fd = -1]
  <2>1. object \in Blooms /\ Stage(p, object)
    BY DEF Blooms, Ats, Stage, Creating, Opening
  <2>2. QED  BY <1>1, <1>2, <1>3, <2>1, ObjectTyped DEF files, TypeInv
<1>4. ASSUME FreeFds(p) # {}, NEW i \in creatable(n),
             dir' = [dir EXCEPT ![n] = i],
             inode' = [inode EXCEPT ![i] = EmptyFile],
             fdt' = [fdt EXCEPT ![p][NewFd(p)] = i],
             Set(p, b, [o EXCEPT !.at = "header", !.fd = NewFd(p), !.path = n, !.file = i]),
             crossed' = Crossing(p)
      PROVE  TypeInv'
  <2>1. i \in Inodes /\ NewFd(p) \in Fds \ {0}
    BY <1>4, Lowest DEF creatable, Unused
  <2> DEFINE object == [o EXCEPT !.at = "header", !.fd = NewFd(p), !.path = n, !.file = i]
  <2>2. object \in Blooms /\ Stage(p, object)
    BY <2>1 DEF Blooms, Ats, Stage, Creating, Opening
  <2>3. fdt' \in [Procs -> Tables]
    BY <1>4, <2>1, OpenTyped
  <2>4. inode' \in [Inodes -> Files] /\ dir' \in [Names -> Inodes \cup {NoFile}]
    BY <1>4, <2>1, Situation DEF TypeInv
  <2>5. crossed' \in BOOLEAN
    BY <1>4 DEF Crossing, TypeInv
  <2>6. QED  BY <1>1, <1>2, <1>4, <2>2, <2>3, <2>4, <2>5, ObjectTyped
<1>5. QED  BY <1>3, <1>4 DEF WriteOpen

\* The steps keep the types.
LEMMA NextTypes == TypeInv /\ [Next]_vars => TypeInv'
<1> SUFFICES ASSUME TypeInv, [Next]_vars PROVE TypeInv'
  OBVIOUS
<1>1. CASE UNCHANGED vars
  <2>1. UNCHANGED << setup, inode, dir, fdt, bloom, past, crossed >>
    BY <1>1 DEF vars
  <2>2. Objects' = Objects /\ \A o \in Objects : At(o)' = At(o)
    BY <2>1 DEF Objects, At
  <2>3. \A o \in Objects : At(o)' \in Blooms /\ Stage(o[1], At(o))'
    BY <2>1, <2>2 DEF TypeInv, Stage
  <2>4. QED  BY <2>1, <2>2, <2>3 DEF TypeInv
<1>2. ASSUME NEW p \in Procs, Crash(p) \/ Restart(p)
      PROVE  TypeInv'
  BY <1>2, EndTyped DEF Crash, Restart
<1>3. ASSUME NEW p \in Procs, NEW b \in setup.filters[p], NEW n \in setup.names,
             \/ Create(p, b, n)
             \/ Write(p, b, n)
             \/ OpenFails(p, b, n)
             \/ Open(p, b, n)
      PROVE  TypeInv'
  <2> DEFINE o == bloom[p][b]
  <2>1. /\ o \in Blooms /\ Stage(p, o) /\ OnFd(p, o) \in Inodes \cup {Free}
        /\ Zeroed \in Blooms /\ Stage(p, Zeroed)
    BY Typed
  <2>2. n \in Names
    BY Situation DEF TypeInv
  <2>3. CASE Create(p, b, n)
    BY <2>1, <2>2, <2>3, WriteOpenTyped, Situation DEF Create, Zeroed, OnFd, Fds, TypeInv
  <2>4. CASE Write(p, b, n)
    BY <2>1, <2>2, <2>4, WriteOpenTyped DEF Write, Stage
  <2>5. CASE OpenFails(p, b, n)
    <3> DEFINE object == [Zeroed EXCEPT !.at = "failed", !.fd = -1]
    <3>1. object \in Blooms /\ Stage(p, object)
      <4>1. object \in Blooms
         BY <2>1 DEF Blooms, Ats
      <4>2. /\ object.at = "failed"
              /\ object.fd = -1 /\ object.vec = Zeroed.vec /\ object.path = Zeroed.path
              /\ object.file = Zeroed.file /\ object.memory = Zeroed.memory /\ object.added = Zeroed.added
              /\ object.written = Zeroed.written /\ object.item = Zeroed.item /\ object.loaded = Zeroed.loaded
         BY <2>1 DEF Blooms
      <4> HIDE DEF object
      <4>3. QED  BY <2>1, <4>1, <4>2 DEF Stage, Creating, Opening, Zeroed
    <3>2. QED  BY <2>5, <3>1, ObjectTyped DEF OpenFails, TypeInv, files, notes
  <2>6. CASE Open(p, b, n)
    <3> DEFINE object == [Zeroed EXCEPT !.at = "read", !.fd = NewFd(p), !.path = n,
                                        !.file = dir[n]]
    <3>1. dir[n] \in Inodes /\ NewFd(p) \in Fds \ {0}
      BY <2>2, <2>6, Lowest DEF Open, TypeInv
    <3>2. object \in Blooms /\ Stage(p, object)
      BY <2>1, <2>2, <3>1, ZenonT(60) DEF Blooms, Ats, Stage, Creating, Opening, Zeroed
    <3>3. fdt' \in [Procs -> Tables] /\ crossed' \in BOOLEAN
      BY <2>6, <3>1, OpenTyped DEF Open, TypeInv, Crossing
    <3>4. QED  BY <2>6, <3>2, <3>3, ObjectTyped DEF Open, TypeInv, files
  <2>7. QED  BY <1>3, <2>3, <2>4, <2>5, <2>6
<1>4. ASSUME NEW p \in Procs, NEW b \in setup.filters[p],
             \/ CreateInMemory(p, b)
             \/ WriteHeader(p, b)
             \/ WriteChunk(p, b)
             \/ WriteFails(p, b)
             \/ CreateMaps(p, b)
             \/ WriteReturns(p, b)
             \/ OpenExits(p, b)
             \/ OpenRejects(p, b)
             \/ OpenReads(p, b)
             \/ OpenCloses(p, b)
             \/ OpenMaps(p, b)
             \/ AddStore(p, b)
             \/ AddCount(p, b)
             \/ Clear(p, b)
             \/ \E h \in setup.items : AddLoad(p, b, h) \/ Fault(p, b, h)
      PROVE  TypeInv'
  <2> DEFINE o == bloom[p][b]
  <2>1. /\ o \in Blooms /\ Stage(p, o) /\ OnFd(p, o) \in Inodes \cup {Free}
        /\ Zeroed \in Blooms /\ Stage(p, Zeroed)
    BY Typed
  <2>a. o \in Blooms /\ OnFd(p, o) \in Inodes \cup {Free}
    BY <2>1
  <2>b. 0 \in 0 .. Chunks
    BY Situation DEF TypeInv
  <2>0. /\ Chunks \in Nat \ {0} /\ setup.items \subseteq Items
        /\ inode \in [Inodes -> Files] /\ dir \in [Names -> Inodes \cup {NoFile}]
        /\ past \in [Inodes -> Pasts] /\ fdt \in [Procs -> Tables] /\ crossed \in BOOLEAN
    BY Situation DEF TypeInv
  <2>2. CASE CreateInMemory(p, b)
    <3> DEFINE object == [Zeroed EXCEPT !.at = "ready", !.vec = "memory"]
    <3>1. object \in Blooms /\ Stage(p, object)
      BY <2>1, <2>2, ZenonT(60) DEF Blooms, Ats, Stage, Creating, Opening, Zeroed, CreateInMemory
    <3>2. QED  BY <2>0, <2>2, <3>1, ObjectTyped DEF CreateInMemory, files, notes
  <2>3. CASE WriteHeader(p, b)
    <3> DEFINE object == [o EXCEPT !.at = "vector"]
    <3>1. object \in Blooms /\ Stage(p, object)
      BY <2>0, <2>1, <2>3 DEF Blooms, Ats, Stage, Creating, Opening, WriteHeader
    <3>2. inode' \in [Inodes -> Files]
      BY <2>1, <2>3, InfoTyped DEF WriteHeader
    <3>3. past' \in [Inodes -> Pasts]
      BY <2>0, <2>1, <2>3, ZenonT(60) DEF WriteHeader, Pasts
    <3>4. QED  BY <2>0, <2>3, <3>1, <3>2, <3>3, ObjectTyped DEF WriteHeader
  <2>4. CASE WriteChunk(p, b)
    <3> DEFINE object == [o EXCEPT !.written = @ + 1,
                            !.at = IF o.written + 1 < Chunks THEN "vector" ELSE "map"]
               i == OnFd(p, o)
    <3>1. object \in Blooms /\ Stage(p, object)
      <4>1. o.written + 1 \in 0 .. Chunks
        BY <2>0, <2>1, <2>4 DEF Stage, WriteChunk, Blooms
      <4>2. CASE o.written + 1 < Chunks
        <5>1. object \in Blooms
          BY <2>0, <2>1, <2>4, <4>1, <4>2 DEF Blooms, Ats
        <5>2. /\ object.at = "vector"
               /\ object.fd = o.fd /\ object.vec = o.vec /\ object.path = o.path
               /\ object.file = o.file /\ object.memory = o.memory /\ object.added = o.added
               /\ object.written = o.written + 1 /\ object.item = o.item /\ object.loaded = o.loaded
          BY <2>0, <2>1, <2>4, <4>1, <4>2 DEF Blooms
        <5> HIDE DEF object
        <5>3. QED  BY <2>0, <2>1, <2>4, <4>1, <4>2, <5>1, <5>2 DEF Stage, Creating, Opening, Ats, WriteChunk
      <4>3. CASE ~ (o.written + 1 < Chunks)
        <5>1. object \in Blooms
          BY <2>0, <2>1, <2>4, <4>1, <4>3 DEF Blooms, Ats
        <5>2. /\ object.at = "map"
               /\ object.fd = o.fd /\ object.vec = o.vec /\ object.path = o.path
               /\ object.file = o.file /\ object.memory = o.memory /\ object.added = o.added
               /\ object.written = o.written + 1 /\ object.item = o.item /\ object.loaded = o.loaded
          BY <2>0, <2>1, <2>4, <4>1, <4>3 DEF Blooms
        <5> HIDE DEF object
        <5>3. QED  BY <2>0, <2>1, <2>4, <4>1, <4>3, <5>1, <5>2 DEF Stage, Creating, Opening, Ats, WriteChunk
      <4>4. QED  BY <4>2, <4>3
    <3>2. inode' \in [Inodes -> Files]
      <4> DEFINE inChunk == { h \in Items : chunkOf[h] = o.written + 1 }
      <4>1. i \in Inodes /\ o.written + 1 \in 0 .. Chunks /\ inode[i].chunks \in 0 .. Chunks
        BY <2>0, <2>1, <2>4 DEF WriteChunk, Stage, Blooms, Files
      <4>2. Max({inode[i].chunks, o.written + 1}) \in 0 .. Chunks
        <5> DEFINE c == inode[i].chunks
                   w == o.written + 1
        <5>1. c \in 0 .. Chunks /\ w \in 0 .. Chunks /\ Chunks \in Nat
          BY <2>0, <4>1
        <5> HIDE DEF c, w
        <5>2. Max({c, w}) \in {c, w}
          <6>1. c \in Int /\ w \in Int
            BY <5>1
          <6>2. QED  BY <6>1, Greater
        <5>3. QED  BY <5>1, <5>2 DEF c, w
      <4>3. (inode[i].vector \ inChunk) \cup (o.memory \cap inChunk) \subseteq Items
        BY <2>0, <2>1, <4>1 DEF Files, Blooms
      <4>4. inode' = [inode EXCEPT ![i].chunks = Max({inode[i].chunks, o.written + 1}),
                        ![i].vector = (inode[i].vector \ inChunk) \cup (o.memory \cap inChunk)]
        BY <2>0, <2>4, <4>1 DEF WriteChunk
      <4> HIDE DEF i, inChunk, o
      <4>5. QED  BY <2>0, <4>1, <4>2, <4>3, <4>4, ZenonT(60) DEF Files
    <3>3. QED  BY <2>0, <2>4, <3>1, <3>2, ObjectTyped DEF WriteChunk, notes
  <2>5. CASE WriteFails(p, b)
    <3> DEFINE object == [o EXCEPT !.at = "failed"]
    <3>1. object \in Blooms /\ Stage(p, object)
      BY <2>1, <2>5 DEF Blooms, Ats, Stage, Creating, Opening, WriteFails, Writing
    <3>2. dir' \in [Names -> Inodes \cup {NoFile}]
      BY <2>0, <2>5 DEF WriteFails, unlinked
    <3>3. QED  BY <2>0, <2>5, <3>1, <3>2, ObjectTyped DEF WriteFails, notes
  <2>6. CASE CreateMaps(p, b)
    <3> DEFINE mapped == [o EXCEPT !.at = "ready", !.vec = "file", !.written = 0,
                                   !.file = OnFd(p, o)]
               failed == [o EXCEPT !.at = "ready", !.vec = "MAP_FAILED", !.written = 0]
    <3>0. o.at = "map" /\ o.vec = "none"
      BY <2>6 DEF CreateMaps
    <3>1. failed \in Blooms /\ Stage(p, failed)
      <4>1. failed \in Blooms
        BY <2>a, <2>b DEF Blooms, Ats
      <4>2. /\ failed.at = "ready"
             /\ failed.fd = o.fd /\ failed.vec = "MAP_FAILED" /\ failed.path = o.path
             /\ failed.file = o.file /\ failed.memory = o.memory /\ failed.added = o.added
             /\ failed.written = 0 /\ failed.item = o.item /\ failed.loaded = o.loaded
        BY <2>0, <2>1, <3>0 DEF Blooms
      <4> HIDE DEF failed
      <4>3. QED  BY <2>0, <2>1, <3>0, <4>1, <4>2 DEF Stage, Creating, Opening, Ats
    <3>2. ASSUME OnFd(p, o) # Free
          PROVE  mapped \in Blooms /\ Stage(p, mapped)
      <4>1. mapped \in Blooms
        BY <2>a, <2>b, <3>2 DEF Blooms, Ats
      <4>2. /\ mapped.at = "ready"
             /\ mapped.fd = o.fd /\ mapped.vec = "file" /\ mapped.path = o.path
             /\ mapped.file = OnFd(p, o) /\ mapped.memory = o.memory /\ mapped.added = o.added
             /\ mapped.written = 0 /\ mapped.item = o.item /\ mapped.loaded = o.loaded
        BY <2>0, <2>1, <3>0, <3>2 DEF Blooms
      <4> HIDE DEF mapped
      <4>3. QED  BY <2>0, <2>1, <3>0, <3>2, <4>1, <4>2 DEF Stage, Creating, Opening, Ats
    <3>3. past' \in [Inodes -> Pasts]
      <4>1. o.file \in Inodes
        BY <2>1, <3>0, SMTT(30) DEF Stage, Creating, Opening
      <4>2. QED  BY <2>0, <2>6, <4>1, SessionTyped DEF CreateMaps
    <3>4. QED  BY <2>0, <2>6, <3>1, <3>2, <3>3, ObjectTyped DEF CreateMaps, files
  <2>7. CASE WriteReturns(p, b)
    <3> DEFINE object == [o EXCEPT !.at = "ready", !.written = 0]
    <3>0. o.at = "map" /\ o.vec = "memory"
      BY <2>7 DEF WriteReturns
    <3>1. object \in Blooms /\ Stage(p, object)
      <4>1. object \in Blooms
        BY <2>a, <2>b DEF Blooms, Ats
      <4>2. /\ object.at = "ready"
             /\ object.fd = o.fd /\ object.vec = o.vec /\ object.path = o.path
             /\ object.file = o.file /\ object.memory = o.memory /\ object.added = o.added
             /\ object.written = 0 /\ object.item = o.item /\ object.loaded = o.loaded
        BY <2>0, <2>1, <3>0 DEF Blooms
      <4> HIDE DEF object
      <4>3. QED  BY <2>0, <2>1, <3>0, <4>1, <4>2 DEF Stage, Creating, Opening, Ats
    <3>2. past' \in [Inodes -> Pasts]
      <4>1. past' = [past EXCEPT ![o.file].adds = @ \cup o.memory,
                                 ![o.file].calls = @ + o.added]
        BY <2>7 DEF WriteReturns
      <4>2. o.file \in Inodes /\ o.memory \subseteq Items /\ o.added \in Nat
        BY <2>1, <3>0 DEF Stage, Creating, Opening, Blooms
      <4>3. past[o.file] \in Pasts
        BY <2>0, <4>2
      <4>4. past[o.file].adds \cup o.memory \subseteq Items /\ past[o.file].calls + o.added \in Nat
        BY <4>2, <4>3 DEF Pasts
      <4>5. QED  BY <2>0, <4>1, <4>2, <4>3, <4>4 DEF Pasts
    <3>3. QED  BY <2>0, <2>7, <3>1, <3>2, ObjectTyped DEF WriteReturns, files
  <2>8. CASE OpenExits(p, b)
    BY <2>8, EndTyped DEF OpenExits
  <2>9. CASE OpenRejects(p, b)
    <3> DEFINE object == [o EXCEPT !.at = "failed"]
    <3>1. object \in Blooms /\ Stage(p, object)
      BY <2>1, <2>9 DEF Blooms, Ats, Stage, Creating, Opening, OpenRejects
    <3>2. QED  BY <2>0, <2>9, <3>1, ObjectTyped DEF OpenRejects, files, notes
  <2>10. CASE OpenReads(p, b)
    <3> DEFINE good == inode[o.file].header = "good"
               used == p \in setup.writers /\ good /\ Used(<< p, b >>, o)
               object == [o EXCEPT !.at = IF good THEN "mapping" ELSE "closing",
                                   !.added = inode[o.file].added]
    <3>1. o.file \in Inodes /\ inode[o.file].added \in Nat
      BY <2>0, <2>1, <2>10 DEF OpenReads, Stage, Opening, Files
    <3>2. Set(p, b, object) /\ past' = [past EXCEPT ![o.file].shared = @ \/ used]
      BY <2>10 DEF OpenReads
    <3> HIDE DEF good, used
    <3>3. object \in Blooms /\ Stage(p, object)
      BY <2>1, <2>10, <3>1 DEF Blooms, Ats, Stage, Creating, Opening, OpenReads
    <3>4. past' \in [Inodes -> Pasts]
      BY <2>0, <3>1, <3>2 DEF Pasts
    <3>5. QED  BY <2>0, <2>10, <3>2, <3>3, <3>4, ObjectTyped DEF OpenReads, files
  <2>18. CASE OpenCloses(p, b)
    <3> DEFINE object == [o EXCEPT !.at = "failed"]
    <3>1. object \in Blooms /\ Stage(p, object)
      BY <2>1, <2>18 DEF Blooms, Ats, Stage, Creating, Opening, OpenCloses
    <3>2. fdt' = Closed(p, o.fd)
      BY <2>1, <2>18 DEF OpenCloses, Closed, Stage, Opening
    <3>3. fdt' \in [Procs -> Tables]
      BY <3>2, CloseTyped
    <3>4. QED  BY <2>0, <2>18, <3>1, <3>3, ObjectTyped DEF OpenCloses, files, notes
  <2>11. CASE OpenMaps(p, b)
    <3> DEFINE mapped == [o EXCEPT !.at = "ready", !.vec = "file", !.file = OnFd(p, o)]
               failed == [o EXCEPT !.at = "failed", !.vec = "MAP_FAILED"]
    <3>1. o.file \in Inodes
      BY <2>0, <2>1, <2>11 DEF OpenMaps, Stage, Opening
    <3>3. failed \in Blooms /\ Stage(p, failed)
      BY <2>0, <2>1, <2>11, <3>1 DEF Blooms, Ats, Stage, Creating, Opening, OpenMaps
    <3>4. OnFd(p, o) # Free => mapped \in Blooms /\ Stage(p, mapped)
      BY <2>0, <2>1, <2>11, <3>1 DEF Blooms, Ats, Stage, Creating, Opening, OpenMaps
    <3>5. past' \in [Inodes -> Pasts]
      <4>1. past' = past \/ Session(o)
        BY <2>11 DEF OpenMaps
      <4>2. QED  BY <2>0, <3>1, <4>1, SessionTyped
    <3>6. QED  BY <2>0, <2>11, <3>3, <3>4, <3>5, ObjectTyped DEF OpenMaps, files
  <2>12. ASSUME NEW h \in setup.items, AddLoad(p, b, h)
         PROVE  TypeInv'
    <3> DEFINE object == [o EXCEPT !.at = IF h \in Vector(o) THEN "count" ELSE "store",
                            !.item = {h}, !.loaded = Vector(o) \cap OfByte(h)]
    <3>1. Vector(o) \cap OfByte(h) \subseteq Items /\ h \in Items
      BY <2>0 DEF OfByte
    <3>2. o.vec \in {"file", "memory"} /\ o.at = "ready" /\ p \in setup.writers
      BY <2>12 DEF AddLoad, Reachable
    <3>3. object \in Blooms /\ Stage(p, object)
      <4> DEFINE v == Vector(o)
      <4> HIDE DEF v
      <4>1. CASE h \in v
        <5>1. object \in Blooms
          BY <2>1, <3>1, <3>2, <4>1 DEF Blooms, Ats, v
        <5>2. /\ object.at = "count"
               /\ object.fd = o.fd /\ object.vec = o.vec /\ object.path = o.path
               /\ object.file = o.file /\ object.memory = o.memory /\ object.added = o.added
               /\ object.written = o.written /\ object.item = {h} /\ object.loaded = Vector(o) \cap OfByte(h)
          BY <2>1, <3>1, <3>2, <4>1 DEF Blooms, v
        <5> HIDE DEF object
        <5>3. QED  BY <2>1, <3>1, <3>2, <4>1, <5>1, <5>2 DEF Stage, Creating, Opening, Ats
      <4>2. CASE h \notin v
        <5>1. object \in Blooms
          BY <2>1, <3>1, <3>2, <4>2 DEF Blooms, Ats, v
        <5>2. /\ object.at = "store"
               /\ object.fd = o.fd /\ object.vec = o.vec /\ object.path = o.path
               /\ object.file = o.file /\ object.memory = o.memory /\ object.added = o.added
               /\ object.written = o.written /\ object.item = {h} /\ object.loaded = Vector(o) \cap OfByte(h)
          BY <2>1, <3>1, <3>2, <4>2 DEF Blooms, v
        <5> HIDE DEF object
        <5>3. QED  BY <2>1, <3>1, <3>2, <4>2, <5>1, <5>2 DEF Stage, Creating, Opening, Ats
      <4>3. QED  BY <4>1, <4>2
    <3>4. QED  BY <2>0, <2>12, <3>3, ObjectTyped DEF AddLoad, files, notes
  <2>13. CASE AddStore(p, b)
    <3> DEFINE stored == (Vector(o) \ UNION { OfByte(h) : h \in o.item }) \cup storedByte(o)
               counting == [o EXCEPT !.at = "count", !.loaded = {}]
               kept == [counting EXCEPT !.memory = stored]
    <3>1. counting \in Blooms /\ Stage(p, counting)
      BY <2>0, <2>1, <2>13, ZenonT(60) DEF Blooms, Ats, Stage, Creating, Opening, AddStore
    <3>2. Vector(o) \subseteq Items /\ storedByte(o) \subseteq Items
      BY <2>0, <2>1, <2>13 DEF AddStore, Vector, storedByte, Blooms, Stage, Files
    <3>3. stored \subseteq Items
      BY <3>2
    <3>4. CASE /\ o.vec = "file"
               /\ inode' = [inode EXCEPT ![o.file].vector = stored]
               /\ past' = [past EXCEPT ![o.file].raced =
                    IF overtaken(<< p, b >>, o) THEN @ \cup o.item ELSE @ \ o.item]
               /\ Set(p, b, counting)
      <4>1. o.file \in Inodes /\ o.item \subseteq Items
        BY <2>1, <3>4 DEF Stage, Blooms
      <4> HIDE DEF counting, stored
      <4>2. inode' \in [Inodes -> Files]
        BY <2>0, <3>3, <3>4, <4>1, SMTT(30) DEF Files
      <4>3. past' \in [Inodes -> Pasts]
        <5> DEFINE f == o.file
                   raced == IF overtaken(<< p, b >>, o) THEN past[f].raced \cup o.item
                                                        ELSE past[f].raced \ o.item
        <5>1. past' = [past EXCEPT ![f] = [@ EXCEPT !.raced = raced]]
          BY <3>4
        <5>2. past \in [Inodes -> Pasts] /\ past[f] \in Pasts /\ f \in Inodes
          BY <2>0, <4>1
        <5>3. raced \subseteq Items
          BY <4>1, <5>2 DEF Pasts
        <5> HIDE DEF raced, f
        <5>4. [past[f] EXCEPT !.raced = raced] \in Pasts
          BY <5>2, <5>3 DEF Pasts
        <5>5. QED  BY <5>1, <5>2, <5>4
      <4>4. QED  BY <2>0, <2>13, <3>1, <3>4, <4>2, <4>3, ObjectTyped DEF AddStore
    <3>5. CASE o.vec = "memory" /\ Set(p, b, kept) /\ UNCHANGED << inode, past >>
      <4>1. kept \in Blooms /\ Stage(p, kept)
        <5> HIDE DEF stored
        <5>1. kept \in Blooms
          BY <2>0, <2>1, <2>13, <3>3, <3>5 DEF Blooms, Ats
        <5>2. /\ kept.at = "count"
               /\ kept.fd = o.fd /\ kept.vec = o.vec /\ kept.path = o.path
               /\ kept.file = o.file /\ kept.memory = stored /\ kept.added = o.added
               /\ kept.written = o.written /\ kept.item = o.item /\ kept.loaded = {}
          BY <2>0, <2>1, <2>13, <3>3, <3>5 DEF Blooms
        <5> HIDE DEF kept
        <5>3. QED  BY <2>0, <2>1, <2>13, <3>3, <3>5, <5>1, <5>2 DEF Stage, Creating, Opening, Ats, AddStore
      <4>2. QED  BY <2>0, <2>13, <3>5, <4>1, ObjectTyped DEF AddStore
    <3>6. QED  BY <2>13, <3>4, <3>5 DEF AddStore
  <2>14. CASE AddCount(p, b)
    <3> DEFINE object == [o EXCEPT !.at = "ready", !.added = @ + 1, !.item = {}, !.loaded = {}]
    <3>0. o.at = "count"
      BY <2>14 DEF AddCount
    <3>1. object \in Blooms /\ Stage(p, object)
      <4>1. object \in Blooms
        <5>1. o.added + 1 \in Nat
          BY <2>a DEF Blooms
        <5>2. QED  BY <2>a, <2>b, <5>1 DEF Blooms, Ats
      <4>2. /\ object.at = "ready"
             /\ object.fd = o.fd /\ object.vec = o.vec /\ object.path = o.path
             /\ object.file = o.file /\ object.memory = o.memory /\ object.added = o.added + 1
             /\ object.written = o.written /\ object.item = {} /\ object.loaded = {}
        BY <2>0, <2>1, <3>0 DEF Blooms
      <4> HIDE DEF object
      <4>3. QED  BY <2>0, <2>1, <3>0, <4>1, <4>2 DEF Stage, Creating, Opening, Ats
    <3>2. OnFd(p, object) = OnFd(p, o)
      BY <2>1 DEF OnFd, Blooms
    <3>3. inode' \in [Inodes -> Files]
      BY <2>0, <2>1, <2>14, <3>1, <3>2, InfoTyped DEF AddCount
    <3>4. past' \in [Inodes -> Pasts]
      <4>1. o.item \subseteq Items /\ (o.vec = "file" => o.file \in Inodes)
        BY <2>1, SMTT(30) DEF Blooms, Stage
      <4>2. CASE o.vec = "file"
        <5>1. PICK miss \in {0, 1} :
                past' = [past EXCEPT ![o.file].adds = @ \cup o.item, ![o.file].calls = @ + 1,
                                     ![o.file].missed = @ + miss]
          BY <2>14, <4>2 DEF AddCount
        <5>2. past[o.file] \in Pasts /\ o.file \in Inodes
          BY <2>0, <4>1, <4>2
        <5>3. /\ past[o.file].adds \cup o.item \subseteq Items
              /\ past[o.file].calls + 1 \in Nat /\ past[o.file].missed + miss \in Nat
          BY <4>1, <5>2 DEF Pasts
        <5>4. QED  BY <2>0, <5>1, <5>2, <5>3 DEF Pasts
      <4>3. CASE o.vec # "file"
        BY <2>0, <2>14, <4>3 DEF AddCount
      <4>4. QED  BY <4>2, <4>3
    <3>5. QED  BY <2>0, <2>14, <3>1, <3>3, <3>4, ObjectTyped DEF AddCount
  <2>15. CASE Clear(p, b)
    BY <2>0, <2>1, <2>15, CloseTyped, ObjectTyped DEF Clear, files, notes
  <2>16. ASSUME NEW h \in setup.items, Fault(p, b, h)
         PROVE  TypeInv'
    BY <2>16, EndTyped DEF Fault
  <2>17. QED  BY <1>4, <2>2, <2>3, <2>4, <2>5, <2>6, <2>7, <2>8, <2>9, <2>10, <2>11, <2>12,
                 <2>13, <2>14, <2>15, <2>16, <2>18
<1>5. QED  BY <1>1, <1>2, <1>3, <1>4 DEF Next

\* Initially the types are right.
LEMMA InitTypes == Init => TypeInv
<1> SUFFICES ASSUME Init PROVE TypeInv
  OBVIOUS
<1>0. /\ setup \in Setups /\ setup.file \in Files /\ EmptyFile \in Files
      /\ setup.names \subseteq Names /\ setup.filters \in [Procs -> SUBSET Filters]
      /\ MaxFd \in Nat /\ MaxFiles \in Nat /\ Chunks \in Nat
  BY Situation DEF Init
<1>1. inode \in [Inodes -> Files]
  BY <1>0 DEF Init
<1>2. dir \in [Names -> Inodes \cup {NoFile}]
  <2>1. setup.file # EmptyFile => 1 \in Inodes
    BY <1>0, BloomFileAssumption DEF BloomFileAssumption, Inodes
  <2>2. PICK n \in setup.names :
          dir = [m \in Names |-> IF m = n /\ setup.file # EmptyFile THEN 1 ELSE NoFile]
    BY DEF Init
  <2>3. QED  BY <2>1, <2>2
<1>3. fdt \in [Procs -> Tables]
  <2>1. FreshTable \in Tables
    BY <1>0 DEF FreshTable, Tables, Fds, Stdin, Free
  <2>2. QED  BY <2>1 DEF Init
<1>4. past \in [Inodes -> Pasts]
  <2>1. \A i \in Inodes : inode[i].vector \subseteq Items /\ inode[i].added \in Nat
    BY <1>1 DEF Files
  <2>2. Fresh \in Pasts
    BY DEF Fresh, Pasts
  <2>3. QED  BY <2>1, <2>2, ZenonT(60) DEF Init, Pasts
<1>5. bloom = [p \in Procs |-> [b \in setup.filters[p] |-> Zeroed]]
  BY DEF Init
<1>6. bloom = [p \in Procs |-> [b \in setup.filters[p] |-> bloom[p][b]]]
  BY <1>5
<1>7. Zeroed \in Blooms
  BY <1>0 DEF Zeroed, Blooms, Ats, Fds
<1>8. \A p : Stage(p, Zeroed)
  <2>1. Zeroed = [Zeroed EXCEPT !.at = "zero"]
    BY DEF Zeroed
  <2>2. QED  BY <2>1 DEF Zeroed, Stage, Creating, Opening
<1>9. \A o \in Objects : At(o) = Zeroed
  BY <1>5 DEF Objects, At
<1>10. QED  BY <1>0, <1>1, <1>2, <1>3, <1>4, <1>6, <1>7, <1>8, <1>9 DEF TypeInv, Init

-----------------------------------------------------------------------------
\* The history of a file: what has happened to it has.
Since(i) ==
  /\ past[i].dropped => past'[i].dropped
  /\ past[i].abandoned => past'[i].abandoned
  /\ past[i].detached => past'[i].detached
  /\ past[i].shared => past'[i].shared
  /\ past[i].calls <= past'[i].calls

\* A step adds to the history of a file and takes nothing back.
LEMMA HistoryGrows ==
  ASSUME TypeInv, [Next]_vars, NEW i \in Inodes
  PROVE  Since(i)
<1>0. past \in [Inodes -> Pasts] /\ past[i] \in Pasts /\ past[i].calls \in Nat
  BY DEF TypeInv, Pasts
<1>1. ASSUME past' = past
      PROVE  Since(i)
  BY <1>0, <1>1 DEF Since
<1>2. ASSUME NEW p \in Procs, NEW at, Ends(p, at)
      PROVE  Since(i)
  BY <1>0, <1>2 DEF Since, Ends, Pasts
<1>3. ASSUME NEW p \in Procs, NEW b \in setup.filters[p], NEW n, NEW o, WriteOpen(p, b, n, o)
      PROVE  Since(i)
  <2>1. past' = past \/ past' = [past EXCEPT ![OnFd(p, o)].dropped = TRUE]
    BY <1>3 DEF WriteOpen
  <2>2. QED  BY <1>0, <2>1 DEF Since, Pasts
<1>4. ASSUME NEW p \in Procs, NEW b \in setup.filters[p],
             \/ CreateInMemory(p, b)
             \/ WriteHeader(p, b)
             \/ WriteChunk(p, b)
             \/ WriteFails(p, b)
             \/ CreateMaps(p, b)
             \/ WriteReturns(p, b)
             \/ OpenExits(p, b)
             \/ OpenRejects(p, b)
             \/ OpenReads(p, b)
             \/ OpenCloses(p, b)
             \/ OpenMaps(p, b)
             \/ AddStore(p, b)
             \/ AddCount(p, b)
             \/ Clear(p, b)
             \/ \E h \in setup.items : AddLoad(p, b, h) \/ Fault(p, b, h)
      PROVE  Since(i)
  <2> DEFINE o == bloom[p][b]
  <2>1. o \in Blooms
    BY Typed
  <2>2. CASE WriteHeader(p, b)
    BY <1>0, <2>2 DEF WriteHeader, Since, Pasts
  <2>3. ASSUME NEW s, Session(s)
        PROVE  Since(i)
    BY <1>0, <2>3 DEF Session, Since, Pasts
  <2>4. CASE CreateMaps(p, b) \/ OpenMaps(p, b)
    BY <1>1, <2>3, <2>4 DEF CreateMaps, OpenMaps
  <2>5. CASE WriteReturns(p, b)
    <3>1. past' = [past EXCEPT ![o.file].adds = @ \cup o.memory, ![o.file].calls = @ + o.added]
      BY <2>5 DEF WriteReturns
    <3>2. o.added \in Nat
      BY <2>1 DEF Blooms
    <3> HIDE DEF o
    <3>3. QED  BY <1>0, <3>1, <3>2 DEF Since, Pasts
  <2>6. CASE AddStore(p, b)
    <3>1. \/ past' = past
          \/ \E r : past' = [past EXCEPT ![o.file].raced = r]
      BY <2>6 DEF AddStore
    <3>2. ASSUME NEW r, past' = [past EXCEPT ![o.file].raced = r]
          PROVE  Since(i)
      BY <1>0, <3>2 DEF Since, Pasts
    <3>3. QED  BY <1>1, <3>1, <3>2
  <2>7. CASE AddCount(p, b)
    <3>1. \/ past' = past
          \/ \E miss \in {0, 1} :
               past' = [past EXCEPT ![o.file].adds = @ \cup o.item, ![o.file].calls = @ + 1,
                                    ![o.file].missed = @ + miss]
      BY <2>7 DEF AddCount
    <3> HIDE DEF o
    <3>2. QED  BY <1>0, <1>1, <3>1 DEF Since, Pasts
  <2>11. CASE OpenReads(p, b)
    <3> DEFINE used == p \in setup.writers /\ inode[o.file].header = "good" /\ Used(<< p, b >>, o)
    <3>1. past' = [past EXCEPT ![o.file].shared = @ \/ used]
      BY <2>11 DEF OpenReads
    <3> HIDE DEF o, used
    <3>2. QED  BY <1>0, <3>1 DEF Since, Pasts
  <2>8. CASE OpenExits(p, b) \/ \E h \in setup.items : Fault(p, b, h)
    BY <1>2, <2>8, SMTT(30) DEF OpenExits, Fault
  <2>9. CASE \/ CreateInMemory(p, b)
             \/ WriteChunk(p, b)
             \/ WriteFails(p, b)
             \/ OpenRejects(p, b)
             \/ OpenCloses(p, b)
             \/ Clear(p, b)
             \/ \E h \in setup.items : AddLoad(p, b, h)
    BY <1>1, <2>9 DEF CreateInMemory, WriteChunk, WriteFails, OpenRejects, OpenCloses, Clear,
                      AddLoad, notes
  <2>10. QED  BY <1>4, <2>2, <2>4, <2>5, <2>6, <2>7, <2>8, <2>9, <2>11
<1>5. CASE UNCHANGED vars
  BY <1>1, <1>5 DEF vars
<1>6. ASSUME NEW p \in Procs, Crash(p) \/ Restart(p)
      PROVE  Since(i)
  BY <1>2, <1>6 DEF Crash, Restart
<1>7. ASSUME NEW p \in Procs, NEW b \in setup.filters[p], NEW n \in setup.names,
             \/ Create(p, b, n)
             \/ Write(p, b, n)
             \/ OpenFails(p, b, n)
             \/ Open(p, b, n)
      PROVE  Since(i)
  BY <1>1, <1>3, <1>7 DEF Create, Write, OpenFails, Open, notes
<1>8. QED  BY <1>4, <1>5, <1>6, <1>7 DEF Next

-----------------------------------------------------------------------------
(***************************************************************************)
(* Descriptors.  An object can keep what it has, give it up, or be given a *)
(* new one; or its process ends.                                           *)
(***************************************************************************)
LEMMA DescriptorKept ==
  ASSUME TypeInv, TypeInv', DescriptorInv, [Next]_vars, UNCHANGED << setup, fdt >>,
         NEW p \in Procs, NEW b \in setup.filters[p], NEW object, Set(p, b, object),
         object.fd = bloom[p][b].fd,
         object.file = bloom[p][b].file \/ object.file = OnFd(p, bloom[p][b]),
         object.at # "failed" => bloom[p][b].at # "failed",
         object.vec = "file" =>
           bloom[p][b].vec = "file" \/ object.file = OnFd(p, bloom[p][b])
  PROVE  DescriptorInv'
<1> DEFINE me == << p, b >>
<1>1. /\ Objects' = Objects /\ me \in Objects
      /\ \A o \in Objects : o # me => At(o)' = At(o)
      /\ At(me)' = object /\ At(me) = bloom[p][b] /\ me[1] = p
  BY OneObject, ObjectPairs
<1>2. \A o \in Objects : FdOf(o)' = FdOf(o) /\ At(o)'.fd = At(o).fd
  BY <1>1 DEF FdOf, OnFd
<1>3. ASSUME NEW o \in Objects
      PROVE  /\ FdOf(o)' \in {At(o)'.file, Free}
             /\ At(o)'.at # "failed" => At(o)'.fd = 0 \/ FdOf(o)' # Free
             /\ At(o)'.vec = "file" => FdOf(o)' = At(o)'.file
  <2>1. CASE o = me
    BY <1>1, <1>2, <2>1 DEF DescriptorInv, FdOf
  <2>2. CASE o # me
    BY <1>1, <1>2, <2>2 DEF DescriptorInv
  <2>3. QED  BY <2>1, <2>2
<1>4. ASSUME NEW o1 \in Objects, NEW o2 \in Objects,
             o1[1] = o2[1], At(o1)'.fd = At(o2)'.fd, FdOf(o1)' # Free
      PROVE  o1 = o2
  BY <1>2, <1>4 DEF DescriptorInv
<1>5. ASSUME NEW q \in Procs, NEW d \in Fds \ {0}, fdt'[q][d] # Free
      PROVE  Owned(q, d)'
  <2>1. fdt[q][d] \in Inodes /\ fdt'[q][d] = fdt[q][d]
    BY <1>5 DEF TypeInv, Tables
  <2>2. Owned(q, d)
    BY <1>5 DEF DescriptorInv
  <2>3. CASE past[fdt[q][d]].dropped
    BY <2>1, <2>3, HistoryGrows DEF Owned, Since
  <2>4. CASE \E c \in setup.filters[q] : bloom[q][c].fd = d
    <3>1. PICK c \in setup.filters[q] : bloom[q][c].fd = d
      BY <2>4
    <3>2. << q, c >> \in Objects /\ At(<< q, c >>).fd = d /\ At(<< q, c >>)'.fd = d
      BY <1>2, <3>1, ObjectPairs
    <3>3. bloom'[q][c].fd = d
      BY <3>2 DEF At
    <3>4. QED  BY <3>3 DEF Owned
  <2>5. QED  BY <2>2, <2>3, <2>4 DEF Owned
<1>6. QED  BY <1>1, <1>3, <1>4, <1>5 DEF DescriptorInv

\* An object that has closed its descriptor has none.
LEMMA DescriptorGone ==
  ASSUME TypeInv, TypeInv', DescriptorInv, [Next]_vars, UNCHANGED setup,
         NEW p \in Procs, NEW b \in setup.filters[p], NEW object, Set(p, b, object),
         fdt' = Closed(p, bloom[p][b].fd), object.fd \in {0, bloom[p][b].fd},
         object.at # "failed" => object.fd = 0, object.vec # "file"
  PROVE  DescriptorInv'
<1> DEFINE me == << p, b >>
           fd == bloom[p][b].fd
<1>1. /\ Objects' = Objects /\ me \in Objects
      /\ \A o \in Objects : o # me => At(o)' = At(o)
      /\ At(me)' = object /\ At(me) = bloom[p][b] /\ me[1] = p
  BY OneObject, ObjectPairs
<1>2. \A q \in Procs : \A d \in Fds \ {0} :
        fdt'[q][d] = IF q = p /\ d = fd THEN Free ELSE fdt[q][d]
  BY DEF Closed, TypeInv, Tables
<1>3. FdOf(me)' = Free
  BY <1>1, <1>2 DEF FdOf, OnFd
<1>4. ASSUME NEW o \in Objects, o # me
      PROVE  FdOf(o)' = FdOf(o)
  <2>1. At(o)' = At(o) /\ o[1] \in Procs
    BY <1>1, <1>4, ObjectPairs
  <2>2. CASE o[1] = p /\ At(o).fd = fd
    <3>1. FdOf(o) = Free
      BY <1>1, <1>4, <2>2 DEF DescriptorInv
    <3>2. QED  BY <1>2, <2>1, <2>2, <3>1 DEF FdOf, OnFd
  <2>3. CASE ~ (o[1] = p /\ At(o).fd = fd)
    BY <1>2, <2>1, <2>3 DEF FdOf, OnFd
  <2>4. QED  BY <2>2, <2>3
<1>5. ASSUME NEW o \in Objects
      PROVE  /\ FdOf(o)' \in {At(o)'.file, Free}
             /\ At(o)'.at # "failed" => At(o)'.fd = 0 \/ FdOf(o)' # Free
             /\ At(o)'.vec = "file" => FdOf(o)' = At(o)'.file
  <2>1. CASE o = me
    BY <1>1, <1>3, <2>1
  <2>2. CASE o # me
    BY <1>1, <1>4, <2>2 DEF DescriptorInv
  <2>3. QED  BY <2>1, <2>2
<1>6. ASSUME NEW o1 \in Objects, NEW o2 \in Objects,
             o1[1] = o2[1], At(o1)'.fd = At(o2)'.fd, FdOf(o1)' # Free
      PROVE  o1 = o2
  <2>1. FdOf(o2)' # Free
    BY <1>6 DEF FdOf, OnFd
  <2>2. o1 # me /\ o2 # me
    BY <1>3, <1>6, <2>1
  <2>3. QED  BY <1>1, <1>4, <1>6, <2>2 DEF DescriptorInv
<1>7. ASSUME NEW q \in Procs, NEW d \in Fds \ {0}, fdt'[q][d] # Free
      PROVE  Owned(q, d)'
  <2>1. fdt[q][d] \in Inodes /\ fdt'[q][d] = fdt[q][d] /\ ~ (q = p /\ d = fd) /\ fdt[q][d] # Free
    <3>1. fdt \in [Procs -> Tables] /\ q \in Procs /\ d \in Fds \ {0}
      BY <1>7 DEF TypeInv
    <3>2. fdt'[q][d] = fdt[q][d] /\ ~ (q = p /\ d = fd)
      BY <1>2, <1>7, <3>1 DEF Tables
    <3>3. fdt[q] \in Tables
      BY <3>1
    <3>4. fdt[q][d] \in Inodes
      BY <1>7, <3>1, <3>2, <3>3 DEF Tables
    <3>5. QED  BY <1>7, <3>2, <3>4
  <2>2. Owned(q, d)
    BY <2>1 DEF DescriptorInv
  <2>3. CASE past[fdt[q][d]].dropped
    BY <2>1, <2>3, HistoryGrows DEF Owned, Since
  <2>4. CASE \E c \in setup.filters[q] : bloom[q][c].fd = d
    <3>1. PICK c \in setup.filters[q] : bloom[q][c].fd = d
      BY <2>4
    <3>2. << q, c >> \in Objects /\ At(<< q, c >>).fd = d /\ << q, c >> # me
      BY <2>1, <3>1, ObjectPairs
    <3>3. bloom'[q][c].fd = d
      BY <1>1, <3>2 DEF At
    <3>4. QED  BY <3>3 DEF Owned
  <2>5. QED  BY <2>2, <2>3, <2>4 DEF Owned
<1>8. QED  BY <1>1, <1>5, <1>6, <1>7 DEF DescriptorInv

\* What a filter in memory had open is left over.
LEMMA DescriptorNew ==
  ASSUME TypeInv, TypeInv', DescriptorInv, [Next]_vars, UNCHANGED setup,
         NEW p \in Procs, NEW b \in setup.filters[p], NEW object, Set(p, b, object),
         object.vec # "file",
         OnFd(p, bloom[p][b]) # Free => past'[OnFd(p, bloom[p][b])].dropped,
         \/ fdt' = fdt /\ object.fd = -1 /\ object.at = "failed"
         \/ /\ FreeFds(p) # {} /\ ~ Crossing(p)
            /\ object.file \in Inodes
            /\ object.fd = NewFd(p)
            /\ fdt' = [fdt EXCEPT ![p][NewFd(p)] = object.file]
  PROVE  DescriptorInv'
<1> DEFINE me == << p, b >>
           fd == object.fd
<1>1. /\ Objects' = Objects /\ me \in Objects
      /\ \A o \in Objects : o # me => At(o)' = At(o)
      /\ At(me)' = object /\ At(me) = bloom[p][b] /\ me[1] = p
  BY OneObject, ObjectPairs
<1>2. \/ fd = -1 /\ object.at = "failed"
      \/ fd \in Fds \ {0} /\ fdt[p][fd] = Free /\ object.file \in Inodes
  BY Lowest
<1>3. \A q \in Procs : \A d \in Fds \ {0} :
        fdt'[q][d] = IF q = p /\ d = fd THEN object.file ELSE fdt[q][d]
  <2>1. -1 \notin Fds
    BY Situation DEF Fds, TypeInv
  <2>2. QED  BY <1>2, <2>1, Lowest DEF TypeInv, Tables
<1>4. \A o \in Objects : o[1] = p /\ fd # -1 => At(o).fd # fd
  BY <1>2, ObjectPairs DEF Crossing
<1>5. FdOf(me)' = IF fd = -1 THEN Free ELSE object.file
  <2>1. -1 \notin Fds
    BY Situation DEF Fds, TypeInv
  <2>2. QED  BY <1>1, <1>2, <1>3, <2>1 DEF FdOf, OnFd
<1>6. ASSUME NEW o \in Objects, o # me
      PROVE  FdOf(o)' = FdOf(o)
  <2>1. At(o)' = At(o) /\ o[1] \in Procs
    BY <1>1, <1>6, ObjectPairs
  <2>2. -1 \notin Fds
    BY Situation DEF Fds, TypeInv
  <2>3. QED  BY <1>3, <1>4, <2>1, <2>2 DEF FdOf, OnFd
<1>7. ASSUME NEW o \in Objects
      PROVE  /\ FdOf(o)' \in {At(o)'.file, Free}
             /\ At(o)'.at # "failed" => At(o)'.fd = 0 \/ FdOf(o)' # Free
             /\ At(o)'.vec = "file" => FdOf(o)' = At(o)'.file
  <2>1. CASE o = me
    <3>1. object.file \in Inodes => object.file # Free
      BY Situation DEF TypeInv, Inodes, Free
    <3>2. FdOf(o)' \in {object.file, Free} /\ (object.at # "failed" => FdOf(o)' # Free)
      <4>1. -1 \notin Fds
        BY Situation DEF Fds, TypeInv
      <4>2. QED  BY <1>2, <1>5, <2>1, <3>1, <4>1
    <3>3. At(o)' = object
      BY <1>1, <2>1
    <3>4. QED  BY <3>2, <3>3
  <2>2. CASE o # me
    BY <1>1, <1>6, <2>2 DEF DescriptorInv
  <2>3. QED  BY <2>1, <2>2
<1>8. ASSUME NEW o1 \in Objects, NEW o2 \in Objects,
             o1[1] = o2[1], At(o1)'.fd = At(o2)'.fd, FdOf(o1)' # Free
      PROVE  o1 = o2
  <2>1. CASE o1 # me /\ o2 # me
    BY <1>1, <1>6, <1>8, <2>1 DEF DescriptorInv
  <2>2. CASE o1 = me /\ o2 # me
    BY <1>1, <1>4, <1>5, <1>8, <2>2
  <2>3. CASE o1 # me /\ o2 = me
    <3>1. FdOf(o2)' # Free
      BY <1>8 DEF FdOf, OnFd
    <3>2. QED  BY <1>1, <1>4, <1>5, <1>8, <2>3, <3>1
  <2>4. QED  BY <2>1, <2>2, <2>3
<1>9. ASSUME NEW q \in Procs, NEW d \in Fds \ {0}, fdt'[q][d] # Free
      PROVE  Owned(q, d)'
  <2>1. CASE q = p /\ d = fd
    <3>1. bloom'[p][b].fd = d
      BY <1>1, <2>1 DEF At
    <3>2. QED  BY <2>1, <3>1 DEF Owned
  <2>2. CASE ~ (q = p /\ d = fd)
    <3>1. fdt[q][d] \in Inodes /\ fdt'[q][d] = fdt[q][d] /\ fdt[q][d] # Free
      BY <1>3, <1>9, <2>2 DEF TypeInv, Tables
    <3>2. Owned(q, d)
      BY <3>1 DEF DescriptorInv
    <3>3. CASE past[fdt[q][d]].dropped
      BY <3>1, <3>3, HistoryGrows DEF Owned, Since
    <3>4. CASE \E c \in setup.filters[q] : bloom[q][c].fd = d
      <4>1. PICK c \in setup.filters[q] : bloom[q][c].fd = d
        BY <3>4
      <4>2. << q, c >> \in Objects /\ At(<< q, c >>).fd = d
        BY <4>1, ObjectPairs
      <4>3. CASE << q, c >> = me
        <5>1. OnFd(p, bloom[p][b]) = fdt[q][d]
          BY <4>1, <4>3 DEF OnFd
        <5>2. QED  BY <3>1, <5>1 DEF Owned
      <4>4. CASE << q, c >> # me
        <5>1. bloom'[q][c].fd = d
          BY <1>1, <4>2, <4>4 DEF At
        <5>2. QED  BY <5>1 DEF Owned
      <4>5. QED  BY <4>3, <4>4
    <3>5. QED  BY <3>2, <3>3, <3>4 DEF Owned
  <2>3. QED  BY <2>1, <2>2
<1>10. QED  BY <1>1, <1>7, <1>8, <1>9 DEF DescriptorInv

\* The end of a process closes the descriptors of all its objects.
LEMMA DescriptorsEnd ==
  ASSUME TypeInv, TypeInv', DescriptorInv, [Next]_vars,
         NEW p \in Procs, NEW at, at # "failed", Ends(p, at)
  PROVE  DescriptorInv'
<1>1. /\ Objects' = Objects /\ setup' = setup
      /\ \A o \in Objects : At(o)' = IF o[1] = p THEN [Zeroed EXCEPT !.at = at] ELSE At(o)
  BY AllEnd
<1>2. \A q \in Procs : fdt'[q] = IF q = p THEN FreshTable ELSE fdt[q]
  BY DEF Ends, TypeInv
<1>3. \A o \in Objects : FdOf(o)' = IF o[1] = p THEN Free ELSE FdOf(o)
  BY <1>1, <1>2, ObjectPairs DEF FdOf, OnFd, Zeroed
<1>4. \A o \in Objects : o[1] = p => At(o)'.fd = 0 /\ At(o)'.at # "failed" /\ At(o)'.vec = "none"
  BY <1>1 DEF Zeroed
<1>5. ASSUME NEW o1 \in Objects, NEW o2 \in Objects,
             o1[1] = o2[1], At(o1)'.fd = At(o2)'.fd, FdOf(o1)' # Free
      PROVE  o1 = o2
  BY <1>1, <1>3, <1>5 DEF DescriptorInv
<1>6. ASSUME NEW q \in Procs, NEW d \in Fds \ {0}, fdt'[q][d] # Free
      PROVE  Owned(q, d)'
  <2>1. q # p
    BY <1>2, <1>6 DEF FreshTable
  <2>2. fdt[q][d] \in Inodes /\ fdt'[q][d] = fdt[q][d] /\ fdt[q][d] # Free
    BY <1>2, <1>6, <2>1 DEF TypeInv, Tables
  <2>3. Owned(q, d)
    BY <2>2 DEF DescriptorInv
  <2>4. CASE past[fdt[q][d]].dropped
    BY <2>2, <2>4, HistoryGrows DEF Owned, Since
  <2>5. CASE \E c \in setup.filters[q] : bloom[q][c].fd = d
    <3>1. PICK c \in setup.filters[q] : bloom[q][c].fd = d
      BY <2>5
    <3>2. << q, c >> \in Objects /\ At(<< q, c >>).fd = d
      BY <3>1, ObjectPairs
    <3>3. bloom'[q][c].fd = d
      BY <1>1, <2>1, <3>2 DEF At
    <3>4. QED  BY <1>1, <3>3 DEF Owned
  <2>6. QED  BY <2>3, <2>4, <2>5 DEF Owned
<1>7. \A o \in Objects :
        /\ FdOf(o)' \in {At(o)'.file, Free}
        /\ At(o)'.at # "failed" => At(o)'.fd = 0 \/ FdOf(o)' # Free
        /\ At(o)'.vec = "file" => FdOf(o)' = At(o)'.file
  BY <1>1, <1>3, <1>4 DEF DescriptorInv
<1>8. QED  BY <1>1, <1>5, <1>6, <1>7 DEF DescriptorInv

\* A step that uses no descriptor of another file keeps them apart.
LEMMA NextDescriptors ==
  ASSUME TypeInv, TypeInv', DescriptorInv, [Next]_vars, ~ crossed'
  PROVE  DescriptorInv'
<1>1. CASE UNCHANGED vars
  <2>1. UNCHANGED << setup, fdt, bloom, past >>
    BY <1>1 DEF vars
  <2>2. Objects' = Objects /\ \A o \in Objects : At(o)' = At(o)
    BY <2>1 DEF Objects, At
  <2>3. \A o \in Objects : FdOf(o)' = FdOf(o)
    BY <2>1, <2>2 DEF FdOf, OnFd
  <2>4. \A p \in Procs : \A d \in Fds \ {0} : Owned(p, d)' <=> Owned(p, d)
    BY <2>1 DEF Owned
  <2>5. QED  BY <2>1, <2>2, <2>3, <2>4 DEF DescriptorInv
<1>2. ASSUME NEW p \in Procs, Crash(p) \/ Restart(p)
      PROVE  DescriptorInv'
  BY <1>2, DescriptorsEnd DEF Crash, Restart
<1>3. ASSUME NEW p \in Procs, NEW b \in setup.filters[p], NEW n \in setup.names,
             \/ Create(p, b, n)
             \/ Write(p, b, n)
             \/ OpenFails(p, b, n)
             \/ Open(p, b, n)
      PROVE  DescriptorInv'
  <2> DEFINE o == bloom[p][b]
  <2>1. /\ o \in Blooms /\ Stage(p, o) /\ OnFd(p, o) \in Inodes \cup {Free}
        /\ n \in Names
    BY Typed, Situation DEF TypeInv
  <2>2. o.at = "zero" => o = Zeroed
    BY <2>1 DEF Stage, Zeroed
  <2>3. OnFd(p, Zeroed) = Free
    BY DEF OnFd, Zeroed
  <2>4. ASSUME NEW s, WriteOpen(p, b, n, s), s = o, s.vec # "file"
        PROVE  DescriptorInv'
    <3>1. OnFd(p, o) # Free => past'[OnFd(p, o)].dropped
      <4>1. CASE OnFd(p, o) # Free
        <5>1. past' = [past EXCEPT ![OnFd(p, o)].dropped = TRUE]
          BY <2>4, <4>1 DEF WriteOpen
        <5>2. past \in [Inodes -> Pasts] /\ OnFd(p, o) \in Inodes
          BY <2>1, <4>1 DEF TypeInv
        <5>3. QED  BY <5>1, <5>2 DEF Pasts
      <4>2. QED  BY <4>1
    <3>2. CASE /\ Set(p, b, [s EXCEPT !.at = "failed", !.fd = -1])
               /\ UNCHANGED << files, fdt, crossed >>
      <4> DEFINE object == [s EXCEPT !.at = "failed", !.fd = -1]
      <4>1. object.fd = -1 /\ object.at = "failed" /\ object.vec # "file"
        BY <2>1, <2>4 DEF Blooms
      <4> HIDE DEF object
      <4>2. QED  BY <2>4, <3>1, <3>2, <4>1, DescriptorNew DEF WriteOpen, object
    <3>3. ASSUME FreeFds(p) # {}, NEW i \in creatable(n),
                 fdt' = [fdt EXCEPT ![p][NewFd(p)] = i],
                 Set(p, b, [s EXCEPT !.at = "header", !.fd = NewFd(p), !.path = n, !.file = i]),
                 crossed' = Crossing(p)
          PROVE  DescriptorInv'
      <4> DEFINE object == [s EXCEPT !.at = "header", !.fd = NewFd(p), !.path = n, !.file = i]
      <4>1. object.fd = NewFd(p) /\ object.file = i /\ object.vec # "file"
        BY <2>1, <2>4 DEF Blooms
      <4>2. i \in Inodes
        BY <3>3 DEF creatable, Unused
      <4>3. Set(p, b, object) /\ UNCHANGED setup
        BY <2>4, <3>3 DEF WriteOpen
      <4> HIDE DEF object
      <4>4. QED  BY <3>1, <3>3, <4>1, <4>2, <4>3, DescriptorNew
    <3>4. QED  BY <2>4, <3>2, <3>3 DEF WriteOpen
  <2>5. CASE Create(p, b, n)
    BY <2>2, <2>4, <2>5 DEF Create, Zeroed
  <2>6. CASE Write(p, b, n)
    BY <2>4, <2>6 DEF Write
  <2>7. CASE OpenFails(p, b, n)
    <3> DEFINE object == [Zeroed EXCEPT !.at = "failed", !.fd = -1]
    <3>1. object.fd = -1 /\ object.at = "failed" /\ object.vec # "file"
      BY DEF Zeroed
    <3>2. OnFd(p, o) = Free /\ fdt' = fdt /\ Set(p, b, object) /\ UNCHANGED setup
      BY <2>2, <2>3, <2>7 DEF OpenFails, notes
    <3> HIDE DEF object
    <3>3. QED  BY <3>1, <3>2, DescriptorNew
  <2>8. CASE Open(p, b, n)
    <3> DEFINE object == [Zeroed EXCEPT !.at = "read", !.fd = NewFd(p), !.path = n,
                                        !.file = dir[n]]
    <3>1. object.fd = NewFd(p) /\ object.file = dir[n] /\ object.vec # "file"
      BY DEF Zeroed
    <3>2. dir[n] \in Inodes
      BY <2>1, <2>8 DEF Open, TypeInv
    <3>3. OnFd(p, o) = Free /\ FreeFds(p) # {} /\ Set(p, b, object) /\ UNCHANGED setup
          /\ ~ Crossing(p) /\ fdt' = [fdt EXCEPT ![p][NewFd(p)] = dir[n]]
      BY <2>2, <2>3, <2>8 DEF Open
    <3> HIDE DEF object
    <3>4. QED  BY <3>1, <3>2, <3>3, DescriptorNew
  <2>9. QED  BY <1>3, <2>5, <2>6, <2>7, <2>8
<1>4. ASSUME NEW p \in Procs, NEW b \in setup.filters[p],
             \/ CreateInMemory(p, b)
             \/ WriteHeader(p, b)
             \/ WriteChunk(p, b)
             \/ WriteFails(p, b)
             \/ CreateMaps(p, b)
             \/ WriteReturns(p, b)
             \/ OpenExits(p, b)
             \/ OpenRejects(p, b)
             \/ OpenReads(p, b)
             \/ OpenCloses(p, b)
             \/ OpenMaps(p, b)
             \/ AddStore(p, b)
             \/ AddCount(p, b)
             \/ Clear(p, b)
             \/ \E h \in setup.items : AddLoad(p, b, h) \/ Fault(p, b, h)
      PROVE  DescriptorInv'
  <2> DEFINE o == bloom[p][b]
  <2>1. /\ o \in Blooms /\ Stage(p, o) /\ OnFd(p, o) \in Inodes \cup {Free}
    BY Typed
  <2>2. ASSUME NEW object, Set(p, b, object), UNCHANGED << setup, fdt >>, o.at # "failed",
               object.fd = o.fd,
               \/ object.file = o.file /\ (object.vec = "file" => o.vec = "file")
               \/ object.file = OnFd(p, o)
        PROVE  DescriptorInv'
    BY <2>2, DescriptorKept
  <2>3. CASE CreateInMemory(p, b)
    <3> DEFINE object == [Zeroed EXCEPT !.at = "ready", !.vec = "memory"]
    <3>1. object.fd = o.fd /\ object.file = o.file /\ object.vec = "memory" /\ o.at # "failed"
      BY <2>1, <2>3 DEF CreateInMemory, Stage, Zeroed
    <3>2. QED  BY <2>2, <2>3, <3>1 DEF CreateInMemory, notes
  <2>4. CASE WriteHeader(p, b)
    BY <2>1, <2>2, <2>4 DEF WriteHeader, Blooms
  <2>5. CASE WriteChunk(p, b)
    BY <2>1, <2>2, <2>5 DEF WriteChunk, Blooms, notes
  <2>6. CASE WriteFails(p, b)
    BY <2>1, <2>2, <2>6 DEF WriteFails, Blooms, notes, Writing
  <2>7. CASE CreateMaps(p, b)
    BY <2>1, <2>2, <2>7 DEF CreateMaps, Blooms
  <2>8. CASE WriteReturns(p, b)
    BY <2>1, <2>2, <2>8 DEF WriteReturns, Blooms
  <2>9. CASE OpenExits(p, b)
    BY <2>9, DescriptorsEnd DEF OpenExits
  <2>10. CASE OpenRejects(p, b)
    BY <2>1, <2>2, <2>10 DEF OpenRejects, Blooms, notes
  <2>19. CASE OpenReads(p, b)
    BY <2>1, <2>2, <2>19 DEF OpenReads, Blooms
  <2>11. CASE OpenCloses(p, b)
    <3> DEFINE object == [o EXCEPT !.at = "failed"]
    <3>1. object.at = "failed" /\ object.fd = o.fd /\ object.vec # "file"
      BY <2>1, <2>11 DEF OpenCloses, Blooms, Stage, Opening
    <3>2. fdt' = Closed(p, o.fd)
      BY <2>1, <2>11 DEF OpenCloses, Closed, Stage, Opening
    <3>3. Set(p, b, object) /\ UNCHANGED setup
      BY <2>11 DEF OpenCloses, notes
    <3> HIDE DEF object
    <3>4. QED  BY <3>1, <3>2, <3>3, DescriptorGone
  <2>12. CASE OpenMaps(p, b)
    <3>1. o.at = "mapping" /\ UNCHANGED << setup, fdt >>
      BY <2>12 DEF OpenMaps
    <3>2. CASE Set(p, b, [o EXCEPT !.at = "ready", !.vec = "file", !.file = OnFd(p, o)])
      BY <2>1, <2>2, <3>1, <3>2 DEF Blooms
    <3>3. CASE Set(p, b, [o EXCEPT !.at = "failed", !.vec = "MAP_FAILED"])
      BY <2>1, <2>2, <3>1, <3>3 DEF Blooms
    <3>4. QED  BY <2>12, <3>2, <3>3 DEF OpenMaps
  <2>13. ASSUME NEW h \in setup.items, AddLoad(p, b, h)
         PROVE  DescriptorInv'
    BY <2>1, <2>2, <2>13 DEF AddLoad, Blooms, notes
  <2>14. CASE AddStore(p, b)
    <3>1. o.at = "store" /\ UNCHANGED << setup, fdt >>
      BY <2>14 DEF AddStore
    <3>2. CASE Set(p, b, [o EXCEPT !.at = "count", !.loaded = {}])
      BY <2>1, <2>2, <3>1, <3>2 DEF Blooms
    <3>3. ASSUME NEW s, Set(p, b, [[o EXCEPT !.at = "count", !.loaded = {}] EXCEPT !.memory = s])
          PROVE  DescriptorInv'
      <4> DEFINE object == [[o EXCEPT !.at = "count", !.loaded = {}] EXCEPT !.memory = s]
      <4>1. object.fd = o.fd /\ object.file = o.file /\ object.vec = o.vec
        BY <2>1 DEF Blooms
      <4> HIDE DEF object
      <4>2. QED  BY <2>2, <3>1, <3>3, <4>1 DEF object
    <3>4. QED  BY <2>14, <3>2, <3>3 DEF AddStore
  <2>15. CASE AddCount(p, b)
    BY <2>1, <2>2, <2>15 DEF AddCount, Blooms
  <2>16. CASE Clear(p, b)
    <3>1. Zeroed.fd = 0 /\ Zeroed.vec # "file" /\ Zeroed.at # "failed"
      BY DEF Zeroed
    <3>2. QED  BY <2>16, <3>1, DescriptorGone DEF Clear, notes
  <2>17. ASSUME NEW h \in setup.items, Fault(p, b, h)
         PROVE  DescriptorInv'
    BY <2>17, DescriptorsEnd DEF Fault
  <2>18. QED  BY <1>4, <2>3, <2>4, <2>5, <2>6, <2>7, <2>8, <2>9, <2>10, <2>11, <2>12, <2>13,
                 <2>14, <2>15, <2>16, <2>17, <2>19
<1>5. QED  BY <1>1, <1>2, <1>3, <1>4, SMTT(30) DEF Next

-----------------------------------------------------------------------------
(***************************************************************************)
(* Files.  A step changes at most one of them, by a header, a chunk or a   *)
(* byte of the vector.                                                     *)
(***************************************************************************)
\* The step of an object changes its file.
Informs(p, b, i) ==
  /\ WriteHeader(p, b) \/ AddCount(p, b)
  /\ OnFd(p, bloom[p][b]) = i
  /\ i # Free
  /\ inode'[i] = [inode[i] EXCEPT !.header = "good", !.added = bloom'[p][b].added]

\* A write() of one more chunk of the vector.
Extends(p, b, i) == WriteChunk(p, b) /\ OnFd(p, bloom[p][b]) = i

\* A store of one byte through the map.
Stores(p, b, i) ==
  AddStore(p, b) /\ bloom[p][b].vec = "file" /\ bloom[p][b].file = i

\* A file that is made is one that nobody used, and it is empty.
LEMMA MadeEmpty ==
  ASSUME TypeInv, NEW p, NEW b, NEW n, NEW o, WriteOpen(p, b, n, o)
  PROVE  inode' = inode
<1>1. \/ inode' = inode
      \/ \E i \in creatable(n) : inode' = [inode EXCEPT ![i] = EmptyFile]
  BY DEF WriteOpen, files
<1>2. ASSUME NEW i \in creatable(n), inode' = [inode EXCEPT ![i] = EmptyFile]
      PROVE  inode' = inode
  <2>1. i \in Inodes /\ inode[i] = EmptyFile
    BY DEF creatable, Unused
  <2>2. QED  BY <1>2, <2>1 DEF TypeInv
<1>3. QED  BY <1>1, <1>2

\* A file changes only by an update of its header, by a write() or by a store.
LEMMA FileSteps ==
  ASSUME TypeInv, [Next]_vars, NEW i \in Inodes
  PROVE  \/ inode'[i] = inode[i]
         \/ \E p \in Procs : \E b \in setup.filters[p] :
              Informs(p, b, i) \/ Extends(p, b, i) \/ Stores(p, b, i)
<1> DEFINE Changed == \E p \in Procs : \E b \in setup.filters[p] :
                        Informs(p, b, i) \/ Extends(p, b, i) \/ Stores(p, b, i)
<1>1. CASE UNCHANGED vars
  BY <1>1 DEF vars
<1>2. ASSUME NEW p \in Procs, Crash(p) \/ Restart(p)
      PROVE  inode' = inode
  BY <1>2 DEF Crash, Restart, Ends, files
<1>3. ASSUME NEW p \in Procs, NEW b \in setup.filters[p], NEW n \in setup.names,
             \/ Create(p, b, n)
             \/ Write(p, b, n)
             \/ OpenFails(p, b, n)
             \/ Open(p, b, n)
      PROVE  inode' = inode
  BY <1>3, MadeEmpty DEF Create, Write, OpenFails, Open, files
<1>4. ASSUME NEW p \in Procs, NEW b \in setup.filters[p],
             \/ CreateInMemory(p, b)
             \/ WriteHeader(p, b)
             \/ WriteChunk(p, b)
             \/ WriteFails(p, b)
             \/ CreateMaps(p, b)
             \/ WriteReturns(p, b)
             \/ OpenExits(p, b)
             \/ OpenRejects(p, b)
             \/ OpenReads(p, b)
             \/ OpenCloses(p, b)
             \/ OpenMaps(p, b)
             \/ AddStore(p, b)
             \/ AddCount(p, b)
             \/ Clear(p, b)
             \/ \E h \in setup.items : AddLoad(p, b, h) \/ Fault(p, b, h)
      PROVE  inode'[i] = inode[i] \/ Changed
  <2> DEFINE o == bloom[p][b]
  <2>1. o \in Blooms /\ OnFd(p, o) \in Inodes \cup {Free} /\ inode \in [Inodes -> Files]
    BY Typed DEF TypeInv
  <2>2. CASE \/ CreateInMemory(p, b)
             \/ WriteFails(p, b)
             \/ CreateMaps(p, b)
             \/ WriteReturns(p, b)
             \/ OpenExits(p, b)
             \/ OpenRejects(p, b)
             \/ OpenReads(p, b)
             \/ OpenCloses(p, b)
             \/ OpenMaps(p, b)
             \/ Clear(p, b)
             \/ \E h \in setup.items : AddLoad(p, b, h) \/ Fault(p, b, h)
    BY <2>2 DEF CreateInMemory, WriteFails, CreateMaps, WriteReturns, OpenExits, OpenRejects,
                OpenReads, OpenCloses, OpenMaps, Clear, AddLoad, Fault, Ends, files
  <2>3. CASE WriteHeader(p, b)
    <3>1. inode' = InfoUpdate(p, o) /\ OnFd(p, o) # Free
          /\ Set(p, b, [o EXCEPT !.at = "vector"]) /\ UNCHANGED setup
      BY <2>3 DEF WriteHeader
    <3>2. bloom'[p][b].added = o.added
      <4>1. At(<< p, b >>)' = [o EXCEPT !.at = "vector"]
        BY <3>1, OneObject
      <4>2. bloom'[p][b] = [o EXCEPT !.at = "vector"]
        BY <4>1 DEF At
      <4>3. QED  BY <2>1, <4>2 DEF Blooms
    <3>3. CASE OnFd(p, o) = i
      BY <2>1, <2>3, <3>1, <3>2, <3>3 DEF InfoUpdate, Informs, Files
    <3>4. CASE OnFd(p, o) # i
      BY <2>1, <3>1, <3>4 DEF InfoUpdate
    <3>5. QED  BY <3>3, <3>4
  <2>4. CASE AddCount(p, b)
    <3> DEFINE counted == [o EXCEPT !.at = "ready", !.added = @ + 1, !.item = {}, !.loaded = {}]
    <3>1. (inode' = inode \/ inode' = InfoUpdate(p, counted)) /\ Set(p, b, counted)
          /\ UNCHANGED setup
      BY <2>4 DEF AddCount
    <3>2. bloom'[p][b] = counted
      <4>1. At(<< p, b >>)' = counted
        BY <3>1, OneObject
      <4>2. QED  BY <4>1 DEF At
    <3>3. OnFd(p, counted) = OnFd(p, o)
      BY <2>1 DEF Blooms, OnFd
    <3> HIDE DEF counted
    <3>4. CASE inode' = InfoUpdate(p, counted) /\ OnFd(p, o) = i /\ i # Free
      BY <2>1, <2>4, <3>2, <3>3, <3>4 DEF InfoUpdate, Informs, Files
    <3>5. CASE inode' = inode \/ ~ (OnFd(p, o) = i /\ i # Free)
      BY <2>1, <3>1, <3>3, <3>5 DEF InfoUpdate
    <3>6. QED  BY <3>1, <3>4, <3>5
  <2>5. CASE WriteChunk(p, b)
    <3>1. CASE OnFd(p, o) = i
      BY <2>5, <3>1 DEF Extends
    <3>2. CASE OnFd(p, o) # i
      <4>1. \E f : inode' = [inode EXCEPT ![OnFd(p, o)] = f]
        BY <2>1, <2>5 DEF WriteChunk
      <4>2. QED  BY <2>1, <3>2, <4>1
    <3>3. QED  BY <3>1, <3>2
  <2>6. CASE AddStore(p, b)
    <3>1. CASE o.vec = "file" /\ o.file = i
      BY <2>6, <3>1 DEF Stores
    <3>2. CASE ~ (o.vec = "file" /\ o.file = i)
      <4>1. \/ inode' = inode
            \/ o.vec = "file" /\ \E f : inode' = [inode EXCEPT ![o.file].vector = f]
        BY <2>6 DEF AddStore
      <4>2. QED  BY <2>1, <3>2, <4>1
    <3>3. QED  BY <3>1, <3>2
  <2>7. QED  BY <1>4, <2>2, <2>3, <2>4, <2>5, <2>6
<1>5. QED  BY <1>1, <1>2, <1>3, <1>4 DEF Next

\* What a write of a chunk does to its file.
LEMMA ChunkWritten ==
  ASSUME TypeInv, NEW p \in Procs, NEW b \in setup.filters[p], NEW i \in Inodes, Extends(p, b, i)
  PROVE  LET o == bloom[p][b]
             inChunk == { h \in Items : chunkOf[h] = o.written + 1 }
         IN  /\ o.at = "vector" /\ o.written \in Nat /\ o.written < Chunks
             /\ inode'[i].header = inode[i].header
             /\ inode'[i].added = inode[i].added
             /\ inode'[i].chunks >= inode[i].chunks
             /\ inode[i].chunks = o.written => inode'[i].chunks = o.written + 1
             /\ inode'[i].vector = (inode[i].vector \ inChunk) \cup (o.memory \cap inChunk)
             /\ Set(p, b, [o EXCEPT !.written = @ + 1,
                             !.at = IF o.written + 1 < Chunks THEN "vector" ELSE "map"])
             /\ past' = past
<1> DEFINE o == bloom[p][b]
           inChunk == { h \in Items : chunkOf[h] = o.written + 1 }
           kept == (inode[i].vector \ inChunk) \cup (o.memory \cap inChunk)
           longer == Max({inode[i].chunks, o.written + 1})
<1>1. o \in Blooms /\ Stage(p, o) /\ inode \in [Inodes -> Files] /\ OnFd(p, o) = i
  BY Typed DEF TypeInv, Extends
<1>2. o.written \in Nat /\ o.written < Chunks /\ o.at = "vector" /\ inode[i].chunks \in Nat
  <2>1. o.at = "vector"
    BY DEF Extends, WriteChunk
  <2>2. Chunks \in Nat
    BY Situation DEF TypeInv
  <2> HIDE DEF o
  <2>3. o.written \in 0 .. Chunks
    BY <1>1 DEF Blooms
  <2>4. o.written < Chunks
    BY <1>1, <2>1 DEF Stage
  <2>5. inode[i].chunks \in Nat
    BY <1>1 DEF Files
  <2>6. QED  BY <2>1, <2>2, <2>3, <2>4, <2>5
<1>3. inode' = [inode EXCEPT ![i].chunks = longer, ![i].vector = kept]
  BY <1>1 DEF Extends, WriteChunk
<1>4. longer \in {inode[i].chunks, o.written + 1} /\ longer >= inode[i].chunks
      /\ longer >= o.written + 1
  <2> DEFINE c == inode[i].chunks
             w == o.written + 1
  <2>1. c \in Int /\ w \in Int
    BY <1>2
  <2> HIDE DEF c, w
  <2>2. Max({c, w}) \in {c, w} /\ Max({c, w}) >= c /\ Max({c, w}) >= w
    BY <2>1, Greater
  <2>3. QED  BY <2>2 DEF c, w
<1> HIDE DEF longer, kept
<1>5. /\ inode'[i].header = inode[i].header /\ inode'[i].added = inode[i].added
      /\ inode'[i].chunks = longer /\ inode'[i].vector = kept
  BY <1>1, <1>3 DEF Files
<1>6. Set(p, b, [o EXCEPT !.written = @ + 1,
                   !.at = IF o.written + 1 < Chunks THEN "vector" ELSE "map"]) /\ past' = past
  BY DEF Extends, WriteChunk, notes
<1>7. QED  BY <1>2, <1>4, <1>5, <1>6 DEF kept

\* A file does not get shorter, and a good header stays.
LEMMA FileGrows ==
  ASSUME TypeInv, TypeInv', [Next]_vars, NEW i \in Inodes
  PROVE  /\ inode[i].header = "good" => inode'[i].header = "good"
         /\ inode[i].chunks <= inode'[i].chunks
         /\ Whole(inode[i]) => Whole(inode'[i])
<1>0. inode[i] \in Files /\ inode'[i] \in Files /\ Chunks \in Nat
  BY Situation DEF TypeInv
<1>1. /\ inode[i].header = "good" => inode'[i].header = "good"
      /\ inode[i].chunks <= inode'[i].chunks
  <2>1. inode[i].chunks \in Nat
    BY <1>0 DEF Files
  <2>2. CASE inode'[i] = inode[i]
    BY <2>1, <2>2
  <2>3. ASSUME NEW p \in Procs, NEW b \in setup.filters[p], Informs(p, b, i)
        PROVE  <1>1!:
    BY <1>0, <2>1, <2>3, SMTT(30) DEF Informs, Files
  <2>4. ASSUME NEW p \in Procs, NEW b \in setup.filters[p], Extends(p, b, i)
        PROVE  <1>1!:
    BY <2>1, <2>4, ChunkWritten
  <2>5. ASSUME NEW p \in Procs, NEW b \in setup.filters[p], Stores(p, b, i)
        PROVE  <1>1!:
    <3>1. \E v : inode' = [inode EXCEPT ![i].vector = v]
      BY <2>5 DEF Stores, AddStore
    <3>2. QED  BY <1>0, <2>1, <3>1 DEF TypeInv, Files
  <2>6. QED  BY <2>2, <2>3, <2>4, <2>5, FileSteps
<1>2. QED  BY <1>0, <1>1 DEF Whole, Files

-----------------------------------------------------------------------------
(***************************************************************************)
(* Names.                                                                  *)
(***************************************************************************)
\* Nothing is named, and nobody begins to write.
LEMMA NamesKept ==
  ASSUME TypeInv, NameInv, dir' = dir, Objects' = Objects,
         \A o \in Objects : Writing(At(o)') =>
           Writing(At(o)) /\ At(o)'.path = At(o).path /\ At(o)'.file = At(o).file
  PROVE  NameInv'
<1>1. \A n1, n2 \in Names : dir'[n1] = dir'[n2] /\ dir'[n1] # NoFile => n1 = n2
  BY DEF NameInv
<1>2. \A o \in Objects : Writing(At(o)') => dir'[At(o)'.path] = At(o)'.file
  BY DEF NameInv
<1>3. ASSUME NEW o1 \in Objects, NEW o2 \in Objects,
             Writing(At(o1)'), Writing(At(o2)'), At(o1)'.file = At(o2)'.file
      PROVE  o1 = o2
  BY <1>3 DEF NameInv
<1>4. QED  BY <1>1, <1>2, <1>3 DEF NameInv, Writing

\* The same of a step of one object.
LEMMA NamesKeptBy ==
  ASSUME TypeInv, NameInv, dir' = dir, UNCHANGED setup,
         NEW p \in Procs, NEW b \in setup.filters[p], NEW object, Set(p, b, object),
         Writing(object) =>
           /\ Writing(bloom[p][b])
           /\ object.path = bloom[p][b].path /\ object.file = bloom[p][b].file
  PROVE  NameInv'
<1>1. /\ Objects' = Objects /\ << p, b >> \in Objects
      /\ \A o \in Objects : o # << p, b >> => At(o)' = At(o)
      /\ At(<< p, b >>)' = object /\ At(<< p, b >>) = bloom[p][b]
  BY OneObject, ObjectPairs
<1>2. ASSUME NEW o \in Objects, Writing(At(o)')
      PROVE  Writing(At(o)) /\ At(o)'.path = At(o).path /\ At(o)'.file = At(o).file
  <2>1. CASE o = << p, b >>
    BY <1>1, <1>2, <2>1
  <2>2. CASE o # << p, b >>
    BY <1>1, <1>2, <2>2
  <2>3. QED  BY <2>1, <2>2
<1>3. QED  BY <1>1, <1>2, NamesKept

\* A file nobody uses gets a name nobody uses.
LEMMA NameGiven ==
  ASSUME TypeInv, NameInv, UNCHANGED setup,
         NEW p \in Procs, NEW b \in setup.filters[p], NEW object, Set(p, b, object),
         NEW n \in Names, NEW i \in creatable(n), dir' = [dir EXCEPT ![n] = i],
         object.path = n, object.file = i
  PROVE  NameInv'
<1> DEFINE me == << p, b >>
<1>1. /\ Objects' = Objects /\ me \in Objects
      /\ \A o \in Objects : o # me => At(o)' = At(o)
      /\ At(me)' = object
  BY OneObject
<1>2. /\ dir[n] = NoFile /\ i \in Inodes /\ i # NoFile
      /\ \A m \in Names : dir[m] # i
      /\ dir \in [Names -> Inodes \cup {NoFile}]
  BY Situation DEF TypeInv, creatable, Unused, Inodes, NoFile
<1>3. \A m \in Names : dir'[m] = IF m = n THEN i ELSE dir[m]
  BY <1>2
<1>4. ASSUME NEW o \in Objects, o # me, Writing(At(o)')
      PROVE  At(o)'.path # n /\ At(o)'.path \in Names /\ At(o)'.file # i
             /\ dir'[At(o)'.path] = At(o)'.file
  <2>1. At(o)' = At(o) /\ Stage(o[1], At(o))
    BY <1>1, <1>4 DEF TypeInv
  <2>2. At(o).path \in Names /\ At(o).file \in Inodes /\ dir[At(o).path] = At(o).file
    BY <1>4, <2>1 DEF Stage, Creating, Opening, Writing, NameInv
  <2>3. QED  BY <1>2, <1>3, <2>1, <2>2, Situation DEF TypeInv, Inodes, NoFile
<1>5. \A n1, n2 \in Names : dir'[n1] = dir'[n2] /\ dir'[n1] # NoFile => n1 = n2
  BY <1>2, <1>3 DEF NameInv
<1>6. \A o \in Objects : Writing(At(o)') => dir'[At(o)'.path] = At(o)'.file
  BY <1>1, <1>3, <1>4
<1>7. ASSUME NEW o1 \in Objects, NEW o2 \in Objects,
             Writing(At(o1)'), Writing(At(o2)'), At(o1)'.file = At(o2)'.file
      PROVE  o1 = o2
  <2>1. CASE o1 # me /\ o2 # me
    BY <1>1, <1>7, <2>1 DEF NameInv
  <2>2. CASE o1 = me \/ o2 = me
    BY <1>1, <1>4, <1>7, <2>2
  <2>3. QED  BY <2>1, <2>2
<1>8. QED  BY <1>1, <1>5, <1>6, <1>7 DEF NameInv, Writing

\* A write that fails removes the name of its own file.
LEMMA NameRemoved ==
  ASSUME TypeInv, NameInv, NEW p \in Procs, NEW b \in setup.filters[p], WriteFails(p, b)
  PROVE  NameInv'
<1> DEFINE me == << p, b >>
           n == bloom[p][b].path
<1>0. /\ Set(p, b, [bloom[p][b] EXCEPT !.at = "failed"]) /\ UNCHANGED setup
      /\ dir' = [dir EXCEPT ![n] = NoFile] /\ Writing(bloom[p][b])
      /\ dir \in [Names -> Inodes \cup {NoFile}]
  BY DEF WriteFails, notes, unlinked, TypeInv
<1>1. /\ Objects' = Objects /\ me \in Objects
      /\ \A o \in Objects : o # me => At(o)' = At(o)
      /\ At(me)' = [bloom[p][b] EXCEPT !.at = "failed"] /\ At(me) = bloom[p][b]
  BY <1>0, OneObject, ObjectPairs
<1>2. ~ Writing(At(me)')
  BY <1>1, Typed DEF Writing, Blooms
<1>3. ASSUME NEW o \in Objects, o # me, Writing(At(o)')
      PROVE  At(o)'.path \in Names /\ At(o)'.path # n /\ dir'[At(o)'.path] = At(o)'.file
  <2>1. At(o)' = At(o) /\ Stage(o[1], At(o))
    BY <1>1, <1>3 DEF TypeInv
  <2>2. At(o).path \in Names /\ dir[At(o).path] = At(o).file
    BY <1>3, <2>1 DEF Stage, Creating, Opening, Writing, NameInv
  <2>3. CASE At(o).path = n
    BY <1>0, <1>1, <1>3, <2>1, <2>2, <2>3 DEF NameInv
  <2>4. CASE At(o).path # n
    BY <1>0, <2>1, <2>2, <2>4
  <2>5. QED  BY <2>3, <2>4
<1>4. \A n1, n2 \in Names : dir'[n1] = dir'[n2] /\ dir'[n1] # NoFile => n1 = n2
  BY <1>0 DEF NameInv
<1>5. \A o \in Objects : Writing(At(o)') => dir'[At(o)'.path] = At(o)'.file
  BY <1>2, <1>3
<1>6. ASSUME NEW o1 \in Objects, NEW o2 \in Objects,
             Writing(At(o1)'), Writing(At(o2)'), At(o1)'.file = At(o2)'.file
      PROVE  o1 = o2
  BY <1>1, <1>2, <1>6 DEF NameInv
<1>7. QED  BY <1>1, <1>4, <1>5, <1>6 DEF NameInv, Writing

\* The steps keep the names.
LEMMA NextNames ==
  ASSUME TypeInv, NameInv, [Next]_vars
  PROVE  NameInv'
<1>1. CASE UNCHANGED vars
  BY <1>1 DEF vars, NameInv, Objects, At
<1>0. ASSUME NEW p \in Procs, NEW at, Ends(p, at), at \notin {"header", "vector"}
      PROVE  NameInv'
  <2>1. /\ Objects' = Objects /\ dir' = dir
        /\ \A o \in Objects : At(o)' = IF o[1] = p THEN [Zeroed EXCEPT !.at = at] ELSE At(o)
    BY <1>0, AllEnd DEF Ends, files
  <2>2. ~ Writing([Zeroed EXCEPT !.at = at])
    BY <1>0 DEF Writing, Zeroed
  <2>3. QED  BY <2>1, <2>2, NamesKept
<1>2. ASSUME NEW p \in Procs, Crash(p) \/ Restart(p)
      PROVE  NameInv'
  BY <1>0, <1>2 DEF Crash, Restart
<1>3. ASSUME NEW p \in Procs, NEW b \in setup.filters[p], NEW n \in setup.names,
             \/ Create(p, b, n)
             \/ Write(p, b, n)
             \/ OpenFails(p, b, n)
             \/ Open(p, b, n)
      PROVE  NameInv'
  <2>1. n \in Names /\ Zeroed \in Blooms /\ bloom[p][b] \in Blooms
    BY Typed, Situation DEF TypeInv
  <2>2. ASSUME NEW o \in Blooms, WriteOpen(p, b, n, o)
        PROVE  NameInv'
    <3>1. CASE Set(p, b, [o EXCEPT !.at = "failed", !.fd = -1]) /\ UNCHANGED files
      <4>1. ~ Writing([o EXCEPT !.at = "failed", !.fd = -1])
        BY DEF Writing, Blooms
      <4>2. QED  BY <2>2, <3>1, <4>1, NamesKeptBy DEF WriteOpen, files
    <3>2. ASSUME NEW i \in creatable(n), dir' = [dir EXCEPT ![n] = i],
                 Set(p, b, [o EXCEPT !.at = "header", !.fd = NewFd(p), !.path = n, !.file = i])
          PROVE  NameInv'
      <4> DEFINE object == [o EXCEPT !.at = "header", !.fd = NewFd(p), !.path = n, !.file = i]
      <4>1. object.path = n /\ object.file = i /\ Set(p, b, object) /\ UNCHANGED setup
        BY <2>2, <3>2 DEF Blooms, WriteOpen
      <4> HIDE DEF object
      <4>2. QED  BY <2>1, <3>2, <4>1, NameGiven
    <3>3. QED  BY <2>2, <3>1, <3>2 DEF WriteOpen
  <2>3. ASSUME NEW object, Set(p, b, object), ~ Writing(object), UNCHANGED << files, setup >>
        PROVE  NameInv'
    BY <2>3, NamesKeptBy DEF files
  <2>4. CASE OpenFails(p, b, n) \/ Open(p, b, n)
    BY <2>1, <2>3, <2>4 DEF OpenFails, Open, Writing, Blooms, notes
  <2>5. QED  BY <1>3, <2>1, <2>2, <2>4 DEF Create, Write
<1>4. ASSUME NEW p \in Procs, NEW b \in setup.filters[p],
             \/ CreateInMemory(p, b)
             \/ WriteHeader(p, b)
             \/ WriteChunk(p, b)
             \/ WriteFails(p, b)
             \/ CreateMaps(p, b)
             \/ WriteReturns(p, b)
             \/ OpenExits(p, b)
             \/ OpenRejects(p, b)
             \/ OpenReads(p, b)
             \/ OpenCloses(p, b)
             \/ OpenMaps(p, b)
             \/ AddStore(p, b)
             \/ AddCount(p, b)
             \/ Clear(p, b)
             \/ \E h \in setup.items : AddLoad(p, b, h) \/ Fault(p, b, h)
      PROVE  NameInv'
  <2> DEFINE o == bloom[p][b]
  <2>1. o \in Blooms /\ Zeroed \in Blooms
    BY Typed
  <2>2. ASSUME NEW object, Set(p, b, object), UNCHANGED << dir, setup >>, ~ Writing(object)
        PROVE  NameInv'
    BY <2>2, NamesKeptBy
  <2>3. CASE WriteHeader(p, b)
    BY <2>1, <2>3, NamesKeptBy DEF WriteHeader, Blooms, Writing
  <2>4. CASE WriteChunk(p, b)
    <3> DEFINE object == [o EXCEPT !.written = @ + 1,
                            !.at = IF o.written + 1 < Chunks THEN "vector" ELSE "map"]
    <3>1. object.path = o.path /\ object.file = o.file
      BY <2>1 DEF Blooms
    <3>2. Set(p, b, object) /\ dir' = dir /\ UNCHANGED setup /\ Writing(o)
      BY <2>4 DEF WriteChunk, Writing, notes
    <3> HIDE DEF object
    <3>3. QED  BY <3>1, <3>2, NamesKeptBy
  <2>5. CASE CreateInMemory(p, b) \/ Clear(p, b)
    <3>1. UNCHANGED << dir, setup >>
          /\ (Set(p, b, Zeroed) \/ Set(p, b, [Zeroed EXCEPT !.at = "ready", !.vec = "memory"]))
      BY <2>5 DEF CreateInMemory, Clear, files, notes
    <3>2. ~ Writing(Zeroed) /\ ~ Writing([Zeroed EXCEPT !.at = "ready", !.vec = "memory"])
      BY SMTT(30) DEF Zeroed, Writing
    <3>3. QED  BY <2>2, <3>1, <3>2
  <2>6. CASE CreateMaps(p, b) \/ WriteReturns(p, b) \/ OpenRejects(p, b) \/ OpenCloses(p, b)
    BY <2>1, <2>2, <2>6 DEF CreateMaps, WriteReturns, OpenRejects, OpenCloses, files, notes,
                            Blooms, Writing
  <2>7. CASE OpenReads(p, b) \/ OpenMaps(p, b)
    BY <2>1, <2>2, <2>7 DEF OpenReads, OpenMaps, Blooms, Writing, files
  <2>8. CASE AddStore(p, b)
    <3>1. UNCHANGED << dir, setup >>
      BY <2>8 DEF AddStore
    <3>2. CASE Set(p, b, [o EXCEPT !.at = "count", !.loaded = {}])
      BY <2>1, <2>2, <3>1, <3>2 DEF Blooms, Writing
    <3>3. ASSUME NEW s, Set(p, b, [[o EXCEPT !.at = "count", !.loaded = {}] EXCEPT !.memory = s])
          PROVE  NameInv'
      BY <2>1, <2>2, <3>1, <3>3 DEF Blooms, Writing
    <3>4. QED  BY <2>8, <3>2, <3>3 DEF AddStore
  <2>9. CASE AddCount(p, b)
    BY <2>1, <2>2, <2>9 DEF AddCount, Blooms, Writing
  <2>10. ASSUME NEW h \in setup.items, AddLoad(p, b, h)
         PROVE  NameInv'
    BY <2>1, <2>2, <2>10 DEF AddLoad, Blooms, Writing, files, notes
  <2>11. CASE OpenExits(p, b) \/ \E h \in setup.items : Fault(p, b, h)
    BY <1>0, <2>11 DEF OpenExits, Fault
  <2>12. QED  BY <1>4, <2>3, <2>4, <2>5, <2>6, <2>7, <2>8, <2>9, <2>10, <2>11, NameRemoved
<1>5. QED  BY <1>1, <1>2, <1>3, <1>4 DEF Next

-----------------------------------------------------------------------------
(***************************************************************************)
(* How far a file is written.                                              *)
(***************************************************************************)
\* Only its writer makes a file longer.
LEMMA ExtentStays ==
  ASSUME TypeInv, TypeInv', NameInv, DescriptorInv, WrittenInv, [Next]_vars,
         NEW o \in Objects, At(o)' = At(o)
  PROVE  Extent(At(o), inode'[At(o).file])
<1> DEFINE i == At(o).file
<1>1. At(o) \in Blooms /\ Stage(o[1], At(o)) /\ Extent(At(o), inode[i])
  BY DEF TypeInv, WrittenInv
<1>2. CASE i \notin Inodes
  BY <1>1, <1>2 DEF Extent, Stage, Creating, Opening, Writing
<1>3. CASE i \in Inodes
  <2>1. inode[i] \in Files /\ inode'[i] \in Files /\ Chunks \in Nat
    BY <1>3, Situation DEF TypeInv
  <2>2. /\ inode[i].header = "good" => inode'[i].header = "good"
        /\ inode[i].chunks <= inode'[i].chunks
        /\ inode'[i].chunks \in 0 .. Chunks
    BY <1>3, <2>1, FileGrows DEF Files
  <2>3. Writing(At(o)) => inode'[i].chunks = inode[i].chunks
    <3>1. CASE inode'[i] = inode[i]
      BY <3>1
    <3>2. ASSUME NEW p \in Procs, NEW b \in setup.filters[p], Informs(p, b, i)
          PROVE  inode'[i].chunks = inode[i].chunks
      BY <2>1, <3>2 DEF Informs, Files
    <3>3. ASSUME NEW p \in Procs, NEW b \in setup.filters[p], Stores(p, b, i)
          PROVE  inode'[i].chunks = inode[i].chunks
      <4>1. \E v : inode' = [inode EXCEPT ![i].vector = v]
        BY <3>3 DEF Stores, AddStore
      <4>2. QED  BY <1>3, <2>1, <4>1 DEF TypeInv, Files
    <3>4. ASSUME NEW p \in Procs, NEW b \in setup.filters[p], Extends(p, b, i)
          PROVE  ~ Writing(At(o))
      <4>1. /\ << p, b >> \in Objects /\ At(<< p, b >>) = bloom[p][b]
            /\ FdOf(<< p, b >>) = OnFd(p, bloom[p][b])
        BY ObjectPairs DEF FdOf
      <4>2. Writing(At(<< p, b >>)) /\ FdOf(<< p, b >>) = i /\ FdOf(<< p, b >>) # Free
        BY <3>4, <4>1 DEF Extends, WriteChunk, Writing
      <4>3. At(<< p, b >>).file = i
        BY <4>1, <4>2 DEF DescriptorInv
      <4>4. << p, b >> # o
        <5> DEFINE object == [bloom[p][b] EXCEPT !.written = @ + 1,
                   !.at = IF bloom[p][b].written + 1 < Chunks THEN "vector" ELSE "map"]
        <5>1. UNCHANGED setup /\ Set(p, b, object)
          BY <3>4 DEF Extends, WriteChunk, notes
        <5>2. At(<< p, b >>)' = object
          BY <5>1, OneObject
        <5>3. object.written = bloom[p][b].written + 1 /\ bloom[p][b].written \in Nat
          <6>1. bloom[p][b] \in Blooms
            BY Typed
          <6>2. bloom[p][b].written \in Nat
            BY <6>1, Situation DEF Blooms, TypeInv
          <6>3. object.written = bloom[p][b].written + 1
            BY <6>1 DEF Blooms
          <6>4. QED  BY <6>2, <6>3
        <5> HIDE DEF object
        <5>4. QED  BY <4>1, <5>2, <5>3
      <4>5. QED  BY <4>1, <4>2, <4>3, <4>4 DEF NameInv
    <3>5. QED  BY <1>3, <3>1, <3>2, <3>3, <3>4, FileSteps
  <2>4. QED  BY <1>1, <2>1, <2>2, <2>3 DEF Extent, Files
<1>4. QED  BY <1>2, <1>3

\* A file that is complete, or being completed, stays so.
LEMMA CompleteStays ==
  ASSUME TypeInv, TypeInv', [Next]_vars, Objects' = Objects,
         NEW n \in Names, dir'[n] = dir[n], dir[n] # NoFile, Complete(n),
         \A o \in Objects : Writing(At(o)) /\ At(o).file = dir[n] =>
           \/ Writing(At(o)') /\ At(o)'.file = At(o).file
           \/ Whole(inode'[dir[n]])
           \/ past'[dir[n]].abandoned
  PROVE  Complete(n)'
<1>1. dir[n] \in Inodes
  BY DEF TypeInv
<1>2. CASE Whole(inode[dir[n]])
  BY <1>1, <1>2, FileGrows DEF Complete
<1>3. CASE past[dir[n]].abandoned
  BY <1>1, <1>3, HistoryGrows DEF Complete, Since
<1>4. ASSUME NEW o \in Objects, Writing(At(o)), At(o).file = dir[n]
      PROVE  Complete(n)'
  <2>1. CASE Writing(At(o)') /\ At(o)'.file = At(o).file
    BY <1>4, <2>1 DEF Complete, Writing
  <2>2. CASE Whole(inode'[dir[n]]) \/ past'[dir[n]].abandoned
    BY <2>2 DEF Complete, Whole
  <2>3. QED  BY <1>4, <2>1, <2>2
<1>5. QED  BY <1>2, <1>3, <1>4 DEF Complete

\* A step that names nothing and leaves the writers writing.
LEMMA WrittenBy ==
  ASSUME TypeInv, TypeInv', NameInv, DescriptorInv, WrittenInv, [Next]_vars,
         UNCHANGED << dir, setup >>,
         NEW p \in Procs, NEW b \in setup.filters[p], NEW object, Set(p, b, object),
         Extent(object, inode'[object.file]),
         Writing(bloom[p][b]) =>
           \/ Writing(object) /\ object.file = bloom[p][b].file
           \/ Whole(inode'[bloom[p][b].file])
  PROVE  WrittenInv'
<1> DEFINE me == << p, b >>
<1>1. /\ Objects' = Objects /\ me \in Objects
      /\ \A o \in Objects : o # me => At(o)' = At(o)
      /\ At(me)' = object /\ At(me) = bloom[p][b]
  BY OneObject, ObjectPairs
<1>2. ASSUME NEW o \in Objects
      PROVE  Extent(At(o)', inode'[At(o)'.file])
  <2>1. CASE o = me
    BY <1>1, <2>1
  <2>2. CASE o # me
    BY <1>1, <2>2, ExtentStays
  <2>3. QED  BY <2>1, <2>2
<1>3. ASSUME NEW n \in Names, dir'[n] # NoFile
      PROVE  Complete(n)'
  <2>1. dir'[n] = dir[n] /\ Complete(n) /\ dir[n] # NoFile
    BY <1>3 DEF WrittenInv
  <2>2. ASSUME NEW o \in Objects, Writing(At(o)), At(o).file = dir[n]
        PROVE  \/ Writing(At(o)') /\ At(o)'.file = At(o).file
               \/ Whole(inode'[dir[n]])
               \/ past'[dir[n]].abandoned
    <3>1. CASE o = me
      BY <1>1, <2>2, <3>1
    <3>2. CASE o # me
      BY <1>1, <2>2, <3>2
    <3>3. QED  BY <3>1, <3>2
  <2>3. QED  BY <1>1, <2>1, <2>2, CompleteStays
<1>4. (\A o \in Objects : Extent(At(o), inode[At(o).file]))'
  BY <1>1, <1>2 DEF Extent, Writing
<1>5. QED  BY <1>3, <1>4 DEF WrittenInv

\* A new file has its writer.
LEMMA WrittenNew ==
  ASSUME TypeInv, TypeInv', NameInv, DescriptorInv, WrittenInv, [Next]_vars, UNCHANGED setup,
         NEW p \in Procs, NEW b \in setup.filters[p], ~ Writing(bloom[p][b]),
         NEW object, Set(p, b, object), Writing(object), object.written = 0,
         NEW n \in Names, NEW i \in creatable(n), dir' = [dir EXCEPT ![n] = i],
         inode' = inode, object.file = i, object.at = "header", object.vec # "file"
  PROVE  WrittenInv'
<1> DEFINE me == << p, b >>
<1>1. /\ Objects' = Objects /\ me \in Objects
      /\ \A o \in Objects : o # me => At(o)' = At(o)
      /\ At(me)' = object /\ At(me) = bloom[p][b]
  BY OneObject, ObjectPairs
<1>2. i \in Inodes /\ inode[i] = EmptyFile
  BY DEF creatable, Unused
<1>3. Extent(object, inode'[object.file])
  BY <1>2 DEF Extent, EmptyFile
<1>4. ASSUME NEW o \in Objects
      PROVE  Extent(At(o)', inode'[At(o)'.file])
  <2>1. CASE o = me
    BY <1>1, <1>3, <2>1
  <2>2. CASE o # me
    BY <1>1, <2>2, ExtentStays
  <2>3. QED  BY <2>1, <2>2
<1>5. ASSUME NEW m \in Names, dir'[m] # NoFile
      PROVE  Complete(m)'
  <2>1. CASE m = n
    <3>1. dir'[m] = i
      BY <2>1 DEF TypeInv
    <3>2. Writing(At(me)') /\ At(me)'.file = dir'[m]
      BY <1>1, <3>1
    <3>3. QED  BY <1>1, <3>2 DEF Complete, Writing
  <2>2. CASE m # n
    <3>1. dir'[m] = dir[m]
      BY <2>2 DEF TypeInv
    <3>2. Complete(m)
      BY <1>5, <3>1 DEF WrittenInv
    <3>3. \A o \in Objects : Writing(At(o)) => At(o)' = At(o)
      BY <1>1
    <3>4. QED  BY <1>1, <1>5, <3>1, <3>2, <3>3, CompleteStays
  <2>3. QED  BY <2>1, <2>2
<1>6. (\A o \in Objects : Extent(At(o), inode[At(o).file]))'
  BY <1>1, <1>4 DEF Extent, Writing
<1>7. QED  BY <1>5, <1>6 DEF WrittenInv

\* A file whose write failed has no name any more.
LEMMA WrittenFails ==
  ASSUME TypeInv, TypeInv', NameInv, DescriptorInv, WrittenInv, [Next]_vars,
         NEW p \in Procs, NEW b \in setup.filters[p], WriteFails(p, b)
  PROVE  WrittenInv'
<1> DEFINE me == << p, b >>
           n == bloom[p][b].path
           object == [bloom[p][b] EXCEPT !.at = "failed"]
<1>0. /\ Set(p, b, object) /\ UNCHANGED setup
      /\ dir' = [dir EXCEPT ![n] = NoFile] /\ Writing(bloom[p][b])
  BY DEF WriteFails, notes, unlinked
<1>1. /\ Objects' = Objects /\ me \in Objects
      /\ \A o \in Objects : o # me => At(o)' = At(o)
      /\ At(me)' = object /\ At(me) = bloom[p][b]
  BY <1>0, OneObject, ObjectPairs
<1>2. object.at = "failed" /\ object.vec # "file" /\ n \in Names
  BY <1>0, Typed, ZenonT(60) DEF Blooms, Stage, Writing, Creating
<1> HIDE DEF object
<1>3. ASSUME NEW o \in Objects
      PROVE  Extent(At(o)', inode'[At(o)'.file])
  <2>1. CASE o = me
    BY <1>1, <1>2, <2>1 DEF Extent, Writing
  <2>2. CASE o # me
    BY <1>1, <2>2, ExtentStays
  <2>3. QED  BY <2>1, <2>2
<1>4. ASSUME NEW m \in Names, dir'[m] # NoFile
      PROVE  Complete(m)'
  <2>1. m # n /\ dir'[m] = dir[m] /\ dir[m] # NoFile
    BY <1>0, <1>2, <1>4 DEF TypeInv
  <2>2. Complete(m)
    BY <2>1 DEF WrittenInv
  <2>3. dir[n] = bloom[p][b].file /\ dir[m] # dir[n]
    BY <1>0, <1>1, <1>2, <2>1 DEF NameInv
  <2>4. \A o \in Objects : Writing(At(o)) /\ At(o).file = dir[m] => At(o)' = At(o)
    BY <1>1, <2>3
  <2>5. QED  BY <1>1, <2>1, <2>2, <2>4, CompleteStays
<1>5. (\A o \in Objects : Extent(At(o), inode[At(o).file]))'
  BY <1>1, <1>3 DEF Extent, Writing
<1>6. QED  BY <1>4, <1>5 DEF WrittenInv

\* A file whose writer was killed is abandoned.
LEMMA WrittenEnds ==
  ASSUME TypeInv, TypeInv', NameInv, DescriptorInv, WrittenInv, [Next]_vars,
         NEW p \in Procs, NEW at \in {"zero", "exited", "faulted"}, Ends(p, at)
  PROVE  WrittenInv'
<1> DEFINE object == [Zeroed EXCEPT !.at = at]
<1>1. /\ Objects' = Objects /\ setup' = setup
      /\ \A o \in Objects : At(o)' = IF o[1] = p THEN object ELSE At(o)
  BY AllEnd
<1>2. object.at = at /\ object.vec = "none" /\ dir' = dir
  BY DEF Zeroed, Ends, files
<1> HIDE DEF object
<1>3. ASSUME NEW o \in Objects
      PROVE  Extent(At(o)', inode'[At(o)'.file])
  <2>1. CASE o[1] = p
    BY <1>1, <1>2, <2>1 DEF Extent, Writing
  <2>2. CASE o[1] # p
    BY <1>1, <2>2, ExtentStays
  <2>3. QED  BY <2>1, <2>2
<1>4. ASSUME NEW m \in Names, dir'[m] # NoFile
      PROVE  Complete(m)'
  <2>1. dir'[m] = dir[m] /\ dir[m] # NoFile /\ Complete(m) /\ dir[m] \in Inodes
    BY <1>2, <1>4 DEF WrittenInv, TypeInv
  <2>2. ASSUME NEW o \in Objects, Writing(At(o)), At(o).file = dir[m]
        PROVE  (Writing(At(o)') /\ At(o)'.file = At(o).file) \/ past'[dir[m]].abandoned
    <3>1. CASE o[1] = p
      <4>1. o[2] \in setup.filters[p] /\ At(o) = bloom[p][o[2]]
        BY <3>1, ObjectPairs
      <4>2. \E c \in setup.filters[p] : Writing(bloom[p][c]) /\ bloom[p][c].file = dir[m]
        BY <2>2, <4>1
      <4>3. past'[dir[m]].abandoned
        BY <2>1, <4>2, ZenonT(60) DEF Ends, TypeInv, Pasts
      <4>4. QED  BY <4>3
    <3>2. CASE o[1] # p
      BY <1>1, <2>2, <3>2
    <3>3. QED  BY <3>1, <3>2
  <2>3. QED  BY <1>1, <2>1, <2>2, CompleteStays
<1>5. (\A o \in Objects : Extent(At(o), inode[At(o).file]))'
  BY <1>1, <1>3 DEF Extent, Writing
<1>6. QED  BY <1>4, <1>5 DEF WrittenInv

\* The steps keep to how far the files are written.
LEMMA NextWritten ==
  ASSUME TypeInv, TypeInv', NameInv, DescriptorInv, WrittenInv, [Next]_vars
  PROVE  WrittenInv'
<1>1. CASE UNCHANGED vars
  <2>1. UNCHANGED << setup, bloom, inode, dir, past >>
    BY <1>1 DEF vars
  <2>2. Objects' = Objects /\ \A o \in Objects : At(o)' = At(o)
    BY <2>1 DEF Objects, At
  <2>3. \A n \in Names : Complete(n)' <=> Complete(n)
    BY <2>1, <2>2 DEF Complete, Whole
  <2>4. \A o \in Objects : Extent(At(o), inode[At(o).file])' <=> Extent(At(o), inode[At(o).file])
    BY <2>1, <2>2
  <2>5. QED  BY <2>1, <2>2, <2>3, <2>4 DEF WrittenInv
<1>2. ASSUME NEW p \in Procs, Crash(p) \/ Restart(p)
      PROVE  WrittenInv'
  BY <1>2, WrittenEnds DEF Crash, Restart
<1>3. ASSUME NEW p \in Procs, NEW b \in setup.filters[p], NEW n \in setup.names,
             \/ Create(p, b, n)
             \/ Write(p, b, n)
             \/ OpenFails(p, b, n)
             \/ Open(p, b, n)
      PROVE  WrittenInv'
  <2> DEFINE o == bloom[p][b]
  <2>1. n \in Names /\ Zeroed \in Blooms /\ o \in Blooms /\ Stage(p, o)
    BY Typed, Situation DEF TypeInv
  <2>2. ~ Writing(o) /\ o.at # "map" /\ o.vec # "file" /\ o.written = 0
        /\ (o.at = "zero" => o = Zeroed)
    BY <1>3, <2>1 DEF Create, Write, OpenFails, Open, Writing, Stage, Zeroed
  <2>3. ASSUME NEW object, Set(p, b, object), UNCHANGED << files, setup >>,
               object.at \in {"failed", "read"}, object.vec # "file"
        PROVE  WrittenInv'
    <3>1. Extent(object, inode'[object.file])
      BY <2>3 DEF Extent, Writing
    <3>2. QED  BY <2>2, <2>3, <3>1, WrittenBy DEF files
  <2>4. ASSUME NEW s, s = o, WriteOpen(p, b, n, s)
        PROVE  WrittenInv'
    <3>1. CASE Set(p, b, [s EXCEPT !.at = "failed", !.fd = -1]) /\ UNCHANGED files
      <4> DEFINE object == [s EXCEPT !.at = "failed", !.fd = -1]
      <4>1. object.at = "failed" /\ object.vec # "file"
        BY <2>1, <2>2, <2>4 DEF Blooms
      <4> HIDE DEF object
      <4>2. QED  BY <2>3, <2>4, <3>1, <4>1 DEF WriteOpen, object
    <3>2. ASSUME NEW i \in creatable(n), dir' = [dir EXCEPT ![n] = i],
                 Set(p, b, [s EXCEPT !.at = "header", !.fd = NewFd(p), !.path = n, !.file = i])
          PROVE  WrittenInv'
      <4> DEFINE object == [s EXCEPT !.at = "header", !.fd = NewFd(p), !.path = n, !.file = i]
      <4>1. /\ object.file = i /\ object.at = "header" /\ object.vec # "file"
            /\ object.written = 0
        BY <2>1, <2>2, <2>4 DEF Blooms
      <4>2. inode' = inode /\ Set(p, b, object) /\ UNCHANGED setup
        BY <2>4, <3>2, MadeEmpty, ZenonT(60) DEF WriteOpen
      <4>3. Writing(object)
        BY <4>1 DEF Writing
      <4> HIDE DEF object
      <4>4. QED  BY <2>1, <2>2, <3>2, <4>1, <4>2, <4>3, WrittenNew
    <3>3. QED  BY <2>4, <3>1, <3>2 DEF WriteOpen
  <2>5. CASE OpenFails(p, b, n) \/ Open(p, b, n)
    <3>1. UNCHANGED << files, setup >>
      BY <2>5 DEF OpenFails, Open, notes
    <3>2. \/ Set(p, b, [Zeroed EXCEPT !.at = "failed", !.fd = -1])
          \/ Set(p, b, [Zeroed EXCEPT !.at = "read", !.fd = NewFd(p), !.path = n, !.file = dir[n]])
      BY <2>5 DEF OpenFails, Open
    <3>3. QED  BY <2>3, <3>1, <3>2 DEF Zeroed
  <2>6. QED  BY <1>3, <2>2, <2>4, <2>5 DEF Create, Write
<1>4. ASSUME NEW p \in Procs, NEW b \in setup.filters[p],
             \/ CreateInMemory(p, b)
             \/ WriteHeader(p, b)
             \/ WriteChunk(p, b)
             \/ WriteFails(p, b)
             \/ CreateMaps(p, b)
             \/ WriteReturns(p, b)
             \/ OpenExits(p, b)
             \/ OpenRejects(p, b)
             \/ OpenReads(p, b)
             \/ OpenCloses(p, b)
             \/ OpenMaps(p, b)
             \/ AddStore(p, b)
             \/ AddCount(p, b)
             \/ Clear(p, b)
             \/ \E h \in setup.items : AddLoad(p, b, h) \/ Fault(p, b, h)
      PROVE  WrittenInv'
  <2> DEFINE o == bloom[p][b]
  <2>1. o \in Blooms /\ Stage(p, o) /\ OnFd(p, o) \in Inodes \cup {Free} /\ Zeroed \in Blooms
    BY Typed
  <2>2. OnFd(p, o) \in {o.file, Free} /\ Extent(o, inode[o.file])
    <3>1. << p, b >> \in Objects /\ At(<< p, b >>) = o
      BY ObjectPairs
    <3>2. QED  BY <3>1 DEF DescriptorInv, WrittenInv, FdOf
  <2>0. inode \in [Inodes -> Files] /\ Chunks \in Nat \ {0}
    BY Situation DEF TypeInv
  <2>a. ASSUME NEW object, Set(p, b, object), UNCHANGED << dir, setup >>, ~ Writing(o),
               object.at \notin {"header", "vector", "map"},
               object.vec = "file" \/ object.at = "mapping" =>
                 object.file \in Inodes /\ inode[object.file].header = "good"
        PROVE  WrittenInv'
    <3>1. Extent(object, inode'[object.file])
      BY <2>a, FileGrows DEF Extent, Writing
    <3>2. QED  BY <2>a, <3>1, WrittenBy
  <2>3. CASE WriteHeader(p, b)
    <3> DEFINE object == [o EXCEPT !.at = "vector"]
    <3>1. object.at = "vector" /\ object.vec # "file" /\ object.written = o.written
          /\ object.file = o.file
      BY <2>1, <2>3 DEF WriteHeader, Blooms, Stage, Creating, Opening
    <3>2. o.file \in Inodes /\ OnFd(p, o) = o.file /\ OnFd(p, o) # Free /\ Writing(o)
          /\ inode' = InfoUpdate(p, o) /\ Set(p, b, object) /\ UNCHANGED << dir, setup >>
      BY <2>1, <2>2, <2>3 DEF WriteHeader, Stage, Creating, Opening, Writing
    <3>3. inode'[o.file].header = "good" /\ inode'[o.file].chunks = inode[o.file].chunks
      BY <2>0, <3>2 DEF InfoUpdate, Files
    <3> HIDE DEF object
    <3>4. Extent(object, inode'[object.file]) /\ Writing(object)
      BY <2>2, <3>1, <3>2, <3>3 DEF Extent, Writing
    <3>5. QED  BY <3>1, <3>2, <3>4, WrittenBy
  <2>4. CASE WriteChunk(p, b)
    <3> DEFINE object == [o EXCEPT !.written = @ + 1,
                            !.at = IF o.written + 1 < Chunks THEN "vector" ELSE "map"]
    <3>1. /\ object.at = IF o.written + 1 < Chunks THEN "vector" ELSE "map"
          /\ object.written = o.written + 1 /\ object.file = o.file /\ object.vec = o.vec
      BY <2>1 DEF Blooms
    <3>2. o.file \in Inodes /\ OnFd(p, o) = o.file /\ Writing(o) /\ o.at = "vector" /\ o.vec # "file"
          /\ Set(p, b, object) /\ UNCHANGED << dir, setup >> /\ Extends(p, b, o.file)
      <4>1. o.at = "vector" /\ OnFd(p, o) # Free /\ Set(p, b, object) /\ UNCHANGED << dir, setup >>
        BY <2>4 DEF WriteChunk, notes
      <4>2. Creating(o) /\ Writing(o)
        BY <4>1 DEF Creating, Writing
      <4>3. o.file \in Inodes /\ o.vec # "file"
        BY <2>1, <4>2 DEF Stage
      <4>4. OnFd(p, o) = o.file
        BY <2>1, <2>2, <4>1
      <4>5. Extends(p, b, o.file)
        BY <2>4, <4>4 DEF Extends
      <4>6. QED  BY <4>1, <4>2, <4>3, <4>4, <4>5
    <3>3. /\ inode'[o.file].header = "good" /\ inode'[o.file].chunks = o.written + 1
          /\ o.written \in Nat /\ o.written < Chunks
      BY <2>2, <3>2, ChunkWritten DEF Extent, Writing
    <3> HIDE DEF object
    <3>4. CASE o.written + 1 < Chunks
      <4>1. object.at = "vector"
        BY <3>1, <3>4
      <4>2. Extent(object, inode'[object.file]) /\ Writing(object)
        BY <3>1, <3>2, <3>3, <4>1 DEF Extent, Writing
      <4>3. QED  BY <3>1, <3>2, <4>2, WrittenBy
    <3>5. CASE ~ (o.written + 1 < Chunks)
      <4>1. object.at = "map" /\ o.written + 1 = Chunks
        BY <2>0, <3>1, <3>3, <3>5
      <4>2. Extent(object, inode'[object.file])
        BY <3>1, <3>2, <3>3, <4>1 DEF Extent, Writing
      <4>3. Whole(inode'[o.file])
        BY <3>3, <4>1 DEF Whole
      <4>4. QED  BY <3>1, <3>2, <4>2, <4>3, WrittenBy
    <3>6. QED  BY <3>4, <3>5
  <2>5. CASE CreateInMemory(p, b) \/ Clear(p, b)
    <3>1. UNCHANGED << dir, setup >> /\ ~ Writing(o)
          /\ (Set(p, b, Zeroed) \/ Set(p, b, [Zeroed EXCEPT !.at = "ready", !.vec = "memory"]))
      BY <2>5 DEF CreateInMemory, Clear, files, notes, Writing
    <3>2. QED  BY <2>a, <3>1 DEF Zeroed
  <2>6. CASE CreateMaps(p, b)
    <3>1. /\ o.at = "map" /\ o.file \in Inodes /\ inode[o.file].header = "good" /\ ~ Writing(o)
          /\ UNCHANGED << dir, setup >>
      BY <2>1, <2>2, <2>6 DEF CreateMaps, Extent, Stage, Creating, Opening, Writing, files
    <3>2. CASE OnFd(p, o) # Free
               /\ Set(p, b, [o EXCEPT !.at = "ready", !.vec = "file", !.written = 0, !.file = OnFd(p, o)])
      <4> DEFINE object == [o EXCEPT !.at = "ready", !.vec = "file", !.written = 0, !.file = OnFd(p, o)]
      <4>1. object.at = "ready" /\ object.file = o.file
        BY <2>1, <2>2, <3>2 DEF Blooms
      <4> HIDE DEF object
      <4>2. QED  BY <2>a, <3>1, <3>2, <4>1 DEF object
    <3>3. CASE Set(p, b, [o EXCEPT !.at = "ready", !.vec = "MAP_FAILED", !.written = 0])
      <4> DEFINE object == [o EXCEPT !.at = "ready", !.vec = "MAP_FAILED", !.written = 0]
      <4>1. object.at = "ready" /\ object.vec = "MAP_FAILED"
        BY <2>1 DEF Blooms
      <4> HIDE DEF object
      <4>2. QED  BY <2>a, <3>1, <3>3, <4>1 DEF object
    <3>4. QED  BY <2>6, <3>2, <3>3 DEF CreateMaps
  <2>7. CASE WriteReturns(p, b)
    <3> DEFINE object == [o EXCEPT !.at = "ready", !.written = 0]
    <3>1. object.at = "ready" /\ object.vec = "memory"
      BY <2>1, <2>7 DEF Blooms, WriteReturns
    <3>2. Set(p, b, object) /\ ~ Writing(o) /\ UNCHANGED << dir, setup >>
      BY <2>7 DEF WriteReturns, Writing, files
    <3> HIDE DEF object
    <3>3. QED  BY <2>a, <3>1, <3>2
  <2>8. CASE OpenRejects(p, b) \/ OpenCloses(p, b)
    <3> DEFINE object == [o EXCEPT !.at = "failed"]
    <3>1. object.at = "failed" /\ object.vec # "file"
      BY <2>1, <2>8 DEF Blooms, OpenRejects, OpenCloses, Stage, Opening
    <3>2. Set(p, b, object) /\ ~ Writing(o) /\ UNCHANGED << dir, setup >>
      BY <2>8 DEF OpenRejects, OpenCloses, Writing, files, notes
    <3> HIDE DEF object
    <3>3. QED  BY <2>a, <3>1, <3>2
  <2>15. CASE OpenReads(p, b)
    <3> DEFINE object == [o EXCEPT !.at = IF inode[o.file].header = "good" THEN "mapping"
                                          ELSE "closing",
                                   !.added = inode[o.file].added]
    <3>1. /\ object.at \in {"mapping", "closing"} /\ object.vec # "file" /\ object.file \in Inodes
          /\ object.at = "mapping" => inode[object.file].header = "good"
      BY <2>1, <2>15 DEF Blooms, OpenReads, Stage, Opening
    <3>2. Set(p, b, object) /\ ~ Writing(o) /\ UNCHANGED << dir, setup >>
      BY <2>15 DEF OpenReads, Writing, files
    <3> HIDE DEF object
    <3>3. QED  BY <2>a, <3>1, <3>2
  <2>9. CASE OpenMaps(p, b)
    <3>2. /\ o.at = "mapping" /\ o.file \in Inodes /\ inode[o.file].header = "good" /\ ~ Writing(o)
          /\ UNCHANGED << dir, setup >>
      BY <2>1, <2>2, <2>9 DEF OpenMaps, Extent, Stage, Opening, Writing, files
    <3>3. CASE OnFd(p, o) # Free
               /\ Set(p, b, [o EXCEPT !.at = "ready", !.vec = "file", !.file = OnFd(p, o)])
      <4> DEFINE object == [o EXCEPT !.at = "ready", !.vec = "file", !.file = OnFd(p, o)]
      <4>1. object.at = "ready" /\ object.file = o.file
        BY <2>1, <2>2, <3>3 DEF Blooms
      <4> HIDE DEF object
      <4>2. QED  BY <2>a, <3>2, <3>3, <4>1 DEF object
    <3>4. CASE Set(p, b, [o EXCEPT !.at = "failed", !.vec = "MAP_FAILED"])
      <4> DEFINE object == [o EXCEPT !.at = "failed", !.vec = "MAP_FAILED"]
      <4>1. object.at = "failed" /\ object.vec = "MAP_FAILED"
        BY <2>1 DEF Blooms
      <4> HIDE DEF object
      <4>2. QED  BY <2>a, <3>2, <3>4, <4>1 DEF object
    <3>5. QED  BY <2>9, <3>3, <3>4 DEF OpenMaps
  \* The object keeps its vector, and is neither writing nor about to.
  <2>b. ASSUME NEW object, Set(p, b, object), UNCHANGED << dir, setup >>,
               o.at \in {"ready", "store", "count"}, object.at \in {"ready", "store", "count"},
               object.vec = o.vec, object.file = o.file
        PROVE  WrittenInv'
    <3>1. ~ Writing(o) /\ (object.vec = "file" => object.file \in Inodes /\ inode[object.file].header = "good")
      BY <2>1, <2>2, <2>b, SMTT(30) DEF Extent, Stage, Writing
    <3>2. QED  BY <2>a, <2>b, <3>1
  <2>10. CASE AddStore(p, b)
    <3> DEFINE counting == [o EXCEPT !.at = "count", !.loaded = {}]
    <3>1. UNCHANGED << dir, setup >> /\ o.at = "store"
      BY <2>10 DEF AddStore
    <3>2. counting.at = "count" /\ counting.vec = o.vec /\ counting.file = o.file
      BY <2>1 DEF Blooms
    <3>3. CASE Set(p, b, counting)
      BY <2>b, <3>1, <3>2, <3>3
    <3>4. ASSUME NEW s, Set(p, b, [counting EXCEPT !.memory = s])
          PROVE  WrittenInv'
      <4> DEFINE object == [counting EXCEPT !.memory = s]
      <4>1. object.at = "count" /\ object.vec = o.vec /\ object.file = o.file
        BY <2>1 DEF Blooms
      <4> HIDE DEF object
      <4>2. QED  BY <2>b, <3>1, <3>4, <4>1 DEF object
    <3>5. QED  BY <2>10, <3>3, <3>4 DEF AddStore
  <2>11. CASE AddCount(p, b)
    <3> DEFINE object == [o EXCEPT !.at = "ready", !.added = @ + 1, !.item = {}, !.loaded = {}]
    <3>1. object.at = "ready" /\ object.vec = o.vec /\ object.file = o.file
      BY <2>1 DEF Blooms
    <3>2. Set(p, b, object) /\ o.at = "count" /\ UNCHANGED << dir, setup >>
      BY <2>11 DEF AddCount
    <3> HIDE DEF object
    <3>3. QED  BY <2>b, <3>1, <3>2
  <2>12. ASSUME NEW h \in setup.items, AddLoad(p, b, h)
         PROVE  WrittenInv'
    <3> DEFINE object == [o EXCEPT !.at = IF h \in Vector(o) THEN "count" ELSE "store",
                            !.item = {h}, !.loaded = Vector(o) \cap OfByte(h)]
    <3>1. object.at \in {"store", "count"} /\ object.vec = o.vec /\ object.file = o.file
      BY <2>1 DEF Blooms
    <3>2. Set(p, b, object) /\ o.at = "ready" /\ UNCHANGED << dir, setup >>
      BY <2>12 DEF AddLoad, files, notes
    <3> HIDE DEF object
    <3>3. QED  BY <2>b, <3>1, <3>2
  <2>13. CASE OpenExits(p, b) \/ \E h \in setup.items : Fault(p, b, h)
    BY <2>13, WrittenEnds DEF OpenExits, Fault
  <2>14. QED  BY <1>4, <2>3, <2>4, <2>5, <2>6, <2>7, <2>8, <2>9, <2>10, <2>11, <2>12, <2>13,
                 <2>15, WrittenFails
<1>5. QED  BY <1>1, <1>2, <1>3, <1>4 DEF Next

-----------------------------------------------------------------------------
(***************************************************************************)
(* The history of a file, by what happens to it.                           *)
(***************************************************************************)
\* An add to the mapped file returns; a write() of a filter in memory does; the
\* header is read for a session on the file; the session begins; the header is
\* written.
Counts(p, b, i) == AddCount(p, b) /\ bloom[p][b].vec = "file" /\ bloom[p][b].file = i
Returns(p, b, i) == WriteReturns(p, b) /\ bloom[p][b].file = i
Reads(p, b, i) == OpenReads(p, b) /\ bloom[p][b].file = i
Begins(p, b, i) ==
  /\ CreateMaps(p, b) \/ (OpenMaps(p, b) /\ bloom'[p][b].vec = "file" /\ p \in setup.writers)
  /\ bloom[p][b].file = i
Heads(p, b, i) == WriteHeader(p, b) /\ bloom[p][b].file = i

\* Of the adds that return, one does not get the header written that was due; or
\* the header is written when it is due.
Misses(p, b, i) ==
  \/ /\ updateDue(bloom[p][b].added + 1)
     /\ past'[i].missed = past[i].missed + 1
     /\ inode' = inode
  \/ /\ past'[i].missed = past[i].missed
     /\ updateDue(bloom[p][b].added + 1) /\ OnFd(p, bloom[p][b]) = i =>
          inode'[i].added = bloom[p][b].added + 1

\* All that can happen to the history of a file.
Happens(i) ==
  /\ \/ past'[i].raced = past[i].raced
     \/ \E p \in Procs : \E b \in setup.filters[p] : Stores(p, b, i)
  /\ \/ past'[i].adds = past[i].adds /\ past'[i].calls = past[i].calls
          /\ past'[i].missed = past[i].missed
     \/ \E p \in Procs : \E b \in setup.filters[p] :
          /\ Counts(p, b, i)
          /\ past'[i].adds = past[i].adds \cup bloom[p][b].item
          /\ past'[i].calls = past[i].calls + 1
          /\ Misses(p, b, i)
     \/ \E p \in Procs : \E b \in setup.filters[p] :
          /\ Returns(p, b, i)
          /\ past'[i].adds = past[i].adds \cup bloom[p][b].memory
          /\ past'[i].calls = past[i].calls + bloom[p][b].added
          /\ past'[i].missed = past[i].missed
  /\ \/ past'[i].sessions = past[i].sessions
     \/ \E p \in Procs : \E b \in setup.filters[p] :
          /\ Begins(p, b, i)
          /\ past'[i].sessions = past[i].sessions + 1
  /\ \/ past'[i].shared = past[i].shared
     \/ \E p \in Procs : \E b \in setup.filters[p] :
          /\ Reads(p, b, i)
          /\ past'[i].shared <=>
               \/ past[i].shared
               \/ /\ p \in setup.writers
                  /\ inode[i].header = "good"
                  /\ Used(<< p, b >>, bloom[p][b])
  /\ \/ past'[i].detached = past[i].detached
     \/ \E p \in Procs : \E b \in setup.filters[p] :
          /\ Heads(p, b, i)
          /\ past'[i].detached <=> past[i].detached \/ bloom[p][b].vec = "memory"

\* Every step does one of these things to the history, or nothing.
LEMMA HistorySteps ==
  ASSUME TypeInv, [Next]_vars, NEW i \in Inodes
  PROVE  Happens(i)
<1>0. past \in [Inodes -> Pasts] /\ past[i] \in Pasts
  BY DEF TypeInv
\* Nothing of this is touched.
<1>1. ASSUME /\ past'[i].raced = past[i].raced /\ past'[i].adds = past[i].adds
             /\ past'[i].calls = past[i].calls /\ past'[i].missed = past[i].missed
             /\ past'[i].sessions = past[i].sessions
             /\ past'[i].shared = past[i].shared /\ past'[i].detached = past[i].detached
      PROVE  Happens(i)
  BY <1>1 DEF Happens
<1>2. ASSUME past' = past
      PROVE  Happens(i)
  BY <1>1, <1>2
<1>3. ASSUME NEW p \in Procs, NEW at, Ends(p, at)
      PROVE  Happens(i)
  BY <1>0, <1>1, <1>3 DEF Ends, Pasts
<1>4. ASSUME NEW p \in Procs, NEW b \in setup.filters[p], NEW n, NEW o, WriteOpen(p, b, n, o)
      PROVE  Happens(i)
  <2>1. past' = past \/ past' = [past EXCEPT ![OnFd(p, o)].dropped = TRUE]
    BY <1>4 DEF WriteOpen
  <2>2. QED  BY <1>0, <1>1, <2>1 DEF Pasts
<1>5. ASSUME NEW p \in Procs, NEW b \in setup.filters[p],
             \/ CreateInMemory(p, b)
             \/ WriteHeader(p, b)
             \/ WriteChunk(p, b)
             \/ WriteFails(p, b)
             \/ CreateMaps(p, b)
             \/ WriteReturns(p, b)
             \/ OpenExits(p, b)
             \/ OpenRejects(p, b)
             \/ OpenReads(p, b)
             \/ OpenCloses(p, b)
             \/ OpenMaps(p, b)
             \/ AddStore(p, b)
             \/ AddCount(p, b)
             \/ Clear(p, b)
             \/ \E h \in setup.items : AddLoad(p, b, h) \/ Fault(p, b, h)
      PROVE  Happens(i)
  <2> DEFINE o == bloom[p][b]
  <2>1. o \in Blooms /\ << p, b >> \in Objects
    BY Typed, ObjectPairs
  <2>2. CASE WriteHeader(p, b)
    <3>1. past' = [past EXCEPT ![o.file].detached = @ \/ o.vec = "memory"]
      BY <2>2 DEF WriteHeader
    <3>2. CASE o.file = i
      <4>1. /\ past'[i].raced = past[i].raced /\ past'[i].adds = past[i].adds
            /\ past'[i].calls = past[i].calls /\ past'[i].missed = past[i].missed
            /\ past'[i].sessions = past[i].sessions /\ past'[i].shared = past[i].shared
            /\ past'[i].detached <=> past[i].detached \/ o.vec = "memory"
        BY <1>0, <3>1, <3>2 DEF Pasts
      <4>2. Heads(p, b, i)
        BY <2>2, <3>2 DEF Heads
      <4>3. QED  BY <4>1, <4>2 DEF Happens
    <3>3. CASE o.file # i
      BY <1>0, <1>1, <3>1, <3>3
    <3>4. QED  BY <3>2, <3>3
  <2>3. ASSUME Session(o), o.file = i => Begins(p, b, i)
        PROVE  Happens(i)
    <3>1. past' = [past EXCEPT ![o.file].sessions = @ + 1]
      BY <2>3 DEF Session
    <3>3. CASE o.file = i
      <4>1. /\ past'[i].raced = past[i].raced /\ past'[i].adds = past[i].adds
            /\ past'[i].calls = past[i].calls /\ past'[i].missed = past[i].missed
            /\ past'[i].sessions = past[i].sessions + 1
            /\ past'[i].detached = past[i].detached
            /\ past'[i].shared = past[i].shared
        BY <1>0, <3>1, <3>3 DEF Pasts
      <4>2. QED  BY <2>3, <3>3, <4>1 DEF Happens
    <3>4. CASE o.file # i
      BY <1>0, <1>1, <3>1, <3>4
    <3>5. QED  BY <3>3, <3>4
  <2>4. CASE CreateMaps(p, b)
    BY <2>3, <2>4 DEF CreateMaps, Begins
  <2>5. CASE OpenMaps(p, b)
    <3> DEFINE mapped == [o EXCEPT !.at = "ready", !.vec = "file", !.file = OnFd(p, o)]
    <3>2. \/ past' = past
          \/ p \in setup.writers /\ Session(o) /\ Set(p, b, mapped) /\ UNCHANGED setup
      BY <2>5 DEF OpenMaps
    <3>3. CASE p \in setup.writers /\ Session(o) /\ Set(p, b, mapped) /\ UNCHANGED setup
      <4>1. mapped.vec = "file"
        BY <2>1 DEF Blooms
      <4> HIDE DEF mapped
      <4>2. At(<< p, b >>)' = mapped
        BY <3>3, OneObject
      <4>3. bloom'[p][b].vec = "file"
        BY <4>1, <4>2 DEF At
      <4>4. QED  BY <2>3, <2>5, <3>3, <4>3 DEF Begins
    <3>4. QED  BY <1>2, <3>2, <3>3
  <2>12. CASE OpenReads(p, b)
    <3> DEFINE used == p \in setup.writers /\ inode[o.file].header = "good" /\ Used(<< p, b >>, o)
    <3>1. past' = [past EXCEPT ![o.file].shared = @ \/ used]
      BY <2>12 DEF OpenReads
    <3> HIDE DEF used
    <3>2. CASE o.file = i
      <4>1. /\ past'[i].raced = past[i].raced /\ past'[i].adds = past[i].adds
            /\ past'[i].calls = past[i].calls /\ past'[i].missed = past[i].missed
            /\ past'[i].sessions = past[i].sessions
            /\ past'[i].detached = past[i].detached
            /\ past'[i].shared = (past[i].shared \/ used)
        BY <1>0, <3>1, <3>2 DEF Pasts
      <4>2. Reads(p, b, i)
        BY <2>12, <3>2 DEF Reads
      <4>3. past'[i].shared <=>
              \/ past[i].shared
              \/ p \in setup.writers /\ inode[i].header = "good" /\ Used(<< p, b >>, bloom[p][b])
        BY <3>2, <4>1 DEF used
      <4>4. QED  BY <4>1, <4>2, <4>3 DEF Happens
    <3>3. CASE o.file # i
      BY <1>0, <1>1, <3>1, <3>3
    <3>4. QED  BY <3>2, <3>3
  <2>6. CASE WriteReturns(p, b)
    <3>1. past' = [past EXCEPT ![o.file].adds = @ \cup o.memory, ![o.file].calls = @ + o.added]
      BY <2>6 DEF WriteReturns
    <3> DEFINE m == o.memory
               a == o.added
               f == o.file
    <3>2. past' = [past EXCEPT ![f].adds = @ \cup m, ![f].calls = @ + a]
      BY <3>1
    <3> HIDE DEF m, a, f
    <3>3. CASE f = i
      <4>1. /\ past'[i].raced = past[i].raced /\ past'[i].adds = past[i].adds \cup m
            /\ past'[i].calls = past[i].calls + a /\ past'[i].missed = past[i].missed
            /\ past'[i].sessions = past[i].sessions
            /\ past'[i].shared = past[i].shared /\ past'[i].detached = past[i].detached
        BY <1>0, <3>2, <3>3 DEF Pasts
      <4>2. QED  BY <2>6, <3>3, <4>1 DEF Happens, Returns, m, a, f
    <3>4. CASE f # i
      BY <1>0, <1>1, <3>2, <3>4
    <3>5. QED  BY <3>3, <3>4
  <2>7. CASE AddStore(p, b)
    <3>1. \/ past' = past
          \/ o.vec = "file" /\ \E r : past' = [past EXCEPT ![o.file].raced = r]
      BY <2>7 DEF AddStore
    <3>2. ASSUME NEW r, past' = [past EXCEPT ![o.file].raced = r], o.vec = "file"
          PROVE  Happens(i)
      <4>1. CASE o.file = i
        <5>1. /\ past'[i].adds = past[i].adds
              /\ past'[i].calls = past[i].calls /\ past'[i].missed = past[i].missed
              /\ past'[i].sessions = past[i].sessions
              /\ past'[i].shared = past[i].shared /\ past'[i].detached = past[i].detached
          BY <1>0, <3>2, <4>1 DEF Pasts
        <5>2. Stores(p, b, i)
          BY <2>7, <3>2, <4>1 DEF Stores
        <5>3. QED  BY <5>1, <5>2 DEF Happens
      <4>2. CASE o.file # i
        BY <1>0, <1>1, <3>2, <4>2
      <4>3. QED  BY <4>1, <4>2
    <3>3. QED  BY <1>2, <3>1, <3>2
  <2>8. CASE AddCount(p, b)
    <3> DEFINE counted == [o EXCEPT !.at = "ready", !.added = @ + 1, !.item = {}, !.loaded = {}]
               updates == updateDue(counted.added) /\ OnFd(p, o) # Free
               m == o.item
               f == o.file
    <3>1. PICK miss \in IF updates THEN {0, 1} ELSE {0} :
            /\ inode' = IF updates /\ miss = 0 THEN InfoUpdate(p, counted) ELSE inode
            /\ past' = IF o.vec = "file"
                       THEN [past EXCEPT ![f].adds = @ \cup m, ![f].calls = @ + 1,
                                         ![f].missed = @ + miss]
                       ELSE past
      BY <2>8 DEF AddCount
    <3>2. CASE o.vec = "file" /\ f = i
      <4>1. past' = [past EXCEPT ![i].adds = @ \cup m, ![i].calls = @ + 1,
                                 ![i].missed = @ + miss]
        BY <3>1, <3>2
      <4>2. counted.added = o.added + 1 /\ OnFd(p, counted) = OnFd(p, o)
        BY <2>1 DEF Blooms, OnFd
      <4>3. Misses(p, b, i)
        <5>1. past'[i].missed = past[i].missed + miss
          <6> HIDE DEF m, updates
          <6>1. QED  BY <1>0, <4>1 DEF Pasts
        <5>2. CASE miss = 1
          <6>1. updates /\ inode' = inode
            BY <3>1, <5>2
          <6>2. QED  BY <4>2, <5>1, <5>2, <6>1 DEF Misses
        <5>3. CASE miss = 0
          <6>1. past'[i].missed = past[i].missed
            BY <1>0, <5>1, <5>3 DEF Pasts
          <6>2. ASSUME updateDue(o.added + 1), OnFd(p, o) = i
                PROVE  inode'[i].added = o.added + 1
            <7>1. updates
              BY <4>2, <6>2 DEF Free, Inodes
            <7>2. inode' = [inode EXCEPT ![i].header = "good", ![i].added = counted.added]
              BY <3>1, <4>2, <5>3, <6>2, <7>1 DEF InfoUpdate, Free, Inodes
            <7> HIDE DEF counted
            <7>3. inode'[i].added = counted.added
              BY <7>2 DEF TypeInv, Files
            <7>4. QED  BY <4>2, <7>3
          <6>3. QED  BY <6>1, <6>2 DEF Misses
        <5>4. QED  BY <3>1, <5>2, <5>3
      <4> HIDE DEF m, updates, counted
      <4>4. /\ past'[i].raced = past[i].raced /\ past'[i].adds = past[i].adds \cup m
            /\ past'[i].calls = past[i].calls + 1 /\ past'[i].sessions = past[i].sessions
            /\ past'[i].shared = past[i].shared /\ past'[i].detached = past[i].detached
        BY <1>0, <4>1 DEF Pasts
      <4>5. Counts(p, b, i)
        BY <2>8, <3>2 DEF Counts
      <4>6. QED  BY <4>3, <4>4, <4>5 DEF Happens, m
    <3>3. CASE o.vec # "file"
      BY <1>2, <3>1, <3>3
    <3>4. CASE o.vec = "file" /\ f # i
      <4>1. past' = [past EXCEPT ![f].adds = @ \cup m, ![f].calls = @ + 1,
                                 ![f].missed = @ + miss]
        BY <3>1, <3>4
      <4> HIDE DEF m, updates
      <4>2. past'[i] = past[i]
        BY <1>0, <3>4, <4>1
      <4>3. QED  BY <1>1, <4>2
    <3>5. QED  BY <3>2, <3>3, <3>4
  <2>9. CASE OpenExits(p, b) \/ \E h \in setup.items : Fault(p, b, h)
    BY <1>3, <2>9 DEF OpenExits, Fault
  <2>10. CASE \/ CreateInMemory(p, b)
              \/ WriteChunk(p, b)
              \/ WriteFails(p, b)
              \/ OpenRejects(p, b)
              \/ OpenCloses(p, b)
              \/ Clear(p, b)
              \/ \E h \in setup.items : AddLoad(p, b, h)
    BY <1>2, <2>10 DEF CreateInMemory, WriteChunk, WriteFails, OpenRejects, OpenCloses, Clear,
                       AddLoad, notes
  <2>11. QED  BY <1>5, <2>2, <2>4, <2>5, <2>6, <2>7, <2>8, <2>9, <2>10, <2>12
<1>6. CASE UNCHANGED vars
  BY <1>2, <1>6 DEF vars
<1>7. ASSUME NEW p \in Procs, Crash(p) \/ Restart(p)
      PROVE  Happens(i)
  BY <1>3, <1>7 DEF Crash, Restart
<1>8. ASSUME NEW p \in Procs, NEW b \in setup.filters[p], NEW n \in setup.names,
             \/ Create(p, b, n)
             \/ Write(p, b, n)
             \/ OpenFails(p, b, n)
             \/ Open(p, b, n)
      PROVE  Happens(i)
  BY <1>2, <1>4, <1>8 DEF Create, Write, OpenFails, Open, notes
<1>9. QED  BY <1>5, <1>6, <1>7, <1>8 DEF Next

-----------------------------------------------------------------------------
(***************************************************************************)
(* The vector.                                                             *)
(***************************************************************************)
\* What the store of a byte, for item g, does to its file.
StoresByte(p, b, i, g) ==
  LET o == bloom[p][b] IN
  /\ o.at = "store" /\ o.vec = "file" /\ o.file = i
  /\ o.item = {g} /\ o.loaded \subseteq OfByte(g) /\ g \in OfByte(g)
  /\ Set(p, b, [o EXCEPT !.at = "count", !.loaded = {}])
  /\ inode'[i].vector = (inode[i].vector \ OfByte(g)) \cup o.loaded \cup {g}
  /\ inode'[i].chunks = inode[i].chunks
  /\ inode'[i].header = inode[i].header
  /\ inode'[i].added = inode[i].added
  /\ past'[i].raced = IF overtaken(<< p, b >>, o) THEN past[i].raced \cup {g}
                      ELSE past[i].raced \ {g}

\* A store to the mapped vector sets one bit, and gives the others of its byte the
\* values they had when it was loaded.
LEMMA ByteStored ==
  ASSUME TypeInv, NEW p \in Procs, NEW b \in setup.filters[p], NEW i \in Inodes, Stores(p, b, i)
  PROVE  \E g \in Items : StoresByte(p, b, i, g)
<1> DEFINE o == bloom[p][b]
           stored == (Vector(o) \ UNION { OfByte(h) : h \in o.item }) \cup storedByte(o)
<1>1. o \in Blooms /\ Stage(p, o) /\ inode \in [Inodes -> Files] /\ past \in [Inodes -> Pasts]
  BY Typed DEF TypeInv
<1>2. o.at = "store" /\ o.vec = "file" /\ o.file = i
  BY DEF Stores, AddStore
<1>3. PICK g \in Items : o.item = {g} /\ o.loaded \subseteq OfByte(g)
  BY <1>1, <1>2 DEF Stage
<1>4. stored = (inode[i].vector \ OfByte(g)) \cup o.loaded \cup {g}
  BY <1>2, <1>3 DEF Vector, storedByte
<1>5. inode' = [inode EXCEPT ![i].vector = stored]
  BY <1>2 DEF Stores, AddStore
<1>6. past' = [past EXCEPT ![i].raced =
                 IF overtaken(<< p, b >>, o) THEN @ \cup {g} ELSE @ \ {g}]
  BY <1>2, <1>3 DEF Stores, AddStore
<1>7. Set(p, b, [o EXCEPT !.at = "count", !.loaded = {}])
  BY <1>2 DEF Stores, AddStore
<1>8. g \in OfByte(g)
  BY DEF OfByte
<1> HIDE DEF stored
<1>9. /\ inode'[i].vector = stored
      /\ inode'[i].chunks = inode[i].chunks
      /\ inode'[i].header = inode[i].header
      /\ inode'[i].added = inode[i].added
  BY <1>1, <1>5 DEF Files
<1>10. past'[i].raced = IF overtaken(<< p, b >>, o) THEN past[i].raced \cup {g}
                        ELSE past[i].raced \ {g}
  BY <1>1, <1>6 DEF Pasts
<1>11. StoresByte(p, b, i, g)
  BY <1>2, <1>3, <1>4, <1>7, <1>8, <1>9, <1>10 DEF StoresByte
<1>12. QED  BY <1>11

\* The header of a file is written without its vector.
LEMMA HeaderWritten ==
  ASSUME TypeInv, NEW p \in Procs, NEW b \in setup.filters[p], NEW i \in Inodes, Informs(p, b, i)
  PROVE  /\ inode'[i].vector = inode[i].vector
         /\ inode'[i].chunks = inode[i].chunks
         /\ inode'[i].header = "good"
         /\ inode'[i].added = bloom'[p][b].added
<1>1. inode[i] \in Files
  BY DEF TypeInv
<1>2. QED  BY <1>1 DEF Informs, Files

\* The writer of a chunk has the file as its own, and has written all there is.
LEMMA ChunkWriter ==
  ASSUME TypeInv, DescriptorInv, WrittenInv,
         NEW p \in Procs, NEW b \in setup.filters[p], NEW i \in Inodes, Extends(p, b, i)
  PROVE  /\ bloom[p][b].file = i /\ bloom[p][b].at = "vector"
         /\ bloom[p][b].written = inode[i].chunks
         /\ inode[i].header = "good"
<1>1. /\ << p, b >> \in Objects /\ At(<< p, b >>) = bloom[p][b]
      /\ FdOf(<< p, b >>) = OnFd(p, bloom[p][b])
  BY ObjectPairs DEF FdOf
<1>2. FdOf(<< p, b >>) = i /\ FdOf(<< p, b >>) # Free /\ bloom[p][b].at = "vector"
  BY <1>1 DEF Extends, WriteChunk
<1>3. bloom[p][b].file = i
  BY <1>1, <1>2 DEF DescriptorInv
<1>4. QED  BY <1>1, <1>2, <1>3 DEF WrittenInv, Extent, Writing

\* An item that is kept stays so, unless its chunk is the one being written.
LEMMA KeptStays ==
  ASSUME TypeInv, DescriptorInv, WrittenInv, VectorInv, [Next]_vars,
         NEW i \in Inodes, NEW h \in Items, Kept(i, h),
         \A p \in Procs : \A b \in setup.filters[p] :
           Extends(p, b, i) => chunkOf[h] <= inode[i].chunks
  PROVE  Kept(i, h)'
<1>1. h \in inode[i].vector \/ h \in past[i].raced
  BY DEF Kept
<1>2. ASSUME ~ (\E p \in Procs : \E b \in setup.filters[p] : Stores(p, b, i))
      PROVE  past'[i].raced = past[i].raced
  BY <1>2, HistorySteps DEF Happens
<1>3. ASSUME NEW p \in Procs, NEW b \in setup.filters[p], Stores(p, b, i)
      PROVE  Kept(i, h)'
  <2> DEFINE o == bloom[p][b]
  <2>a. PICK g \in Items : StoresByte(p, b, i, g)
    BY <1>3, ByteStored
  <2>1. /\ o.at = "store" /\ o.vec = "file" /\ o.file = i
        /\ o.item = {g}
        /\ inode'[i].vector = (inode[i].vector \ OfByte(g)) \cup o.loaded \cup {g}
        /\ past'[i].raced = IF overtaken(<< p, b >>, o) THEN past[i].raced \cup {g}
                            ELSE past[i].raced \ {g}
    BY <2>a DEF StoresByte
  <2>2. << p, b >> \in Objects /\ At(<< p, b >>) = o
    BY ObjectPairs
  <2>3. \A other \in OfByte(g) :
          (other \in o.loaded <=> other \in inode[i].vector) \/ other \in past[i].raced
    BY <2>1, <2>2 DEF VectorInv, ObjectVector, ByteKnown
  <2>4. past[i].raced \ {g} \subseteq past'[i].raced
    BY <2>1
  <2>5. QED  BY <1>1, <2>1, <2>3, <2>4 DEF Kept
<1>4. ASSUME NEW p \in Procs, NEW b \in setup.filters[p], Extends(p, b, i),
             past'[i].raced = past[i].raced
      PROVE  Kept(i, h)'
  <2> DEFINE o == bloom[p][b]
             inChunk == { x \in Items : chunkOf[x] = o.written + 1 }
  <2>1. inode'[i].vector = (inode[i].vector \ inChunk) \cup (o.memory \cap inChunk)
        /\ o.written \in Nat /\ o.written < Chunks
    BY <1>4, ChunkWritten
  <2>2. chunkOf[h] <= o.written /\ chunkOf[h] \in Nat
    BY <1>4, ChunkWriter, Situation DEF TypeInv
  <2>3. h \notin inChunk
    BY <2>1, <2>2
  <2>4. QED  BY <1>1, <1>4, <2>1, <2>3, SMTT(30) DEF Kept
<1>5. ASSUME NEW p \in Procs, NEW b \in setup.filters[p], Informs(p, b, i),
             past'[i].raced = past[i].raced
      PROVE  Kept(i, h)'
  BY <1>1, <1>5, HeaderWritten DEF Kept
<1>6. QED  BY <1>1, <1>2, <1>3, <1>4, <1>5, FileSteps DEF Kept

\* What was added was written before.
LEMMA AddsKept ==
  ASSUME TypeInv, DescriptorInv, WrittenInv, VectorInv, [Next]_vars,
         NEW i \in Inodes, NEW h \in past[i].adds
  PROVE  Kept(i, h)'
<1>1. h \in Items /\ Kept(i, h)
  BY DEF TypeInv, Pasts, VectorInv, FileVector
<1>2. ASSUME NEW p \in Procs, NEW b \in setup.filters[p], Extends(p, b, i)
      PROVE  chunkOf[h] <= inode[i].chunks
  <2>1. /\ << p, b >> \in Objects /\ At(<< p, b >>) = bloom[p][b] /\ bloom[p][b].file = i
        /\ Writing(bloom[p][b]) /\ bloom[p][b].written = inode[i].chunks
    BY <1>2, ChunkWriter, ObjectPairs DEF Writing
  <2>2. QED  BY <2>1 DEF VectorInv, ObjectVector
<1>3. QED  BY <1>1, <1>2, KeptStays

\* What an object knows of the byte it has loaded, it still knows.
LEMMA ByteKnownStays ==
  ASSUME TypeInv, DescriptorInv, WrittenInv, VectorInv, [Next]_vars,
         NEW o \in Objects, At(o)' = At(o), At(o).vec = "file", At(o).at = "store"
  PROVE  ByteKnown(o)'
<1> DEFINE i == At(o).file
<1>1. /\ i \in Inodes /\ ByteKnown(o)
      /\ \A h \in At(o).item : chunkOf[h] <= inode[i].chunks
  BY DEF TypeInv, Stage, VectorInv, ObjectVector
<1>2. PICK h \in Items : At(o).item = {h}
  BY DEF TypeInv, Stage
<1>3. SUFFICES ASSUME NEW other \in OfByte(h)
               PROVE  \/ other \in At(o).loaded <=> other \in inode'[i].vector
                      \/ other \in past'[i].raced
  BY <1>2 DEF ByteKnown
<1>4. /\ other \in Items /\ byteOf[other] = byteOf[h]
      /\ \/ other \in At(o).loaded <=> other \in inode[i].vector
         \/ other \in past[i].raced
  BY <1>1, <1>2 DEF ByteKnown, OfByte
<1>5. ASSUME NEW p \in Procs, NEW b \in setup.filters[p], Stores(p, b, i)
      PROVE  \/ other \in At(o).loaded <=> other \in inode'[i].vector
             \/ other \in past'[i].raced
  <2> DEFINE s == bloom[p][b]
             me == << p, b >>
  <2>1. PICK g \in Items : StoresByte(p, b, i, g)
    BY <1>1, <1>5, ByteStored
  <2>2. /\ me \in Objects /\ At(me) = s /\ s \in Blooms
        /\ s.at = "store" /\ s.vec = "file" /\ s.file = i /\ s.item = {g}
        /\ inode'[i].vector = (inode[i].vector \ OfByte(g)) \cup s.loaded \cup {g}
        /\ past'[i].raced = IF overtaken(me, s) THEN past[i].raced \cup {g}
                            ELSE past[i].raced \ {g}
        /\ s.loaded \subseteq OfByte(g)
    BY <2>1, ObjectPairs, Typed DEF StoresByte
  <2>3. o # me
    <3>1. UNCHANGED setup
      BY <1>5 DEF Stores, AddStore
    <3>2. At(me)' = [s EXCEPT !.at = "count", !.loaded = {}]
      BY <2>1, <3>1, OneObject DEF StoresByte
    <3>3. QED  BY <2>2, <3>2 DEF Blooms
  <2>4. CASE byteOf[h] = byteOf[g]
    <3>1. h \in OfByte(g) /\ other \in OfByte(g)
      BY <1>4, <2>4 DEF OfByte
    <3>2. overtaken(me, s)
      BY <1>2, <2>2, <2>3, <3>1 DEF overtaken
    <3>3. (other \in s.loaded <=> other \in inode[i].vector) \/ other \in past[i].raced
      BY <2>2, <3>1 DEF VectorInv, ObjectVector, ByteKnown
    <3>4. QED  BY <1>4, <2>2, <3>1, <3>2, <3>3
  <2>5. CASE byteOf[h] # byteOf[g]
    <3>1. other \notin OfByte(g) /\ other # g
      BY <1>4, <2>5 DEF OfByte
    <3>2. QED  BY <1>4, <2>2, <3>1
  <2>6. QED  BY <2>4, <2>5
<1>6. ASSUME NEW p \in Procs, NEW b \in setup.filters[p], Extends(p, b, i)
      PROVE  other \in inode'[i].vector <=> other \in inode[i].vector
  <2> DEFINE w == bloom[p][b].written
             inChunk == { x \in Items : chunkOf[x] = w + 1 }
  <2>1. inode'[i].vector = (inode[i].vector \ inChunk) \cup (bloom[p][b].memory \cap inChunk)
        /\ w \in Nat
    BY <1>1, <1>6, ChunkWritten, ZenonT(60)
  <2>2. chunkOf[other] = chunkOf[h] /\ chunkOf[h] \in Nat
    BY <1>4, BloomFileAssumption DEF BloomFileAssumption
  <2>3. chunkOf[h] <= w
    BY <1>1, <1>2, <1>6, ChunkWriter
  <2>4. other \notin inChunk
    BY <2>1, <2>2, <2>3
  <2>5. QED  BY <2>1, <2>4, SMTT(30)
<1>7. ASSUME NEW p \in Procs, NEW b \in setup.filters[p], Informs(p, b, i)
      PROVE  other \in inode'[i].vector <=> other \in inode[i].vector
  BY <1>1, <1>7, HeaderWritten
<1>8. (~ \E p \in Procs : \E b \in setup.filters[p] : Stores(p, b, i))
        => past'[i].raced = past[i].raced
  BY <1>1, HistorySteps DEF Happens
<1>9. QED  BY <1>1, <1>4, <1>5, <1>6, <1>7, <1>8, FileSteps

\* What is added to a file has been kept in it, and the file has a header.
LEMMA Added ==
  ASSUME TypeInv, DescriptorInv, WrittenInv, VectorInv, [Next]_vars,
         NEW i \in Inodes, NEW h \in past'[i].adds
  PROVE  /\ h \in Items /\ Kept(i, h)'
         /\ \/ h \in past[i].adds
            \/ inode[i].header = "good" /\ chunkOf[h] <= inode[i].chunks
<1>1. CASE h \in past[i].adds
  BY <1>1, AddsKept DEF TypeInv, Pasts
<1>2. ASSUME NEW p \in Procs, NEW b \in setup.filters[p], Counts(p, b, i),
             h \in bloom[p][b].item
      PROVE  h \in Items /\ Kept(i, h)' /\ inode[i].header = "good" /\ chunkOf[h] <= inode[i].chunks
  <2> DEFINE o == bloom[p][b]
  <2>1. /\ << p, b >> \in Objects /\ At(<< p, b >>) = o /\ o \in Blooms
        /\ o.at = "count" /\ o.vec = "file" /\ o.file = i
    BY <1>2, ObjectPairs, Typed DEF Counts, AddCount
  <2>2. h \in Items /\ Kept(i, h) /\ inode[i].header = "good" /\ chunkOf[h] <= inode[i].chunks
    BY <1>2, <2>1 DEF Blooms, VectorInv, ObjectVector, WrittenInv, Extent
  <2>3. QED  BY <2>2, KeptStays
<1>3. ASSUME NEW p \in Procs, NEW b \in setup.filters[p], Returns(p, b, i),
             h \in bloom[p][b].memory
      PROVE  h \in Items /\ Kept(i, h)' /\ inode[i].header = "good" /\ chunkOf[h] <= inode[i].chunks
  <2> DEFINE o == bloom[p][b]
  <2>1. /\ << p, b >> \in Objects /\ At(<< p, b >>) = o /\ o \in Blooms /\ Stage(p, o)
        /\ o.at = "map" /\ o.file = i
    BY <1>3, ObjectPairs, Typed DEF Returns, WriteReturns
  <2>2. h \in Items /\ inode[i].header = "good" /\ inode[i].chunks = Chunks /\ o.written = Chunks
    BY <1>3, <2>1 DEF Blooms, WrittenInv, Extent, Stage
  <2>3. chunkOf[h] <= Chunks
    BY <2>2, Situation DEF TypeInv
  <2>4. Kept(i, h)
    BY <1>3, <2>1, <2>2, <2>3 DEF VectorInv, ObjectVector
  <2>5. QED  BY <2>2, <2>3, <2>4, KeptStays
<1>4. QED  BY <1>1, <1>2, <1>3, HistorySteps DEF Happens

\* A file whose header is read as none had none.
LEMMA HeaderNone ==
  ASSUME TypeInv, [Next]_vars, NEW i \in Inodes, inode'[i].header = "none"
  PROVE  inode[i].header = "none"
<1>1. ASSUME NEW p \in Procs, NEW b \in setup.filters[p], Stores(p, b, i)
      PROVE  inode'[i].header = inode[i].header
  <2>1. PICK g \in Items : StoresByte(p, b, i, g)
    BY <1>1, ByteStored
  <2>2. QED  BY <2>1 DEF StoresByte
<1>2. QED  BY <1>1, FileSteps, ChunkWritten, HeaderWritten

\* A step keeps what was told to be in the vector.
LEMMA FileVectorStays ==
  ASSUME TypeInv, DescriptorInv, WrittenInv, VectorInv, [Next]_vars, NEW i \in Inodes
  PROVE  FileVector(i)'
<1>1. inode'[i].header = "none" => past'[i].adds = {}
  <2>1. SUFFICES ASSUME inode'[i].header = "none", NEW h \in past'[i].adds
                 PROVE  FALSE
    OBVIOUS
  <2>2. inode[i].header = "none" /\ past[i].adds = {}
    BY <2>1, HeaderNone DEF VectorInv, FileVector
  <2>3. QED  BY <2>2, Added
<1>2. \A h \in past'[i].adds : Kept(i, h)'
  BY Added
<1>3. QED  BY <1>1, <1>2 DEF FileVector

\* An object that does not move keeps what VectorInv says of it.
LEMMA ObjectVectorStays ==
  ASSUME TypeInv, TypeInv', NameInv, DescriptorInv, WrittenInv, VectorInv, [Next]_vars,
         NEW o \in Objects, At(o)' = At(o)
  PROVE  ObjectVector(o)'
<1> DEFINE i == At(o).file
<1>0. /\ At(o) \in Blooms /\ Stage(o[1], At(o)) /\ ObjectVector(o)
      /\ Extent(At(o), inode[i]) /\ Extent(At(o), inode'[i])
      /\ Chunks \in Nat /\ chunkOf \in [Items -> 1 .. Chunks]
  BY ExtentStays, Situation DEF TypeInv, VectorInv, WrittenInv
<1>1. ASSUME At(o).vec = "file", At(o).at \in {"store", "count"}, NEW h \in At(o).item
      PROVE  chunkOf[h] <= inode'[i].chunks
  <2>1. i \in Inodes /\ chunkOf[h] <= inode[i].chunks /\ h \in Items
    BY <1>0, <1>1 DEF Stage, ObjectVector, Blooms
  <2>2. inode[i].chunks <= inode'[i].chunks /\ inode[i].chunks \in Nat /\ inode'[i].chunks \in Nat
        /\ chunkOf[h] \in Nat
    BY <1>0, <2>1, FileGrows DEF TypeInv, Files
  <2>3. QED  BY <2>1, <2>2
<1>2. At(o).vec = "file" /\ At(o).at = "store" => ByteKnown(o)'
  BY ByteKnownStays
<1>3. ASSUME At(o).vec = "file", At(o).at = "count", NEW h \in At(o).item
      PROVE  Kept(i, h)'
  <2>1. i \in Inodes /\ h \in Items /\ chunkOf[h] <= inode[i].chunks /\ Kept(i, h)
    BY <1>0, <1>3 DEF Stage, ObjectVector, Blooms
  <2>2. QED  BY <2>1, KeptStays
<1>4. ASSUME At(o).at \in {"vector", "map"}, NEW h \in At(o).memory, chunkOf[h] <= At(o).written
      PROVE  Kept(i, h)'
  <2>1. i \in Inodes /\ h \in Items /\ Kept(i, h) /\ At(o).written = inode[i].chunks
    BY <1>0, <1>4 DEF Stage, Creating, Opening, ObjectVector, Blooms, Extent, Writing
  <2>2. QED  BY <1>4, <2>1, KeptStays
<1>5. ASSUME Writing(At(o)), NEW h \in past'[i].adds
      PROVE  chunkOf[h] <= At(o).written
  <2>1. i \in Inodes /\ At(o).written = inode[i].chunks
    BY <1>0, <1>5 DEF Stage, Creating, Opening, Extent, Writing
  <2>2. CASE h \in past[i].adds
    BY <1>0, <1>5, <2>2 DEF ObjectVector
  <2>3. CASE h \notin past[i].adds
    BY <2>1, <2>3, Added
  <2>4. QED  BY <2>2, <2>3
<1>6. QED  BY <1>1, <1>2, <1>3, <1>4, <1>5 DEF ObjectVector, Writing

\* What is added to a file that is being written was written before.
LEMMA WriterAdds ==
  ASSUME TypeInv, DescriptorInv, WrittenInv, VectorInv, [Next]_vars,
         NEW o \in Objects, Writing(At(o)), NEW h \in past'[At(o).file].adds
  PROVE  chunkOf[h] <= At(o).written
<1> DEFINE i == At(o).file
<1>1. i \in Inodes /\ At(o).written = inode[i].chunks
  BY DEF Stage, Creating, Opening, Extent, Writing, TypeInv, WrittenInv
<1>2. CASE h \in past[i].adds
  BY <1>2 DEF ObjectVector, VectorInv
<1>3. CASE h \notin past[i].adds
  BY <1>1, <1>3, Added
<1>4. QED  BY <1>2, <1>3

\* A step of one object.
LEMMA VectorBy ==
  ASSUME TypeInv, TypeInv', NameInv, DescriptorInv, WrittenInv, VectorInv, [Next]_vars,
         UNCHANGED setup, NEW p \in Procs, NEW b \in setup.filters[p], NEW object,
         Set(p, b, object), ObjectVector(<< p, b >>)'
  PROVE  VectorInv'
<1>1. /\ Objects' = Objects
      /\ \A o \in Objects : o # << p, b >> => At(o)' = At(o)
  BY OneObject
<1>2. ASSUME NEW o \in Objects
      PROVE  ObjectVector(o)'
  <2>1. CASE o = << p, b >>
    BY <2>1
  <2>2. CASE o # << p, b >>
    BY <1>1, <2>2, ObjectVectorStays
  <2>3. QED  BY <2>1, <2>2
<1>3. QED  BY <1>1, <1>2, FileVectorStays DEF VectorInv

\* An object of which VectorInv says nothing.
Idle(o) ==
  \/ o.at \notin {"header", "vector", "map", "store", "count"}
  \/ o.at \in {"store", "count"} /\ o.vec # "file"

\* A step after which its object is not at work on a vector.
LEMMA VectorByIdle ==
  ASSUME TypeInv, TypeInv', NameInv, DescriptorInv, WrittenInv, VectorInv, [Next]_vars,
         UNCHANGED setup, NEW p \in Procs, NEW b \in setup.filters[p], NEW object,
         Set(p, b, object), Idle(object)
  PROVE  VectorInv'
<1>1. At(<< p, b >>)' = object
  BY OneObject
<1>2. ObjectVector(<< p, b >>)'
  BY <1>1 DEF ObjectVector, Idle, Writing
<1>3. QED  BY <1>2, VectorBy

\* A file that nobody used has nothing in it.
LEMMA VectorNew ==
  ASSUME TypeInv, TypeInv', NameInv, DescriptorInv, WrittenInv, VectorInv, [Next]_vars,
         UNCHANGED setup, NEW p \in Procs, NEW b \in setup.filters[p], NEW object,
         Set(p, b, object), object.at = "header",
         NEW n, NEW i \in creatable(n), object.file = i, inode' = inode
  PROVE  VectorInv'
<1>1. At(<< p, b >>)' = object
  BY OneObject
<1>2. i \in Inodes /\ inode'[i].header = "none"
  BY DEF creatable, Unused, EmptyFile
<1>3. past'[i].adds = {}
  BY <1>2, FileVectorStays DEF FileVector
<1>4. ObjectVector(<< p, b >>)'
  BY <1>1, <1>3 DEF ObjectVector
<1>5. QED  BY <1>4, VectorBy

\* The write() of the header.
LEMMA VectorHeader ==
  ASSUME TypeInv, TypeInv', NameInv, DescriptorInv, WrittenInv, VectorInv, [Next]_vars,
         NEW p \in Procs, NEW b \in setup.filters[p], WriteHeader(p, b)
  PROVE  VectorInv'
<1> DEFINE o == bloom[p][b]
           me == << p, b >>
           object == [o EXCEPT !.at = "vector"]
<1>1. /\ me \in Objects /\ At(me) = o /\ o \in Blooms /\ Stage(p, o)
      /\ o.at = "header" /\ Set(p, b, object) /\ UNCHANGED setup
  BY ObjectPairs, Typed DEF WriteHeader
<1>2. At(me)' = object
  BY <1>1, OneObject
<1>3. /\ object.at = "vector" /\ object.file = o.file /\ object.memory = o.memory
      /\ object.written = o.written /\ object.vec = o.vec
  BY <1>1 DEF Blooms
<1> HIDE DEF object
<1>4. o.vec # "file" /\ o.written = 0 /\ o.memory \subseteq Items
  BY <1>1 DEF Stage, Creating, Opening, Blooms
<1>5. \A h \in o.memory : ~ (chunkOf[h] <= 0)
  BY <1>4, Situation DEF TypeInv
<1>6. \A h \in past'[o.file].adds : chunkOf[h] <= o.written
  BY <1>1, WriterAdds DEF Writing
<1>7. ObjectVector(me)'
  BY <1>2, <1>3, <1>4, <1>5, <1>6 DEF ObjectVector
<1>8. QED  BY <1>1, <1>7, VectorBy

\* The write() of a chunk: what the object has in memory of it is in the file then.
LEMMA VectorChunk ==
  ASSUME TypeInv, TypeInv', NameInv, DescriptorInv, WrittenInv, VectorInv, [Next]_vars,
         NEW p \in Procs, NEW b \in setup.filters[p], WriteChunk(p, b)
  PROVE  VectorInv'
<1> DEFINE o == bloom[p][b]
           me == << p, b >>
           object == [o EXCEPT !.written = @ + 1,
                        !.at = IF o.written + 1 < Chunks THEN "vector" ELSE "map"]
           inChunk == { h \in Items : chunkOf[h] = o.written + 1 }
<1>0. PICK i : i = bloom[p][b].file
  OBVIOUS
<1>1. /\ me \in Objects /\ At(me) = o /\ o \in Blooms /\ Stage(p, o)
      /\ o.at = "vector" /\ Set(p, b, object) /\ UNCHANGED setup
      /\ OnFd(p, o) # Free
  BY ObjectPairs, Typed DEF WriteChunk, notes
<1>2. At(me)' = object
  BY <1>1, OneObject
<1>3. /\ object.at \in {"vector", "map"} /\ object.file = i /\ object.memory = o.memory
      /\ object.written = o.written + 1 /\ object.vec = o.vec
  BY <1>0, <1>1 DEF Blooms
<1> HIDE DEF object
<1>4. o.vec # "file" /\ i \in Inodes /\ o.memory \subseteq Items
  BY <1>0, <1>1 DEF Stage, Creating, Opening, Blooms
<1>5. Extends(p, b, i)
  BY <1>0, <1>1 DEF Extends, DescriptorInv, FdOf
<1>6. /\ inode'[i].vector = (inode[i].vector \ inChunk) \cup (o.memory \cap inChunk)
      /\ o.written \in Nat /\ o.written = inode[i].chunks
  <2>1. o.written = inode[i].chunks
    BY <1>4, <1>5, ChunkWriter, SMTT(30)
  <2>2. /\ inode'[i].vector = (inode[i].vector \ inChunk) \cup (o.memory \cap inChunk)
        /\ o.written \in Nat
    BY <1>4, <1>5, ChunkWritten
  <2>3. QED  BY <2>1, <2>2
<1>7. ASSUME NEW h \in o.memory, chunkOf[h] <= o.written + 1
      PROVE  Kept(i, h)'
  <2>1. h \in Items /\ chunkOf[h] \in Nat
    BY <1>4, Situation DEF TypeInv
  <2>2. CASE chunkOf[h] <= o.written
    <3>1. Kept(i, h)
      BY <1>0, <1>1, <1>7, <2>2 DEF VectorInv, ObjectVector
    <3>2. QED  BY <1>4, <1>6, <2>1, <2>2, <3>1, KeptStays
  <2>3. CASE ~ (chunkOf[h] <= o.written)
    <3>1. h \in inChunk
      BY <1>6, <1>7, <2>1, <2>3
    <3>2. QED  BY <1>6, <1>7, <3>1 DEF Kept
  <2>4. QED  BY <2>2, <2>3
<1>8. ASSUME NEW h \in past'[i].adds
      PROVE  chunkOf[h] <= o.written + 1
  <2>1. chunkOf[h] <= o.written
    BY <1>0, <1>1, WriterAdds DEF Writing
  <2>2. h \in Items
    BY <1>4 DEF TypeInv, Pasts
  <2>3. chunkOf[h] \in Nat
    BY <2>2, Situation DEF TypeInv
  <2>4. QED  BY <1>6, <2>1, <2>3
<1>9. ObjectVector(me)'
  BY <1>2, <1>3, <1>4, <1>7, <1>8 DEF ObjectVector
<1>10. QED  BY <1>1, <1>9, VectorBy

\* What an add() loads from the file it then knows.
LEMMA VectorLoad ==
  ASSUME TypeInv, TypeInv', NameInv, DescriptorInv, WrittenInv, VectorInv, [Next]_vars,
         NEW p \in Procs, NEW b \in setup.filters[p], NEW h \in Items, AddLoad(p, b, h)
  PROVE  VectorInv'
<1> DEFINE o == bloom[p][b]
           me == << p, b >>
           v == Vector(o)
           object == [o EXCEPT !.at = IF h \in v THEN "count" ELSE "store",
                        !.item = {h}, !.loaded = v \cap OfByte(h)]
<1>0. PICK i : i = bloom[p][b].file
  OBVIOUS
<1>1. o \in Blooms /\ Set(p, b, object) /\ UNCHANGED << files, notes >> /\ Reachable(o, h)
  BY Typed DEF AddLoad
<1>2. At(me)' = object
  BY <1>1, OneObject DEF notes
<1>3. /\ object.at = IF h \in v THEN "count" ELSE "store"
      /\ object.file = i /\ object.item = {h} /\ object.vec = o.vec
      /\ object.loaded = v \cap OfByte(h)
  BY <1>0, <1>1 DEF Blooms
<1> HIDE DEF object
<1>4. CASE o.vec = "file"
  <2>1. v = inode[i].vector /\ chunkOf[h] <= inode[i].chunks /\ inode' = inode /\ past' = past
    BY <1>0, <1>1, <1>4 DEF Vector, Reachable, files, notes
  <2> HIDE DEF v
  <2>2. h \in v => Kept(i, h)'
    BY <2>1 DEF Kept
  <2>3. ByteKnown(me)'
    BY <1>2, <1>3, <2>1 DEF ByteKnown
  <2>4. ObjectVector(me)'
    BY <1>2, <1>3, <2>1, <2>2, <2>3 DEF ObjectVector, Writing
  <2>5. QED  BY <1>1, <2>4, VectorBy DEF notes
<1>5. CASE o.vec # "file"
  <2>1. Idle(object)
    BY <1>3, <1>5, SMTT(30) DEF Idle
  <2>2. QED  BY <1>1, <2>1, VectorByIdle DEF notes
<1>6. QED  BY <1>4, <1>5

\* The store of an add: the bit is in the file then, and no bit is lost that nobody
\* else was storing.
LEMMA VectorStore ==
  ASSUME TypeInv, TypeInv', NameInv, DescriptorInv, WrittenInv, VectorInv, [Next]_vars,
         NEW p \in Procs, NEW b \in setup.filters[p], AddStore(p, b)
  PROVE  VectorInv'
<1> DEFINE o == bloom[p][b]
           i == o.file
           me == << p, b >>
           counting == [o EXCEPT !.at = "count", !.loaded = {}]
<1>1. /\ me \in Objects /\ At(me) = o /\ o \in Blooms /\ Stage(p, o)
      /\ o.at = "store" /\ UNCHANGED setup
  BY ObjectPairs, Typed DEF AddStore
<1>2. /\ counting.at = "count" /\ counting.file = i /\ counting.item = o.item
      /\ counting.vec = o.vec /\ counting \in Blooms
  BY <1>1 DEF Blooms, Ats
<1>3. CASE o.vec = "file"
  <2>1. i \in Inodes /\ Stores(p, b, i)
    BY <1>1, <1>3 DEF Stores, Stage
  <2>2. PICK g \in Items : StoresByte(p, b, i, g)
    BY <2>1, ByteStored
  <2>3. /\ o.item = {g} /\ Set(p, b, counting) /\ inode'[i].chunks = inode[i].chunks
        /\ g \in inode'[i].vector
    BY <2>2 DEF StoresByte
  <2> HIDE DEF counting
  <2>4. At(me)' = counting
    BY <1>1, <2>3, OneObject
  <2>5. chunkOf[g] <= inode'[i].chunks
    BY <1>1, <1>3, <2>3 DEF VectorInv, ObjectVector
  <2>6. ObjectVector(me)'
    BY <1>2, <2>3, <2>4, <2>5 DEF ObjectVector, Kept, Writing
  <2>7. QED  BY <1>1, <2>3, <2>6, VectorBy
<1>4. ASSUME o.vec # "file", NEW s, Set(p, b, [counting EXCEPT !.memory = s])
      PROVE  VectorInv'
  <2> DEFINE object == [counting EXCEPT !.memory = s]
  <2>1. object.at = "count" /\ object.vec # "file"
    BY <1>2, <1>4 DEF Blooms
  <2> HIDE DEF object
  <2>2. Idle(object)
    BY <2>1 DEF Idle
  <2>3. QED  BY <1>1, <1>4, <2>2, VectorByIdle DEF object
<1>5. QED  BY <1>3, <1>4 DEF AddStore

\* The steps keep what is in the vectors.
LEMMA NextVector ==
  ASSUME TypeInv, TypeInv', NameInv, DescriptorInv, WrittenInv, VectorInv, [Next]_vars
  PROVE  VectorInv'
<1>1. CASE UNCHANGED vars
  <2>1. UNCHANGED << setup, bloom, inode, past >>
    BY <1>1 DEF vars
  <2>2. Objects' = Objects /\ \A o \in Objects : At(o)' = At(o)
    BY <2>1 DEF Objects, At
  <2>3. /\ \A i, h : Kept(i, h)' <=> Kept(i, h)
        /\ \A i \in Inodes : FileVector(i)' <=> FileVector(i)
    BY <2>1 DEF Kept, FileVector
  <2>4. \A o \in Objects : ByteKnown(o)' <=> ByteKnown(o)
    BY <2>1, <2>2 DEF ByteKnown
  <2>5. \A o \in Objects : ObjectVector(o)' <=> ObjectVector(o)
    BY <2>1, <2>2, <2>3, <2>4 DEF ObjectVector, Writing
  <2>6. QED  BY <2>2, <2>3, <2>5 DEF VectorInv
<1>0. ASSUME NEW p \in Procs, NEW at \in {"zero", "exited", "faulted"}, Ends(p, at)
      PROVE  VectorInv'
  <2>1. /\ Objects' = Objects
        /\ \A o \in Objects : At(o)' = IF o[1] = p THEN [Zeroed EXCEPT !.at = at] ELSE At(o)
    BY <1>0, AllEnd
  <2>2. Idle([Zeroed EXCEPT !.at = at])
    BY DEF Idle, Zeroed
  <2>3. ASSUME NEW o \in Objects
        PROVE  ObjectVector(o)'
    <3>1. CASE o[1] = p
      BY <2>1, <2>2, <3>1 DEF ObjectVector, Idle, Writing
    <3>2. CASE o[1] # p
      BY <2>1, <3>2, ObjectVectorStays
    <3>3. QED  BY <3>1, <3>2
  <2>4. QED  BY <2>1, <2>3, FileVectorStays DEF VectorInv
<1>2. ASSUME NEW p \in Procs, Crash(p) \/ Restart(p)
      PROVE  VectorInv'
  BY <1>0, <1>2 DEF Crash, Restart
<1>3. ASSUME NEW p \in Procs, NEW b \in setup.filters[p], NEW n \in setup.names,
             \/ Create(p, b, n)
             \/ Write(p, b, n)
             \/ OpenFails(p, b, n)
             \/ Open(p, b, n)
      PROVE  VectorInv'
  <2>1. Zeroed \in Blooms /\ bloom[p][b] \in Blooms
    BY Typed
  <2>2. ASSUME NEW o \in Blooms, WriteOpen(p, b, n, o)
        PROVE  VectorInv'
    <3>1. CASE Set(p, b, [o EXCEPT !.at = "failed", !.fd = -1])
      <4>1. Idle([o EXCEPT !.at = "failed", !.fd = -1])
        BY DEF Idle, Blooms
      <4>2. QED  BY <2>2, <3>1, <4>1, VectorByIdle DEF WriteOpen
    <3>2. ASSUME NEW i \in creatable(n),
                 Set(p, b, [o EXCEPT !.at = "header", !.fd = NewFd(p), !.path = n, !.file = i])
          PROVE  VectorInv'
      <4> DEFINE object == [o EXCEPT !.at = "header", !.fd = NewFd(p), !.path = n, !.file = i]
      <4>1. /\ object.file = i /\ object.at = "header" /\ Set(p, b, object) /\ UNCHANGED setup
            /\ inode' = inode
        BY <2>2, <3>2, MadeEmpty DEF Blooms, WriteOpen
      <4> HIDE DEF object
      <4>2. QED  BY <3>2, <4>1, VectorNew, SMTT(30)
    <3>3. QED  BY <2>2, <3>1, <3>2 DEF WriteOpen
  <2>3. CASE OpenFails(p, b, n) \/ Open(p, b, n)
    <3>1. /\ UNCHANGED setup
          /\ \/ Set(p, b, [Zeroed EXCEPT !.at = "failed", !.fd = -1])
             \/ Set(p, b, [Zeroed EXCEPT !.at = "read", !.fd = NewFd(p), !.path = n, !.file = dir[n]])
      BY <2>3 DEF OpenFails, Open, notes
    <3>2. /\ Idle([Zeroed EXCEPT !.at = "failed", !.fd = -1])
          /\ Idle([Zeroed EXCEPT !.at = "read", !.fd = NewFd(p), !.path = n, !.file = dir[n]])
      BY DEF Idle, Zeroed
    <3>3. QED  BY <3>1, <3>2, VectorByIdle
  <2>4. QED  BY <1>3, <2>1, <2>2, <2>3 DEF Create, Write
<1>4. ASSUME NEW p \in Procs, NEW b \in setup.filters[p],
             \/ CreateInMemory(p, b)
             \/ WriteHeader(p, b)
             \/ WriteChunk(p, b)
             \/ WriteFails(p, b)
             \/ CreateMaps(p, b)
             \/ WriteReturns(p, b)
             \/ OpenExits(p, b)
             \/ OpenRejects(p, b)
             \/ OpenReads(p, b)
             \/ OpenCloses(p, b)
             \/ OpenMaps(p, b)
             \/ AddStore(p, b)
             \/ AddCount(p, b)
             \/ Clear(p, b)
             \/ \E h \in setup.items : AddLoad(p, b, h) \/ Fault(p, b, h)
      PROVE  VectorInv'
  <2> DEFINE o == bloom[p][b]
  <2>1. o \in Blooms /\ Zeroed \in Blooms /\ setup.items \subseteq Items
    BY Typed, Situation DEF TypeInv
  <2>2. ASSUME NEW object, Set(p, b, object), UNCHANGED setup, object.at \in {"zero", "ready", "failed"}
        PROVE  VectorInv'
    BY <2>2, VectorByIdle DEF Idle
  <2>3. CASE CreateInMemory(p, b) \/ Clear(p, b)
    <3>1. UNCHANGED setup
          /\ (Set(p, b, Zeroed) \/ Set(p, b, [Zeroed EXCEPT !.at = "ready", !.vec = "memory"]))
      BY <2>3 DEF CreateInMemory, Clear, notes
    <3>2. QED  BY <2>2, <3>1 DEF Zeroed
  <2>4. CASE WriteFails(p, b) \/ OpenRejects(p, b) \/ OpenCloses(p, b)
    BY <2>1, <2>2, <2>4 DEF WriteFails, OpenRejects, OpenCloses, notes, Blooms
  <2>5. CASE CreateMaps(p, b)
    <3>1. UNCHANGED setup
          /\ \/ Set(p, b, [o EXCEPT !.at = "ready", !.vec = "file", !.written = 0, !.file = OnFd(p, o)])
             \/ Set(p, b, [o EXCEPT !.at = "ready", !.vec = "MAP_FAILED", !.written = 0])
      BY <2>5 DEF CreateMaps
    <3>2. QED  BY <2>1, <2>2, <3>1 DEF Blooms
  <2>6. CASE WriteReturns(p, b)
    BY <2>1, <2>2, <2>6 DEF WriteReturns, Blooms
  <2>7. CASE OpenMaps(p, b)
    <3>1. UNCHANGED setup
          /\ \/ Set(p, b, [o EXCEPT !.at = "ready", !.vec = "file", !.file = OnFd(p, o)])
             \/ Set(p, b, [o EXCEPT !.at = "failed", !.vec = "MAP_FAILED"])
      BY <2>7 DEF OpenMaps
    <3>2. QED  BY <2>1, <2>2, <3>1 DEF Blooms
  <2>8. CASE AddCount(p, b)
    BY <2>1, <2>2, <2>8 DEF AddCount, Blooms
  <2>11. CASE OpenReads(p, b)
    <3>1. /\ UNCHANGED setup
          /\ \E at \in {"mapping", "closing"} :
               Set(p, b, [o EXCEPT !.at = at, !.added = inode[o.file].added])
      BY <2>11 DEF OpenReads
    <3>2. PICK at \in {"mapping", "closing"} :
            Set(p, b, [o EXCEPT !.at = at, !.added = inode[o.file].added])
      BY <3>1
    <3>3. Idle([o EXCEPT !.at = at, !.added = inode[o.file].added])
      BY <2>1 DEF Idle, Blooms
    <3>4. QED  BY <3>1, <3>2, <3>3, VectorByIdle
  <2>9. CASE OpenExits(p, b) \/ \E h \in setup.items : Fault(p, b, h)
    BY <1>0, <2>9 DEF OpenExits, Fault
  <2>10. QED  BY <1>4, <2>1, <2>3, <2>4, <2>5, <2>6, <2>7, <2>8, <2>9, <2>11, VectorHeader,
                 VectorChunk, VectorLoad, VectorStore
<1>5. QED  BY <1>1, <1>2, <1>3, <1>4, SMTT(30) DEF Next

-----------------------------------------------------------------------------
(***************************************************************************)
(* The header.                                                             *)
(***************************************************************************)
\* The last multiple of n does not move before the next one.
LEMMA SameMultiple ==
  ASSUME NEW a \in Nat, NEW n \in Nat \ {0}, (a + 1) % n # 0
  PROVE  (a + 1) - ((a + 1) % n) = a - (a % n) /\ (a + 1) % n \in 1 .. (n - 1)
<1> DEFINE q == a \div n
           r == a % n
           s == (a + 1) \div n
           t == (a + 1) % n
<1>1. a = (n * q) + r /\ a + 1 = (n * s) + t
  OBVIOUS
<1>2. q \in Int /\ s \in Int /\ r \in 0 .. (n - 1) /\ t \in 1 .. (n - 1)
  OBVIOUS
<1> HIDE DEF q, r, s, t
<1>3. n * (s - q) = (r + 1) - t
  <2>1. n * (s - q) = (n * s) - (n * q)
    BY <1>2
  <2>2. QED  BY <1>1, <1>2, <2>1
<1>4. CASE s - q >= 1
  <2>1. n * (s - q) >= n
    BY <1>2, <1>4
  <2>2. QED  BY <1>2, <1>3, <2>1
<1>5. CASE s - q <= -1
  <2>1. n * (q - s) >= n
    BY <1>2, <1>5
  <2>2. n * (q - s) = t - (r + 1)
    BY <1>1, <1>2
  <2>3. QED  BY <1>2, <2>1, <2>2
<1>6. CASE s = q
  <2>1. (a + 1) - t = a - r
    BY <1>1, <1>2, <1>6
  <2>2. QED  BY <1>2, <2>1 DEF t, r
<1>7. QED  BY <1>2, <1>4, <1>5, <1>6

\* Each session adds to the lag.
LEMMA LagGrows ==
  ASSUME NEW m \in Nat, NEW n \in Nat, m <= n, InfoEvery \in Nat \ {0}
  PROVE  /\ Lag(m) \in Nat
         /\ Lag(m) <= Lag(n)
         /\ Lag(m + 1) = Lag(m) + (InfoEvery - 1)
<1> DEFINE e == InfoEvery - 1
<1>1. e \in Nat
  OBVIOUS
<1> HIDE DEF e
<1>2. e * m \in Nat /\ e * m <= e * n /\ e * (m + 1) = (e * m) + e
  BY <1>1
<1>3. QED  BY <1>2 DEF Lag, e

\* Each update that was not written adds to it.
LEMMA SkippedGrows ==
  ASSUME NEW m \in Nat, NEW n \in Nat, InfoEvery \in Nat \ {0}
  PROVE  /\ Skipped(m) \in Nat
         /\ m <= n => Skipped(m) <= Skipped(n)
         /\ Skipped(m + n) = Skipped(m) + Skipped(n)
         /\ Skipped(m + 1) = Skipped(m) + InfoEvery
         /\ Skipped(0) = 0
<1> DEFINE e == InfoEvery
<1>1. e \in Nat
  OBVIOUS
<1> HIDE DEF e
<1>2. /\ e * m \in Nat /\ (m <= n => e * m <= e * n)
      /\ e * (m + n) = (e * m) + (e * n)
      /\ e * (m + 1) = (e * m) + e /\ e * 0 = 0
  BY <1>1
<1>3. QED  BY <1>2 DEF Skipped, e

\* The parts of the history and of the header, and that they grow.
LEMMA HeaderParts ==
  ASSUME TypeInv, TypeInv', [Next]_vars, NEW i \in Inodes
  PROVE  /\ {past[i].calls, past'[i].calls, past[i].sessions, past'[i].sessions,
             past[i].missed, past'[i].missed, inode[i].added, inode'[i].added} \subseteq Nat
         /\ past[i].calls <= past'[i].calls
         /\ past[i].sessions <= past'[i].sessions
         /\ past[i].missed <= past'[i].missed
         /\ past[i].detached => past'[i].detached
         /\ past[i].shared => past'[i].shared
         /\ Alone(i)' => Alone(i)
<1>1. /\ {past[i].calls, past'[i].calls, past[i].sessions, past'[i].sessions,
          past[i].missed, past'[i].missed, inode[i].added, inode'[i].added} \subseteq Nat
      /\ past[i].shared \in BOOLEAN
  BY DEF TypeInv, Pasts, Files
<1>2. Since(i) /\ Happens(i)
  BY HistoryGrows, HistorySteps
<1>3. past[i].sessions <= past'[i].sessions
  BY <1>1, <1>2 DEF Happens
<1>5. past[i].missed <= past'[i].missed
  BY <1>1, <1>2 DEF Happens, Misses
<1>4. QED  BY <1>1, <1>2, <1>3, <1>5 DEF Since, Alone

\* An object at work on a file has it open.
LEMMA InUseOpen ==
  ASSUME TypeInv, DescriptorInv, NEW o \in Objects, InUse(o)
  PROVE  FdOf(o) = At(o).file /\ At(o).file \in Inodes /\ FdOf(o) # Free
<1>1. Stage(o[1], At(o)) /\ At(o) \in Blooms
  BY DEF TypeInv
<1>2. CASE At(o).vec = "file"
  BY <1>1, <1>2, Situation DEF DescriptorInv, Stage, TypeInv, Inodes, Free
<1>3. CASE At(o).at \in {"header", "vector", "map", "mapping"}
  <2>1. At(o).fd \in Fds \ {0} /\ At(o).file \in Inodes /\ At(o).at # "failed"
    BY <1>1, <1>3 DEF Stage, Creating, Opening
  <2>2. QED  BY <2>1 DEF DescriptorInv
<1>4. QED  BY <1>2, <1>3 DEF InUse

\* A call that writes the header of a file is of an object at work on it, or
\* of a filter in memory that was written to it.
LEMMA InformsOwn ==
  ASSUME TypeInv, TypeInv', DescriptorInv, HeaderInv, [Next]_vars,
         NEW p \in Procs, NEW b \in setup.filters[p], NEW i \in Inodes, Informs(p, b, i)
  PROVE  /\ bloom[p][b].file = i
         /\ \/ past'[i].detached
            \/ /\ InUse(<< p, b >>)
               /\ \/ /\ WriteHeader(p, b) /\ bloom[p][b].vec = "none"
                     /\ inode'[i].added = 0
                  \/ /\ Counts(p, b, i)
                     /\ inode'[i].added = bloom[p][b].added + 1
<1> DEFINE o == bloom[p][b]
           me == << p, b >>
<1>1. /\ me \in Objects /\ At(me) = o /\ o \in Blooms /\ Stage(p, o) /\ FdOf(me) = OnFd(p, o)
      /\ past \in [Inodes -> Pasts]
  BY ObjectPairs, Typed DEF FdOf, TypeInv
<1>2. FdOf(me) = i /\ FdOf(me) # Free
  BY <1>1 DEF Informs
<1>3. o.file = i
  BY <1>1, <1>2 DEF DescriptorInv
<1>4. inode'[i].added = bloom'[p][b].added
  BY HeaderWritten
<1>5. CASE WriteHeader(p, b)
  <2>1. /\ o.at = "header" /\ o.vec \in {"none", "memory"} /\ p \in setup.writers
        /\ o.vec = "none" => o.added = 0
    BY <1>1, <1>5 DEF WriteHeader, Stage, Creating, Opening
  <2>2. CASE o.vec = "memory"
    <3>1. past' = [past EXCEPT ![i].detached = @ \/ o.vec = "memory"]
      BY <1>3, <1>5 DEF WriteHeader
    <3>2. past'[i].detached
      BY <1>1, <2>2, <3>1 DEF Pasts
    <3>3. QED  BY <1>3, <3>2
  <2>3. CASE o.vec = "none"
    <3>1. Set(p, b, [o EXCEPT !.at = "vector"]) /\ UNCHANGED setup
      BY <1>5 DEF WriteHeader
    <3>2. At(me)' = [o EXCEPT !.at = "vector"]
      BY <3>1, OneObject
    <3>3. bloom'[p][b].added = o.added
      BY <1>1, <3>2 DEF At, Blooms
    <3>4. InUse(me)
      BY <1>1, <2>1 DEF InUse
    <3>5. QED  BY <1>3, <1>4, <1>5, <2>1, <2>3, <3>3, <3>4
  <2>4. QED  BY <2>1, <2>2, <2>3
<1>6. CASE AddCount(p, b)
  <2>1. o.at = "count" /\ o.vec \in {"memory", "file"} /\ p \in setup.writers
    BY <1>1, <1>6 DEF AddCount, Stage
  <2>2. CASE o.vec = "memory"
    <3>1. past[i].detached
      BY <1>1, <1>2, <1>3, <2>1, <2>2 DEF HeaderInv, ObjectHeader
    <3>2. QED  BY <1>3, <3>1, HeaderParts
  <2>3. CASE o.vec = "file"
    <3> DEFINE counted == [o EXCEPT !.at = "ready", !.added = @ + 1, !.item = {}, !.loaded = {}]
    <3>1. Set(p, b, counted) /\ UNCHANGED setup
      BY <1>6 DEF AddCount
    <3>2. counted.added = o.added + 1
      BY <1>1 DEF Blooms
    <3> HIDE DEF counted
    <3>3. At(me)' = counted
      BY <3>1, OneObject
    <3>4. bloom'[p][b].added = o.added + 1
      BY <3>2, <3>3 DEF At
    <3>5. InUse(me) /\ Counts(p, b, i)
      BY <1>1, <1>3, <1>6, <2>1, <2>3 DEF InUse, Counts
    <3>6. QED  BY <1>3, <1>4, <3>4, <3>5
  <2>4. QED  BY <2>1, <2>2, <2>3
<1>7. QED  BY <1>5, <1>6 DEF Informs

\* What the calls of a file grow by: its adds one by one, or those of a filter
\* in memory that was written to it.
LEMMA CallsSteps ==
  ASSUME TypeInv, TypeInv', DescriptorInv, HeaderInv, [Next]_vars, NEW i \in Inodes
  PROVE  \/ past'[i].calls = past[i].calls /\ past'[i].missed = past[i].missed
         \/ past[i].detached
         \/ \E p \in Procs : \E b \in setup.filters[p] :
              Counts(p, b, i) /\ InUse(<< p, b >>) /\ past'[i].calls = past[i].calls + 1
<1>1. ASSUME NEW p \in Procs, NEW b \in setup.filters[p], Returns(p, b, i)
      PROVE  past[i].detached
  <2>1. /\ << p, b >> \in Objects /\ At(<< p, b >>) = bloom[p][b] /\ Stage(p, bloom[p][b])
        /\ bloom[p][b].at = "map" /\ bloom[p][b].vec = "memory" /\ bloom[p][b].file = i
    BY <1>1, ObjectPairs, Typed DEF Returns, WriteReturns
  <2>2. InUse(<< p, b >>)
    BY <2>1 DEF InUse, Stage, Creating, Opening
  <2>3. FdOf(<< p, b >>) # Free
    BY <2>1, <2>2, InUseOpen
  <2>4. QED  BY <2>1, <2>3 DEF HeaderInv, ObjectHeader
<1>2. ASSUME NEW p \in Procs, NEW b \in setup.filters[p], Counts(p, b, i)
      PROVE  InUse(<< p, b >>)
  <2>1. /\ << p, b >> \in Objects /\ At(<< p, b >>) = bloom[p][b] /\ Stage(p, bloom[p][b])
        /\ bloom[p][b].at = "count" /\ bloom[p][b].vec = "file"
    BY <1>2, ObjectPairs, Typed DEF Counts, AddCount
  <2>2. QED  BY <2>1 DEF InUse, Stage
<1>3. QED  BY <1>1, <1>2, HistorySteps DEF Happens

\* An add is counted in the history of its file, and in the header when the
\* count of the object is a multiple of InfoEvery and the header can be written.
LEMMA Counted ==
  ASSUME TypeInv, DescriptorInv, NEW p \in Procs, NEW b \in setup.filters[p],
         NEW i \in Inodes, Counts(p, b, i)
  PROVE  /\ past'[i].calls = past[i].calls + 1
         /\ past'[i].sessions = past[i].sessions
         /\ past'[i].shared = past[i].shared /\ past'[i].detached = past[i].detached
         /\ bloom[p][b].added \in Nat
         /\ \/ /\ (bloom[p][b].added + 1) % InfoEvery = 0
               /\ \/ /\ inode'[i].added = bloom[p][b].added + 1
                     /\ past'[i].missed = past[i].missed
                  \/ /\ inode'[i].added = inode[i].added
                     /\ past'[i].missed = past[i].missed + 1
            \/ /\ (bloom[p][b].added + 1) % InfoEvery # 0
               /\ inode'[i].added = inode[i].added
               /\ past'[i].missed = past[i].missed
<1> DEFINE o == bloom[p][b]
           counted == [o EXCEPT !.at = "ready", !.added = @ + 1, !.item = {}, !.loaded = {}]
           updates == updateDue(counted.added) /\ OnFd(p, o) # Free
<1>1. /\ << p, b >> \in Objects /\ At(<< p, b >>) = o /\ o \in Blooms
      /\ inode \in [Inodes -> Files] /\ past \in [Inodes -> Pasts]
      /\ o.vec = "file" /\ o.file = i
  BY ObjectPairs, Typed DEF TypeInv, Counts
<1>2. PICK miss \in IF updates THEN {0, 1} ELSE {0} :
        /\ inode' = IF updates /\ miss = 0 THEN InfoUpdate(p, counted) ELSE inode
        /\ past' = [past EXCEPT ![i].adds = @ \cup o.item, ![i].calls = @ + 1,
                                ![i].missed = @ + miss]
  BY <1>1 DEF Counts, AddCount
<1>3. /\ past'[i].calls = past[i].calls + 1 /\ past'[i].sessions = past[i].sessions
      /\ past'[i].shared = past[i].shared /\ past'[i].detached = past[i].detached
      /\ past'[i].missed = past[i].missed + miss /\ past[i].missed \in Nat
  <2> DEFINE m == o.item
  <2>1. past' = [past EXCEPT ![i].adds = @ \cup m, ![i].calls = @ + 1, ![i].missed = @ + miss]
    BY <1>2
  <2> HIDE DEF m, updates
  <2>2. QED  BY <1>1, <2>1 DEF Pasts
<1>4. o.added \in Nat /\ counted.added = o.added + 1 /\ counted.fd = o.fd
  BY <1>1 DEF Blooms
<1>6. OnFd(p, counted) = i /\ i # Free
  <2>1. FdOf(<< p, b >>) = i
    BY <1>1 DEF DescriptorInv
  <2>2. i # Free
    BY Situation DEF TypeInv, Inodes, Free
  <2>3. QED  BY <1>1, <1>4, <2>1, <2>2 DEF FdOf, OnFd
<1>5. updates <=> (o.added + 1) % InfoEvery = 0
  BY <1>4, <1>6 DEF updateDue, OnFd
<1> HIDE DEF counted, updates
<1>7. CASE updates /\ miss = 0
  <2>1. inode' = [inode EXCEPT ![i].header = "good", ![i].added = o.added + 1]
    BY <1>2, <1>4, <1>6, <1>7 DEF InfoUpdate
  <2>2. inode'[i].added = o.added + 1
    BY <1>1, <2>1 DEF Files
  <2>3. QED  BY <1>3, <1>4, <1>5, <1>7, <2>2
<1>8. CASE updates /\ miss = 1
  BY <1>2, <1>3, <1>4, <1>5, <1>8
<1>9. CASE ~ updates
  BY <1>2, <1>3, <1>4, <1>5, <1>9
<1>10. QED  BY <1>2, <1>7, <1>8, <1>9

\* An object that is not behind its file has a header that is not behind either.
LEMMA BehindFile ==
  ASSUME NEW o, NEW f, NEW h, Behind(o, f, h), h.sessions > 0, InfoEvery \in Nat \ {0},
         {o.added, f.added, h.calls, h.sessions, h.missed} \subseteq Nat
  PROVE  h.calls <= f.added + Lag(h.sessions) + Skipped(h.missed)
<1>1. PICK before, since \in Nat :
        /\ before + since = h.missed
        /\ h.calls <= o.added + Lag(h.sessions - 1) + Skipped(before)
        /\ o.added - (o.added % InfoEvery) <= f.added + Skipped(since)
  BY DEF Behind
<1>2. /\ Skipped(before) \in Nat /\ Skipped(since) \in Nat
      /\ Skipped(h.missed) = Skipped(before) + Skipped(since)
  BY <1>1, SkippedGrows
<1>3. h.sessions - 1 \in Nat /\ (h.sessions - 1) + 1 = h.sessions
  OBVIOUS
<1>4. Lag(h.sessions - 1) \in Nat /\ Lag(h.sessions) = Lag(h.sessions - 1) + (InfoEvery - 1)
  BY <1>3, LagGrows
<1>5. o.added % InfoEvery \in 0 .. (InfoEvery - 1)
  OBVIOUS
<1> DEFINE a == o.added
           r == o.added % InfoEvery
           lag == Lag(h.sessions - 1)
<1>6. a <= f.added + Skipped(since) + (InfoEvery - 1)
  <2>1. a - r <= f.added + Skipped(since) /\ r \in 0 .. (InfoEvery - 1) /\ a \in Nat
    BY <1>1, <1>5
  <2> HIDE DEF a, r
  <2>2. QED  BY <1>2, <2>1
<1>7. h.calls <= a + lag + Skipped(before) /\ a \in Nat /\ lag \in Nat
  BY <1>1, <1>4
<1> HIDE DEF a, r, lag
<1>8. f.added + Lag(h.sessions) + Skipped(h.missed)
        = f.added + (lag + (InfoEvery - 1)) + (Skipped(before) + Skipped(since))
  BY <1>2, <1>4 DEF lag
<1>9. QED  BY <1>2, <1>6, <1>7, <1>8

\* An add that counts leaves the object no more behind than it was.
LEMMA BehindCounted ==
  ASSUME TypeInv, TypeInv', DescriptorInv, HeaderInv, [Next]_vars,
         NEW p \in Procs, NEW b \in setup.filters[p], NEW i \in Inodes, Counts(p, b, i),
         InUse(<< p, b >>), Alone(i), NEW object, object.added = bloom[p][b].added + 1
  PROVE  /\ past'[i].sessions > 0 /\ past'[i].sessions = past[i].sessions
         /\ Behind(object, inode'[i], past'[i])
<1> DEFINE a == bloom[p][b].added
<1>1. /\ << p, b >> \in Objects /\ At(<< p, b >>) = bloom[p][b]
      /\ bloom[p][b].vec = "file" /\ bloom[p][b].file = i
  BY ObjectPairs DEF Counts
<1>2. past[i].sessions > 0 /\ Behind(bloom[p][b], inode[i], past[i])
  BY <1>1 DEF HeaderInv, ObjectHeader
<1>3. PICK before, since \in Nat :
        /\ before + since = past[i].missed
        /\ past[i].calls <= a + Lag(past[i].sessions - 1) + Skipped(before)
        /\ a - (a % InfoEvery) <= inode[i].added + Skipped(since)
  BY <1>2 DEF Behind
<1>4. /\ past'[i].calls = past[i].calls + 1
      /\ past'[i].sessions = past[i].sessions
      /\ a \in Nat
      /\ \/ /\ (a + 1) % InfoEvery = 0
            /\ \/ inode'[i].added = a + 1 /\ past'[i].missed = past[i].missed
               \/ inode'[i].added = inode[i].added /\ past'[i].missed = past[i].missed + 1
         \/ /\ (a + 1) % InfoEvery # 0
            /\ inode'[i].added = inode[i].added /\ past'[i].missed = past[i].missed
  BY Counted
<1>5. /\ {past[i].calls, past[i].sessions, past[i].missed, inode[i].added} \subseteq Nat
      /\ InfoEvery \in Nat \ {0}
  BY HeaderParts, Situation DEF TypeInv
<1>6. /\ Skipped(before) \in Nat /\ Skipped(since) \in Nat
      /\ Skipped(since + 1) = Skipped(since) + InfoEvery
  BY <1>3, <1>5, SkippedGrows
<1>7. Lag(past[i].sessions - 1) \in Nat
  <2>1. past[i].sessions - 1 \in Nat
    BY <1>2, <1>5
  <2>2. QED  BY <1>5, <2>1, LagGrows
<1>8. past'[i].calls <= (a + 1) + Lag(past'[i].sessions - 1) + Skipped(before)
  <2> DEFINE lag == Lag(past[i].sessions - 1)
             calls == past[i].calls
  <2>1. calls \in Nat /\ lag \in Nat /\ calls <= a + lag + Skipped(before)
    BY <1>3, <1>5, <1>7
  <2>2. Lag(past'[i].sessions - 1) = lag /\ past'[i].calls = calls + 1
    BY <1>4
  <2> HIDE DEF lag, calls, a
  <2>3. QED  BY <1>4, <1>6, <2>1, <2>2
<1> HIDE DEF a
<1>9. CASE (a + 1) % InfoEvery = 0 /\ inode'[i].added = a + 1 /\ past'[i].missed = past[i].missed
  <2>1. (a + 1) - ((a + 1) % InfoEvery) <= inode'[i].added + Skipped(since)
    BY <1>4, <1>6, <1>9
  <2>2. QED  BY <1>2, <1>3, <1>4, <1>8, <1>9, <2>1 DEF Behind, a
<1>10. CASE /\ (a + 1) % InfoEvery = 0 /\ inode'[i].added = inode[i].added
            /\ past'[i].missed = past[i].missed + 1
  <2>1. (a + 1) - ((a + 1) % InfoEvery) <= inode'[i].added + Skipped(since + 1)
    <3>1. a % InfoEvery \in 0 .. (InfoEvery - 1)
      BY <1>4, <1>5
    <3> DEFINE r == a % InfoEvery
               f == inode[i].added
               k == Skipped(since)
    <3>2. a - r <= f + k /\ r \in 0 .. (InfoEvery - 1) /\ f \in Nat /\ k \in Nat
      BY <1>3, <1>5, <1>6, <3>1
    <3> HIDE DEF r, f, k
    <3>3. a + 1 <= f + (k + InfoEvery)
      BY <1>4, <1>5, <3>2
    <3>4. QED  BY <1>4, <1>6, <1>10, <3>3 DEF f, k
  <2>2. before + (since + 1) = past'[i].missed /\ since + 1 \in Nat
    BY <1>3, <1>5, <1>10
  <2>3. QED  BY <1>2, <1>3, <1>4, <1>8, <2>1, <2>2 DEF Behind, a
<1>11. CASE /\ (a + 1) % InfoEvery # 0 /\ inode'[i].added = inode[i].added
            /\ past'[i].missed = past[i].missed
  <2>1. (a + 1) - ((a + 1) % InfoEvery) = a - (a % InfoEvery)
    BY <1>4, <1>5, <1>11, SameMultiple
  <2>2. QED  BY <1>2, <1>3, <1>4, <1>8, <1>11, <2>1 DEF Behind, a
<1>12. QED  BY <1>4, <1>9, <1>10, <1>11

\* The header changes by an add or by the header of a new file, as long as no
\* filter in memory was written to the file.
LEMMA AddedSteps ==
  ASSUME TypeInv, TypeInv', DescriptorInv, HeaderInv, [Next]_vars, NEW i \in Inodes
  PROVE  \/ inode'[i].added = inode[i].added
         \/ past'[i].detached
         \/ \E p \in Procs : \E b \in setup.filters[p] :
              /\ bloom[p][b].file = i /\ InUse(<< p, b >>)
              /\ \/ WriteHeader(p, b) /\ bloom[p][b].vec = "none" /\ inode'[i].added = 0
                 \/ Counts(p, b, i) /\ inode'[i].added = bloom[p][b].added + 1
<1>1. ASSUME NEW p \in Procs, NEW b \in setup.filters[p], Stores(p, b, i)
      PROVE  inode'[i].added = inode[i].added
  <2>1. PICK g \in Items : StoresByte(p, b, i, g)
    BY <1>1, ByteStored, SMTT(30)
  <2>2. QED  BY <2>1 DEF StoresByte
<1>2. ASSUME NEW p \in Procs, NEW b \in setup.filters[p], Extends(p, b, i)
      PROVE  inode'[i].added = inode[i].added
  BY <1>2, ChunkWritten
<1>3. QED  BY <1>1, <1>2, InformsOwn, FileSteps

\* A step keeps the header as close to the calls as it was.
LEMMA FileHeaderStays ==
  ASSUME TypeInv, TypeInv', DescriptorInv, WrittenInv, HeaderInv, [Next]_vars, NEW i \in Inodes
  PROVE  FileHeader(i)'
<1>0. /\ {past[i].calls, past'[i].calls, past[i].sessions, past'[i].sessions,
          past[i].missed, past'[i].missed, inode[i].added, inode'[i].added} \subseteq Nat
      /\ past[i].calls <= past'[i].calls /\ past[i].sessions <= past'[i].sessions
      /\ past[i].missed <= past'[i].missed
      /\ past[i].detached => past'[i].detached
      /\ Alone(i)' => Alone(i)
      /\ InfoEvery \in Nat \ {0}
      /\ FileHeader(i)
  BY HeaderParts, Situation DEF TypeInv, HeaderInv
<1>a. /\ Lag(past[i].sessions) \in Nat /\ Lag(past[i].sessions) <= Lag(past'[i].sessions)
      /\ Lag(past'[i].sessions) \in Nat
      /\ Skipped(past[i].missed) \in Nat /\ Skipped(past'[i].missed) \in Nat
      /\ Skipped(past[i].missed) <= Skipped(past'[i].missed)
  <2>1. /\ Lag(past[i].sessions) \in Nat /\ Lag(past[i].sessions) <= Lag(past'[i].sessions)
        /\ Lag(past'[i].sessions) \in Nat
    BY <1>0, LagGrows
  <2>2. /\ Skipped(past[i].missed) \in Nat /\ Skipped(past'[i].missed) \in Nat
        /\ Skipped(past[i].missed) <= Skipped(past'[i].missed)
    BY <1>0, SkippedGrows
  <2>3. QED  BY <2>1, <2>2
<1>1. ASSUME inode'[i].header = "none"
      PROVE  past'[i].calls = 0
  <2>1. inode[i].header = "none" /\ past[i].calls = 0
    BY <1>0, <1>1, HeaderNone DEF FileHeader
  <2>2. ASSUME NEW p \in Procs, NEW b \in setup.filters[p], Counts(p, b, i) \/ Returns(p, b, i)
        PROVE  FALSE
    <3>1. /\ << p, b >> \in Objects /\ At(<< p, b >>) = bloom[p][b]
          /\ bloom[p][b].at = "map" \/ bloom[p][b].vec = "file"
          /\ bloom[p][b].file = i
      BY <2>2, ObjectPairs DEF Counts, Returns, WriteReturns
    <3>2. QED  BY <2>1, <3>1 DEF WrittenInv, Extent
  <2>3. QED  BY <2>1, <2>2, HistorySteps DEF Happens
<1>2. ASSUME ~ past'[i].detached
      PROVE  inode'[i].added <= past'[i].calls
  <2>1. ~ past[i].detached /\ inode[i].added <= past[i].calls
    BY <1>0, <1>2 DEF FileHeader
  <2>2. CASE inode'[i].added = inode[i].added
    BY <1>0, <2>1, <2>2
  <2>3. CASE inode'[i].added = 0
    BY <1>0, <2>3
  <2>4. ASSUME NEW p \in Procs, NEW b \in setup.filters[p],
               Counts(p, b, i), inode'[i].added = bloom[p][b].added + 1
        PROVE  inode'[i].added <= past'[i].calls
    <3>1. /\ << p, b >> \in Objects /\ At(<< p, b >>) = bloom[p][b]
          /\ bloom[p][b].vec = "file" /\ bloom[p][b].file = i
      BY <2>4, ObjectPairs DEF Counts
    <3>2. bloom[p][b].added <= past[i].calls
      BY <2>1, <3>1 DEF HeaderInv, ObjectHeader
    <3>3. past'[i].calls = past[i].calls + 1 /\ bloom[p][b].added \in Nat
      BY <2>4, Counted
    <3>4. QED  BY <1>0, <2>4, <3>2, <3>3
  <2>5. QED  BY <1>2, <2>2, <2>3, <2>4, AddedSteps
<1>3. ASSUME Alone(i)'
      PROVE  past'[i].calls <= inode'[i].added + Lag(past'[i].sessions) + Skipped(past'[i].missed)
  <2> DEFINE Near == past'[i].calls <= inode'[i].added + Lag(past'[i].sessions)
                                                     + Skipped(past'[i].missed)
  <2>1. /\ Alone(i)
        /\ past[i].calls <= inode[i].added + Lag(past[i].sessions) + Skipped(past[i].missed)
        /\ ~ past[i].detached /\ ~ past'[i].detached
    BY <1>0, <1>3 DEF FileHeader, Alone
  <2>2. ASSUME NEW p \in Procs, NEW b \in setup.filters[p], Counts(p, b, i), InUse(<< p, b >>)
        PROVE  Near
    <3> DEFINE object == [added |-> bloom[p][b].added + 1]
    <3>1. past'[i].sessions > 0 /\ Behind(object, inode'[i], past'[i])
      BY <2>1, <2>2, BehindCounted
    <3>2. object.added \in Nat
      BY <2>2, Counted
    <3> HIDE DEF object
    <3>3. QED  BY <1>0, <3>1, <3>2, BehindFile
  <2>3. ASSUME past'[i].calls = past[i].calls, inode'[i].added = inode[i].added
        PROVE  Near
    BY <1>0, <1>a, <2>1, <2>3
  <2>4. ASSUME NEW p \in Procs, NEW b \in setup.filters[p], bloom[p][b].file = i,
               InUse(<< p, b >>), WriteHeader(p, b), past'[i].calls = past[i].calls
        PROVE  Near
    <3>1. << p, b >> \in Objects /\ At(<< p, b >>) = bloom[p][b] /\ Creating(bloom[p][b])
      BY <2>4, ObjectPairs DEF WriteHeader, Creating
    <3>2. past[i].calls = 0
      BY <2>1, <2>4, <3>1 DEF HeaderInv, ObjectHeader
    <3>3. QED  BY <1>0, <1>a, <2>4, <3>2
  <2>5. CASE past'[i].calls = past[i].calls
    BY <2>1, <2>2, <2>3, <2>4, <2>5, AddedSteps
  <2>6. Near
    BY <2>1, <2>2, <2>5, CallsSteps
  <2>7. QED  BY <2>6
<1>4. QED  BY <1>1, <1>2, <1>3 DEF FileHeader, Alone

\* The situation the system starts in does not change.
LEMMA SetupStays ==
  ASSUME [Next]_vars
  PROVE  setup' = setup
<1>1. CASE UNCHANGED vars
  BY <1>1 DEF vars
<1>2. ASSUME NEW p \in Procs, NEW at, Ends(p, at)
      PROVE  setup' = setup
  BY <1>2 DEF Ends
<1>3. ASSUME NEW p \in Procs, Crash(p) \/ Restart(p)
      PROVE  setup' = setup
  BY <1>2, <1>3 DEF Crash, Restart
<1>4. ASSUME NEW p \in Procs, NEW b \in setup.filters[p], NEW n \in setup.names,
             Create(p, b, n) \/ Write(p, b, n) \/ OpenFails(p, b, n) \/ Open(p, b, n)
      PROVE  setup' = setup
  BY <1>4 DEF Create, Write, WriteOpen, OpenFails, Open, notes
<1>5. ASSUME NEW p \in Procs, NEW b \in setup.filters[p],
             \/ CreateInMemory(p, b)
             \/ WriteHeader(p, b)
             \/ WriteChunk(p, b)
             \/ WriteFails(p, b)
             \/ CreateMaps(p, b)
             \/ WriteReturns(p, b)
             \/ OpenRejects(p, b)
             \/ OpenReads(p, b)
             \/ OpenCloses(p, b)
             \/ OpenMaps(p, b)
             \/ AddStore(p, b)
             \/ AddCount(p, b)
             \/ Clear(p, b)
             \/ \E h \in setup.items : AddLoad(p, b, h)
      PROVE  setup' = setup
  BY <1>5 DEF CreateInMemory, WriteHeader, WriteChunk, WriteFails, CreateMaps, WriteReturns,
              OpenRejects, OpenReads, OpenCloses, OpenMaps, AddStore, AddCount, Clear, AddLoad,
              notes
<1>6. ASSUME NEW p \in Procs, NEW b \in setup.filters[p],
             OpenExits(p, b) \/ \E h \in setup.items : Fault(p, b, h)
      PROVE  setup' = setup
  BY <1>2, <1>6 DEF OpenExits, Fault
<1>7. QED  BY <1>1, <1>3, <1>4, <1>5, <1>6 DEF Next

\* Each of these steps moves its object.
LEMMA Moved ==
  ASSUME TypeInv, NEW p \in Procs, NEW b \in setup.filters[p],
         WriteHeader(p, b) \/ AddCount(p, b) \/ CreateMaps(p, b) \/ OpenMaps(p, b)
           \/ OpenReads(p, b)
  PROVE  At(<< p, b >>)' # At(<< p, b >>)
<1> DEFINE o == bloom[p][b]
<1>1. o \in Blooms /\ At(<< p, b >>) = o
  BY Typed, ObjectPairs
<1>2. ASSUME NEW object, Set(p, b, object), UNCHANGED setup, object.at # o.at
      PROVE  At(<< p, b >>)' # At(<< p, b >>)
  <2>1. At(<< p, b >>)' = object
    BY <1>2, OneObject
  <2>2. QED  BY <1>1, <1>2, <2>1
<1>3. CASE WriteHeader(p, b)
  BY <1>1, <1>2, <1>3 DEF WriteHeader, Blooms
<1>4. CASE AddCount(p, b)
  BY <1>1, <1>2, <1>4 DEF AddCount, Blooms
<1>5. CASE CreateMaps(p, b)
  <2>1. /\ UNCHANGED setup /\ o.at = "map"
        /\ \/ Set(p, b, [o EXCEPT !.at = "ready", !.vec = "file", !.written = 0, !.file = OnFd(p, o)])
           \/ Set(p, b, [o EXCEPT !.at = "ready", !.vec = "MAP_FAILED", !.written = 0])
    BY <1>5 DEF CreateMaps
  <2>2. QED  BY <1>1, <1>2, <2>1 DEF Blooms
<1>6. CASE OpenMaps(p, b)
  <2>1. /\ UNCHANGED setup /\ o.at = "mapping"
        /\ \/ Set(p, b, [o EXCEPT !.at = "ready", !.vec = "file", !.file = OnFd(p, o)])
           \/ Set(p, b, [o EXCEPT !.at = "failed", !.vec = "MAP_FAILED"])
    BY <1>6 DEF OpenMaps
  <2>2. QED  BY <1>1, <1>2, <2>1 DEF Blooms
<1>8. CASE OpenReads(p, b)
  <2>1. /\ UNCHANGED setup /\ o.at = "read"
        /\ \E at \in {"mapping", "closing"} :
             Set(p, b, [o EXCEPT !.at = at, !.added = inode[o.file].added])
    BY <1>8 DEF OpenReads
  <2>2. QED  BY <1>1, <1>2, <2>1 DEF Blooms
<1>7. QED  BY <1>3, <1>4, <1>5, <1>6, <1>8

\* While an object is alone at work on a file, nothing changes but by it.
LEMMA AloneStays ==
  ASSUME TypeInv, TypeInv', DescriptorInv, HeaderInv, [Next]_vars,
         NEW o \in Objects, At(o)' = At(o), InUse(o), Alone(At(o).file)'
  PROVE  /\ past'[At(o).file].calls = past[At(o).file].calls
         /\ past'[At(o).file].sessions = past[At(o).file].sessions
         /\ past'[At(o).file].missed = past[At(o).file].missed
         /\ inode'[At(o).file].added = inode[At(o).file].added
<1>0. PICK i : i = At(o).file
  OBVIOUS
<1>1. i \in Inodes
  BY <1>0, InUseOpen
<1>2. Alone(i)' /\ Alone(i) /\ ~ past'[i].detached /\ ~ past[i].detached /\ ~ past[i].shared
      /\ ~ past'[i].shared
  BY <1>0, <1>1, HeaderParts DEF Alone
<1>3. ASSUME NEW p \in Procs, NEW b \in setup.filters[p], << p, b >> # o,
             InUse(<< p, b >>), bloom[p][b].file = i
      PROVE  FALSE
  <2>1. << p, b >> \in Objects /\ At(<< p, b >>) = bloom[p][b]
    BY ObjectPairs
  <2>2. QED  BY <1>0, <1>2, <1>3, <2>1 DEF HeaderInv, Sharing
<1>4. ASSUME NEW p \in Procs, NEW b \in setup.filters[p], Counts(p, b, i), InUse(<< p, b >>)
      PROVE  FALSE
  <2>1. << p, b >> # o /\ bloom[p][b].file = i
    BY <1>4, Moved DEF Counts
  <2>2. QED  BY <1>3, <1>4, <2>1
<1>5. past'[i].calls = past[i].calls /\ past'[i].missed = past[i].missed
  BY <1>1, <1>2, <1>4, CallsSteps
<1>6. ASSUME NEW p \in Procs, NEW b \in setup.filters[p], Begins(p, b, i)
      PROVE  FALSE
  <2>1. << p, b >> # o
    BY <1>6, Moved DEF Begins
  <2>2. /\ << p, b >> \in Objects /\ At(<< p, b >>) = bloom[p][b] /\ Stage(p, bloom[p][b])
        /\ bloom[p][b].file = i
        /\ \/ bloom[p][b].at = "map"
           \/ bloom[p][b].at = "mapping" /\ p \in setup.writers
    BY <1>6, ObjectPairs, Typed DEF Begins, CreateMaps, OpenMaps
  <2>3. InUse(<< p, b >>)
    BY <2>2 DEF InUse, Stage, Creating
  <2>4. QED  BY <1>3, <2>1, <2>2, <2>3
<1>7. past'[i].sessions = past[i].sessions
  BY <1>1, <1>6, HistorySteps DEF Happens
<1>8. ASSUME NEW p \in Procs, NEW b \in setup.filters[p],
             bloom[p][b].file = i, InUse(<< p, b >>), WriteHeader(p, b)
      PROVE  FALSE
  <2>1. << p, b >> # o
    BY <1>8, Moved
  <2>2. QED  BY <1>3, <1>8, <2>1
<1>9. inode'[i].added = inode[i].added
  BY <1>1, <1>2, <1>4, <1>8, AddedSteps
<1>10. QED  BY <1>0, <1>5, <1>7, <1>9

\* An object that does not move keeps what HeaderInv says of it.
LEMMA ObjectHeaderStays ==
  ASSUME TypeInv, TypeInv', DescriptorInv, HeaderInv, [Next]_vars,
         NEW o \in Objects, At(o)' = At(o)
  PROVE  ObjectHeader(o)'
<1>0. PICK i : i = At(o).file
  OBVIOUS
<1>1. /\ At(o) \in Blooms /\ Stage(o[1], At(o)) /\ ObjectHeader(o) /\ setup' = setup
  <2>1. setup' = setup
    BY SetupStays
  <2>2. QED  BY <2>1 DEF TypeInv, HeaderInv
<1>2. ASSUME At(o).vec = "memory", At(o).at \notin {"header", "failed"}, FdOf(o)' # Free
      PROVE  past'[i].detached
  <2>1. At(o).fd # 0
    BY <1>2 DEF FdOf, OnFd
  <2>2. FdOf(o) # Free
    BY <1>2, <2>1 DEF DescriptorInv
  <2>3. past[i].detached
    BY <1>0, <1>1, <1>2, <2>2 DEF ObjectHeader
  <2>4. i \in Inodes
    BY <1>0, <2>2, OpenFile DEF DescriptorInv
  <2>5. QED  BY <2>3, <2>4, HeaderParts
<1>3. ASSUME At(o).vec = "file" \/ At(o).at = "mapping", ~ past'[i].detached
      PROVE  At(o).added <= past'[i].calls
  <2>1. i \in Inodes /\ At(o).added \in Nat
    BY <1>0, <1>1, <1>3 DEF Stage, Opening, Blooms
  <2>2. ~ past[i].detached /\ past[i].calls \in Nat /\ past'[i].calls \in Nat
        /\ past[i].calls <= past'[i].calls
    BY <1>3, <2>1, HeaderParts
  <2>3. At(o).added <= past[i].calls
    BY <1>0, <1>1, <1>3, <2>2 DEF ObjectHeader
  <2>4. QED  BY <2>1, <2>2, <2>3
<1>4. InUse(o)' <=> InUse(o)
  BY <1>1 DEF InUse
<1>5. ASSUME At(o).vec = "file", InUse(o), Alone(i)'
      PROVE  past'[i].sessions > 0 /\ Behind(At(o), inode'[i], past'[i])
  <2>1. i \in Inodes /\ Alone(i)
    BY <1>0, <1>5, InUseOpen, HeaderParts
  <2>2. past[i].sessions > 0 /\ Behind(At(o), inode[i], past[i])
    BY <1>0, <1>1, <1>5, <2>1 DEF ObjectHeader
  <2>3. /\ past'[i].calls = past[i].calls /\ past'[i].sessions = past[i].sessions
        /\ past'[i].missed = past[i].missed /\ inode'[i].added = inode[i].added
    BY <1>0, <1>5, AloneStays
  <2>4. QED  BY <2>2, <2>3 DEF Behind
<1>8. ASSUME At(o).at = "mapping", InUse(o), Alone(i)'
      PROVE  At(o).added = inode'[i].added
  <2>1. i \in Inodes /\ Alone(i)
    BY <1>0, <1>8, InUseOpen, HeaderParts
  <2>2. QED  BY <1>0, <1>1, <1>8, <2>1, AloneStays DEF ObjectHeader
<1>6. ASSUME Creating(At(o)), Alone(i)'
      PROVE  past'[i].calls = 0
  <2>1. InUse(o)
    BY <1>1, <1>6 DEF InUse, Creating, Stage
  <2>2. i \in Inodes /\ Alone(i)
    BY <1>0, <1>6, <2>1, InUseOpen, HeaderParts
  <2>3. QED  BY <1>0, <1>1, <1>6, <2>1, <2>2, AloneStays DEF ObjectHeader
<1>7. QED  BY <1>0, <1>2, <1>3, <1>4, <1>5, <1>6, <1>8 DEF ObjectHeader, Creating, Alone

\* A step of one object.
LEMMA HeaderBy ==
  ASSUME TypeInv, TypeInv', DescriptorInv, WrittenInv, HeaderInv, [Next]_vars,
         NEW p \in Procs, NEW b \in setup.filters[p], NEW object, Set(p, b, object),
         ObjectHeader(<< p, b >>)',
         \A o \in Objects : o # << p, b >> /\ InUse(<< p, b >>)' /\ InUse(o)
                              /\ At(o).file = object.file => past'[object.file].shared
  PROVE  HeaderInv'
<1> DEFINE me == << p, b >>
<1>0. setup' = setup
  BY SetupStays
<1>1. /\ Objects' = Objects
      /\ \A o \in Objects : o # me => At(o)' = At(o)
      /\ At(me)' = object
  BY <1>0, OneObject
<1>2. ASSUME NEW o \in Objects
      PROVE  ObjectHeader(o)'
  <2>1. CASE o = me
    BY <2>1
  <2>2. CASE o # me
    BY <1>1, <2>2, ObjectHeaderStays
  <2>3. QED  BY <2>1, <2>2
<1>3. \A o \in Objects : o # me => (InUse(o)' <=> InUse(o))
  BY <1>0, <1>1 DEF InUse
<1>4. ASSUME NEW o1 \in Objects, NEW o2 \in Objects,
             InUse(o1)', InUse(o2)', At(o1)'.file = At(o2)'.file
      PROVE  o1 = o2 \/ past'[At(o1)'.file].shared
  <2>1. CASE o1 # me /\ o2 # me
    <3>1. InUse(o1) /\ InUse(o2) /\ At(o1)' = At(o1) /\ At(o2)' = At(o2)
      BY <1>1, <1>3, <1>4, <2>1
    <3>2. o1 = o2 \/ past[At(o1).file].shared
      BY <1>4, <3>1 DEF HeaderInv, Sharing
    <3>3. At(o1).file \in Inodes
      BY <3>1, InUseOpen
    <3>4. QED  BY <3>1, <3>2, <3>3, HeaderParts
  <2>2. CASE o1 = me /\ o2 # me
    BY <1>1, <1>3, <1>4, <2>2
  <2>3. CASE o1 # me /\ o2 = me
    BY <1>1, <1>3, <1>4, <2>3
  <2>4. QED  BY <2>1, <2>2, <2>3
<1>5. (\A o \in Objects : ObjectHeader(o))' /\ (\A i \in Inodes : FileHeader(i))'
  BY <1>1, <1>2, FileHeaderStays
<1>6. (\A o1, o2 \in Objects : Sharing(o1, o2))'
  BY <1>1, <1>4 DEF Sharing
<1>7. QED  BY <1>5, <1>6 DEF HeaderInv

\* The object was at work on the file before.
LEMMA HeaderByUser ==
  ASSUME TypeInv, TypeInv', DescriptorInv, WrittenInv, HeaderInv, [Next]_vars,
         NEW p \in Procs, NEW b \in setup.filters[p], NEW object, Set(p, b, object),
         ObjectHeader(<< p, b >>)',
         InUse(<< p, b >>)' => InUse(<< p, b >>) /\ object.file = bloom[p][b].file
  PROVE  HeaderInv'
<1> DEFINE me == << p, b >>
<1>1. ASSUME NEW o \in Objects, o # me, InUse(me)', InUse(o), At(o).file = object.file
      PROVE  past'[object.file].shared
  <2>1. me \in Objects /\ At(me) = bloom[p][b]
    BY ObjectPairs
  <2>2. past[object.file].shared
    BY <1>1, <2>1 DEF HeaderInv, Sharing
  <2>3. object.file \in Inodes
    BY <1>1, InUseOpen
  <2>4. QED  BY <2>2, <2>3, HeaderParts
<1>2. QED  BY <1>1, HeaderBy

\* The object is not at work on a file.
LEMMA HeaderByIdle ==
  ASSUME TypeInv, TypeInv', DescriptorInv, WrittenInv, HeaderInv, [Next]_vars,
         NEW p \in Procs, NEW b \in setup.filters[p], NEW object, Set(p, b, object),
         object.vec # "file", ~ Creating(object), object.at # "mapping",
         \/ object.vec # "memory"
         \/ object.at = "failed"
         \/ object.fd = 0
         \/ object.file \in Inodes /\ past'[object.file].detached
  PROVE  HeaderInv'
<1>1. At(<< p, b >>)' = object
  BY OneObject, SetupStays
<1>2. object.fd = 0 => FdOf(<< p, b >>)' = Free
  BY <1>1 DEF FdOf, OnFd
<1>3. ObjectHeader(<< p, b >>)'
  BY <1>1, <1>2 DEF ObjectHeader, Creating
<1>4. ~ InUse(<< p, b >>)'
  BY <1>1 DEF InUse, Creating
<1>5. QED  BY <1>3, <1>4, HeaderByUser

\* The object goes on with what it has.
LEMMA HeaderByKept ==
  ASSUME TypeInv, TypeInv', DescriptorInv, WrittenInv, HeaderInv, [Next]_vars,
         NEW p \in Procs, NEW b \in setup.filters[p], NEW object, Set(p, b, object),
         fdt' = fdt, object.vec = bloom[p][b].vec, object.file = bloom[p][b].file,
         object.added = bloom[p][b].added, object.fd = bloom[p][b].fd,
         bloom[p][b].at \notin {"header", "failed"},
         Creating(object) => Creating(bloom[p][b]), object.at # "mapping",
         NEW i, i = object.file,
         i \in Inodes =>
           /\ past'[i].calls = past[i].calls /\ past'[i].sessions = past[i].sessions
           /\ past'[i].missed = past[i].missed /\ inode'[i].added = inode[i].added
  PROVE  HeaderInv'
<1> DEFINE me == << p, b >>
           o == bloom[p][b]
<1>0. setup' = setup
  BY SetupStays
<1>1. /\ me \in Objects /\ At(me)' = object /\ At(me) = o /\ o \in Blooms /\ Stage(p, o)
  BY <1>0, OneObject, ObjectPairs, Typed
<1>2. ObjectHeader(me)
  BY <1>1 DEF HeaderInv
<1>3. FdOf(me)' = FdOf(me)
  BY <1>1 DEF FdOf, OnFd
<1>4. InUse(me)' => InUse(me) /\ i \in Inodes
  <2>1. InUse(me)' => InUse(me)
    BY <1>0, <1>1 DEF InUse, Creating
  <2>2. InUse(me) => i \in Inodes
    BY <1>1, InUseOpen
  <2>3. QED  BY <2>1, <2>2
<1>5. i \in Inodes => /\ past[i].detached => past'[i].detached
                      /\ Alone(i)' => Alone(i)
  BY HeaderParts
<1>6. ASSUME object.vec = "memory", object.at \notin {"header", "failed"}, FdOf(me)' # Free
      PROVE  past'[i].detached
  <2>1. FdOf(me) # Free /\ past[i].detached
    BY <1>1, <1>2, <1>3, <1>6 DEF ObjectHeader
  <2>2. i \in Inodes
    BY <1>1, <2>1, OpenFile DEF DescriptorInv
  <2>3. QED  BY <1>5, <2>1, <2>2
<1>7. ASSUME object.vec = "file"
      PROVE  i \in Inodes
  BY <1>1, <1>7 DEF Stage
<1>8. ASSUME object.vec = "file", ~ past'[i].detached
      PROVE  object.added <= past'[i].calls
  BY <1>1, <1>2, <1>5, <1>7, <1>8 DEF ObjectHeader
<1>9. ASSUME object.vec = "file", InUse(me)', Alone(i)'
      PROVE  past'[i].sessions > 0 /\ Behind(object, inode'[i], past'[i])
  <2>1. past[i].sessions > 0 /\ Behind(o, inode[i], past[i])
    BY <1>1, <1>2, <1>4, <1>5, <1>7, <1>9 DEF ObjectHeader
  <2>2. QED  BY <1>7, <1>9, <2>1 DEF Behind
<1>10. ASSUME Creating(object), Alone(i)'
       PROVE  past'[i].calls = 0
  <2>1. i \in Inodes /\ Creating(o)
    BY <1>1, <1>10 DEF Stage
  <2>2. QED  BY <1>1, <1>2, <1>5, <1>10, <2>1 DEF ObjectHeader
<1>11. ObjectHeader(me)'
  BY <1>1, <1>6, <1>8, <1>9, <1>10 DEF ObjectHeader, Creating, Alone
<1>12. QED  BY <1>4, <1>11, HeaderByUser

\* A file that nobody used has one object at work on it, and no calls.
LEMMA HeaderNew ==
  ASSUME TypeInv, TypeInv', DescriptorInv, WrittenInv, HeaderInv, [Next]_vars,
         NEW p \in Procs, NEW b \in setup.filters[p], NEW object, Set(p, b, object),
         object.at = "header", object.vec # "file",
         NEW n, NEW i \in creatable(n), object.file = i, inode' = inode
  PROVE  HeaderInv'
<1> DEFINE me == << p, b >>
<1>1. At(me)' = object
  BY OneObject, SetupStays
<1>2. /\ i \in Inodes /\ inode'[i].header = "none"
      /\ \A q \in Procs : \A d \in Fds : fdt[q][d] # i
  BY DEF creatable, Unused, EmptyFile
<1>3. past'[i].calls = 0
  BY <1>2, FileHeaderStays DEF FileHeader
<1>4. ObjectHeader(me)'
  BY <1>1, <1>3 DEF ObjectHeader
<1>5. ASSUME NEW o \in Objects, InUse(o)
      PROVE  At(o).file # i
  <2>1. FdOf(o) = At(o).file /\ FdOf(o) # Free
    BY <1>5, InUseOpen
  <2>2. FdOf(o) = fdt[o[1]][At(o).fd] /\ At(o).fd \in Fds /\ o[1] \in Procs
    BY <2>1, OpenFile, ObjectPairs
  <2>3. QED  BY <1>2, <2>1, <2>2
<1>6. QED  BY <1>4, <1>5, HeaderBy

\* The write() of the header, with the counter the object has.
LEMMA HeaderWrite ==
  ASSUME TypeInv, TypeInv', DescriptorInv, WrittenInv, HeaderInv, [Next]_vars,
         NEW p \in Procs, NEW b \in setup.filters[p], WriteHeader(p, b)
  PROVE  HeaderInv'
<1> DEFINE me == << p, b >>
           o == bloom[p][b]
           object == [o EXCEPT !.at = "vector"]
<1>0. PICK i : i = bloom[p][b].file
  OBVIOUS
<1>1. /\ me \in Objects /\ At(me) = o /\ o \in Blooms /\ Stage(p, o) /\ o.at = "header"
      /\ Set(p, b, object) /\ UNCHANGED setup
      /\ past' = [past EXCEPT ![i].detached = @ \/ o.vec = "memory"]
  BY <1>0, ObjectPairs, Typed DEF WriteHeader
<1>2. /\ object.at = "vector" /\ object.vec = o.vec /\ object.file = i
  BY <1>0, <1>1 DEF Blooms
<1> HIDE DEF object
<1>3. At(me)' = object
  BY <1>1, OneObject, SMTT(30)
<1>4. i \in Inodes /\ o.vec # "file" /\ p \in setup.writers /\ past \in [Inodes -> Pasts]
  BY <1>0, <1>1 DEF Stage, Creating, Opening, TypeInv
<1>5. past'[i].calls = past[i].calls /\ (o.vec = "memory" => past'[i].detached)
  BY <1>1, <1>4 DEF Pasts
<1>6. Alone(i)' => past'[i].calls = 0
  <2>1. Alone(i) => past[i].calls = 0
    BY <1>0, <1>1 DEF HeaderInv, ObjectHeader, Creating
  <2>2. QED  BY <1>4, <1>5, <2>1, HeaderParts
<1>7. ObjectHeader(me)'
  BY <1>2, <1>3, <1>4, <1>5, <1>6 DEF ObjectHeader, Creating, Alone
<1>8. InUse(me)
  BY <1>1, <1>4 DEF InUse
<1>9. QED  BY <1>0, <1>1, <1>2, <1>7, <1>8, HeaderByUser

\* What a session does to the history of its file.
LEMMA SessionBegins ==
  ASSUME TypeInv, NEW o, Session(o), o.file \in Inodes
  PROVE  /\ past'[o.file].sessions = past[o.file].sessions + 1
         /\ past'[o.file].calls = past[o.file].calls
         /\ past'[o.file].missed = past[o.file].missed
         /\ past'[o.file].detached = past[o.file].detached
<1>1. past' = [past EXCEPT ![o.file].sessions = @ + 1]
  BY DEF Session
<1>2. past \in [Inodes -> Pasts]
  BY DEF TypeInv
<1>3. QED  BY <1>1, <1>2 DEF Pasts

\* create() counts from 0, in a file that has no calls.
LEMMA HeaderCreated ==
  ASSUME TypeInv, TypeInv', DescriptorInv, WrittenInv, HeaderInv, [Next]_vars,
         NEW p \in Procs, NEW b \in setup.filters[p], CreateMaps(p, b)
  PROVE  HeaderInv'
<1> DEFINE me == << p, b >>
           o == bloom[p][b]
           mapped == [o EXCEPT !.at = "ready", !.vec = "file", !.written = 0, !.file = OnFd(p, o)]
           failed == [o EXCEPT !.at = "ready", !.vec = "MAP_FAILED", !.written = 0]
<1>0. PICK i : i = bloom[p][b].file
  OBVIOUS
<1>1. /\ me \in Objects /\ At(me) = o /\ o \in Blooms /\ Stage(p, o) /\ o.at = "map"
      /\ o.vec = "none" /\ Session(o) /\ UNCHANGED << inode, setup >>
  BY ObjectPairs, Typed DEF CreateMaps, files
<1>2. i \in Inodes /\ p \in setup.writers /\ o.added = 0 /\ OnFd(p, o) \in {i, Free}
  BY <1>0, <1>1 DEF Stage, Creating, Opening, DescriptorInv, FdOf
<1>3. CASE OnFd(p, o) # Free /\ Set(p, b, mapped)
  <2>1. mapped.at = "ready" /\ mapped.vec = "file" /\ mapped.file = i /\ mapped.added = 0
    BY <1>1, <1>2, <1>3 DEF Blooms
  <2> HIDE DEF mapped
  <2>2. At(me)' = mapped
    BY <1>1, <1>3, OneObject
  <2>3. /\ past'[i].sessions = past[i].sessions + 1 /\ past'[i].calls = past[i].calls
        /\ past'[i].missed = past[i].missed
    BY <1>0, <1>1, <1>2, SessionBegins
  <2>4. /\ {past[i].calls, past[i].sessions, past[i].missed, inode[i].added} \subseteq Nat
        /\ Alone(i)' => Alone(i)
        /\ InfoEvery \in Nat \ {0}
    BY <1>2, HeaderParts, Situation DEF TypeInv
  <2>5. Alone(i)' => past[i].calls = 0
    BY <1>0, <1>1, <2>4 DEF HeaderInv, ObjectHeader, Creating
  <2>6. Lag(past'[i].sessions - 1) \in Nat
    <3>1. past'[i].sessions - 1 = past[i].sessions
      BY <2>3, <2>4
    <3>2. QED  BY <2>4, <3>1, LagGrows
  <2>7. 0 - (0 % InfoEvery) <= inode'[i].added
    <3>1. 0 % InfoEvery = 0
      BY <2>4
    <3>2. QED  BY <1>1, <2>4, <3>1
  <2>8. ObjectHeader(me)'
    <3>1. ~ past'[i].detached => 0 <= past'[i].calls
      BY <2>3, <2>4
    <3>2. ASSUME Alone(i)'
          PROVE  past'[i].sessions > 0 /\ Behind(mapped, inode'[i], past'[i])
      <4>1. Skipped(past[i].missed) \in Nat /\ Skipped(0) = 0
        BY <2>4, SkippedGrows
      <4>2. past[i].missed + 0 = past'[i].missed
        BY <2>3, <2>4
      <4>3. past'[i].calls <= 0 + Lag(past'[i].sessions - 1) + Skipped(past[i].missed)
        BY <2>3, <2>4, <2>5, <2>6, <3>2, <4>1
      <4>4. 0 - (0 % InfoEvery) <= inode'[i].added + Skipped(0)
        BY <1>1, <2>4, <2>7, <4>1
      <4>5. past'[i].sessions > 0
        BY <2>3, <2>4
      <4>6. QED  BY <2>1, <2>4, <4>2, <4>3, <4>4, <4>5 DEF Behind
    <3>3. QED  BY <2>1, <2>2, <3>1, <3>2 DEF ObjectHeader, Creating, Alone
  <2>9. InUse(me)
    BY <1>1, <1>2 DEF InUse
  <2>10. QED  BY <1>0, <1>3, <2>1, <2>8, <2>9, HeaderByUser
<1>4. CASE Set(p, b, failed)
  <2>1. failed.at = "ready" /\ failed.vec = "MAP_FAILED"
    BY <1>1 DEF Blooms
  <2> HIDE DEF failed
  <2>2. QED  BY <1>4, <2>1, HeaderByIdle DEF Creating
<1>5. QED  BY <1>3, <1>4 DEF CreateMaps

\* open() takes the counter of the header, and is at work on the file from then on.
LEMMA HeaderRead ==
  ASSUME TypeInv, TypeInv', DescriptorInv, WrittenInv, HeaderInv, [Next]_vars,
         NEW p \in Procs, NEW b \in setup.filters[p], OpenReads(p, b)
  PROVE  HeaderInv'
<1> DEFINE me == << p, b >>
           o == bloom[p][b]
           used == p \in setup.writers /\ inode[o.file].header = "good" /\ Used(me, o)
<1>0. PICK i : i = bloom[p][b].file
  OBVIOUS
<1>1. /\ me \in Objects /\ At(me) = o /\ o \in Blooms /\ Stage(p, o) /\ o.at = "read"
      /\ UNCHANGED << inode, setup >>
  BY ObjectPairs, Typed DEF OpenReads, files
<1>2. i \in Inodes /\ o.vec = "none" /\ past \in [Inodes -> Pasts]
  BY <1>0, <1>1 DEF Stage, Opening, TypeInv
<1>3. past' = [past EXCEPT ![i].shared = @ \/ used]
  BY <1>0 DEF OpenReads
<1>4. PICK at \in {"mapping", "closing"} :
        /\ at = "mapping" => inode[i].header = "good"
        /\ Set(p, b, [o EXCEPT !.at = at, !.added = inode[i].added])
  BY <1>0 DEF OpenReads
<1> DEFINE object == [o EXCEPT !.at = at, !.added = inode[i].added]
<1>5. /\ object.at = at /\ object.vec = "none" /\ object.file = i
      /\ object.added = inode[i].added
  BY <1>0, <1>1, <1>2 DEF Blooms
<1>6. Set(p, b, object)
  BY <1>4
<1> HIDE DEF object
<1>7. At(me)' = object
  BY <1>1, <1>6, OneObject
<1>8. CASE at = "closing"
  BY <1>5, <1>6, <1>8, HeaderByIdle DEF Creating
<1>9. CASE at = "mapping"
  <2>1. /\ past'[i].calls = past[i].calls /\ past'[i].detached = past[i].detached
        /\ past'[i].shared = (past[i].shared \/ used)
    <3> HIDE DEF used
    <3>1. QED  BY <1>2, <1>3 DEF Pasts
  <2>2. ~ past'[i].detached => object.added <= past'[i].calls
    BY <1>2, <1>5, <2>1 DEF HeaderInv, FileHeader
  <2>3. ObjectHeader(me)'
    BY <1>1, <1>5, <1>7, <1>9, <2>2 DEF ObjectHeader, Creating
  <2>4. ASSUME NEW other \in Objects, other # me, InUse(me)', InUse(other), At(other).file = i
        PROVE  past'[i].shared
    <3>1. p \in setup.writers
      BY <1>1, <2>4 DEF InUse
    <3>2. used
      BY <1>0, <1>4, <1>9, <2>4, <3>1 DEF Used
    <3>3. QED  BY <2>1, <3>2
  <2>5. QED  BY <1>5, <1>6, <2>3, <2>4, HeaderBy
<1>10. QED  BY <1>4, <1>8, <1>9

\* open() counts on from the header it has read.
LEMMA HeaderOpened ==
  ASSUME TypeInv, TypeInv', DescriptorInv, WrittenInv, HeaderInv, [Next]_vars,
         NEW p \in Procs, NEW b \in setup.filters[p], OpenMaps(p, b)
  PROVE  HeaderInv'
<1> DEFINE me == << p, b >>
           o == bloom[p][b]
           mapped == [o EXCEPT !.at = "ready", !.vec = "file", !.file = OnFd(p, o)]
           failed == [o EXCEPT !.at = "failed", !.vec = "MAP_FAILED"]
<1>0. PICK i : i = bloom[p][b].file
  OBVIOUS
<1>1. /\ me \in Objects /\ At(me) = o /\ o \in Blooms /\ Stage(p, o) /\ o.at = "mapping"
      /\ UNCHANGED << inode, setup >>
  BY ObjectPairs, Typed DEF OpenMaps, files
<1>2. i \in Inodes /\ OnFd(p, o) \in {i, Free}
  BY <1>0, <1>1 DEF Stage, Opening, DescriptorInv, FdOf
<1>3. CASE /\ OnFd(p, o) # Free /\ Set(p, b, mapped)
           /\ IF p \in setup.writers THEN Session(o) ELSE UNCHANGED past
  <2>1. /\ mapped.at = "ready" /\ mapped.vec = "file" /\ mapped.file = i
        /\ mapped.added = o.added
    BY <1>0, <1>1, <1>2, <1>3 DEF Blooms
  <2> HIDE DEF mapped
  <2>2. At(me)' = mapped
    BY <1>1, <1>3, OneObject
  <2>3. /\ {past[i].calls, past[i].sessions, past[i].missed, inode[i].added} \subseteq Nat
        /\ past[i].detached => past'[i].detached
        /\ Alone(i)' => Alone(i)
        /\ InfoEvery \in Nat \ {0}
        /\ FileHeader(i) /\ ObjectHeader(me)
    BY <1>1, <1>2, HeaderParts, Situation DEF TypeInv, HeaderInv
  <2>4. past'[i].calls = past[i].calls /\ past'[i].missed = past[i].missed
    BY <1>0, <1>2, <1>3, SessionBegins
  <2>6. ~ past'[i].detached => o.added <= past'[i].calls
    BY <1>0, <1>1, <2>3, <2>4 DEF ObjectHeader
  <2>7. ASSUME p \in setup.writers
        PROVE  InUse(me)
    BY <1>1, <2>7 DEF InUse
  <2>8. ASSUME p \in setup.writers, Alone(i)'
        PROVE  past'[i].sessions > 0 /\ Behind(mapped, inode'[i], past'[i])
    <3>1. past'[i].sessions = past[i].sessions + 1
      BY <1>0, <1>2, <1>3, <2>8, SessionBegins
    <3>2. past'[i].sessions - 1 = past[i].sessions /\ past'[i].sessions > 0
      BY <2>3, <3>1
    <3>3. mapped.added = inode[i].added
      BY <1>0, <1>1, <2>1, <2>3, <2>7, <2>8 DEF ObjectHeader
    <3>4. Skipped(past[i].missed) \in Nat /\ Skipped(0) = 0
      BY <2>3, SkippedGrows
    <3>5. past'[i].calls <= mapped.added + Lag(past'[i].sessions - 1) + Skipped(past[i].missed)
      BY <2>3, <2>4, <2>8, <3>2, <3>3 DEF FileHeader
    <3>6. mapped.added - (mapped.added % InfoEvery) <= inode'[i].added + Skipped(0)
      <4>1. inode[i].added % InfoEvery \in Nat
        BY <2>3
      <4>2. QED  BY <1>1, <2>3, <3>3, <3>4, <4>1
    <3>7. past[i].missed + 0 = past'[i].missed
      BY <2>3, <2>4
    <3>8. QED  BY <2>3, <3>2, <3>5, <3>6, <3>7 DEF Behind
  <2>9. InUse(me)' => p \in setup.writers
    BY <1>1 DEF InUse
  <2>10. ObjectHeader(me)'
    BY <1>1, <2>1, <2>2, <2>6, <2>8, <2>9 DEF ObjectHeader, Creating, Alone
  <2>11. QED  BY <1>0, <1>3, <2>1, <2>7, <2>9, <2>10, HeaderByUser
<1>4. CASE Set(p, b, failed)
  <2>1. failed.at = "failed" /\ failed.vec = "MAP_FAILED"
    BY <1>1 DEF Blooms
  <2> HIDE DEF failed
  <2>2. QED  BY <1>4, <2>1, HeaderByIdle DEF Creating
<1>5. QED  BY <1>3, <1>4 DEF OpenMaps

\* An add counts for the file, for the object and, at each multiple of
\* InfoEvery, for the header.
LEMMA HeaderCounted ==
  ASSUME TypeInv, TypeInv', DescriptorInv, WrittenInv, HeaderInv, [Next]_vars,
         NEW p \in Procs, NEW b \in setup.filters[p], AddCount(p, b)
  PROVE  HeaderInv'
<1> DEFINE me == << p, b >>
           o == bloom[p][b]
           counted == [o EXCEPT !.at = "ready", !.added = @ + 1, !.item = {}, !.loaded = {}]
<1>0. PICK i : i = bloom[p][b].file
  OBVIOUS
<1>1. /\ me \in Objects /\ At(me) = o /\ o \in Blooms /\ Stage(p, o) /\ o.at = "count"
      /\ UNCHANGED << fdt, setup >> /\ Set(p, b, counted) /\ ObjectHeader(me)
  BY ObjectPairs, Typed DEF AddCount, HeaderInv
<1>2. /\ counted.at = "ready" /\ counted.vec = o.vec /\ counted.file = i /\ counted.fd = o.fd
      /\ counted.added = o.added + 1
  BY <1>0, <1>1 DEF Blooms
<1> HIDE DEF counted
<1>3. At(me)' = counted /\ p \in setup.writers /\ o.vec \in {"memory", "file"}
  BY <1>1, OneObject DEF Stage
<1>4. CASE o.vec = "memory"
  <2>1. CASE FdOf(me) = Free
    <3>1. FdOf(me)' = Free
      BY <1>1, <1>2, <1>3, <2>1 DEF FdOf, OnFd
    <3>2. ObjectHeader(me)'
      BY <1>2, <1>3, <1>4, <3>1 DEF ObjectHeader, Creating
    <3>3. ~ InUse(me)'
      BY <1>2, <1>3, <1>4 DEF InUse
    <3>4. QED  BY <1>1, <3>2, <3>3, HeaderByUser
  <2>2. CASE FdOf(me) # Free
    <3>1. past[i].detached
      BY <1>0, <1>1, <1>4, <2>2 DEF ObjectHeader
    <3>2. i \in Inodes
      BY <1>0, <1>1, <2>2, OpenFile DEF DescriptorInv
    <3>3. past'[i].detached
      BY <3>1, <3>2, HeaderParts
    <3>4. QED  BY <1>1, <1>2, <1>4, <3>2, <3>3, HeaderByIdle DEF Creating
  <2>3. QED  BY <2>1, <2>2
<1>5. CASE o.vec = "file"
  <2>1. i \in Inodes /\ Counts(p, b, i) /\ InUse(me)
    BY <1>0, <1>1, <1>3, <1>5 DEF Stage, Counts, InUse
  <2>2. /\ past'[i].calls = past[i].calls + 1
        /\ past'[i].detached = past[i].detached
        /\ o.added \in Nat
    BY <2>1, Counted
  <2>3. past[i].calls \in Nat /\ (Alone(i)' => Alone(i))
    BY <2>1, HeaderParts
  <2>4. ~ past[i].detached => o.added <= past[i].calls
    BY <1>0, <1>1, <1>5, <2>1 DEF ObjectHeader
  <2>5. Alone(i)' => past'[i].sessions > 0 /\ Behind(counted, inode'[i], past'[i])
    BY <1>2, <2>1, <2>3, BehindCounted
  <2>6. ~ past'[i].detached => counted.added <= past'[i].calls
    BY <1>2, <2>2, <2>3, <2>4
  <2>7. ObjectHeader(me)'
    BY <1>2, <1>3, <1>5, <2>5, <2>6 DEF ObjectHeader, Creating, Alone
  <2>8. QED  BY <1>0, <1>1, <1>2, <2>1, <2>7, HeaderByUser
<1>6. QED  BY <1>3, <1>4, <1>5

\* The steps keep what the headers say.
LEMMA NextHeader ==
  ASSUME TypeInv, TypeInv', DescriptorInv, WrittenInv, HeaderInv, [Next]_vars
  PROVE  HeaderInv'
<1>1. CASE UNCHANGED vars
  <2>1. UNCHANGED << setup, past, bloom >>
    BY <1>1 DEF vars
  <2>2. /\ Objects' = Objects
        /\ \A o : At(o)' = At(o)
    BY <2>1 DEF Objects, At
  <2>3. (\A o \in Objects : ObjectHeader(o))' /\ (\A i \in Inodes : FileHeader(i))'
    BY <2>2, ObjectHeaderStays, FileHeaderStays
  <2>4. (\A o1, o2 \in Objects : Sharing(o1, o2))'
    BY <2>1, <2>2 DEF HeaderInv, Sharing, InUse
  <2>5. QED  BY <2>3, <2>4 DEF HeaderInv
<1>0. ASSUME NEW p \in Procs, NEW at \in {"zero", "exited", "faulted"}, Ends(p, at)
      PROVE  HeaderInv'
  <2> DEFINE object == [Zeroed EXCEPT !.at = at]
  <2>1. /\ Objects' = Objects /\ setup' = setup
        /\ \A o \in Objects : At(o)' = IF o[1] = p THEN object ELSE At(o)
    BY <1>0, AllEnd
  <2>2. object.at = at /\ object.vec = "none"
    BY DEF Zeroed
  <2> HIDE DEF object
  <2>3. ASSUME NEW o \in Objects
        PROVE  ObjectHeader(o)'
    <3>1. CASE o[1] = p
      BY <2>1, <2>2, <3>1 DEF ObjectHeader, Creating
    <3>2. CASE o[1] # p
      BY <2>1, <3>2, ObjectHeaderStays
    <3>3. QED  BY <3>1, <3>2
  <2>4. ASSUME NEW o \in Objects, InUse(o)'
        PROVE  At(o)' = At(o) /\ InUse(o)
    <3>1. o[1] # p
      BY <2>1, <2>2, <2>4 DEF InUse
    <3>2. QED  BY <2>1, <2>4, <3>1 DEF InUse
  <2>5. ASSUME NEW o1 \in Objects, NEW o2 \in Objects,
               InUse(o1)', InUse(o2)', At(o1)'.file = At(o2)'.file
        PROVE  o1 = o2 \/ past'[At(o1)'.file].shared
    <3>1. /\ At(o1)' = At(o1) /\ InUse(o1) /\ InUse(o2) /\ At(o1).file = At(o2).file
      BY <2>4, <2>5
    <3>2. o1 = o2 \/ past[At(o1).file].shared
      BY <3>1 DEF HeaderInv, Sharing
    <3>3. At(o1).file \in Inodes
      BY <3>1, InUseOpen
    <3>4. QED  BY <3>1, <3>2, <3>3, HeaderParts
  <2>6. (\A o \in Objects : ObjectHeader(o))' /\ (\A i \in Inodes : FileHeader(i))'
    BY <2>1, <2>3, FileHeaderStays
  <2>7. (\A o1, o2 \in Objects : Sharing(o1, o2))'
    BY <2>1, <2>5 DEF Sharing
  <2>8. QED  BY <2>6, <2>7 DEF HeaderInv
<1>2. ASSUME NEW p \in Procs, Crash(p) \/ Restart(p)
      PROVE  HeaderInv'
  BY <1>0, <1>2 DEF Crash, Restart
<1>3. ASSUME NEW p \in Procs, NEW b \in setup.filters[p], NEW n \in setup.names,
             \/ Create(p, b, n)
             \/ Write(p, b, n)
             \/ OpenFails(p, b, n)
             \/ Open(p, b, n)
      PROVE  HeaderInv'
  <2>1. Zeroed \in Blooms /\ bloom[p][b] \in Blooms /\ Stage(p, bloom[p][b])
    BY Typed
  <2>2. ASSUME NEW o \in Blooms, WriteOpen(p, b, n, o), o.vec # "file"
        PROVE  HeaderInv'
    <3>1. CASE Set(p, b, [o EXCEPT !.at = "failed", !.fd = -1])
      <4> DEFINE object == [o EXCEPT !.at = "failed", !.fd = -1]
      <4>1. object.at = "failed" /\ object.vec # "file"
        BY <2>2 DEF Blooms
      <4> HIDE DEF object
      <4>2. QED  BY <3>1, <4>1, HeaderByIdle DEF Creating, object
    <3>2. ASSUME NEW i \in creatable(n),
                 Set(p, b, [o EXCEPT !.at = "header", !.fd = NewFd(p), !.path = n, !.file = i])
          PROVE  HeaderInv'
      <4> DEFINE object == [o EXCEPT !.at = "header", !.fd = NewFd(p), !.path = n, !.file = i]
      <4>1. /\ object.file = i /\ object.at = "header" /\ object.vec # "file"
            /\ Set(p, b, object) /\ inode' = inode
        BY <2>2, <3>2, MadeEmpty DEF Blooms
      <4> HIDE DEF object
      <4>2. QED  BY <3>2, <4>1, HeaderNew
    <3>3. QED  BY <2>2, <3>1, <3>2 DEF WriteOpen
  <2>3. CASE OpenFails(p, b, n) \/ Open(p, b, n)
    <3>1. \/ Set(p, b, [Zeroed EXCEPT !.at = "failed", !.fd = -1])
          \/ Set(p, b, [Zeroed EXCEPT !.at = "read", !.fd = NewFd(p), !.path = n, !.file = dir[n]])
      BY <2>3 DEF OpenFails, Open
    <3>2. ASSUME NEW object, Set(p, b, object), object.at \in {"failed", "read"},
                 object.vec = "none"
          PROVE  HeaderInv'
      BY <3>2, HeaderByIdle DEF Creating
    <3>3. QED  BY <3>1, <3>2 DEF Zeroed
  <2>4. CASE Create(p, b, n)
    BY <2>1, <2>2, <2>4 DEF Create, Zeroed
  <2>5. CASE Write(p, b, n)
    BY <2>1, <2>2, <2>5 DEF Write
  <2>6. QED  BY <1>3, <2>3, <2>4, <2>5
<1>4. ASSUME NEW p \in Procs, NEW b \in setup.filters[p],
             \/ CreateInMemory(p, b)
             \/ WriteHeader(p, b)
             \/ WriteChunk(p, b)
             \/ WriteFails(p, b)
             \/ CreateMaps(p, b)
             \/ WriteReturns(p, b)
             \/ OpenExits(p, b)
             \/ OpenRejects(p, b)
             \/ OpenReads(p, b)
             \/ OpenCloses(p, b)
             \/ OpenMaps(p, b)
             \/ AddStore(p, b)
             \/ AddCount(p, b)
             \/ Clear(p, b)
             \/ \E h \in setup.items : AddLoad(p, b, h) \/ Fault(p, b, h)
      PROVE  HeaderInv'
  <2> DEFINE o == bloom[p][b]
             me == << p, b >>
  <2>0. PICK i : i = bloom[p][b].file
    OBVIOUS
  <2>1. /\ me \in Objects /\ At(me) = o /\ o \in Blooms /\ Stage(p, o)
    BY ObjectPairs, Typed
  <2>2. CASE CreateInMemory(p, b) \/ Clear(p, b)
    <3>1. Set(p, b, Zeroed) \/ Set(p, b, [Zeroed EXCEPT !.at = "ready", !.vec = "memory"])
      BY <2>2 DEF CreateInMemory, Clear
    <3>2. ASSUME NEW object, Set(p, b, object), object.at \in {"zero", "ready"},
                 object.vec \in {"none", "memory"}, object.fd = 0
          PROVE  HeaderInv'
      BY <3>2, HeaderByIdle DEF Creating
    <3>3. QED  BY <3>1, <3>2 DEF Zeroed
  <2>3. CASE WriteFails(p, b) \/ OpenRejects(p, b) \/ OpenCloses(p, b)
    <3> DEFINE object == [o EXCEPT !.at = "failed"]
    <3>1. object.at = "failed" /\ object.vec # "file" /\ Set(p, b, object)
      BY <2>1, <2>3 DEF WriteFails, OpenRejects, OpenCloses, Blooms, Stage, Writing, Creating
    <3> HIDE DEF object
    <3>2. QED  BY <3>1, HeaderByIdle DEF Creating
  <2>4. CASE WriteChunk(p, b)
    <3> DEFINE object == [o EXCEPT !.written = @ + 1,
                            !.at = IF o.written + 1 < Chunks THEN "vector" ELSE "map"]
    <3>1. /\ object.vec = o.vec /\ object.file = o.file /\ object.added = o.added
          /\ object.fd = o.fd /\ object.at \in {"vector", "map"}
      BY <2>1 DEF Blooms
    <3>2. Set(p, b, object) /\ fdt' = fdt /\ o.at = "vector" /\ past' = past
      BY <2>4, SMTT(30) DEF WriteChunk, notes
    <3>3. i \in Inodes => inode'[i].added = inode[i].added
      <4>1. Extends(p, b, i)
        BY <2>0, <2>1, <2>4 DEF Extends, WriteChunk, DescriptorInv, FdOf
      <4>2. QED  BY <4>1, ChunkWritten
    <3>4. i = object.file
      BY <2>0, <3>1
    <3> HIDE DEF object
    <3>5. QED  BY <3>1, <3>2, <3>3, <3>4, HeaderByKept DEF Creating
  <2>5. CASE WriteReturns(p, b)
    <3> DEFINE object == [o EXCEPT !.at = "ready", !.written = 0]
    <3>1. /\ object.at = "ready" /\ object.vec = "memory" /\ object.file = i /\ Set(p, b, object)
          /\ o.at = "map" /\ o.vec = "memory"
      BY <2>0, <2>1, <2>5 DEF WriteReturns, Blooms
    <3> HIDE DEF object
    <3>2. InUse(me)
      BY <2>1, <3>1 DEF InUse, Stage, Creating, Opening
    <3>3. FdOf(me) # Free /\ i \in Inodes
      BY <2>0, <2>1, <3>2, InUseOpen
    <3>4. past[i].detached
      BY <2>0, <2>1, <3>1, <3>3 DEF HeaderInv, ObjectHeader
    <3>5. past'[i].detached
      BY <3>3, <3>4, HeaderParts
    <3>6. QED  BY <3>1, <3>3, <3>5, HeaderByIdle DEF Creating
  <2>6. ASSUME NEW h \in setup.items, AddLoad(p, b, h)
        PROVE  HeaderInv'
    <3> DEFINE object == [o EXCEPT !.at = IF h \in Vector(o) THEN "count" ELSE "store",
                            !.item = {h}, !.loaded = Vector(o) \cap OfByte(h)]
    <3>1. /\ object.vec = o.vec /\ object.file = o.file /\ object.added = o.added
          /\ object.fd = o.fd /\ object.at \in {"count", "store"}
      BY <2>1 DEF Blooms
    <3>2. Set(p, b, object) /\ fdt' = fdt /\ o.at = "ready" /\ past' = past /\ inode' = inode
      BY <2>6, SMTT(30) DEF AddLoad, notes, files
    <3> HIDE DEF object
    <3>3. QED  BY <3>1, <3>2, HeaderByKept DEF Creating
  <2>7. CASE AddStore(p, b)
    <3> DEFINE counting == [o EXCEPT !.at = "count", !.loaded = {}]
    <3>1. /\ counting.vec = o.vec /\ counting.file = o.file /\ counting.added = o.added
          /\ counting.fd = o.fd /\ counting.at = "count" /\ counting \in Blooms
      BY <2>1 DEF Blooms, Ats
    <3>2. fdt' = fdt /\ o.at = "store"
      BY <2>7 DEF AddStore
    <3>3. CASE o.vec = "file"
      <4>1. Set(p, b, counting) /\ i \in Inodes /\ Stores(p, b, i)
        BY <2>0, <2>1, <2>7, <3>3 DEF AddStore, Stores, Stage
      <4>2. PICK g \in Items : StoresByte(p, b, i, g)
        BY <4>1, ByteStored
      <4>3. inode'[i].added = inode[i].added
        BY <4>2 DEF StoresByte
      <4>4. /\ past'[i].calls = past[i].calls /\ past'[i].sessions = past[i].sessions
            /\ past'[i].missed = past[i].missed
        <5>1. \E r : past' = [past EXCEPT ![i].raced = r]
          BY <2>0, <2>7, <3>3 DEF AddStore
        <5>2. QED  BY <4>1, <5>1 DEF TypeInv, Pasts
      <4> HIDE DEF counting
      <4>5. i = counting.file
        BY <2>0, <3>1
      <4>6. QED  BY <3>1, <3>2, <4>1, <4>3, <4>4, <4>5, HeaderByKept DEF Creating
    <3>4. ASSUME NEW s, Set(p, b, [counting EXCEPT !.memory = s]), UNCHANGED << inode, past >>
          PROVE  HeaderInv'
      <4> DEFINE object == [counting EXCEPT !.memory = s]
      <4>1. /\ object.vec = o.vec /\ object.file = o.file /\ object.added = o.added
            /\ object.fd = o.fd /\ object.at = "count"
        BY <3>1 DEF Blooms
      <4>2. Set(p, b, object)
        BY <3>4
      <4> HIDE DEF object
      <4>3. QED  BY <3>2, <3>4, <4>1, <4>2, HeaderByKept DEF Creating
    <3>5. QED  BY <2>7, <3>3, <3>4 DEF AddStore
  <2>8. CASE OpenExits(p, b) \/ \E h \in setup.items : Fault(p, b, h)
    BY <1>0, <2>8 DEF OpenExits, Fault
  <2>9. QED  BY <1>4, <2>2, <2>3, <2>4, <2>5, <2>6, <2>7, <2>8, HeaderWrite, HeaderCreated,
                HeaderRead, HeaderOpened, HeaderCounted
<1>5. QED  BY <1>1, <1>2, <1>3, <1>4 DEF Next

-----------------------------------------------------------------------------
(***************************************************************************)
(* The invariant, and what follows from it.                                *)
(***************************************************************************)
\* Once two objects can have the same number, that stays on record.
LEMMA CrossedStays ==
  ASSUME TypeInv, crossed, [Next]_vars
  PROVE  crossed'
<1>1. CASE UNCHANGED vars
  BY <1>1 DEF vars
<1>2. ASSUME NEW p \in Procs, Crash(p) \/ Restart(p)
      PROVE  crossed'
  BY <1>2 DEF Crash, Restart, Ends
<1>3. ASSUME NEW p \in Procs, NEW b, NEW n, NEW o, WriteOpen(p, b, n, o)
      PROVE  crossed'
  <2>1. crossed' = crossed \/ crossed' = Crossing(p)
    BY <1>3 DEF WriteOpen
  <2>2. QED  BY <2>1 DEF Crossing
<1>4. ASSUME NEW p \in Procs, NEW b, NEW n, OpenFails(p, b, n) \/ Open(p, b, n)
      PROVE  crossed'
  <2>1. crossed' = crossed \/ crossed' = Crossing(p)
    BY <1>4 DEF OpenFails, Open, notes
  <2>2. QED  BY <2>1 DEF Crossing
<1>5. ASSUME NEW p \in Procs, NEW b,
             \/ CreateInMemory(p, b)
             \/ WriteHeader(p, b)
             \/ WriteChunk(p, b)
             \/ WriteFails(p, b)
             \/ CreateMaps(p, b)
             \/ WriteReturns(p, b)
             \/ OpenRejects(p, b)
             \/ OpenReads(p, b)
             \/ OpenCloses(p, b)
             \/ OpenMaps(p, b)
             \/ AddStore(p, b)
             \/ AddCount(p, b)
             \/ Clear(p, b)
             \/ \E h \in setup.items : AddLoad(p, b, h)
      PROVE  crossed'
  <2>1. crossed' = crossed
    BY <1>5 DEF CreateInMemory, WriteHeader, WriteChunk, WriteFails, CreateMaps, WriteReturns,
         OpenRejects, OpenReads, OpenCloses, OpenMaps, AddStore, AddCount, Clear, AddLoad, notes
  <2>2. QED  BY <2>1
<1>6. ASSUME NEW p \in Procs, NEW b,
             OpenExits(p, b) \/ \E h \in setup.items : Fault(p, b, h)
      PROVE  crossed'
  BY <1>6 DEF OpenExits, Fault, Ends
<1>7. QED  BY <1>1, <1>2, <1>3, <1>4, <1>5, <1>6, ZenonT(60) DEF Next, Create, Write

\* The one file there may be at first is whole or given as it is, and what is
\* in it and on its header counts as added.
LEMMA InitFiles == Init => FilesInv
<1> SUFFICES ASSUME Init PROVE FilesInv
  OBVIOUS
<1>1. TypeInv
  BY InitTypes
<1>2. \A o \in Objects : At(o) = Zeroed
  <2>1. bloom = [p \in Procs |-> [b \in setup.filters[p] |-> Zeroed]]
    BY DEF Init
  <2>2. QED  BY <1>1, <2>1, ObjectPairs
<1>3. /\ Zeroed.at = "zero" /\ Zeroed.vec = "none" /\ Zeroed.fd = 0
      /\ \A p : OnFd(p, Zeroed) = Free
  BY DEF Zeroed, OnFd
<1>4. PICK name \in setup.names :
        dir = [n \in Names |-> IF n = name /\ setup.file # EmptyFile THEN 1 ELSE NoFile]
  BY DEF Init
<1>5. setup.file # EmptyFile => 1 \in Inodes
  BY <1>1, BloomFileAssumption DEF BloomFileAssumption, TypeInv, Inodes
<1>6. /\ inode = [i \in Inodes |-> IF i = 1 THEN setup.file ELSE EmptyFile]
      /\ past = [i \in Inodes |->
           [Fresh EXCEPT !.adds = inode[i].vector, !.calls = inode[i].added,
                         !.abandoned = i = 1 /\ setup.file # EmptyFile /\ ~ Whole(setup.file)]]
  BY DEF Init
<1>7. ASSUME NEW i \in Inodes
      PROVE  /\ past[i].adds = inode[i].vector /\ past[i].calls = inode[i].added
             /\ past[i].sessions = 0 /\ past[i].missed = 0
             /\ past[i].abandoned <=> i = 1 /\ setup.file # EmptyFile /\ ~ Whole(setup.file)
             /\ inode[i].header = "none" => inode[i] = EmptyFile
             /\ inode[i].added \in Nat
  <2>1. /\ past[i].adds = inode[i].vector /\ past[i].calls = inode[i].added
        /\ past[i].sessions = 0 /\ past[i].missed = 0
        /\ past[i].abandoned <=> i = 1 /\ setup.file # EmptyFile /\ ~ Whole(setup.file)
    BY <1>6 DEF Fresh
  <2>2. setup.file.header = "none" => setup.file = EmptyFile
    BY <1>1, BloomFileAssumption DEF BloomFileAssumption, TypeInv
  <2>3. inode[i].header = "none" => inode[i] = EmptyFile
    BY <1>6, <2>2
  <2>4. inode[i].added \in Nat
    BY <1>1 DEF TypeInv, Files
  <2>5. QED  BY <2>1, <2>3, <2>4
<1>8. NameInv
  BY <1>2, <1>3, <1>4 DEF NameInv, Writing, NoFile
<1>9. DescriptorInv
  <2>1. \A p \in Procs : \A d \in Fds \ {0} : fdt[p][d] = Free
    BY DEF Init, FreshTable
  <2>2. \A o \in Objects : FdOf(o) = Free
    BY <1>2, <1>3 DEF FdOf
  <2>3. QED  BY <1>2, <1>3, <2>1, <2>2 DEF DescriptorInv
<1>10. WrittenInv
  <2>1. \A o \in Objects : Extent(At(o), inode[At(o).file])
    BY <1>2, <1>3 DEF Extent, Writing
  <2>2. ASSUME NEW n \in Names, dir[n] # NoFile
        PROVE  Complete(n)
    <3>1. dir[n] = 1 /\ setup.file # EmptyFile /\ 1 \in Inodes
      BY <1>4, <1>5, <2>2
    <3>2. inode[1] = setup.file
      BY <1>6, <3>1
    <3>3. past[1].abandoned <=> ~ Whole(inode[1])
      BY <1>7, <3>1, <3>2
    <3>4. QED  BY <3>1, <3>3 DEF Complete
  <2>3. QED  BY <2>1, <2>2 DEF WrittenInv
<1>11. VectorInv
  <2>1. \A o \in Objects : ObjectVector(o)
    BY <1>2, <1>3 DEF ObjectVector, Writing
  <2>2. \A i \in Inodes : FileVector(i)
    BY <1>7 DEF FileVector, Kept, EmptyFile
  <2>3. QED  BY <2>1, <2>2 DEF VectorInv
<1>12. HeaderInv
  <2>1. \A o \in Objects : ObjectHeader(o)
    BY <1>2, <1>3 DEF ObjectHeader, Creating
  <2>2. \A o1, o2 \in Objects : Sharing(o1, o2)
    BY <1>2, <1>3 DEF Sharing, InUse
  <2>3. ASSUME NEW i \in Inodes
        PROVE  FileHeader(i)
    <3>1. Lag(past[i].sessions) = 0 /\ Skipped(past[i].missed) = 0
      BY <1>1, <1>7, Situation DEF Lag, Skipped, TypeInv
    <3>2. QED  BY <1>7, <3>1 DEF FileHeader, EmptyFile
  <2>4. QED  BY <2>1, <2>2, <2>3 DEF HeaderInv
<1>13. QED  BY <1>1, <1>8, <1>9, <1>10, <1>11, <1>12 DEF FilesInv

\* Every step keeps the invariant.
LEMMA NextFiles == FilesInv /\ [Next]_vars => FilesInv'
<1> SUFFICES ASSUME FilesInv, [Next]_vars
             PROVE  FilesInv'
  OBVIOUS
<1>1. TypeInv /\ NameInv /\ TypeInv' /\ NameInv'
  BY NextTypes, NextNames DEF FilesInv
<1>2. ASSUME ~ crossed'
      PROVE  DescriptorInv' /\ WrittenInv' /\ VectorInv' /\ HeaderInv'
  <2>1. ~ crossed
    BY <1>1, <1>2, CrossedStays
  <2>2. DescriptorInv /\ WrittenInv /\ VectorInv /\ HeaderInv
    BY <2>1 DEF FilesInv
  <2>3. DescriptorInv'
    BY <1>1, <1>2, <2>2, NextDescriptors
  <2>4. WrittenInv'
    BY <1>1, <2>2, NextWritten
  <2>5. VectorInv'
    BY <1>1, <2>2, NextVector
  <2>6. HeaderInv'
    BY <1>1, <2>2, NextHeader
  <2>7. QED  BY <2>3, <2>4, <2>5, <2>6
<1>3. QED  BY <1>1, <1>2 DEF FilesInv

\* The files are always as the invariant says.
LEMMA SpecFiles == Spec => []FilesInv
BY InitFiles, NextFiles, PTL DEF Spec

\* A descriptor that is open on a file belongs to one object of its process,
\* which will close it, or its filter was written to another file since; and
\* what an object has open is its own file.
THEOREM DescriptorsBelong == Spec => []DescriptorsAreOwned
<1>1. ASSUME FilesInv
      PROVE  DescriptorsAreOwned
  <2> SUFFICES ASSUME ~ crossed, NEW p \in Procs
               PROVE  /\ \A d \in Fds \ {0} : fdt[p][d] \in Inodes =>
                           LET owners == { b \in setup.filters[p] : bloom[p][b].fd = d } IN
                           \/ Cardinality(owners) = 1
                           \/ owners = {} /\ past[fdt[p][d]].dropped
                      /\ \A b \in setup.filters[p] :
                           OnFd(p, bloom[p][b]) \in {bloom[p][b].file, Free}
                      /\ \A b \in setup.filters[p] : bloom[p][b].at # "failed" =>
                           bloom[p][b].fd = 0 \/ OnFd(p, bloom[p][b]) # Free
    BY DEF DescriptorsAreOwned
  <2>1. TypeInv /\ DescriptorInv
    BY <1>1 DEF FilesInv
  <2>2. \A b \in setup.filters[p] :
          << p, b >> \in Objects /\ At(<< p, b >>) = bloom[p][b]
    BY <2>1, ObjectPairs
  <2>3. ASSUME NEW d \in Fds \ {0}, fdt[p][d] \in Inodes
        PROVE  LET owners == { b \in setup.filters[p] : bloom[p][b].fd = d } IN
               Cardinality(owners) = 1 \/ (owners = {} /\ past[fdt[p][d]].dropped)
    <3> DEFINE owners == { b \in setup.filters[p] : bloom[p][b].fd = d }
    <3>1. fdt[p][d] # Free
      BY <2>1, <2>3, Situation DEF TypeInv, Inodes, Free
    <3>2. CASE owners = {}
      BY <2>1, <3>1, <3>2 DEF DescriptorInv, Owned
    <3>3. ASSUME NEW b \in owners
          PROVE  Cardinality(owners) = 1
      <4>1. ASSUME NEW c \in owners
            PROVE  c = b
        <5>1. /\ << p, b >> \in Objects /\ At(<< p, b >>).fd = d
              /\ << p, c >> \in Objects /\ At(<< p, c >>).fd = d
          BY <2>2, <3>3, <4>1
        <5>2. FdOf(<< p, b >>) # Free
          BY <2>3, <3>1, <5>1 DEF FdOf, OnFd
        <5>3. << p, b >> = << p, c >>
          BY <2>1, <5>1, <5>2 DEF DescriptorInv
        <5>4. QED  BY <5>3
      <4>2. owners = {b}
        BY <3>3, <4>1
      <4>3. QED  BY <4>2, FS_Singleton
    <3>4. QED  BY <3>2, <3>3
  <2>4. \A b \in setup.filters[p] :
          /\ OnFd(p, bloom[p][b]) \in {bloom[p][b].file, Free}
          /\ bloom[p][b].at # "failed" => bloom[p][b].fd = 0 \/ OnFd(p, bloom[p][b]) # Free
    BY <2>1, <2>2 DEF DescriptorInv, FdOf
  <2>5. QED  BY <2>3, <2>4
<1>2. QED  BY <1>1, SpecFiles, PTL

\* A name that can be opened stands for a file that is whole, or that somebody
\* is still writing or was killed writing: every way out of nsrl_bloom_write
\* that says -1 has removed it.
THEOREM NamesAreOfWholeFiles == Spec => []NoPartialFile
<1>1. FilesInv => NoPartialFile
  BY DEF FilesInv, WrittenInv, Complete, NoPartialFile
<1>2. QED  BY <1>1, SpecFiles, PTL

\* What an add() that returned put in a file stays there, whoever is killed
\* and however many sessions follow, unless it was stored between the load and
\* the store that another process did of the same byte.
THEOREM AddsAreKept == Spec => []AddsSurvive
<1>1. FilesInv => AddsSurvive
  BY DEF FilesInv, VectorInv, FileVector, Kept, AddsSurvive
<1>2. QED  BY <1>1, SpecFiles, PTL

\* The added_items line of a header never runs ahead of the adds, and lags by
\* less than InfoEvery for each session of a file no two objects shared, and by
\* InfoEvery for each update that could not be written.
THEOREM HeaderKeepsUp == Spec => []HeaderLags
<1>1. ASSUME FilesInv
      PROVE  HeaderLags
  <2> SUFFICES ASSUME ~ crossed, NEW i \in Inodes, ~ past[i].detached
               PROVE  /\ inode[i].added <= past[i].calls
                      /\ \/ past[i].calls <= inode[i].added + (InfoEvery - 1) * past[i].sessions
                                                            + InfoEvery * past[i].missed
                         \/ past[i].shared
    BY DEF HeaderLags
  <2>1. FileHeader(i)
    BY <1>1 DEF FilesInv, HeaderInv
  <2>2. QED  BY <2>1 DEF FileHeader, Alone, Lag, Skipped
<1>2. QED  BY <1>1, SpecFiles, PTL

\* A file that is whole keeps its name and stays whole: create() and write()
\* take a new file (O_EXCL), and the name they remove when a write fails is
\* that of a file whose vector is not all there.
THEOREM WholeFilesStay == Spec => WholeFileStays
<1>1. ASSUME FilesInv, [Next]_vars
      PROVE  \A n \in Names : dir[n] # NoFile /\ Whole(inode[dir[n]]) /\ ~ crossed =>
               dir'[n] = dir[n] /\ Whole(inode'[dir[n]])
  <2> SUFFICES ASSUME NEW n \in Names, dir[n] # NoFile, Whole(inode[dir[n]]), ~ crossed
               PROVE  dir'[n] = dir[n] /\ Whole(inode'[dir[n]])
    OBVIOUS
  <2>1. TypeInv /\ TypeInv' /\ NameInv /\ WrittenInv
    BY <1>1, NextTypes DEF FilesInv
  <2>2. Whole(inode'[dir[n]])
    BY <1>1, <2>1, FileGrows DEF TypeInv
  <2>3. ASSUME NEW p \in Procs, NEW b \in setup.filters[p], NEW m \in setup.names, NEW o,
               WriteOpen(p, b, m, o)
        PROVE  dir'[n] = dir[n]
    <3>1. CASE dir' = dir
      BY <3>1
    <3>2. ASSUME NEW i \in creatable(m), dir' = [dir EXCEPT ![m] = i]
          PROVE  dir'[n] = dir[n]
      <4>1. dir[m] = NoFile
        BY <3>2 DEF creatable
      <4>2. n # m
        BY <4>1
      <4>3. QED  BY <2>1, <3>2, <4>2 DEF TypeInv
    <3>3. QED  BY <2>3, <3>1, <3>2 DEF WriteOpen, files
  <2>4. ASSUME NEW p \in Procs, NEW b \in setup.filters[p], WriteFails(p, b)
        PROVE  dir'[n] = dir[n]
    <3> DEFINE o == bloom[p][b]
    <3>1. /\ << p, b >> \in Objects /\ At(<< p, b >>) = o /\ Writing(o)
          /\ o \in Blooms /\ Stage(p, o) /\ Chunks \in Nat \ {0}
      BY <2>1, <2>4, ObjectPairs, Typed, Situation DEF WriteFails, TypeInv
    <3>2. o.written < Chunks
      BY <3>1 DEF Stage, Writing
    <3>3. inode[o.file].chunks = o.written
      BY <2>1, <3>1 DEF WrittenInv, Extent
    <3>4. dir[o.path] = o.file
      BY <2>1, <3>1 DEF NameInv
    <3>5. n # o.path
      <4>1. inode[dir[n]].chunks = Chunks
        BY DEF Whole
      <4> HIDE DEF o
      <4>2. o.written \in 0 .. Chunks
        BY <3>1 DEF Blooms
      <4>3. QED  BY <3>1, <3>2, <3>3, <3>4, <4>1, <4>2
    <3>6. QED  BY <2>1, <2>4, <3>5 DEF WriteFails, unlinked, TypeInv
  <2>5. dir'[n] = dir[n]
    <3>1. CASE UNCHANGED vars
      BY <3>1 DEF vars
    <3>2. ASSUME NEW p \in Procs, Crash(p) \/ Restart(p)
          PROVE  dir'[n] = dir[n]
      BY <3>2 DEF Crash, Restart, Ends, files
    <3>3. ASSUME NEW p \in Procs, NEW b \in setup.filters[p], NEW m \in setup.names,
                 \/ Create(p, b, m)
                 \/ Write(p, b, m)
                 \/ OpenFails(p, b, m)
                 \/ Open(p, b, m)
          PROVE  dir'[n] = dir[n]
      <4>1. CASE OpenFails(p, b, m) \/ Open(p, b, m)
        BY <4>1 DEF OpenFails, Open, files
      <4>2. CASE Create(p, b, m) \/ Write(p, b, m)
        BY <2>3, <4>2 DEF Create, Write
      <4>3. QED  BY <3>3, <4>1, <4>2
    <3>4. ASSUME NEW p \in Procs, NEW b \in setup.filters[p],
                 \/ CreateInMemory(p, b)
                 \/ WriteHeader(p, b)
                 \/ WriteChunk(p, b)
                 \/ CreateMaps(p, b)
                 \/ WriteReturns(p, b)
                 \/ OpenExits(p, b)
                 \/ OpenRejects(p, b)
                 \/ OpenReads(p, b)
                 \/ OpenCloses(p, b)
                 \/ OpenMaps(p, b)
                 \/ AddStore(p, b)
                 \/ AddCount(p, b)
                 \/ Clear(p, b)
                 \/ \E h \in setup.items : AddLoad(p, b, h) \/ Fault(p, b, h)
          PROVE  dir'[n] = dir[n]
      <4>1. dir' = dir
        BY <3>4 DEF CreateInMemory, WriteHeader, WriteChunk, CreateMaps, WriteReturns, OpenExits,
             OpenRejects, OpenReads, OpenCloses, OpenMaps, AddStore, AddCount, Clear, AddLoad,
             Fault, Ends, files
      <4>2. QED  BY <4>1, SMTT(30)
    <3>5. QED  BY <1>1, <2>4, <3>1, <3>2, <3>3, <3>4 DEF Next
  <2>6. QED  BY <2>2, <2>5
<1>2. QED  BY <1>1, SpecFiles, PTL DEF Spec, WholeFileStays
=============================================================================
