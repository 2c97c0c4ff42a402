------------------------------ MODULE BloomFile ------------------------------
(***************************************************************************)
(* A Bloom filter kept in a file (bloom.c): nsrl_bloom_create, _write,     *)
(* _open, _add, _query and _clear, called by processes that share a        *)
(* directory, that can be killed, and whose disk can be full.  One call of *)
(* open, read, write, close or mmap, or one access to the mapped vector,   *)
(* is one step; lseek, which moves an offset that nobody shares, and       *)
(* unlink, which follows a failing write, go with the write.               *)
(*                                                                         *)
(* Bloom has the bits of the vector; here the vector is the set of the     *)
(* items whose bits are set, and items of one byte are loaded and stored   *)
(* together.                                                               *)
(***************************************************************************)
EXTENDS Integers, FiniteSets, FiniteSetsExt

CONSTANTS
  Procs, Filters,  \* processes, and nsrl_bloom objects
  Names,           \* file names
  Items,           \* hashes
  byteOf,          \* the vector byte of each item
  chunkOf,         \* the 1 MB chunk of the vector it is in
  Chunks,          \* chunks of the vector
  InfoEvery,       \* 1000: adds between two updates of the header
  Setups,          \* the initial situations: see setup
  MaxFd, MaxFiles  \* bounds

NoFile == 0
NoName == "no name"
Free   == 0     \* a descriptor that is not open
Stdin  == -1
Fds    == 0 .. MaxFd
Inodes == 1 .. MaxFiles

(***************************************************************************)
(* A file: the header nsrl_bloom_open would read in it ("none", "good" or  *)
(* one it refuses), the added_items line of that header, the chunks        *)
(* written after it and the items in them.                                 *)
(***************************************************************************)
Headers == {"none", "good", "unsupported_hash_bits", "old_version", "no_k"}
Files == [header : Headers, added : Nat, chunks : 0 .. Chunks, vector : SUBSET Items]

EmptyFile == [header |-> "none", added |-> 0, chunks |-> 0, vector |-> {}]

Whole(f) == f.header = "good" /\ f.chunks = Chunks

ASSUME BloomFileAssumption ==
  /\ {Chunks, InfoEvery} \subseteq Nat \ {0}
  /\ chunkOf \in [Items -> 1 .. Chunks]
  /\ \A h1, h2 \in Items : byteOf[h1] = byteOf[h2] => chunkOf[h1] = chunkOf[h2]
  /\ {MaxFd, MaxFiles} \subseteq Nat
  /\ NoName \notin Names
  /\ \A s \in Setups :
       /\ s.file \in Files
       /\ s.file.header = "none" => s.file = EmptyFile
       /\ s.file # EmptyFile => MaxFiles > 0
       /\ s.names \subseteq Names
       /\ s.items \subseteq Items
       /\ s.writers \subseteq Procs
       /\ s.filters \in [Procs -> SUBSET Filters]
       /\ {s.maxAdds, s.maxSessions} \subseteq Nat

(***************************************************************************)
(* An nsrl_bloom object, and the statement its owner is at in the call on  *)
(* it: "zero" before the first call, "failed" once a call returned -1,     *)
(* "exited" or "faulted" when the process called exit() or was killed by   *)
(* an access to memory.  vec is what b->vector points to: "none", "memory",*)
(* "file" or "MAP_FAILED".                                                 *)
(***************************************************************************)
Zeroed == [at |-> "zero", fd |-> 0, vec |-> "none", path |-> NoName, file |-> NoFile,
           memory |-> {}, added |-> 0, written |-> 0, item |-> {}, loaded |-> {}]

VARIABLES
  setup,  \* the file there is, the names and items in use, the processes that
          \* open with O_RDWR, the objects of each process, and bounds on the
          \* adds and the sessions; it does not change
  inode,  \* the contents of each file
  dir,    \* the file each name stands for
  fdt,    \* descriptor tables
  bloom,  \* the objects
  past,   \* history of each file: see Fresh
  crossed \* history: a descriptor was given out whose number an object still
          \* has that nsrl_bloom_open closed

vars == << setup, inode, dir, fdt, bloom, past, crossed >>
files == << inode, dir >>
notes == << past, crossed, setup >>

(***************************************************************************)
(* History of a file: adds, the items whose add() returned; raced, those   *)
(* stored while another object was between the load and the store of the   *)
(* same byte; calls, how many add() returned; missed, how many of them did *)
(* not get the header written that was due; sessions, how many create()    *)
(* and open(O_RDWR) mapped it; whether two of them were at it at once      *)
(* (shared), from the open() in create(), or the read() of the header in   *)
(* open(), to clear(); whether its writer was killed or it was given as it *)
(* is (abandoned); whether a filter in memory was written to it            *)
(* (detached), and whether that filter was then written to another file    *)
(* (dropped).                                                              *)
(***************************************************************************)
Fresh == [ adds |-> {}, raced |-> {}, calls |-> 0, missed |-> 0, sessions |-> 0,
           shared |-> FALSE, abandoned |-> FALSE, detached |-> FALSE,
           dropped |-> FALSE ]

FreshTable == [d \in Fds |-> IF d = 0 THEN Stdin ELSE Free]

Init ==
  /\ setup \in Setups
  /\ inode = [i \in Inodes |-> IF i = 1 THEN setup.file ELSE EmptyFile]
  /\ \E n \in setup.names :
       dir = [m \in Names |-> IF m = n /\ setup.file # EmptyFile THEN 1 ELSE NoFile]
  /\ fdt = [p \in Procs |-> FreshTable]
  /\ bloom = [p \in Procs |-> [b \in setup.filters[p] |-> Zeroed]]
  /\ past = [i \in Inodes |->
       [Fresh EXCEPT !.adds = inode[i].vector, !.calls = inode[i].added,
                     !.abandoned = i = 1 /\ setup.file # EmptyFile /\ ~ Whole(setup.file)]]
  /\ crossed = FALSE

-----------------------------------------------------------------------------
Set(p, b, object) == bloom' = [bloom EXCEPT ![p][b] = object]

\* open() takes the lowest descriptor that is free.
FreeFds(p) == { d \in Fds : fdt[p][d] = Free }
NewFd(p) == Min(FreeFds(p))
Crossing(p) == crossed \/ \E b \in setup.filters[p] : bloom[p][b].fd = NewFd(p)

\* The file the descriptor of an object stands for, Free if it is not open.
\* Descriptor 0 is the standard input of these processes.
OnFd(p, o) == IF o.fd \in Fds \ {0} THEN fdt[p][o.fd] ELSE Free

NotClosed(p, fd) == fdt    \* mutant: clear() does not close

\* close() of a number that is not open does nothing.
Closed(p, fd) == IF fd \in Fds \ {0} THEN [fdt EXCEPT ![p][fd] = Free] ELSE fdt

Objects == UNION { {p} \X setup.filters[p] : p \in Procs }
At(o) == bloom[o[1]][o[2]]

Writing(o) == o.at \in {"header", "vector"}

\* A file nobody uses: never named, mapped or open.
Unused == { i \in Inodes : /\ \A n \in Names : dir[n] # i
                           /\ inode[i] = EmptyFile
                           /\ \A p \in Procs : \A d \in Fds : fdt[p][d] # i }

\* The process is gone: the kernel closes and unmaps what it had.
Ends(p, at) ==
  /\ fdt' = [fdt EXCEPT ![p] = FreshTable]
  /\ bloom' = [bloom EXCEPT ![p] = [b \in setup.filters[p] |-> [Zeroed EXCEPT !.at = at]]]
  /\ past' = [i \in Inodes |-> [past[i] EXCEPT !.abandoned =
       @ \/ \E b \in setup.filters[p] : Writing(bloom[p][b]) /\ bloom[p][b].file = i]]
  /\ UNCHANGED << files, crossed, setup >>

(***************************************************************************)
(* nsrl_bloom_info_update: nothing when fd is 0, else the header of the    *)
(* file the descriptor stands for.                                         *)
(***************************************************************************)
InfoUpdate(p, o) ==
  LET i == OnFd(p, o)
  IN  IF i = Free THEN inode
      ELSE [inode EXCEPT ![i].header = "good", ![i].added = o.added]

(***************************************************************************)
(* Mutants: O_TRUNC for O_EXCL; a failing write leaves the file; add()     *)
(* stores its bit alone; it updates the header too seldom.                 *)
(***************************************************************************)
truncatable(n) ==
  IF dir[n] = NoFile THEN Unused ELSE {dir[n]}
notUnlinked(n) == dir
bitAlone(o) == o.item
updateSeldom(added) == added % (InfoEvery + 1) = 0

(***************************************************************************)
(* nsrl_bloom_write: open with O_EXCL, then the header, then the vector    *)
(* chunk by chunk.  When a write fails the name is removed.  The           *)
(* descriptor of an earlier write() of the filter is forgotten.            *)
(***************************************************************************)
creatable(n) == IF dir[n] = NoFile THEN Unused ELSE {}
unlinked(n) == [dir EXCEPT ![n] = NoFile]

WriteOpen(p, b, n, o) ==
  /\ IF OnFd(p, o) = Free THEN UNCHANGED past
     ELSE past' = [past EXCEPT ![OnFd(p, o)].dropped = TRUE]
  /\ UNCHANGED setup
  /\ \/ /\ creatable(n) = {}
        /\ dir[n] # NoFile
        /\ Set(p, b, [o EXCEPT !.at = "failed", !.fd = -1])
        /\ UNCHANGED << files, fdt, crossed >>
     \/ /\ FreeFds(p) # {}
        /\ \E i \in creatable(n) :
             /\ dir' = [dir EXCEPT ![n] = i]
             /\ inode' = [inode EXCEPT ![i] = EmptyFile]
             /\ fdt' = [fdt EXCEPT ![p][NewFd(p)] = i]
             /\ Set(p, b, [o EXCEPT !.at = "header", !.fd = NewFd(p), !.path = n,
                                    !.file = i])
        /\ crossed' = Crossing(p)

\* create() without a name: the vector stays in memory.
CreateInMemory(p, b) ==
  /\ bloom[p][b].at = "zero"
  /\ p \in setup.writers
  /\ Set(p, b, [Zeroed EXCEPT !.at = "ready", !.vec = "memory"])
  /\ UNCHANGED << files, fdt, notes >>

\* create() with a name writes an empty vector, and will map the file.
Create(p, b, n) ==
  /\ bloom[p][b].at = "zero"
  /\ p \in setup.writers
  /\ WriteOpen(p, b, n, Zeroed)

\* write() of a filter made in memory.
Write(p, b, n) ==
  /\ bloom[p][b].at = "ready"
  /\ bloom[p][b].vec = "memory"
  /\ WriteOpen(p, b, n, bloom[p][b])

WriteHeader(p, b) ==
  LET o == bloom[p][b] IN
  /\ o.at = "header"
  /\ OnFd(p, o) # Free
  /\ inode' = InfoUpdate(p, o)
  /\ Set(p, b, [o EXCEPT !.at = "vector"])
  /\ past' = [past EXCEPT ![o.file].detached = @ \/ o.vec = "memory"]
  /\ UNCHANGED << dir, fdt, crossed, setup >>

WriteChunk(p, b) ==
  LET o == bloom[p][b]
      i == OnFd(p, o)
      inChunk == { h \in Items : chunkOf[h] = o.written + 1 }
  IN
  /\ o.at = "vector"
  /\ i # Free
  /\ inode' = [inode EXCEPT ![i].chunks = Max({@, o.written + 1}),
                            ![i].vector = (@ \ inChunk) \union (o.memory \intersect inChunk)]
  /\ Set(p, b, [o EXCEPT !.written = @ + 1,
                         !.at = IF o.written + 1 < Chunks THEN "vector" ELSE "map"])
  /\ UNCHANGED << dir, fdt, notes >>

WriteFails(p, b) ==
  /\ Writing(bloom[p][b])
  /\ dir' = unlinked(bloom[p][b].path)
  /\ Set(p, b, [bloom[p][b] EXCEPT !.at = "failed"])
  /\ UNCHANGED << inode, fdt, notes >>

\* The object writes to its file, or will.
InUse(o) ==
  /\ o[1] \in setup.writers
  /\ At(o).vec = "file" \/ At(o).at \in {"header", "vector", "map", "mapping"}

\* Another object is at work on the file of o.
Used(me, o) == \E other \in Objects \ {me} : InUse(other) /\ At(other).file = o.file

\* One more session on the file of o.
Session(o) == past' = [past EXCEPT ![o.file].sessions = @ + 1]

\* create() maps the file it has written and returns 0, whatever mmap() said.
CreateMaps(p, b) ==
  LET o == bloom[p][b] IN
  /\ o.at = "map"
  /\ o.vec = "none"
  /\ past[o.file].sessions < setup.maxSessions
  /\ \/ /\ OnFd(p, o) # Free
        /\ Set(p, b, [o EXCEPT !.at = "ready", !.vec = "file", !.written = 0,
                               !.file = OnFd(p, o)])
     \/ Set(p, b, [o EXCEPT !.at = "ready", !.vec = "MAP_FAILED", !.written = 0])
  /\ Session(o)
  /\ UNCHANGED << files, fdt, crossed, setup >>

\* write() returns; the filter stays in memory and keeps the descriptor.
WriteReturns(p, b) ==
  LET o == bloom[p][b] IN
  /\ o.at = "map"
  /\ o.vec = "memory"
  /\ Set(p, b, [o EXCEPT !.at = "ready", !.written = 0])
  /\ past' = [past EXCEPT ![o.file].adds = @ \union o.memory, ![o.file].calls = @ + o.added]
  /\ UNCHANGED << files, fdt, crossed, setup >>

(***************************************************************************)
(* nsrl_bloom_open.                                                        *)
(***************************************************************************)
OpenFails(p, b, n) ==
  /\ bloom[p][b].at = "zero"
  /\ dir[n] = NoFile
  /\ Set(p, b, [Zeroed EXCEPT !.at = "failed", !.fd = -1])
  /\ UNCHANGED << files, fdt, notes >>

Open(p, b, n) ==
  /\ bloom[p][b].at = "zero"
  /\ dir[n] # NoFile
  /\ FreeFds(p) # {}
  /\ fdt' = [fdt EXCEPT ![p][NewFd(p)] = dir[n]]
  /\ Set(p, b, [Zeroed EXCEPT !.at = "read", !.fd = NewFd(p), !.path = n,
                              !.file = dir[n]])
  /\ crossed' = Crossing(p)
  /\ UNCHANGED << files, past, setup >>

\* hash_bits is none of those set_params knows, as when no header was
\* written: the program ends.
OpenExits(p, b) ==
  LET f == inode[bloom[p][b].file] IN
  /\ bloom[p][b].at = "read"
  /\ f.header = "unsupported_hash_bits" \/ (f.header = "none" /\ f.chunks > 0)
  /\ Ends(p, "exited")

\* Too short for a header, or of another version: -1, with the file open.
OpenRejects(p, b) ==
  LET f == inode[bloom[p][b].file] IN
  /\ bloom[p][b].at = "read"
  /\ f.header = "old_version" \/ (f.header = "none" /\ f.chunks = 0)
  /\ Set(p, b, [bloom[p][b] EXCEPT !.at = "failed"])
  /\ UNCHANGED << files, fdt, notes >>

\* The header can be used, or has no M or k.
OpenReads(p, b) ==
  LET o == bloom[p][b]
      f == inode[o.file]
  IN
  /\ o.at = "read"
  /\ f.header \in {"good", "no_k"}
  /\ Set(p, b, [o EXCEPT !.at = IF f.header = "good" THEN "mapping" ELSE "closing",
                         !.added = f.added])
  /\ past' = [past EXCEPT ![o.file].shared =
       @ \/ (p \in setup.writers /\ f.header = "good" /\ Used(<< p, b >>, o))]
  /\ UNCHANGED << files, fdt, crossed, setup >>

\* M or k is 0: the file is closed, and b->fd keeps its number.
OpenCloses(p, b) ==
  LET o == bloom[p][b] IN
  /\ o.at = "closing"
  /\ fdt' = [fdt EXCEPT ![p][o.fd] = Free]
  /\ Set(p, b, [o EXCEPT !.at = "failed"])
  /\ UNCHANGED << files, notes >>

OpenMaps(p, b) ==
  LET o == bloom[p][b] IN
  /\ o.at = "mapping"
  /\ p \in setup.writers => past[o.file].sessions < setup.maxSessions
  /\ \/ /\ OnFd(p, o) # Free
        /\ Set(p, b, [o EXCEPT !.at = "ready", !.vec = "file", !.file = OnFd(p, o)])
        /\ IF p \in setup.writers THEN Session(o) ELSE UNCHANGED past
     \/ /\ Set(p, b, [o EXCEPT !.at = "failed", !.vec = "MAP_FAILED"])
        /\ UNCHANGED past
  /\ UNCHANGED << files, fdt, crossed, setup >>

(***************************************************************************)
(* nsrl_bloom_add on one byte: load, and if the bit is 0 store, then the   *)
(* counter and, every InfoEvery adds, the header.  An access to a chunk    *)
(* the file does not have, or through MAP_FAILED, kills the process, in a  *)
(* query too.  The mutex belongs to one process.                           *)
(***************************************************************************)
Reachable(o, h) ==
  \/ o.vec = "memory"
  \/ o.vec = "file" /\ chunkOf[h] <= inode[o.file].chunks

OfByte(h) == { x \in Items : byteOf[x] = byteOf[h] }

Vector(o) == IF o.vec = "file" THEN inode[o.file].vector ELSE o.memory

AddLoad(p, b, h) ==
  LET o == bloom[p][b] IN
  /\ o.at = "ready"
  /\ p \in setup.writers
  /\ Reachable(o, h)
  /\ o.added < setup.maxAdds
  /\ o.vec = "file" => past[o.file].calls < setup.maxAdds
  /\ Set(p, b, [o EXCEPT !.at = IF h \in Vector(o) THEN "count" ELSE "store",
                         !.item = {h}, !.loaded = Vector(o) \intersect OfByte(h)])
  /\ UNCHANGED << files, fdt, notes >>

storedByte(o) == o.loaded \union o.item

\* Another object has loaded the byte of o and not yet stored it.
overtaken(me, o) ==
  \E other \in Objects \ {me} :
    /\ At(other).at = "store"
    /\ At(other).vec = "file"
    /\ At(other).file = o.file
    /\ \E h \in o.item : At(other).item \subseteq OfByte(h)

AddStore(p, b) ==
  LET o == bloom[p][b]
      stored == (Vector(o) \ UNION { OfByte(h) : h \in o.item }) \union storedByte(o)
      counting == [o EXCEPT !.at = "count", !.loaded = {}]
  IN
  /\ o.at = "store"
  /\ \/ /\ o.vec = "file"
        /\ inode' = [inode EXCEPT ![o.file].vector = stored]
        /\ past' = [past EXCEPT ![o.file].raced =
             IF overtaken(<< p, b >>, o) THEN @ \union o.item ELSE @ \ o.item]
        /\ Set(p, b, counting)
     \/ /\ o.vec = "memory"
        /\ Set(p, b, [counting EXCEPT !.memory = stored])
        /\ UNCHANGED << inode, past >>
  /\ UNCHANGED << dir, fdt, crossed, setup >>

updateDue(added) == added % InfoEvery = 0

\* Nobody looks at what nsrl_bloom_info_update returns: it can miss, when its
\* lseek() or write() fails.
AddCount(p, b) ==
  LET o == bloom[p][b]
      counted == [o EXCEPT !.at = "ready", !.added = @ + 1, !.item = {}, !.loaded = {}]
      updates == updateDue(counted.added) /\ OnFd(p, o) # Free
  IN
  /\ o.at = "count"
  /\ Set(p, b, counted)
  /\ \E miss \in IF updates THEN {0, 1} ELSE {0} :
       /\ inode' = IF updates /\ miss = 0 THEN InfoUpdate(p, counted) ELSE inode
       /\ past' = IF o.vec = "file"
                  THEN [past EXCEPT ![o.file].adds = @ \union o.item,
                                    ![o.file].calls = @ + 1, ![o.file].missed = @ + miss]
                  ELSE past
  /\ UNCHANGED << dir, fdt, crossed, setup >>

Fault(p, b, h) ==
  /\ bloom[p][b].at = "ready"
  /\ ~ Reachable(bloom[p][b], h)
  /\ Ends(p, "faulted")

\* nsrl_bloom_clear closes b->fd unless it is 0, and writes nothing.
Clear(p, b) ==
  /\ bloom[p][b].at \in {"ready", "failed"}
  /\ fdt' = Closed(p, bloom[p][b].fd)
  /\ Set(p, b, Zeroed)
  /\ UNCHANGED << files, notes >>

Crash(p) ==
  /\ \E b \in setup.filters[p] : bloom[p][b].at \notin {"zero", "exited", "faulted"}
  /\ Ends(p, "zero")

\* A new process, where one has ended.
Restart(p) ==
  /\ \E b \in setup.filters[p] : bloom[p][b].at \in {"exited", "faulted"}
  /\ Ends(p, "zero")

Next ==
  \E p \in Procs :
    \/ Crash(p) \/ Restart(p)
    \/ \E b \in setup.filters[p] :
         \/ CreateInMemory(p, b)
         \/ \E n \in setup.names :
              \/ Create(p, b, n) \/ Write(p, b, n)
              \/ OpenFails(p, b, n) \/ Open(p, b, n)
         \/ WriteHeader(p, b) \/ WriteChunk(p, b) \/ WriteFails(p, b)
         \/ CreateMaps(p, b) \/ WriteReturns(p, b)
         \/ OpenExits(p, b) \/ OpenRejects(p, b)
         \/ OpenReads(p, b) \/ OpenCloses(p, b) \/ OpenMaps(p, b)
         \/ AddStore(p, b) \/ AddCount(p, b) \/ Clear(p, b)
         \/ \E h \in setup.items : AddLoad(p, b, h) \/ Fault(p, b, h)

Spec == Init /\ [][Next]_vars

-----------------------------------------------------------------------------
(***************************************************************************)
(* nsrl_bloom_open of a file without M or k closes it and leaves the       *)
(* number in b->fd.  When another filter of the process is then given this *)
(* number, a clear() of the first closes the file of the second, and       *)
(* header updates end up in the wrong file.  Everything below holds until  *)
(* that happens (crossed).                                                 *)
(*                                                                         *)
(* What an add() that returned put in the file is never missed -- a kill   *)
(* of the writer, a clear() and any number of sessions later the item is   *)
(* still there -- unless it was stored while another process, whose mutex  *)
(* is not this one's, was between its load and its store of the same byte. *)
(***************************************************************************)
AddsSurvive ==
  ~ crossed => \A i \in Inodes : past[i].adds \ past[i].raced \subseteq inode[i].vector

(***************************************************************************)
(* A name never stands for a file that is not whole, unless somebody is    *)
(* still writing that file or was killed doing so: every error path of     *)
(* nsrl_bloom_write removes it.                                            *)
(***************************************************************************)
NoPartialFile ==
  ~ crossed => \A n \in Names : dir[n] # NoFile =>
    \/ Whole(inode[dir[n]])
    \/ past[dir[n]].abandoned
    \/ \E o \in Objects : Writing(At(o)) /\ At(o).file = dir[n]

(***************************************************************************)
(* The added_items line of the header never runs ahead of the adds made to *)
(* the mapped file, and each session makes it lag by less than InfoEvery,  *)
(* and each update that could not be written by InfoEvery.  Sessions at    *)
(* the same time each count for themselves and it lags more: so does a     *)
(* file that others open while create() is still writing it, which will    *)
(* count from 0 whatever they have added, or while open() has read the     *)
(* header and not yet mapped the vector.                                   *)
(* A filter in memory that was written out is different: its later adds    *)
(* reach the header and not the vector.                                    *)
(***************************************************************************)
HeaderLags ==
  ~ crossed => \A i \in Inodes :
    Whole(inode[i]) /\ ~ past[i].detached =>
      /\ inode[i].added <= past[i].calls
      /\ \/ past[i].calls <= inode[i].added + (InfoEvery - 1) * past[i].sessions
                                            + InfoEvery * past[i].missed
         \/ past[i].shared

(***************************************************************************)
(* Every descriptor open on a file is the fd of exactly one object of the  *)
(* process, which will close it, unless that filter was written twice; as  *)
(* long as it is open it stands for the file of that object: neither a     *)
(* clear() nor a header update reaches the file of another filter.         *)
(***************************************************************************)
DescriptorsAreOwned ==
  ~ crossed => \A p \in Procs :
    /\ \A d \in Fds \ {0} : fdt[p][d] \in Inodes =>
         LET owners == { b \in setup.filters[p] : bloom[p][b].fd = d } IN
         Cardinality(owners) = 1 \/ (owners = {} /\ past[fdt[p][d]].dropped)
    /\ \A b \in setup.filters[p] :
         OnFd(p, bloom[p][b]) \in {bloom[p][b].file, Free}
    /\ \A b \in setup.filters[p] : bloom[p][b].at # "failed" =>
         bloom[p][b].fd = 0 \/ OnFd(p, bloom[p][b]) # Free

(***************************************************************************)
(* A filter file that is whole is never truncated, replaced or removed by  *)
(* a later create() or by its error paths.                                 *)
(***************************************************************************)
WholeFileStays ==
  [][ \A n \in Names :
        dir[n] # NoFile /\ Whole(inode[dir[n]]) /\ ~ crossed =>
          dir'[n] = dir[n] /\ Whole(inode'[dir[n]]) ]_vars
=============================================================================
