-------------------------------- MODULE Bloom --------------------------------
(***************************************************************************)
(* The operations of an open in-memory Bloom filter (bloom.c) called by    *)
(* several threads: nsrl_bloom_add, nsrl_bloom_query, nsrl_bloom_addString *)
(* and nsrl_bloom_queryString, which is nsrl_bloom_query of a digest.      *)
(*                                                                         *)
(* The steps are the accesses to the shared structure: taking the mutex,   *)
(* each read of a bit, the read and the write of the byte set_bloom_bit    *)
(* changes, the counters, releasing the mutex.  The mutex exists in builds *)
(* with HAVE_PTHREAD, and is used once nsrl_bloom_init_mutex has set       *)
(* multithreaded.                                                          *)
(***************************************************************************)
EXTENDS BloomOps, TLC

CONSTANTS
  Threads,
  NoThread,       \* the mutex is free
  multithreaded,  \* nsrl_bloom_init_mutex was called before the threads started
  MaxCalls        \* bound: calls made by each thread

\* Without the mutex the structure belongs to one thread, as in frag_find.
ASSUME ThreadsAssumption ==
  /\ NoThread \notin Threads
  /\ multithreaded \in BOOLEAN
  /\ multithreaded \/ \A t, u \in Threads : t = u
  /\ MaxCalls \in Nat

VARIABLES
  vector,              \* b->vector
  mutex,               \* b->mutex: its owner or NoThread
  added_items,
  unique_added_items,
  aliased_adds,
  hits,                \* b->hits
  pc,                  \* pc[t]: next step of thread t
  call,                \* call[t]: the interface function t is in
  hash,                \* hash[t]: its argument
  i,                   \* i[t]: bloom function counter
  added_bits,          \* added_bits[t]
  found,               \* found[t]
  byte,                \* byte[t]: the byte set_bloom_bit read
  calls,               \* calls[t]: calls made so far (bound)
  known,               \* known[t]: hash[t] had been added when t called (history)
  added,               \* hashes whose add has returned (history)
  told                 \* told[t][h]: addString(h) calls of t that returned 0 (history)

shared   == << vector, mutex, added_items, unique_added_items, aliased_adds, hits >>
locals   == << pc, call, hash, i, added_bits, found, byte, calls >>
history  == << known, added, told >>
vars     == << shared, locals, history >>

Init ==
  /\ vector = {}
  /\ mutex = NoThread
  /\ added_items = 0
  /\ unique_added_items = 0
  /\ aliased_adds = 0
  /\ hits = 0
  /\ pc = [t \in Threads |-> "idle"]
  /\ call = [t \in Threads |-> "query"]
  /\ hash = [t \in Threads |-> CHOOSE h \in Hashes : TRUE]
  /\ i = [t \in Threads |-> 0]
  /\ added_bits = [t \in Threads |-> 0]
  /\ found = [t \in Threads |-> 0]
  /\ byte = [t \in Threads |-> {}]
  /\ calls = [t \in Threads |-> 0]
  /\ known = [t \in Threads |-> FALSE]
  /\ added = {}
  /\ told = [t \in Threads |-> [h \in Hashes |-> 0]]

(***************************************************************************)
(* A thread calls one of the three functions.                              *)
(***************************************************************************)
Call(t, name, h) ==
  /\ pc[t] = "idle"
  /\ calls[t] < MaxCalls
  /\ calls' = [calls EXCEPT ![t] = @ + 1]
  /\ call' = [call EXCEPT ![t] = name]
  /\ hash' = [hash EXCEPT ![t] = h]
  /\ known' = [known EXCEPT ![t] = h \in added]
  /\ pc' = [pc EXCEPT ![t] = IF name = "add" THEN "add_lock" ELSE "query_lock"]
  /\ UNCHANGED << shared, i, added_bits, found, byte, added, told >>

Acquire(t) ==
  IF multithreaded
  THEN /\ mutex = NoThread
       /\ mutex' = t
  ELSE UNCHANGED mutex

Release(t) ==
  IF multithreaded
  THEN mutex' = NoThread
  ELSE UNCHANGED mutex

\* The locals end with the function that owns them.
Forget(t) ==
  /\ i' = [i EXCEPT ![t] = 0]
  /\ added_bits' = [added_bits EXCEPT ![t] = 0]
  /\ found' = [found EXCEPT ![t] = 0]
  /\ byte' = [byte EXCEPT ![t] = {}]

(***************************************************************************)
(* Mutants.                                                                *)
(***************************************************************************)
\* nsrl_bloom_add without the mutex.
AddLockSkipped(t) ==
  /\ pc[t] = "add_lock"
  /\ mutex' = IF mutex = NoThread THEN t ELSE mutex
  /\ pc' = [pc EXCEPT ![t] = "add_probe"]
  /\ i' = [i EXCEPT ![t] = 0]
  /\ added_bits' = [added_bits EXCEPT ![t] = 0]
  /\ UNCHANGED << vector, added_items, unique_added_items, aliased_adds, hits,
                  call, hash, found, byte, calls, history >>

\* The loop runs to i <= k; the word past the digest names a bit that is 1.
AddProbePastEnd(t) ==
  /\ pc[t] = "add_probe"
  /\ i[t] <= k
  /\ IF i[t] = k \/ get_bloom_bit(vector, slice[hash[t]][i[t]])
     THEN i' = [i EXCEPT ![t] = @ + 1] /\ UNCHANGED pc
     ELSE pc' = [pc EXCEPT ![t] = "load_byte"] /\ UNCHANGED i
  /\ UNCHANGED << shared, call, hash, added_bits, found, byte, calls, history >>

\* set_bloom_bit with = for |=.
StoreByteOverwrites(t) ==
  /\ pc[t] = "store_byte"
  /\ vector' = (vector \ ByteOf(slice[hash[t]][i[t]]))
                 \cup {slice[hash[t]][i[t]]}
  /\ added_bits' = [added_bits EXCEPT ![t] = @ + 1]
  /\ i' = [i EXCEPT ![t] = @ + 1]
  /\ pc' = [pc EXCEPT ![t] = "add_probe"]
  /\ UNCHANGED << mutex, added_items, unique_added_items, aliased_adds, hits,
                  call, hash, found, byte, calls, history >>

\* Every bit counts as added, set or not.
AddProbeAlways(t) ==
  /\ pc[t] = "add_probe"
  /\ i[t] < k
  /\ pc' = [pc EXCEPT ![t] = "load_byte"]
  /\ UNCHANGED << shared, call, hash, i, added_bits, found, byte, calls, history >>

\* The last bloom function is not queried.
QueryDoneEarly(t) ==
  /\ pc[t] = "query_probe"
  /\ i[t] >= k - 1 \/ found[t] = 0
  /\ hits' = hits + 1
  /\ pc' = [pc EXCEPT ![t] = "query_unlock"]
  /\ UNCHANGED << vector, mutex, added_items, unique_added_items, aliased_adds,
                  call, hash, i, added_bits, found, byte, calls, history >>

\* The early exit forgets the mutex, which stays with a thread that has left.
QueryUnlockForgotten(t) ==
  /\ pc[t] = "query_unlock"
  /\ IF found[t] = 1 THEN Release(t) ELSE UNCHANGED mutex
  /\ pc' = [pc EXCEPT ![t] = IF call[t] = "addString" /\ found[t] = 0
                             THEN "add_lock" ELSE "idle"]
  /\ Forget(t)
  /\ UNCHANGED << vector, added_items, unique_added_items, aliased_adds, hits,
                  call, hash, calls, history >>

(***************************************************************************)
(* nsrl_bloom_add.                                                         *)
(***************************************************************************)
AddLock(t) ==
  /\ pc[t] = "add_lock"
  /\ Acquire(t)
  /\ pc' = [pc EXCEPT ![t] = "add_probe"]
  /\ i' = [i EXCEPT ![t] = 0]
  /\ added_bits' = [added_bits EXCEPT ![t] = 0]
  /\ UNCHANGED << vector, added_items, unique_added_items, aliased_adds, hits,
                  call, hash, found, byte, calls, history >>

\* get_bloom_bit: a bit that is already 1 is left alone.
AddProbe(t) ==
  /\ pc[t] = "add_probe"
  /\ i[t] < k
  /\ IF get_bloom_bit(vector, slice[hash[t]][i[t]])
     THEN i' = [i EXCEPT ![t] = @ + 1] /\ UNCHANGED pc
     ELSE pc' = [pc EXCEPT ![t] = "load_byte"] /\ UNCHANGED i
  /\ UNCHANGED << shared, call, hash, added_bits, found, byte, calls, history >>

\* set_bloom_bit, b->vector[bit/8] |= q: read the byte ...
LoadByte(t) ==
  /\ pc[t] = "load_byte"
  /\ byte' = [byte EXCEPT ![t] = vector \cap ByteOf(slice[hash[t]][i[t]])]
  /\ pc' = [pc EXCEPT ![t] = "store_byte"]
  /\ UNCHANGED << shared, call, hash, i, added_bits, found, calls, history >>

\* ... and write it back with one more bit.
StoreByte(t) ==
  /\ pc[t] = "store_byte"
  /\ LET bit == slice[hash[t]][i[t]] IN
     vector' = (vector \ ByteOf(bit)) \cup byte[t] \cup {bit}
  /\ added_bits' = [added_bits EXCEPT ![t] = @ + 1]
  /\ i' = [i EXCEPT ![t] = @ + 1]
  /\ pc' = [pc EXCEPT ![t] = "add_probe"]
  /\ UNCHANGED << mutex, added_items, unique_added_items, aliased_adds, hits,
                  call, hash, found, byte, calls, history >>

\* The counters; nsrl_bloom_info_update does nothing without a file.
AddCount(t) ==
  /\ pc[t] = "add_probe"
  /\ i[t] = k
  /\ unique_added_items' =
       IF added_bits[t] = k THEN unique_added_items + 1 ELSE unique_added_items
  /\ aliased_adds' =
       IF added_bits[t] = 0 THEN aliased_adds + 1 ELSE aliased_adds
  /\ added_items' = added_items + 1
  /\ pc' = [pc EXCEPT ![t] = "add_unlock"]
  /\ UNCHANGED << vector, mutex, hits,
                  call, hash, i, added_bits, found, byte, calls, history >>

AddUnlock(t) ==
  /\ pc[t] = "add_unlock"
  /\ Release(t)
  /\ pc' = [pc EXCEPT ![t] = "idle"]
  /\ added' = added \cup {hash[t]}
  /\ told' = [told EXCEPT ![t][hash[t]] =
                IF call[t] = "addString" THEN @ + 1 ELSE @]
  /\ Forget(t)
  /\ UNCHANGED << vector, added_items, unique_added_items, aliased_adds, hits,
                  call, hash, calls, known >>

(***************************************************************************)
(* nsrl_bloom_query, and the test nsrl_bloom_addString makes on its result.*)
(***************************************************************************)
QueryLock(t) ==
  /\ pc[t] = "query_lock"
  /\ Acquire(t)
  /\ pc' = [pc EXCEPT ![t] = "query_probe"]
  /\ i' = [i EXCEPT ![t] = 0]
  /\ found' = [found EXCEPT ![t] = 1]
  /\ UNCHANGED << vector, added_items, unique_added_items, aliased_adds, hits,
                  call, hash, added_bits, byte, calls, history >>

QueryProbe(t) ==
  /\ pc[t] = "query_probe"
  /\ i[t] < k
  /\ found[t] = 1
  /\ found' = [found EXCEPT ![t] =
                 IF get_bloom_bit(vector, slice[hash[t]][i[t]]) THEN 1 ELSE 0]
  /\ i' = [i EXCEPT ![t] = @ + 1]
  /\ UNCHANGED << shared, pc, call, hash, added_bits, byte, calls, history >>

\* b->hits++ whatever was found.
QueryDone(t) ==
  /\ pc[t] = "query_probe"
  /\ i[t] = k \/ found[t] = 0
  /\ hits' = hits + 1
  /\ pc' = [pc EXCEPT ![t] = "query_unlock"]
  /\ UNCHANGED << vector, mutex, added_items, unique_added_items, aliased_adds,
                  call, hash, i, added_bits, found, byte, calls, history >>

QueryUnlock(t) ==
  /\ pc[t] = "query_unlock"
  /\ Release(t)
  /\ pc' = [pc EXCEPT ![t] = IF call[t] = "addString" /\ found[t] = 0
                             THEN "add_lock" ELSE "idle"]
  /\ Forget(t)
  /\ UNCHANGED << vector, added_items, unique_added_items, aliased_adds, hits,
                  call, hash, calls, history >>

Step(t) ==
  \/ AddLock(t)
  \/ AddProbe(t)
  \/ LoadByte(t)
  \/ StoreByte(t)
  \/ AddCount(t)
  \/ AddUnlock(t)
  \/ QueryLock(t)
  \/ QueryProbe(t)
  \/ QueryDone(t)
  \/ QueryUnlock(t)

Next ==
  \E t \in Threads :
    \/ \E name \in {"add", "query", "addString"}, h \in Hashes : Call(t, name, h)
    \/ Step(t)

Spec == Init /\ [][Next]_vars

\* A call in progress keeps running; nobody has to make another one.
FairSpec == Spec /\ \A t \in Threads : WF_vars(Step(t))
-----------------------------------------------------------------------------
InAdd(t)    == pc[t] \in {"add_probe", "load_byte", "store_byte", "add_unlock"}
InQuery(t)  == pc[t] \in {"query_probe", "query_unlock"}
Critical(t) == InAdd(t) \/ InQuery(t)

(***************************************************************************)
(* Type invariant.                                                         *)
(***************************************************************************)
TypeOK ==
  /\ vector \subseteq Bits
  /\ mutex \in Threads \cup {NoThread}
  /\ added_items \in Nat
  /\ unique_added_items \in Nat
  /\ aliased_adds \in Nat
  /\ hits \in Nat
  /\ pc \in [Threads -> {"idle", "add_lock", "add_probe", "load_byte",
                         "store_byte", "add_unlock", "query_lock",
                         "query_probe", "query_unlock"}]
  /\ call \in [Threads -> {"add", "query", "addString"}]
  /\ hash \in [Threads -> Hashes]
  /\ i \in [Threads -> 0 .. k]
  /\ added_bits \in [Threads -> 0 .. k]
  /\ found \in [Threads -> {0, 1}]
  /\ byte \in [Threads -> SUBSET Bits]
  /\ calls \in [Threads -> 0 .. MaxCalls]
  /\ known \in [Threads -> BOOLEAN]
  /\ added \subseteq Hashes
  /\ told \in [Threads -> [Hashes -> Nat]]

(***************************************************************************)
(* At most one thread is between pthread_mutex_lock and _unlock.           *)
(***************************************************************************)
MutualExclusion ==
  \A t, u \in Threads : Critical(t) /\ Critical(u) => t = u

(***************************************************************************)
(* A Bloom filter may err one way only.  A query that was called after the *)
(* add of its hash returned answers 1, whatever other threads were adding  *)
(* or querying meanwhile: frag_find drops an image block without looking   *)
(* at the file maps when the answer is 0 (frag_find.cpp:634).              *)
(***************************************************************************)
NoFalseNegative ==
  \A t \in Threads : pc[t] = "query_unlock" /\ known[t] => found[t] = 1

(***************************************************************************)
(* The counters of the header bound the number of bits that are 1: an add  *)
(* that was counted unique set k of them, an aliased one none, any other   *)
(* between 1 and k - 1 (bloom.h:76-78).  The add in progress contributes   *)
(* the bits it has set so far.                                             *)
(***************************************************************************)
Uncounted(t) == IF InAdd(t) /\ pc[t] # "add_unlock" THEN added_bits[t] ELSE 0

CountersBoundVector ==
  /\ unique_added_items + aliased_adds <= added_items
  /\ \A t \in Threads :
       (\A u \in Threads : u # t => Uncounted(u) = 0) =>
         LET set     == Cardinality(vector) - Uncounted(t)
             partial == added_items - unique_added_items - aliased_adds
         IN  /\ set >= k * unique_added_items + partial
             /\ set <= k * unique_added_items + (k - 1) * partial

(***************************************************************************)
(* The filter implements an approximate set in which each query takes      *)
(* effect at one instant, although it reads k bits one after the other     *)
(* while other threads set them.                                           *)
(***************************************************************************)
AbsPhase(t) ==
  CASE pc[t] = "idle"                            -> "idle"
    [] pc[t] \in {"query_lock", "query_probe"}   -> "asking"
    [] pc[t] = "query_unlock" /\ found[t] = 1    -> "yes"
    [] pc[t] = "query_unlock" /\ found[t] = 0    -> "no"
    [] OTHER                                     -> "adding"

ApproximateSet ==
  INSTANCE BloomSet WITH
    present <- { h \in Hashes : FoundIn(vector, h) },
    phase   <- [t \in Threads |-> AbsPhase(t)],
    item    <- hash

ImplementsBloomSet == ApproximateSet!AbsSpec

(***************************************************************************)
(* Every call returns: no thread waits forever for the mutex, and none     *)
(* leaves with it.                                                         *)
(***************************************************************************)
CallsReturn == \A t \in Threads : pc[t] # "idle" ~> pc[t] = "idle"

(***************************************************************************)
(* "add a string; return 0 if not presently present, 1 if already present" *)
(* (bloom.h:148).  The query and the add of nsrl_bloom_addString take the  *)
(* mutex separately, so two threads whose calls overlap can both be told 0 *)
(* of one string, and that contradicts the comment.  What is left of it is *)
(* that one thread is never told so twice of a string, whatever the others *)
(* did during its calls and between them.                                  *)
(***************************************************************************)
FirstIsToldOncePerThread ==
  \A t \in Threads, h \in Hashes : told[t][h] <= 1
=============================================================================
