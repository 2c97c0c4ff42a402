----------------------------- MODULE BloomProofs -----------------------------
(***************************************************************************)
(* Theorems about the shared Bloom filter, for any number of threads,      *)
(* hashes, bloom functions and bits, and any slicing of the hashes; about  *)
(* what a filter and its file look like (BloomFormat); and about the lines *)
(* nsrl_bloom_creator fills a filter from (RDSFile).                       *)
(*                                                                         *)
(* FilemapProofs is extended for its facts about natural numbers and       *)
(* functions defined by iteration.                                         *)
(***************************************************************************)
EXTENDS Bloom, BloomFormat, RDSFile, FilemapProofs

(***************************************************************************)
(* The inductive invariant, in named parts.                                *)
(***************************************************************************)
\* Where the loops of a thread stand.
Loops ==
  \A t \in Threads :
    /\ pc[t] \in {"load_byte", "store_byte"} => i[t] < k
    /\ pc[t] = "add_unlock" => i[t] = k
    /\ InAdd(t) => added_bits[t] <= i[t]

\* The mutex belongs to the thread in the critical section.
Owner == \A t \in Threads : Critical(t) /\ multithreaded => mutex = t

\* Nobody changed the byte since set_bloom_bit read it.
FreshByte ==
  \A t \in Threads : pc[t] = "store_byte" =>
    byte[t] = vector \cap ByteOf(slice[hash[t]][i[t]])

\* The bits an add in progress has passed are 1.
AddProgress ==
  \A t \in Threads : InAdd(t) =>
    \A j \in 0 .. i[t] - 1 : slice[hash[t]][j] \in vector

\* What was added is found.
Kept == \A h \in added : FoundIn(vector, h)

\* A thread that was told of a hash when it asked has a hash that was added.
KnownAdded == \A t \in Threads : known[t] => hash[t] \in added

\* found is right about the bits the query has read.
QueryProgress ==
  \A t \in Threads : InQuery(t) =>
    /\ found[t] = 0 => ~ FoundIn(vector, hash[t])
    /\ found[t] = 1 => \A j \in 0 .. i[t] - 1 : slice[hash[t]][j] \in vector
    /\ pc[t] = "query_unlock" => i[t] = k \/ found[t] = 0

\* The types, and the range of each loop.
TypeInv == TypeOK /\ Loops
\* The mutex has the owner the statements of the threads say.
LockInv == Owner
\* The vector against what the threads have done.
DataInv == FreshByte /\ AddProgress /\ Kept /\ KnownAdded /\ QueryProgress

\* The inductive invariant.
Inv == TypeInv /\ LockInv /\ DataInv
-----------------------------------------------------------------------------
\* The slice a loop is at is a bit of the vector.
LEMMA SliceIsBit ==
  ASSUME TypeOK, NEW t \in Threads, i[t] < k
  PROVE  slice[hash[t]][i[t]] \in Bits /\ i[t] \in 0 .. k - 1
BY BloomAssumption DEF TypeOK

\* The invariant holds initially.
LEMMA InitInv == Init => Inv
<1> SUFFICES ASSUME Init PROVE Inv
  OBVIOUS
<1>1. (CHOOSE h \in Hashes : TRUE) \in Hashes
  BY HashesAssumption
<1>2. TypeOK
  BY <1>1, BloomAssumption, ThreadsAssumption DEF Init, TypeOK
<1>3. QED
  BY <1>2
  DEF Init, Inv, TypeInv, LockInv, DataInv, Loops, Owner, FreshByte,
      AddProgress, Kept, KnownAdded, QueryProgress, InAdd, InQuery, Critical

\* A step keeps the types.
LEMMA TypeStep == TypeInv /\ [Next]_vars => TypeInv'
<1> SUFFICES ASSUME TypeInv, [Next]_vars PROVE TypeInv'
  OBVIOUS
<1> USE BloomAssumption, ThreadsAssumption DEF TypeInv, InAdd
<1>1. ASSUME NEW t \in Threads, NEW name \in {"add", "query", "addString"},
             NEW h \in Hashes, Call(t, name, h)
      PROVE  TypeInv'
  <2>1. TypeOK'
    BY <1>1, SMTT(20) DEF Call, TypeOK, shared
  <2>2. Loops'
    BY <1>1 DEF Call, TypeOK, Loops, shared
  <2>3. QED  BY <2>1, <2>2
<1>2. ASSUME NEW t \in Threads, AddLock(t) PROVE TypeInv'
  BY <1>2 DEF AddLock, Acquire, TypeOK, Loops, history
<1>3. ASSUME NEW t \in Threads, AddProbe(t) PROVE TypeInv'
  <2>1. CASE get_bloom_bit(vector, slice[hash[t]][i[t]])
    <3>1. i' = [i EXCEPT ![t] = @ + 1] /\ UNCHANGED << shared, history >>
      BY <1>3, <2>1 DEF AddProbe
    <3>2. i[t] + 1 \in 0 .. k
      BY <1>3 DEF AddProbe, TypeOK
    <3>3. TypeOK'
      BY <1>3, <2>1, <3>1, <3>2 DEF AddProbe, TypeOK, shared, history
    <3>4. Loops'
      BY <1>3, <2>1, <3>1 DEF AddProbe, TypeOK, Loops
    <3>5. QED  BY <3>3, <3>4
  <2>2. CASE ~ get_bloom_bit(vector, slice[hash[t]][i[t]])
    BY <1>3, <2>2 DEF AddProbe, TypeOK, Loops, shared, history
  <2>3. QED  BY <2>1, <2>2
<1>4. ASSUME NEW t \in Threads, LoadByte(t) PROVE TypeInv'
  <2>1. vector \cap ByteOf(slice[hash[t]][i[t]]) \in SUBSET Bits
    BY DEF TypeOK
  <2>2. TypeOK'
    BY <1>4, <2>1 DEF LoadByte, TypeOK, shared, history
  <2>3. Loops'
    BY <1>4 DEF LoadByte, TypeOK, Loops, shared, history
  <2>4. QED  BY <2>2, <2>3
<1>5. ASSUME NEW t \in Threads, StoreByte(t) PROVE TypeInv'
  <2>1. i[t] < k /\ added_bits[t] <= i[t]
    BY <1>5 DEF StoreByte, Loops
  <2>2. slice[hash[t]][i[t]] \in Bits
    BY <2>1, SliceIsBit
  <2>3. vector' \subseteq Bits
    BY <1>5, <2>2 DEF StoreByte, TypeOK
  <2>4. TypeOK'
    BY <1>5, <2>1, <2>3, SMTT(20) DEF StoreByte, TypeOK, history
  <2>5. Loops'
    BY <1>5, <2>1 DEF StoreByte, TypeOK, Loops, history
  <2>6. QED  BY <2>4, <2>5
<1>6. ASSUME NEW t \in Threads, AddCount(t) PROVE TypeInv'
  BY <1>6, SMTT(60) DEF AddCount, TypeOK, Loops, history
<1>7. ASSUME NEW t \in Threads, AddUnlock(t) PROVE TypeInv'
  BY <1>7, SMTT(30) DEF AddUnlock, Release, Forget, TypeOK, Loops
<1>8. ASSUME NEW t \in Threads, QueryLock(t) PROVE TypeInv'
  BY <1>8 DEF QueryLock, Acquire, TypeOK, Loops, history
<1>9. ASSUME NEW t \in Threads, QueryProbe(t) PROVE TypeInv'
  <2>1. i[t] + 1 \in 0 .. k
    BY <1>9 DEF QueryProbe, TypeOK
  <2>2. TypeOK'
    BY <1>9, <2>1 DEF QueryProbe, TypeOK, shared, history
  <2>3. Loops'
    BY <1>9 DEF QueryProbe, TypeOK, Loops, shared
  <2>4. QED  BY <2>2, <2>3
<1>10. ASSUME NEW t \in Threads, QueryDone(t) PROVE TypeInv'
  BY <1>10, SMTT(30) DEF QueryDone, TypeOK, Loops, history
<1>11. ASSUME NEW t \in Threads, QueryUnlock(t) PROVE TypeInv'
  BY <1>11, SMTT(30) DEF QueryUnlock, Release, Forget, TypeOK, Loops, history
<1>12. CASE UNCHANGED vars
  BY <1>12 DEF vars, shared, locals, history, TypeOK, Loops
<1>13. QED
  BY <1>1, <1>2, <1>3, <1>4, <1>5, <1>6, <1>7, <1>8, <1>9, <1>10, <1>11, <1>12
  DEF Next, Step

(***************************************************************************)
(* A thread enters its critical section with the mutex, and leaves with    *)
(* it; in a build without the mutex there is one thread.                   *)
(***************************************************************************)
LEMMA LockStep == TypeInv /\ LockInv /\ [Next]_vars => LockInv'
<1> SUFFICES ASSUME TypeInv, LockInv, [Next]_vars PROVE Owner'
  BY DEF LockInv
<1> USE ThreadsAssumption
    DEF TypeInv, TypeOK, LockInv, Owner, InAdd, InQuery, Critical
<1>1. ASSUME NEW t \in Threads, NEW name \in {"add", "query", "addString"},
             NEW h \in Hashes, Call(t, name, h)
      PROVE  Owner'
  BY <1>1 DEF Call, shared
<1>2. ASSUME NEW t \in Threads, AddLock(t) PROVE Owner'
  BY <1>2 DEF AddLock, Acquire
<1>3. ASSUME NEW t \in Threads, AddProbe(t) PROVE Owner'
  BY <1>3 DEF AddProbe, shared
<1>4. ASSUME NEW t \in Threads, LoadByte(t) PROVE Owner'
  BY <1>4 DEF LoadByte, shared
<1>5. ASSUME NEW t \in Threads, StoreByte(t) PROVE Owner'
  BY <1>5 DEF StoreByte
<1>6. ASSUME NEW t \in Threads, AddCount(t) PROVE Owner'
  BY <1>6 DEF AddCount
<1>7. ASSUME NEW t \in Threads, AddUnlock(t) PROVE Owner'
  BY <1>7 DEF AddUnlock, Release
<1>8. ASSUME NEW t \in Threads, QueryLock(t) PROVE Owner'
  BY <1>8 DEF QueryLock, Acquire
<1>9. ASSUME NEW t \in Threads, QueryProbe(t) PROVE Owner'
  BY <1>9 DEF QueryProbe, shared
<1>10. ASSUME NEW t \in Threads, QueryDone(t) PROVE Owner'
  BY <1>10 DEF QueryDone
<1>11. ASSUME NEW t \in Threads, QueryUnlock(t) PROVE Owner'
  BY <1>11 DEF QueryUnlock, Release
<1>12. CASE UNCHANGED vars
  BY <1>12 DEF vars, shared, locals
<1>13. QED
  BY <1>1, <1>2, <1>3, <1>4, <1>5, <1>6, <1>7, <1>8, <1>9, <1>10, <1>11, <1>12
  DEF Next, Step

\* One owner is one thread between lock and unlock.
LEMMA Exclusive == TypeInv /\ LockInv => MutualExclusion
BY ThreadsAssumption DEF LockInv, Owner, MutualExclusion

(***************************************************************************)
(* The store of set_bloom_bit only adds the bit, because the byte it       *)
(* writes back is the byte as it still is.                                 *)
(***************************************************************************)
LEMMA StoreAddsBit ==
  ASSUME TypeInv, DataInv, NEW t \in Threads, StoreByte(t)
  PROVE  vector' = vector \cup {slice[hash[t]][i[t]]}
<1>1. byte[t] = vector \cap ByteOf(slice[hash[t]][i[t]])
  BY DEF DataInv, FreshByte, StoreByte
<1>2. QED  BY <1>1 DEF StoreByte

(***************************************************************************)
(* A step of another thread leaves a critical thread's view alone.         *)
(***************************************************************************)
LEMMA OthersLeaveVector ==
  ASSUME TypeInv, LockInv, NEW t \in Threads, NEW u \in Threads, t # u,
         StoreByte(t)
  PROVE  ~ Critical(u)
<1>1. Critical(t)
  BY DEF StoreByte, Critical, InAdd
<1>2. QED  BY <1>1, Exclusive DEF MutualExclusion

\* A step keeps what the vector holds.
LEMMA DataStep == Inv /\ [Next]_vars => DataInv'
<1> SUFFICES ASSUME Inv, [Next]_vars PROVE DataInv'
  OBVIOUS
<1> USE BloomAssumption
    DEF Inv, TypeInv, TypeOK, InAdd, InQuery, get_bloom_bit, FoundIn, BitsOf
<1>1. ASSUME NEW t \in Threads, NEW name \in {"add", "query", "addString"},
             NEW h \in Hashes, Call(t, name, h)
      PROVE  DataInv'
  <2>1. FreshByte' /\ AddProgress'
    BY <1>1 DEF Call, shared, DataInv, FreshByte, AddProgress
  <2>2. Kept' /\ KnownAdded'
    BY <1>1 DEF Call, shared, DataInv, Kept, KnownAdded
  <2>3. QueryProgress'
    BY <1>1, SMTT(30) DEF Call, shared, DataInv, QueryProgress
  <2>4. QED  BY <2>1, <2>2, <2>3 DEF DataInv
<1>2. ASSUME NEW t \in Threads, AddLock(t) PROVE DataInv'
  <2>1. FreshByte' /\ AddProgress'
    BY <1>2 DEF AddLock, DataInv, FreshByte, AddProgress
  <2>2. Kept' /\ KnownAdded'
    BY <1>2 DEF AddLock, history, DataInv, Kept, KnownAdded
  <2>3. QueryProgress'
    BY <1>2 DEF AddLock, DataInv, QueryProgress
  <2>4. QED  BY <2>1, <2>2, <2>3 DEF DataInv
<1>3. ASSUME NEW t \in Threads, AddProbe(t) PROVE DataInv'
  <2>1. FreshByte'
    BY <1>3 DEF AddProbe, shared, DataInv, FreshByte
  <2>2. AddProgress'
    <3>1. ASSUME NEW u \in Threads, InAdd(u)', NEW j \in 0 .. i'[u] - 1
          PROVE  slice[hash[u]][j] \in vector
      <4>1. InAdd(u)
        BY <1>3, <3>1 DEF AddProbe
      <4>2. CASE j \in 0 .. i[u] - 1
        BY <4>1, <4>2 DEF DataInv, AddProgress
      <4>3. CASE j \notin 0 .. i[u] - 1
        <5>1. CASE get_bloom_bit(vector, slice[hash[t]][i[t]])
          <6>1. i' = [i EXCEPT ![t] = @ + 1]
            BY <1>3, <5>1 DEF AddProbe
          <6>2. u = t /\ j = i[t]
            BY <3>1, <4>3, <6>1
          <6>3. QED  BY <5>1, <6>2
        <5>2. CASE ~ get_bloom_bit(vector, slice[hash[t]][i[t]])
          <6>1. i' = i
            BY <1>3, <5>2 DEF AddProbe
          <6>2. QED  BY <3>1, <4>3, <6>1
        <5>3. QED  BY <5>1, <5>2
      <4>4. QED  BY <4>2, <4>3
    <3>2. QED  BY <1>3, <3>1 DEF AddProbe, shared, AddProgress
  <2>3. Kept' /\ KnownAdded'
    BY <1>3 DEF AddProbe, shared, history, DataInv, Kept, KnownAdded
  <2>4. QueryProgress'
    BY <1>3, SMTT(30) DEF AddProbe, shared, DataInv, QueryProgress
  <2>5. QED  BY <2>1, <2>2, <2>3, <2>4 DEF DataInv
<1>4. ASSUME NEW t \in Threads, LoadByte(t) PROVE DataInv'
  <2>1. FreshByte'
    BY <1>4 DEF LoadByte, shared, DataInv, FreshByte
  <2>2. AddProgress'
    BY <1>4 DEF LoadByte, shared, DataInv, AddProgress
  <2>3. Kept' /\ KnownAdded'
    BY <1>4 DEF LoadByte, shared, history, DataInv, Kept, KnownAdded
  <2>4. QueryProgress'
    BY <1>4 DEF LoadByte, shared, DataInv, QueryProgress
  <2>5. QED  BY <2>1, <2>2, <2>3, <2>4 DEF DataInv
<1>5. ASSUME NEW t \in Threads, StoreByte(t) PROVE DataInv'
  <2>1. vector' = vector \cup {slice[hash[t]][i[t]]}
    BY <1>5, StoreAddsBit
  <2>2. \A u \in Threads : u # t => ~ Critical(u)
    BY <1>5, OthersLeaveVector
  <2>3. /\ pc' = [pc EXCEPT ![t] = "add_probe"]
        /\ i' = [i EXCEPT ![t] = @ + 1]
        /\ UNCHANGED << hash, found, byte, known, added >>
    BY <1>5 DEF StoreByte, history
  <2>4. \A u \in Threads : u # t => ~ Critical(u)' /\ pc'[u] # "store_byte"
    BY <2>2, <2>3 DEF Critical
  <2>5. FreshByte'
    BY <2>3, <2>4 DEF FreshByte
  <2>6. AddProgress'
    <3>1. \A j \in 0 .. i[t] - 1 : slice[hash[t]][j] \in vector
      BY <1>5 DEF StoreByte, DataInv, AddProgress
    <3>2. \A j \in 0 .. i'[t] - 1 : slice[hash'[t]][j] \in vector'
      BY <2>1, <2>3, <3>1
    <3>3. QED  BY <2>4, <3>2 DEF AddProgress, Critical
  <2>7. Kept' /\ KnownAdded'
    BY <2>1, <2>3 DEF DataInv, Kept, KnownAdded
  <2>8. QueryProgress'
    BY <2>3, <2>4 DEF QueryProgress, Critical
  <2>9. QED  BY <2>5, <2>6, <2>7, <2>8 DEF DataInv
<1>6. ASSUME NEW t \in Threads, AddCount(t) PROVE DataInv'
  <2>1. FreshByte' /\ AddProgress'
    BY <1>6 DEF AddCount, DataInv, FreshByte, AddProgress
  <2>2. Kept' /\ KnownAdded'
    BY <1>6 DEF AddCount, history, DataInv, Kept, KnownAdded
  <2>3. QueryProgress'
    BY <1>6 DEF AddCount, DataInv, QueryProgress
  <2>4. QED  BY <2>1, <2>2, <2>3 DEF DataInv
<1>7. ASSUME NEW t \in Threads, AddUnlock(t) PROVE DataInv'
  <2>1. FreshByte' /\ AddProgress'
    BY <1>7 DEF AddUnlock, Forget, DataInv, FreshByte, AddProgress
  <2>2. FoundIn(vector, hash[t])
    BY <1>7 DEF AddUnlock, DataInv, AddProgress, Loops
  <2>3. Kept' /\ KnownAdded'
    BY <1>7, <2>2 DEF AddUnlock, DataInv, Kept, KnownAdded
  <2>4. QueryProgress'
    BY <1>7 DEF AddUnlock, Forget, DataInv, QueryProgress
  <2>5. QED  BY <2>1, <2>3, <2>4 DEF DataInv
<1>8. ASSUME NEW t \in Threads, QueryLock(t) PROVE DataInv'
  <2>1. FreshByte' /\ AddProgress'
    BY <1>8 DEF QueryLock, DataInv, FreshByte, AddProgress
  <2>2. Kept' /\ KnownAdded'
    BY <1>8 DEF QueryLock, history, DataInv, Kept, KnownAdded
  <2>3. QueryProgress'
    BY <1>8 DEF QueryLock, DataInv, QueryProgress
  <2>4. QED  BY <2>1, <2>2, <2>3 DEF DataInv
<1>9. ASSUME NEW t \in Threads, QueryProbe(t) PROVE DataInv'
  <2>1. FreshByte' /\ AddProgress'
    BY <1>9 DEF QueryProbe, shared, DataInv, FreshByte, AddProgress
  <2>2. Kept' /\ KnownAdded'
    BY <1>9 DEF QueryProbe, shared, history, DataInv, Kept, KnownAdded
  <2>3. QueryProgress'
    BY <1>9, SMTT(30) DEF QueryProbe, shared, DataInv, QueryProgress
  <2>4. QED  BY <2>1, <2>2, <2>3 DEF DataInv
<1>10. ASSUME NEW t \in Threads, QueryDone(t) PROVE DataInv'
  <2>1. FreshByte' /\ AddProgress'
    BY <1>10 DEF QueryDone, DataInv, FreshByte, AddProgress
  <2>2. Kept' /\ KnownAdded'
    BY <1>10 DEF QueryDone, history, DataInv, Kept, KnownAdded
  <2>3. QueryProgress'
    BY <1>10 DEF QueryDone, DataInv, QueryProgress
  <2>4. QED  BY <2>1, <2>2, <2>3 DEF DataInv
<1>11. ASSUME NEW t \in Threads, QueryUnlock(t) PROVE DataInv'
  <2>1. FreshByte' /\ AddProgress'
    BY <1>11 DEF QueryUnlock, Forget, DataInv, FreshByte, AddProgress
  <2>2. Kept' /\ KnownAdded'
    BY <1>11 DEF QueryUnlock, history, DataInv, Kept, KnownAdded
  <2>3. QueryProgress'
    BY <1>11 DEF QueryUnlock, Forget, DataInv, QueryProgress
  <2>4. QED  BY <2>1, <2>2, <2>3 DEF DataInv
<1>12. CASE UNCHANGED vars
  BY <1>12
  DEF vars, shared, locals, history, DataInv, FreshByte, AddProgress, Kept,
      KnownAdded, QueryProgress
<1>13. QED
  BY <1>1, <1>2, <1>3, <1>4, <1>5, <1>6, <1>7, <1>8, <1>9, <1>10, <1>11, <1>12
  DEF Next, Step
-----------------------------------------------------------------------------
\* The invariant holds in every reachable state.
LEMMA SpecInv == Spec => []Inv
<1>1. Inv /\ [Next]_vars => Inv'
  BY TypeStep, LockStep, DataStep DEF Inv
<1>2. Init => Inv
  BY InitInv
<1>3. QED  BY <1>1, <1>2, PTL DEF Spec

(***************************************************************************)
(* The counters of bloom.c stay natural numbers, the loops within the k    *)
(* slices and the vector within its bits, for every slicing.               *)
(***************************************************************************)
THEOREM TypeCorrect == Spec => []TypeOK
<1>1. Inv => TypeOK  BY DEF Inv, TypeInv
<1>2. QED  BY SpecInv, <1>1, PTL

(***************************************************************************)
(* The mutex protocol of nsrl_bloom_add and nsrl_bloom_query excludes, on  *)
(* each of their paths, for any number of threads.                         *)
(***************************************************************************)
THEOREM Exclusion == Spec => []MutualExclusion
<1>1. Inv => MutualExclusion  BY Exclusive DEF Inv
<1>2. QED  BY SpecInv, <1>1, PTL

(***************************************************************************)
(* No query misses a hash whose add had returned when it was called.       *)
(***************************************************************************)
THEOREM NothingMissed == Spec => []NoFalseNegative
<1>1. Inv => NoFalseNegative
  <2> SUFFICES ASSUME Inv, NEW t \in Threads, pc[t] = "query_unlock", known[t]
               PROVE  found[t] = 1
    BY DEF NoFalseNegative
  <2>1. FoundIn(vector, hash[t])
    BY DEF Inv, DataInv, Kept, KnownAdded
  <2>2. found[t] # 0
    BY <2>1 DEF Inv, DataInv, QueryProgress, InQuery
  <2>3. QED  BY <2>2 DEF Inv, TypeInv, TypeOK
<1>2. QED  BY SpecInv, <1>1, PTL
-----------------------------------------------------------------------------
(***************************************************************************)
(* The counters.  An add that is about to set a bit found it 0, so the     *)
(* store makes the vector larger by one; and no more than one add at a     *)
(* time has bits it has not counted.                                       *)
(***************************************************************************)
NewBit ==
  \A t \in Threads :
    pc[t] \in {"load_byte", "store_byte"} => slice[hash[t]][i[t]] \notin vector

\* The counters bound the bits of the vector but for n of them.
Bounded(n) ==
  LET set     == Cardinality(vector) - n
      partial == added_items - unique_added_items - aliased_adds
  IN  /\ set >= k * unique_added_items + partial
      /\ set <= k * unique_added_items + (k - 1) * partial

\* The counters bound the vector once the bit of the add that is being counted is
\* set apart.
Balanced ==
  /\ \A t \in Threads : Uncounted(t) # 0 => Bounded(Uncounted(t))
  /\ (\A t \in Threads : Uncounted(t) = 0) => Bounded(0)

\* The inductive invariant of the counters.
CountInv ==
  /\ NewBit
  /\ unique_added_items + aliased_adds <= added_items
  /\ Balanced

\* The size of the vector is a number, and a bit that was 0 adds one to it.
LEMMA VectorSize ==
  ASSUME TypeOK
  PROVE  /\ IsFiniteSet(vector)
         /\ Cardinality(vector) \in Nat
         /\ \A bit : bit \notin vector =>
              Cardinality(vector \cup {bit}) = Cardinality(vector) + 1
<1>1. IsFiniteSet(vector)
  BY BloomAssumption, FS_Subset DEF TypeOK
<1>2. QED  BY <1>1, FS_CardinalityType, FS_AddElement

\* Steps that set no bit and count nothing.
LEMMA CountStays ==
  ASSUME CountInv, NewBit',
         UNCHANGED << vector, added_items, unique_added_items, aliased_adds >>,
         \A t \in Threads : Uncounted(t)' = Uncounted(t)
  PROVE  CountInv'
BY DEF CountInv, Balanced, Bounded

\* While one thread is in its add no other has anything uncounted.
LEMMA OneUncounted ==
  ASSUME Inv, Balanced, NEW t \in Threads, InAdd(t), pc[t] # "add_unlock"
  PROVE  /\ \A u \in Threads : u # t => ~ InAdd(u) /\ Uncounted(u) = 0
         /\ Bounded(added_bits[t])
<1>1. \A u \in Threads : u # t => ~ InAdd(u)
  BY Exclusive DEF Inv, MutualExclusion, Critical
<1>2. \A u \in Threads : u # t => Uncounted(u) = 0
  BY <1>1 DEF Uncounted
<1>3. Uncounted(t) = added_bits[t]
  BY DEF Uncounted
<1>4. QED  BY <1>1, <1>2, <1>3 DEF Balanced

\* A store sets one bit more, and the add has one more to count.
LEMMA StoreCounts ==
  ASSUME Inv, CountInv, NEW t \in Threads, StoreByte(t)
  PROVE  CountInv'
<1>1. /\ pc[t] = "store_byte" /\ InAdd(t) /\ pc[t] # "add_unlock"
      /\ pc' = [pc EXCEPT ![t] = "add_probe"]
      /\ added_bits' = [added_bits EXCEPT ![t] = @ + 1]
      /\ UNCHANGED << hash, added_items, unique_added_items, aliased_adds >>
      /\ \A u \in Threads : u # t => i'[u] = i[u] /\ pc'[u] = pc[u] /\ added_bits'[u] = added_bits[u]
      /\ pc'[t] = "add_probe" /\ added_bits'[t] = added_bits[t] + 1
      /\ added_bits[t] \in Nat
  BY BloomAssumption DEF StoreByte, InAdd, Inv, TypeInv, TypeOK
<1>2. /\ \A u \in Threads : u # t => ~ InAdd(u) /\ Uncounted(u) = 0
      /\ Bounded(added_bits[t])
  BY <1>1, OneUncounted DEF CountInv
<1>3. Cardinality(vector') = Cardinality(vector) + 1 /\ Cardinality(vector) \in Nat
  <2>1. vector' = vector \cup {slice[hash[t]][i[t]]}
    BY StoreAddsBit DEF Inv
  <2>2. slice[hash[t]][i[t]] \notin vector
    BY <1>1 DEF CountInv, NewBit
  <2>3. QED  BY <2>1, <2>2, VectorSize DEF Inv, TypeInv
<1>4. ASSUME NEW n, n = added_bits[t] + 1
      PROVE  Cardinality(vector') - n = Cardinality(vector) - added_bits[t]
  BY <1>1, <1>3, <1>4
<1>5. /\ \A u \in Threads : u # t => Uncounted(u)' = 0
      /\ Uncounted(t)' = added_bits[t] + 1
  BY <1>1, <1>2 DEF Uncounted, InAdd
<1>6. Balanced'
  <2>1. added_bits'[t] = added_bits[t] + 1 /\ added_bits[t] + 1 # 0
    BY <1>1
  <2>2. Bounded(Uncounted(t))'
    <3>1. Cardinality(vector') - Uncounted(t)' = Cardinality(vector) - added_bits[t]
      BY <1>4, <1>5
    <3>2. QED  BY <1>1, <1>2, <3>1 DEF Bounded
  <2>3. QED  BY <1>5, <2>1, <2>2 DEF Balanced
<1>7. NewBit'
  BY <1>1, <1>2 DEF NewBit, InAdd
<1>8. QED  BY <1>1, <1>6, <1>7 DEF CountInv

\* The counters take in the bits of an add that ends: k of them, none, or some.
LEMMA CountCounts ==
  ASSUME Inv, CountInv, NEW t \in Threads, AddCount(t)
  PROVE  CountInv'
<1>1. /\ pc[t] = "add_probe" /\ InAdd(t) /\ pc[t] # "add_unlock"
      /\ UNCHANGED << hash, i, vector, added_bits >>
      /\ \A u \in Threads : u # t => pc'[u] = pc[u]
      /\ pc'[t] = "add_unlock"
      /\ added_bits[t] \in 0 .. k
  BY DEF AddCount, InAdd, Inv, TypeInv, TypeOK
<1>2. /\ \A u \in Threads : u # t => ~ InAdd(u) /\ Uncounted(u) = 0
      /\ Bounded(added_bits[t])
  BY <1>1, OneUncounted DEF CountInv
<1>3. \A u \in Threads : Uncounted(u)' = 0
  BY <1>1, <1>2 DEF Uncounted, InAdd
<1>4. PICK ones, n, sum : ones = Cardinality(vector) /\ n = added_bits[t] /\ sum = k * unique_added_items
  OBVIOUS
<1>5. PICK items, unique, aliased :
        items = added_items /\ unique = unique_added_items /\ aliased = aliased_adds
  OBVIOUS
<1>6. /\ ones \in Nat /\ n \in 0 .. k /\ k \in Nat \ {0}
      /\ items \in Nat /\ unique \in Nat /\ aliased \in Nat /\ unique + aliased <= items
      /\ sum \in Nat /\ k * (unique + 1) = sum + k
  <2>1. /\ ones \in Nat /\ n \in 0 .. k /\ k \in Nat \ {0}
        /\ items \in Nat /\ unique \in Nat /\ aliased \in Nat /\ unique + aliased <= items
    BY <1>1, <1>4, <1>5, VectorSize, BloomAssumption DEF CountInv, Inv, TypeInv, TypeOK
  <2>2. k * (unique + 1) = k * unique + k /\ k * unique \in Nat
    BY <2>1
  <2>3. QED  BY <1>4, <1>5, <2>1, <2>2
<1>7. PICK partial, rest : partial = items - unique - aliased /\ rest = (k - 1) * partial
  OBVIOUS
<1>8. /\ partial \in Nat /\ rest \in Nat
      /\ (k - 1) * (partial + 1) = rest + (k - 1)
  <2>1. partial \in Nat /\ k - 1 \in Nat
    BY <1>6, <1>7
  <2>2. (k - 1) * (partial + 1) = (k - 1) * partial + (k - 1) /\ (k - 1) * partial \in Nat
    BY <2>1
  <2>3. QED  BY <1>7, <2>1, <2>2
<1>9. ones - n >= sum + partial /\ ones - n <= sum + rest
  BY <1>2, <1>4, <1>5, <1>7 DEF Bounded
<1>10. /\ added_items' = items + 1
       /\ unique_added_items' = IF n = k THEN unique + 1 ELSE unique
       /\ aliased_adds' = IF n = 0 THEN aliased + 1 ELSE aliased
  BY <1>4, <1>5 DEF AddCount
<1>11. unique_added_items' + aliased_adds' <= added_items' /\ Bounded(0)'
  <2>1. CASE n = k
    <3>1. /\ added_items' = items + 1 /\ unique_added_items' = unique + 1 /\ aliased_adds' = aliased
      BY <1>6, <1>10, <2>1
    <3>2. added_items' - unique_added_items' - aliased_adds' = partial
      BY <1>6, <1>7, <3>1
    <3>3. ones - 0 >= (sum + k) + partial /\ ones - 0 <= (sum + k) + rest
      BY <1>6, <1>8, <1>9, <2>1
    <3>4. k * unique_added_items' = sum + k
      BY <1>6, <3>1
    <3>5. QED  BY <1>1, <1>4, <1>6, <1>7, <3>1, <3>2, <3>3, <3>4 DEF Bounded
  <2>2. CASE n = 0
    <3>1. /\ added_items' = items + 1 /\ unique_added_items' = unique /\ aliased_adds' = aliased + 1
      BY <1>6, <1>10, <2>2
    <3>2. added_items' - unique_added_items' - aliased_adds' = partial
      BY <1>6, <1>7, <3>1
    <3>3. ones - 0 >= sum + partial /\ ones - 0 <= sum + rest
      BY <1>6, <1>8, <1>9, <2>2
    <3>4. k * unique_added_items' = sum
      BY <1>4, <1>5, <3>1
    <3>5. QED  BY <1>1, <1>4, <1>6, <1>7, <3>1, <3>2, <3>3, <3>4 DEF Bounded
  <2>3. CASE n # k /\ n # 0
    <3>1. /\ added_items' = items + 1 /\ unique_added_items' = unique /\ aliased_adds' = aliased
      BY <1>10, <2>3
    <3>2. added_items' - unique_added_items' - aliased_adds' = partial + 1
      BY <1>6, <1>7, <3>1
    <3>3. ones - 0 >= sum + (partial + 1) /\ ones - 0 <= sum + (rest + (k - 1))
      BY <1>6, <1>8, <1>9, <2>3
    <3>4. k * unique_added_items' = sum
      BY <1>4, <1>5, <3>1
    <3>5. QED  BY <1>1, <1>4, <1>6, <1>7, <1>8, <3>1, <3>2, <3>3, <3>4 DEF Bounded
  <2>4. QED  BY <2>1, <2>2, <2>3
<1>12. Balanced'
  BY <1>3, <1>11 DEF Balanced
<1>13. NewBit'
  BY <1>1 DEF CountInv, NewBit
<1>14. QED  BY <1>11, <1>12, <1>13 DEF CountInv

\* Every step keeps the counters right.
LEMMA CountStep == Inv /\ CountInv /\ [Next]_vars => CountInv'
<1> SUFFICES ASSUME Inv, CountInv, [Next]_vars PROVE CountInv'
  OBVIOUS
<1>1. ASSUME NEW t \in Threads, NEW name \in {"add", "query", "addString"},
             NEW h \in Hashes, Call(t, name, h)
      PROVE  CountInv'
  <2>1. \A u \in Threads : Uncounted(u)' = Uncounted(u)
    BY <1>1 DEF Call, Uncounted, InAdd, Inv, TypeInv, TypeOK
  <2>2. NewBit'
    BY <1>1 DEF Call, shared, CountInv, NewBit, Inv, TypeInv, TypeOK
  <2>3. QED  BY <1>1, <2>1, <2>2, CountStays DEF Call, shared
<1>2. ASSUME NEW t \in Threads, AddLock(t) \/ QueryLock(t)
      PROVE  CountInv'
  <2>1. \A u \in Threads : Uncounted(u)' = Uncounted(u)
    BY <1>2 DEF AddLock, QueryLock, Uncounted, InAdd, Inv, TypeInv, TypeOK
  <2>2. NewBit'
    BY <1>2 DEF AddLock, QueryLock, CountInv, NewBit, Inv, TypeInv, TypeOK
  <2>3. QED  BY <1>2, <2>1, <2>2, CountStays DEF AddLock, QueryLock
<1>3. ASSUME NEW t \in Threads, AddProbe(t) \/ LoadByte(t)
      PROVE  CountInv'
  <2>1. \A u \in Threads : Uncounted(u)' = Uncounted(u)
    BY <1>3 DEF AddProbe, LoadByte, Uncounted, InAdd, Inv, TypeInv, TypeOK
  <2>2. NewBit'
    BY <1>3 DEF AddProbe, LoadByte, shared, get_bloom_bit, CountInv, NewBit, Inv, TypeInv, TypeOK
  <2>3. QED  BY <1>3, <2>1, <2>2, CountStays DEF AddProbe, LoadByte, shared
<1>4. ASSUME NEW t \in Threads, AddUnlock(t) \/ QueryUnlock(t)
      PROVE  CountInv'
  <2>1. \A u \in Threads : Uncounted(u)' = Uncounted(u)
    BY <1>4 DEF AddUnlock, QueryUnlock, Forget, Uncounted, InAdd, Inv, TypeInv, TypeOK
  <2>2. NewBit'
    BY <1>4 DEF AddUnlock, QueryUnlock, Forget, CountInv, NewBit, Inv, TypeInv, TypeOK
  <2>3. QED  BY <1>4, <2>1, <2>2, CountStays DEF AddUnlock, QueryUnlock
<1>5. ASSUME NEW t \in Threads, QueryProbe(t) \/ QueryDone(t)
      PROVE  CountInv'
  <2>1. \A u \in Threads : Uncounted(u)' = Uncounted(u)
    BY <1>5 DEF QueryProbe, QueryDone, shared, Uncounted, InAdd, Inv, TypeInv, TypeOK
  <2>2. NewBit'
    BY <1>5 DEF QueryProbe, QueryDone, shared, CountInv, NewBit, Inv, TypeInv, TypeOK
  <2>3. QED  BY <1>5, <2>1, <2>2, CountStays DEF QueryProbe, QueryDone, shared
<1>6. CASE UNCHANGED vars
  BY <1>6, CountStays DEF vars, shared, locals, CountInv, NewBit, Uncounted, InAdd
<1>7. QED
  BY <1>1, <1>2, <1>3, <1>4, <1>5, <1>6, StoreCounts, CountCounts DEF Next, Step

(***************************************************************************)
(* unique_added_items, aliased_adds and added_items bound the number of    *)
(* bits of the vector that are 1, for any number of threads.               *)
(***************************************************************************)
THEOREM CountersAgree == Spec => []CountersBoundVector
<1>1. Init => CountInv
  <2> SUFFICES ASSUME Init PROVE CountInv
    OBVIOUS
  <2>1. Cardinality(vector) = 0
    BY FS_EmptySet DEF Init
  <2>2. \A t \in Threads : Uncounted(t) = 0
    BY DEF Init, Uncounted, InAdd
  <2>3. Bounded(0)
    BY <2>1, BloomAssumption DEF Init, Bounded
  <2>4. QED  BY <2>2, <2>3 DEF Init, CountInv, NewBit, Balanced
<1>2. ASSUME CountInv
      PROVE  CountersBoundVector
  <2>1. ASSUME NEW t \in Threads, \A u \in Threads : u # t => Uncounted(u) = 0
        PROVE  Bounded(Uncounted(t))
    BY <1>2, <2>1 DEF CountInv, Balanced
  <2>2. QED  BY <1>2, <2>1 DEF CountInv, CountersBoundVector, Bounded
<1>3. QED  BY SpecInv, CountStep, <1>1, <1>2, PTL DEF Spec

-----------------------------------------------------------------------------
(***************************************************************************)
(* nsrl_bloom_addString: a thread in an add was not told to be known by    *)
(* its query, and a thread that was told that a string is new asks for a   *)
(* known one from then on.                                                 *)
(***************************************************************************)
ToldInv ==
  /\ \A t \in Threads :
       pc[t] = "add_lock" \/ InAdd(t) => ~ (call[t] = "addString" /\ known[t])
  /\ \A t \in Threads, h \in Hashes :
       /\ told[t][h] <= 1
       /\ told[t][h] > 0 => h \in added
       /\ told[t][h] > 0 /\ pc[t] # "idle" /\ hash[t] = h => known[t]

\* A step that tells nobody and begins no call.
LEMMA ToldStays ==
  ASSUME ToldInv, UNCHANGED << hash, known, added, told >>,
         \A u \in Threads : pc'[u] # "idle" => pc[u] # "idle",
         \A u \in Threads :
           pc'[u] = "add_lock" \/ InAdd(u)' => ~ (call'[u] = "addString" /\ known'[u])
  PROVE  ToldInv'
BY DEF ToldInv

\* Every step keeps what the threads are told.
LEMMA ToldStep == Inv /\ ToldInv /\ [Next]_vars => ToldInv'
<1> SUFFICES ASSUME Inv, ToldInv, [Next]_vars PROVE ToldInv'
  OBVIOUS
<1>0. TypeOK /\ \A t \in Threads, h \in Hashes : told[t][h] \in Nat
  BY DEF Inv, TypeInv, TypeOK
<1>1. ASSUME NEW t \in Threads, NEW name \in {"add", "query", "addString"},
             NEW g \in Hashes, Call(t, name, g)
      PROVE  ToldInv'
  <2>1. \A u \in Threads :
          pc'[u] = "add_lock" \/ InAdd(u)' => ~ (call'[u] = "addString" /\ known'[u])
    BY <1>0, <1>1 DEF Call, ToldInv, InAdd, TypeOK
  <2>2. told' = told /\ added' = added
    BY <1>1 DEF Call
  <2>3. ASSUME NEW u \in Threads, NEW h \in Hashes,
               told[u][h] > 0, pc'[u] # "idle", hash'[u] = h
        PROVE  known'[u]
    <3>1. CASE u = t
      <4>1. h \in added /\ known'[t] = (g \in added) /\ hash'[t] = g
        BY <1>0, <1>1, <2>3, <3>1 DEF Call, ToldInv, TypeOK
      <4>2. QED  BY <2>3, <3>1, <4>1
    <3>2. CASE u # t
      BY <1>0, <1>1, <2>3, <3>2 DEF Call, ToldInv, TypeOK
    <3>3. QED  BY <3>1, <3>2
  <2>4. QED  BY <2>1, <2>2, <2>3 DEF ToldInv
<1>2. ASSUME NEW t \in Threads,
             \/ AddLock(t) \/ AddProbe(t) \/ LoadByte(t) \/ StoreByte(t)
             \/ AddCount(t) \/ QueryLock(t) \/ QueryProbe(t) \/ QueryDone(t)
      PROVE  ToldInv'
  <2>1. /\ UNCHANGED << call, hash, known, added, told >>
        /\ \A u \in Threads :
             /\ pc'[u] # "idle" => pc[u] # "idle"
             /\ pc'[u] = "add_lock" \/ InAdd(u)' => pc[u] = "add_lock" \/ InAdd(u)
    BY <1>0, <1>2
    DEF AddLock, AddProbe, LoadByte, StoreByte, AddCount, QueryLock, QueryProbe, QueryDone,
        shared, history, InAdd, TypeOK
  <2>2. \A u \in Threads :
          pc'[u] = "add_lock" \/ InAdd(u)' => ~ (call'[u] = "addString" /\ known'[u])
    BY <2>1 DEF ToldInv
  <2>3. QED  BY <2>1, <2>2, ToldStays
<1>3. ASSUME NEW t \in Threads, AddUnlock(t)
      PROVE  ToldInv'
  <2>1. /\ UNCHANGED << call, hash, known >>
        /\ pc[t] = "add_unlock" /\ InAdd(t) /\ pc'[t] = "idle"
        /\ \A u \in Threads : u # t => pc'[u] = pc[u]
        /\ added' = added \cup {hash[t]}
        /\ told' = [told EXCEPT ![t][hash[t]] = IF call[t] = "addString" THEN @ + 1 ELSE @]
    BY <1>0, <1>3 DEF AddUnlock, InAdd, TypeOK
  <2>2. \A u \in Threads :
          pc'[u] = "add_lock" \/ InAdd(u)' => ~ (call'[u] = "addString" /\ known'[u])
    BY <2>1 DEF ToldInv, InAdd
  <2>3. ASSUME NEW u \in Threads, NEW h \in Hashes
        PROVE  /\ told'[u][h] <= 1
               /\ told'[u][h] > 0 => h \in added'
               /\ told'[u][h] > 0 /\ pc'[u] # "idle" /\ hash'[u] = h => known'[u]
    <3>1. CASE u = t /\ h = hash[t] /\ call[t] = "addString"
      <4>1. told'[u][h] = told[t][h] + 1
        BY <1>0, <2>1, <3>1 DEF TypeOK
      <4>2. ~ known[t]
        BY <2>1, <3>1 DEF ToldInv
      <4>3. ~ (told[t][h] > 0)
        BY <2>1, <3>1, <4>2 DEF ToldInv
      <4>4. told'[u][h] = 1
        BY <1>0, <4>1, <4>3
      <4>5. QED  BY <2>1, <3>1, <4>4
    <3>2. CASE ~ (u = t /\ h = hash[t] /\ call[t] = "addString")
      <4>1. told'[u][h] = told[u][h]
        BY <1>0, <2>1, <3>2 DEF TypeOK
      <4>2. QED  BY <2>1, <4>1 DEF ToldInv
    <3>3. QED  BY <3>1, <3>2
  <2>4. QED  BY <2>2, <2>3 DEF ToldInv
<1>4. ASSUME NEW t \in Threads, QueryUnlock(t)
      PROVE  ToldInv'
  <2>1. /\ UNCHANGED << call, hash, known, added, told >>
        /\ pc[t] = "query_unlock"
        /\ \A u \in Threads : u # t => pc'[u] = pc[u]
        /\ pc'[t] \in {"add_lock", "idle"}
        /\ pc'[t] = "add_lock" => found[t] = 0
    BY <1>0, <1>4 DEF QueryUnlock, history, TypeOK
  <2>2. known[t] => found[t] # 0
    BY <2>1 DEF Inv, DataInv, Kept, KnownAdded, QueryProgress, InQuery
  <2>3. \A u \in Threads :
          pc'[u] = "add_lock" \/ InAdd(u)' => ~ (call'[u] = "addString" /\ known'[u])
    BY <2>1, <2>2 DEF ToldInv, InAdd
  <2>4. QED  BY <2>1, <2>3, ToldStays
<1>5. CASE UNCHANGED vars
  BY <1>5 DEF vars, locals, history, ToldInv, InAdd
<1>6. QED
  BY <1>1, <1>2, <1>3, <1>4, <1>5 DEF Next, Step

(***************************************************************************)
(* However the query and the add of nsrl_bloom_addString interleave with   *)
(* the calls of others, a string is new to each thread once at most.       *)
(***************************************************************************)
THEOREM ToldOnce == Spec => []FirstIsToldOncePerThread
<1>1. Init => ToldInv
  BY DEF Init, ToldInv, InAdd
<1>2. ToldInv => FirstIsToldOncePerThread
  BY DEF ToldInv, FirstIsToldOncePerThread
<1>3. QED  BY SpecInv, ToldStep, <1>1, <1>2, PTL DEF Spec
-----------------------------------------------------------------------------
(***************************************************************************)
(* Refinement of BloomSet.  AbsPresent and AbsPhases name the terms that   *)
(* the refinement mapping substitutes for present and phase.               *)
(***************************************************************************)
AbsPresent == { h \in Hashes : FoundIn(vector, h) }
\* The phases the refinement mapping substitutes.
AbsPhases  == [t \in Threads |-> AbsPhase(t)]

\* Initial states are initial states of the abstract set.
LEMMA RefinementInit == Init => ApproximateSet!AbsInit
<1> SUFFICES ASSUME Init PROVE ApproximateSet!AbsInit
  OBVIOUS
<1>1. ASSUME NEW h \in Hashes PROVE ~ FoundIn(vector, h)
  <2>1. slice[h][0] \in BitsOf(h)
    BY BloomAssumption DEF BitsOf
  <2>2. QED  BY <2>1 DEF FoundIn, Init
<1>2. \A t \in Threads : AbsPhase(t) = "idle"
  BY DEF Init, AbsPhase
<1>3. hash \in [Threads -> Hashes]
  BY InitInv DEF Inv, TypeInv, TypeOK
<1>4. QED  BY <1>1, <1>2, <1>3 DEF ApproximateSet!AbsInit

\* A step of t that leaves the vector alone moves at most t's phase.
LEMMA PhaseMoves ==
  ASSUME TypeInv, NEW t \in Threads, NEW p, NEW q,
         vector' = vector,
         pc' = [pc EXCEPT ![t] = q],
         \A u \in Threads : u # t => found'[u] = found[u],
         AbsPhase(t)' = p
  PROVE  /\ AbsPhases' = [AbsPhases EXCEPT ![t] = p]
         /\ AbsPresent' = AbsPresent
<1>1. \A u \in Threads : u # t => pc'[u] = pc[u]
  BY DEF TypeInv, TypeOK
<1>2. \A u \in Threads : u # t => AbsPhase(u)' = AbsPhase(u)
  BY <1>1 DEF AbsPhase
<1>3. QED  BY <1>2 DEF AbsPhases, AbsPresent, FoundIn

\* A step is a step of the abstract set or leaves it as it is.
LEMMA RefinementStep ==
  Inv /\ [Next]_vars => [ApproximateSet!AbsNext]_(ApproximateSet!absvars)
<1> SUFFICES ASSUME Inv, [Next]_vars
             PROVE  [ApproximateSet!AbsNext]_(ApproximateSet!absvars)
  OBVIOUS
<1> USE DEF Inv, TypeInv
<1>1. ASSUME NEW t \in Threads, NEW name \in {"add", "query", "addString"},
             NEW h \in Hashes, Call(t, name, h)
      PROVE  ApproximateSet!AbsNext
  <2>1. /\ pc[t] = "idle" /\ AbsPhase(t) = "idle"
        /\ hash' = [hash EXCEPT ![t] = h]
        /\ AbsPhase(t)' \in {"asking", "adding"}
    BY <1>1 DEF Call, AbsPhase, TypeOK
  <2>2. /\ AbsPhases' = [AbsPhases EXCEPT ![t] = AbsPhase(t)']
        /\ AbsPresent' = AbsPresent
    BY <1>1, PhaseMoves DEF Call, shared
  <2>3. ApproximateSet!Start(t, h)
    BY <2>1, <2>2 DEF AbsPhases, AbsPresent, ApproximateSet!Start
  <2>4. QED  BY <2>3 DEF ApproximateSet!AbsNext
<1>2. ASSUME NEW t \in Threads,
             AddLock(t) \/ AddProbe(t) \/ LoadByte(t) \/ AddCount(t)
      PROVE  UNCHANGED ApproximateSet!absvars
  <2>1. AbsPhase(t) = "adding" /\ AbsPhase(t)' = "adding"
    BY <1>2 DEF AddLock, AddProbe, LoadByte, AddCount, AbsPhase, TypeOK
  <2>2. /\ vector' = vector /\ hash' = hash /\ found' = found
        /\ \A u \in Threads : u # t => pc'[u] = pc[u]
    BY <1>2 DEF AddLock, AddProbe, LoadByte, AddCount, shared, TypeOK
  <2>3. \A u \in Threads : AbsPhase(u)' = AbsPhase(u)
    BY <2>1, <2>2 DEF AbsPhase
  <2>4. QED  BY <2>2, <2>3 DEF ApproximateSet!absvars, FoundIn
<1>3. ASSUME NEW t \in Threads, StoreByte(t)
      PROVE  ApproximateSet!AbsNext
  <2>1. /\ AbsPhase(t) = "adding" /\ AbsPhase(t)' = "adding"
        /\ hash' = hash /\ found' = found
        /\ \A u \in Threads : u # t => pc'[u] = pc[u]
    BY <1>3 DEF StoreByte, AbsPhase, TypeOK
  <2>2. \A u \in Threads : AbsPhase(u)' = AbsPhase(u)
    BY <2>1 DEF AbsPhase
  <2>3. vector \subseteq vector'
    BY <1>3, StoreAddsBit
  <2>4. AbsPresent \subseteq AbsPresent' /\ AbsPresent' \in SUBSET Hashes
    BY <2>3 DEF AbsPresent, FoundIn
  <2>5. AbsPhases' = AbsPhases /\ AbsPhases[t] = "adding"
    BY <2>1, <2>2 DEF AbsPhases
  <2>6. ApproximateSet!Grow(t)
    BY <2>1, <2>4, <2>5 DEF AbsPhases, AbsPresent, ApproximateSet!Grow
  <2>7. QED  BY <2>6 DEF ApproximateSet!AbsNext
<1>4. ASSUME NEW t \in Threads, AddUnlock(t)
      PROVE  ApproximateSet!AbsNext
  <2>1. /\ AbsPhase(t) = "adding" /\ AbsPhase(t)' = "idle"
        /\ hash' = hash
    BY <1>4 DEF AddUnlock, AbsPhase, TypeOK
  <2>2. FoundIn(vector, hash[t])
    BY <1>4, BloomAssumption
    DEF AddUnlock, DataInv, AddProgress, Loops, InAdd, FoundIn, BitsOf
  <2>3. hash[t] \in AbsPresent
    BY <2>2 DEF AbsPresent, TypeOK
  <2>4. /\ AbsPhases' = [AbsPhases EXCEPT ![t] = "idle"]
        /\ AbsPresent' = AbsPresent
    BY <1>4, <2>1, PhaseMoves DEF AddUnlock, Forget, TypeOK
  <2>5. ApproximateSet!AddReturn(t)
    BY <2>1, <2>3, <2>4 DEF AbsPhases, AbsPresent, ApproximateSet!AddReturn
  <2>6. QED  BY <2>5 DEF ApproximateSet!AbsNext
<1>5. ASSUME NEW t \in Threads, QueryLock(t) \/ QueryProbe(t)
      PROVE  UNCHANGED ApproximateSet!absvars
  <2>1. AbsPhase(t) = "asking" /\ AbsPhase(t)' = "asking"
    BY <1>5 DEF QueryLock, QueryProbe, AbsPhase, TypeOK
  <2>2. /\ vector' = vector /\ hash' = hash
        /\ \A u \in Threads : u # t => pc'[u] = pc[u] /\ found'[u] = found[u]
    BY <1>5 DEF QueryLock, QueryProbe, shared, TypeOK
  <2>3. \A u \in Threads : AbsPhase(u)' = AbsPhase(u)
    BY <2>1, <2>2 DEF AbsPhase
  <2>4. QED  BY <2>2, <2>3 DEF ApproximateSet!absvars, FoundIn
<1>6. ASSUME NEW t \in Threads, QueryDone(t)
      PROVE  ApproximateSet!AbsNext
  <2>1. /\ AbsPhase(t) = "asking" /\ hash' = hash /\ found' = found
        /\ AbsPhase(t)' = IF found[t] = 1 THEN "yes" ELSE "no"
    BY <1>6 DEF QueryDone, AbsPhase, TypeOK
  <2>2. found[t] = 1 <=> FoundIn(vector, hash[t])
    <3>1. found[t] = 0 => ~ FoundIn(vector, hash[t])
      BY <1>6 DEF QueryDone, DataInv, QueryProgress, InQuery
    <3>2. ASSUME found[t] = 1 PROVE FoundIn(vector, hash[t])
      <4>1. i[t] = k /\ \A j \in 0 .. i[t] - 1 : slice[hash[t]][j] \in vector
        BY <1>6, <3>2 DEF QueryDone, DataInv, QueryProgress, InQuery
      <4>2. QED  BY <4>1 DEF FoundIn, BitsOf
    <3>3. QED  BY <3>1, <3>2 DEF TypeOK
  <2>3. hash[t] \in AbsPresent <=> found[t] = 1
    BY <2>2 DEF AbsPresent, TypeOK
  <2>4. /\ AbsPhases' = [AbsPhases EXCEPT ![t] = AbsPhase(t)']
        /\ AbsPresent' = AbsPresent
    BY <1>6, <2>1, PhaseMoves DEF QueryDone
  <2>5. ApproximateSet!Answer(t)
    BY <2>1, <2>3, <2>4 DEF AbsPhases, AbsPresent, ApproximateSet!Answer
  <2>6. QED  BY <2>5 DEF ApproximateSet!AbsNext
<1>7. ASSUME NEW t \in Threads, QueryUnlock(t)
      PROVE  ApproximateSet!AbsNext
  <2>1. /\ AbsPhase(t) \in {"yes", "no"} /\ hash' = hash
        /\ AbsPhase(t) = "yes" => AbsPhase(t)' = "idle"
        /\ AbsPhase(t)' \in {"idle", "adding"}
    BY <1>7 DEF QueryUnlock, AbsPhase, TypeOK
  <2>2. /\ AbsPhases' = [AbsPhases EXCEPT ![t] = AbsPhase(t)']
        /\ AbsPresent' = AbsPresent
    BY <1>7, PhaseMoves DEF QueryUnlock, Forget, TypeOK
  <2>3. ApproximateSet!QueryReturn(t) \/ ApproximateSet!GoOn(t)
    BY <2>1, <2>2
    DEF AbsPhases, AbsPresent, ApproximateSet!QueryReturn, ApproximateSet!GoOn
  <2>4. QED  BY <2>3 DEF ApproximateSet!AbsNext
<1>8. CASE UNCHANGED vars
  BY <1>8 DEF vars, shared, locals, ApproximateSet!absvars, AbsPhase, FoundIn
<1>9. QED
  BY <1>1, <1>2, <1>3, <1>4, <1>5, <1>6, <1>7, <1>8 DEF Next, Step

(***************************************************************************)
(* The mutex-protected filter of bloom.c implements the approximate set:   *)
(* each query takes effect at one instant, whatever the other threads do.  *)
(***************************************************************************)
THEOREM Refinement == Spec => ImplementsBloomSet
<1>1. QED
  BY SpecInv, RefinementInit, RefinementStep, PTL
  DEF Spec, ImplementsBloomSet, ApproximateSet!AbsSpec
-----------------------------------------------------------------------------
(***************************************************************************)
(* What a filter looks like, for any size of a byte, a word, a hash and a  *)
(* vector, and any files that exist.                                       *)
(***************************************************************************)
\* The lines of a header.
Headers == Seq([key : STRING, value : Nat])

\* What BloomFormatAssumption says of the constants.
LEMMA FormatConstants ==
  /\ BytePower \in Nat
  /\ Word \in Nat \ {0}
  /\ DigestBytes \cup HashBits \cup BloomBits \cup Ks \subseteq 0 .. Word - 1
  /\ IntValues \in Nat /\ Comments \subseteq Nat
  /\ Digests \subseteq Seq(0 .. shifted[ByteBits] - 1)
  /\ Given \subseteq [header : Headers, vector : SUBSET Nat]
BY BloomFormatAssumption DEF BloomFormatAssumption, Headers

\* An element of a sequence.
LEMMA ElementOf ==
  ASSUME NEW S, NEW q \in Seq(S), NEW j \in DOMAIN q
  PROVE  q[j] \in S
OBVIOUS

\* A set of natural numbers that has a bound has a greatest one.
LEMMA GreatestNatural ==
  ASSUME NEW bound \in Nat, NEW S, S \subseteq 0 .. bound, S # {}
  PROVE  \E x \in S : \A y \in S : y <= x
<1> DEFINE T == { bound - y : y \in S }
<1>1. T \subseteq Nat /\ T # {}
  <2>1. \A y \in S : bound - y \in Nat
    OBVIOUS
  <2>2. QED  BY <2>1
<1>2. PICK d \in T : \A y \in T : d <= y
  BY <1>1, LeastNatural
<1>3. PICK x \in S : d = bound - x
  BY <1>2
<1>4. \A y \in S : bound - x <= bound - y
  BY <1>2, <1>3
<1>5. QED  BY <1>3, <1>4

(***************************************************************************)
(* Powers of two.                                                          *)
(***************************************************************************)
\* Two iterations of the same step agree.
LEMMA IterationsAgree ==
  ASSUME NEW S, NEW first, first \in S, NEW step, step \in Steps(S),
         NEW m, m \in Nat, NEW n, n \in Nat, m <= n,
         NEW g, NEW h, IsIteration(g, S, first, step, m), IsIteration(h, S, first, step, n)
  PROVE  \A j \in 0 .. m : g[j] = h[j]
<1> DEFINE Good == { j \in Nat : j <= m => g[j] = h[j] }
<1>1. 0 \in Good
  BY DEF IsIteration
<1>2. ASSUME NEW j \in Nat, j \in Good
      PROVE  j + 1 \in Good
  <2> SUFFICES ASSUME j + 1 <= m PROVE g[j + 1] = h[j + 1]
    OBVIOUS
  <2>1. j \in 0 .. m - 1 /\ j \in 0 .. n - 1 /\ g[j] = h[j]
    BY <1>2
  <2>2. QED  BY <2>1 DEF IsIteration
<1> HIDE DEF Good
<1>3. Nat \subseteq Good
  BY <1>1, <1>2, NaturalInduction
<1>4. QED  BY <1>3 DEF Good

\* There are powers of two: the CHOOSE in their definition finds them.
LEMMA Shifted ==
  /\ shifted[0] = 1
  /\ \A n \in Nat : shifted[n + 1] = 2 * shifted[n]
<1> DEFINE P(f) == f = [n \in Nat |-> IF n = 0 THEN 1 ELSE 2 * f[n - 1]]
           step == [b \in Nat |-> [last \in Nat |-> 2 * last]]
           It(g, n) == IsIteration(g, Nat, 1, step, n)
           upto(n) == CHOOSE g : It(g, n)
           two == [n \in Nat |-> upto(n)[n]]
<1>1. step \in Steps(Nat) /\ \A b \in Nat, last \in Nat : step[b][last] = 2 * last
  BY DEF Steps
<1> HIDE DEF step
<1>2. \A n \in Nat : It(upto(n), n)
  BY <1>1, Iterates
<1> HIDE DEF upto
<1>3. \A n \in Nat : /\ upto(n)[n] \in Nat
                     /\ upto(n)[0] = 1
  BY <1>2 DEF IsIteration
<1>4. ASSUME NEW n \in Nat
      PROVE  upto(n + 1)[n + 1] = 2 * upto(n)[n]
  <2>1. n \in 0 .. (n + 1) - 1 /\ n \in 0 .. n /\ n <= n + 1 /\ n + 1 \in Nat
    OBVIOUS
  <2>2. upto(n + 1)[n + 1] = step[n + 1][upto(n + 1)[n]]
    BY <1>2, <2>1 DEF IsIteration
  <2>3. It(upto(n), n) /\ It(upto(n + 1), n + 1)
    BY <1>2, <2>1
  <2>4. upto(n + 1)[n] = upto(n)[n]
    <3> DEFINE g == upto(n)
               h == upto(n + 1)
               m == n + 1
               one == 1
    <3>1. IsIteration(g, Nat, one, step, n) /\ IsIteration(h, Nat, one, step, m)
      BY <2>3
    <3>2. m \in Nat /\ n <= m /\ one \in Nat /\ n \in Nat /\ step \in Steps(Nat)
      BY <1>1
    <3> HIDE DEF g, h, m, one
    <3>3. \A j \in 0 .. n : g[j] = h[j]
      BY ONLY <3>1, <3>2, IterationsAgree
    <3>4. QED  BY <2>1, <3>3 DEF g, h
  <2>5. QED  BY <1>1, <1>3, <2>1, <2>2, <2>4
<1>5. P(two)
  <2>1. two[0] = 1
    BY <1>3
  <2>2. ASSUME NEW n \in Nat, n # 0
        PROVE  two[n] = 2 * two[n - 1]
    <3>1. n - 1 \in Nat /\ (n - 1) + 1 = n
      BY <2>2
    <3>2. upto((n - 1) + 1)[(n - 1) + 1] = 2 * upto(n - 1)[n - 1]
      BY <1>4, <3>1
    <3>3. QED  BY <3>1, <3>2
  <2>3. two = [n \in Nat |-> two[n]]
    OBVIOUS
  <2> HIDE DEF two
  <2>4. QED  BY <2>1, <2>2, <2>3
<1>6. shifted = CHOOSE f : P(f)
  BY DEF shifted
<1> HIDE DEF P
<1>7. P(shifted)
  BY <1>5, <1>6
<1>8. shifted = [n \in Nat |-> IF n = 0 THEN 1 ELSE 2 * shifted[n - 1]]
  BY <1>7 DEF P
<1>9. QED
  <2>1. \A n \in Nat : n + 1 \in Nat /\ n + 1 # 0 /\ (n + 1) - 1 = n
    OBVIOUS
  <2>2. QED  BY <1>8, <2>1

\* A power of two is positive.
LEMMA ShiftedPositive ==
  \A n \in Nat : shifted[n] \in Nat \ {0}
<1> DEFINE Good == { n \in Nat : shifted[n] \in Nat \ {0} }
<1>1. 0 \in Good /\ \A n \in Nat : n \in Good => n + 1 \in Good
  BY Shifted
<1> HIDE DEF Good
<1>2. Nat \subseteq Good
  BY <1>1, NaturalInduction
<1>3. QED  BY <1>2 DEF Good

\* Powers are added by multiplying.
LEMMA ShiftedSum ==
  ASSUME NEW a \in Nat, NEW b \in Nat
  PROVE  shifted[a + b] = shifted[a] * shifted[b]
<1> DEFINE Good == { n \in Nat : shifted[a + n] = shifted[a] * shifted[n] }
<1>1. 0 \in Good
  <2>1. a + 0 = a /\ shifted[a] \in Nat
    BY ShiftedPositive
  <2>2. QED  BY <2>1, Shifted
<1>2. ASSUME NEW n \in Nat, n \in Good
      PROVE  n + 1 \in Good
  <2>1. a + n \in Nat /\ a + (n + 1) = (a + n) + 1
    OBVIOUS
  <2>2. shifted[(a + n) + 1] = 2 * (shifted[a] * shifted[n])
    BY <1>2, <2>1, Shifted
  <2>3. shifted[n + 1] = 2 * shifted[n]
    BY Shifted
  <2>4. \A x, y \in Nat : 2 * (x * y) = x * (2 * y)
    OBVIOUS
  <2>5. 2 * (shifted[a] * shifted[n]) = shifted[a] * (2 * shifted[n])
    BY <2>4, ShiftedPositive
  <2>6. QED  BY <2>1, <2>2, <2>3, <2>5
<1> HIDE DEF Good
<1>3. Nat \subseteq Good
  BY <1>1, <1>2, NaturalInduction
<1>4. QED  BY <1>3 DEF Good

(***************************************************************************)
(* The slices of a hash.                                                   *)
(***************************************************************************)
\* A hash of n bytes.
Hashed(digest, n) ==
  /\ digest \in Seq(0 .. shifted[ByteBits] - 1)
  /\ Len(digest) = n

\* A byte has bits.
LEMMA ByteHasBits ==
  ByteBits \in Nat \ {0}
BY ShiftedPositive, FormatConstants DEF ByteBits

\* A bit inside the hash is 0 or 1.
LEMMA BitIsBit ==
  ASSUME NEW n \in Nat, NEW digest, Hashed(digest, n),
         NEW bit \in 0 .. n * ByteBits - 1
  PROVE  get_bit(digest, bit) \in {0, 1}
<1> DEFINE B == ByteBits
           q == bit \div B
           r == bit % B
<1>1. B \in Nat \ {0} /\ n * B \in Nat
  BY ByteHasBits
<1> HIDE DEF B
<1>2. bit \in Nat /\ bit < n * B
  BY <1>1 DEF B
<1>3. q \in Nat /\ r \in Nat /\ bit = B * q + r /\ r < B
  BY <1>1, <1>2
<1> HIDE DEF q, r
<1>4. q < n
  <2> SUFFICES ASSUME q >= n PROVE FALSE
    BY <1>3
  <2>1. \A x, y, z \in Nat : x >= y => z * x >= y * z
    OBVIOUS
  <2>2. B * q >= n * B
    BY <1>1, <1>3, <2>1
  <2>3. B * q \in Nat
    BY <1>1, <1>3
  <2>4. QED  BY <1>1, <1>2, <1>3, <2>2, <2>3
<1>5. digest[q + 1] \in Nat
  <2>1. shifted[B] \in Nat
    BY <1>1, ShiftedPositive
  <2>2. digest \in Seq(0 .. shifted[B] - 1) /\ q + 1 \in DOMAIN digest
    BY <1>3, <1>4 DEF Hashed, B
  <2> DEFINE top == shifted[B]
  <2> HIDE DEF top
  <2>3. digest[q + 1] \in 0 .. top - 1
    BY <2>2, ElementOf DEF top
  <2>4. QED  BY <2>1, <2>3 DEF top
<1>6. shifted[r] \in Nat \ {0}
  BY <1>3, ShiftedPositive
<1>7. \A x \in Nat, y \in Nat \ {0} : (x \div y) % 2 \in {0, 1}
  OBVIOUS
<1>8. bitOf(digest[q + 1], r) \in {0, 1}
  BY <1>5, <1>6, <1>7 DEF bitOf
<1>9. QED  BY <1>8 DEF get_bit, q, r, B

\* A slice of M bits is less than the M-th power of two.
LEMMA SliceIsSmall ==
  ASSUME NEW n \in Nat, NEW digest, Hashed(digest, n),
         NEW M \in Nat, NEW b \in Nat,
         \A j \in 0 .. M - 1 : bitOffset(M, b, j) \in 0 .. n * ByteBits - 1
  PROVE  sliceOf(M, digest, b) \in 0 .. shifted[M] - 1
<1> DEFINE bit(j) == get_bit(digest, bitOffset(M, b, j - 1))
           P(v) == v = [j \in 0 .. M |-> IF j = 0 THEN 0 ELSE 2 * v[j - 1] + bit(j)]
           step == [j \in Nat |-> [last \in Nat |-> IF j \in 1 .. M THEN 2 * last + bit(j) ELSE 0]]
<1>1. \A j \in 1 .. M : bit(j) \in {0, 1}
  <2> SUFFICES ASSUME NEW j \in 1 .. M PROVE bit(j) \in {0, 1}
    OBVIOUS
  <2>1. j - 1 \in 0 .. M - 1
    OBVIOUS
  <2>2. bitOffset(M, b, j - 1) \in 0 .. n * ByteBits - 1
    BY <2>1
  <2>3. QED  BY <2>2, BitIsBit
<1>2. sliceOf(M, digest, b) = (CHOOSE v : P(v))[M]
  BY DEF sliceOf
<1> HIDE DEF bit
<1>3. step \in Steps(Nat) /\ 0 \in Nat
  <2>1. \A j \in 1 .. M, last \in Nat : 2 * last + bit(j) \in Nat
    BY <1>1
  <2>2. QED  BY <2>1 DEF Steps
<1>4. \A j \in 1 .. M, last \in Nat : step[j][last] = 2 * last + bit(j)
  OBVIOUS
<1> HIDE DEF step
<1>5. PICK g : IsIteration(g, Nat, 0, step, M)
  BY ONLY <1>3, M \in Nat, Iterates
<1>6. /\ g \in [0 .. M -> Nat]
      /\ g[0] = 0
      /\ \A j \in 0 .. M - 1 : g[j + 1] = step[j + 1][g[j]]
  BY <1>5 DEF IsIteration
<1>7. ASSUME NEW j \in 0 .. M, j # 0
      PROVE  g[j] = 2 * g[j - 1] + bit(j)
  <2>1. j - 1 \in 0 .. M - 1 /\ (j - 1) + 1 = j /\ j - 1 \in 0 .. M /\ j \in 1 .. M
    BY <1>7
  <2>2. g[j - 1] \in Nat
    BY <1>6, <2>1
  <2>3. g[(j - 1) + 1] = step[(j - 1) + 1][g[j - 1]]
    BY <1>6, <2>1
  <2>4. QED  BY <1>4, <2>1, <2>2, <2>3
<1>8. P(g)
  BY <1>6, <1>7
<1> DEFINE v == CHOOSE u : P(u)
<1> HIDE DEF P
<1>9. P(v)
  BY <1>8
<1>10. v = [j \in 0 .. M |-> IF j = 0 THEN 0 ELSE 2 * v[j - 1] + bit(j)]
  BY <1>9 DEF P
<1> HIDE DEF v
<1> DEFINE Good == { j \in Nat : j <= M => v[j] \in Nat /\ v[j] < shifted[j] }
<1>11. 0 \in Good
  <2>1. v[0] = 0
    BY <1>10
  <2>2. QED  BY <2>1, Shifted
<1>12. ASSUME NEW j \in Nat, j \in Good
       PROVE  j + 1 \in Good
  <2> SUFFICES ASSUME j + 1 <= M PROVE v[j + 1] \in Nat /\ v[j + 1] < shifted[j + 1]
    OBVIOUS
  <2>1. v[j] \in Nat /\ v[j] < shifted[j] /\ shifted[j] \in Nat
    BY <1>12, ShiftedPositive
  <2>2. j + 1 \in 0 .. M /\ j + 1 # 0 /\ (j + 1) - 1 = j /\ j + 1 \in 1 .. M
    OBVIOUS
  <2>3. v[j + 1] = 2 * v[j] + bit(j + 1)
    BY <1>10, <2>2
  <2>4. bit(j + 1) \in {0, 1}
    BY <1>1, <2>2
  <2>5. shifted[j + 1] = 2 * shifted[j]
    BY Shifted
  <2>6. QED  BY <2>1, <2>3, <2>4, <2>5
<1> HIDE DEF Good
<1>13. Nat \subseteq Good
  BY <1>11, <1>12, NaturalInduction
<1>14. v[M] \in Nat /\ v[M] < shifted[M] /\ shifted[M] \in Nat
  BY <1>13, ShiftedPositive DEF Good
<1>15. QED  BY <1>2, <1>14 DEF v

(***************************************************************************)
(* Filters.                                                                *)
(***************************************************************************)
\* The nsrl_bloom object.
IsObject(o) ==
  /\ o = [hash_bytes |-> o.hash_bytes, M |-> o.M, k |-> o.k, vector |-> o.vector,
          added_items |-> o.added_items, unique_added_items |-> o.unique_added_items,
          aliased_adds |-> o.aliased_adds, comment |-> o.comment]
  /\ o.hash_bytes \in Nat
  /\ o.hash_bytes * ByteBits < Word
  /\ o.M \in 0 .. Word - 1 /\ o.k \in 0 .. Word - 1
  /\ o.vector \subseteq 0 .. shifted[o.M] - 1
  /\ o.added_items \in Nat /\ o.unique_added_items \in Nat /\ o.aliased_adds \in Nat
  /\ o.comment \in Nat

\* The place of a bit is a number of 32 bits.
LEMMA BitOffsetIs ==
  ASSUME NEW M \in Nat, NEW b \in Nat, NEW j \in Nat
  PROVE  bitOffset(M, b, j) \in Nat
<1>1. Word \in Nat \ {0}
  BY FormatConstants
<1>2. \A x \in Nat : x % Word \in Nat
  BY <1>1
<1>3. b * M \in Nat
  OBVIOUS
<1>4. (b * M) % Word \in Nat
  BY <1>2, <1>3
<1>5. ((b * M) % Word) + j \in Nat
  BY <1>4
<1>6. QED  BY <1>2, <1>5 DEF bitOffset

\* If the parameters fit no slice reaches out of the hash, and so the place of
\* no bit is cut off by 32 bits.
LEMMA SliceInHash ==
  ASSUME NEW o, IsObject(o), fits(o), NEW b \in 0 .. o.k - 1
  PROVE  isInside(o, b)
<1> DEFINE M == o.M
           functions == o.k
           bits == o.hash_bytes * ByteBits
<1>1. Word \in Nat \ {0} /\ M \in Nat /\ functions \in Nat /\ bits \in Nat
  BY ByteHasBits, FormatConstants DEF IsObject
<1>2. M * functions <= bits /\ bits < Word
  BY DEF fits, IsObject
<1> SUFFICES ASSUME NEW j \in 0 .. M - 1
             PROVE  bitOffset(M, b, j) < bits
  BY DEF isInside
<1> HIDE DEF M, functions, bits
<1>3. b \in Nat /\ b + 1 <= functions
  BY <1>1 DEF functions
<1>4. b * M \in Nat /\ b * M + M <= bits
  <2>1. \A x, y, z \in Nat : x + 1 <= y => x * z \in Nat /\ z * y \in Nat /\ x * z + z <= z * y
    OBVIOUS
  <2>2. b * M \in Nat /\ M * functions \in Nat /\ b * M + M <= M * functions
    BY <1>1, <1>3, <2>1
  <2>3. QED  BY <1>1, <1>2, <2>2
<1> DEFINE first == b * M
<1>5. first \in Nat /\ first + M <= bits
  BY <1>4
<1>6. bitOffset(M, b, j) = ((first % Word) + j) % Word
  BY DEF bitOffset
<1> HIDE DEF first
<1>7. j \in Nat /\ first < Word /\ first + j < bits
  BY <1>1, <1>2, <1>5
<1>8. first % Word = first
  BY <1>1, <1>5, <1>7
<1>9. (first + j) % Word = first + j
  <2> DEFINE x == first + j
  <2>1. x \in Nat /\ x < Word
    BY <1>1, <1>2, <1>5, <1>7
  <2> HIDE DEF x
  <2>2. x % Word = x
    BY <1>1, <2>1
  <2>3. QED  BY <2>2 DEF x
<1>10. QED  BY <1>6, <1>7, <1>8, <1>9

\* The slices of a hash are bits of a vector of 2^M.
LEMMA SlicesAreBits ==
  ASSUME NEW o, IsObject(o),
         NEW digest \in Digests, Len(digest) = o.hash_bytes
  PROVE  slices(o, digest) \subseteq 0 .. shifted[o.M] - 1
<1> SUFFICES ASSUME NEW u \in slices(o, digest)
             PROVE  u \in 0 .. shifted[o.M] - 1
  OBVIOUS
<1>1. o.M \in Nat /\ o.hash_bytes \in Nat /\ o.k \in Nat
  BY FormatConstants DEF IsObject
<1>2. PICK b \in inside(o) : u = sliceOf(o.M, digest, b)
  BY DEF slices
<1>3. b \in Nat /\ isInside(o, b)
  BY <1>1, <1>2 DEF inside
<1>4. \A j \in 0 .. o.M - 1 : bitOffset(o.M, b, j) \in 0 .. o.hash_bytes * ByteBits - 1
  <2> SUFFICES ASSUME NEW j \in 0 .. o.M - 1
               PROVE  bitOffset(o.M, b, j) \in 0 .. o.hash_bytes * ByteBits - 1
    OBVIOUS
  <2>1. bitOffset(o.M, b, j) < o.hash_bytes * ByteBits
    BY <1>3 DEF isInside
  <2>2. j \in Nat
    BY <1>1
  <2>3. bitOffset(o.M, b, j) \in Nat
    BY <1>1, <1>3, <2>2, BitOffsetIs
  <2>4. o.hash_bytes * ByteBits \in Nat
    BY <1>1, ByteHasBits
  <2>5. QED  BY <2>1, <2>3, <2>4
<1>5. Hashed(digest, o.hash_bytes)
  BY FormatConstants DEF Hashed
<1>6. QED
  BY <1>1, <1>2, <1>3, <1>4, <1>5, SliceIsSmall

\* A bit of a vector is in one of its bytes.
LEMMA BitInVector ==
  ASSUME NEW o, IsObject(o), o.M >= BytePower, NEW u \in 0 .. shifted[o.M] - 1
  PROVE  u \div ByteBits < vectorBytes(o)
<1>1. BytePower \in Nat /\ o.M \in Nat
  BY FormatConstants DEF IsObject
<1> DEFINE rest == o.M - BytePower
           all == shifted[o.M]
           bytes == shifted[rest]
           B == ByteBits
<1>2. rest \in Nat /\ o.M = rest + BytePower
  BY <1>1
<1>3. all = bytes * B
  <2> HIDE DEF rest
  <2>1. shifted[rest + BytePower] = shifted[rest] * shifted[BytePower]
    BY <1>1, <1>2, ShiftedSum
  <2>2. QED  BY <1>2, <2>1 DEF ByteBits
<1>4. bytes \in Nat /\ B \in Nat \ {0} /\ all \in Nat
  BY <1>1, <1>2, ShiftedPositive, ByteHasBits
<1>5. u \in Nat /\ u < all
  BY <1>4
<1> HIDE DEF all, bytes, B
<1> DEFINE q == u \div B
           r == u % B
<1>6. q \in Nat /\ r \in Nat /\ u = B * q + r
  BY <1>4, <1>5
<1> HIDE DEF q, r
<1>7. q < bytes
  <2> SUFFICES ASSUME q >= bytes PROVE FALSE
    BY <1>4, <1>6
  <2>1. \A x, y, z \in Nat : x >= y => z * x >= y * z
    OBVIOUS
  <2>2. B * q >= bytes * B /\ B * q \in Nat
    BY <1>4, <1>6, <2>1
  <2>3. QED  BY <1>3, <1>4, <1>5, <1>6, <2>2
<1>8. QED  BY <1>7 DEF q, B, bytes, vectorBytes

(***************************************************************************)
(* Headers.                                                                *)
(***************************************************************************)
\* Lines that have a value.
IsHeader(header) ==
  /\ Len(header) \in Nat
  /\ DOMAIN header = 1 .. Len(header)
  /\ \A j \in DOMAIN header : header[j].value \in Nat

\* The files that exist already have lines with a value.
LEMMA HeadersAre ==
  ASSUME NEW header \in Headers
  PROVE  IsHeader(header)
<1>1. Len(header) \in Nat /\ DOMAIN header = 1 .. Len(header)
  BY DEF Headers
<1>2. ASSUME NEW j \in DOMAIN header
      PROVE  header[j].value \in Nat
  <2>1. header[j] \in [key : STRING, value : Nat]
    BY ElementOf DEF Headers
  <2>2. QED  BY <2>1
<1>3. QED  BY <1>1, <1>2 DEF IsHeader

\* A value that is read is a number, or one of 32 bits.
LEMMA ValueIs ==
  ASSUME NEW header, IsHeader(header), NEW name
  PROVE  lastOf(header, name) \in Nat /\ valueOf(header, name) \in 0 .. Word - 1
<1> DEFINE J == {j \in DOMAIN header : header[j].key = name}
<1>1. Word \in Nat \ {0}
  BY FormatConstants
<1>2. lastOf(header, name) \in Nat
  <2>1. CASE J = {}
    BY <2>1 DEF lastOf
  <2>2. CASE J # {}
    <3>1. DOMAIN header = 1 .. Len(header) /\ Len(header) \in Nat
      BY DEF IsHeader
    <3>2. Max(J) \in J
      <4>1. J \subseteq 0 .. Len(header)
        BY <3>1
      <4>2. \E x \in J : \A y \in J : y <= x
        BY <2>2, <3>1, <4>1, GreatestNatural
      <4>3. \E x \in J : \A y \in J : x >= y
        BY <3>1, <4>2
      <4>4. QED  BY <4>3 DEF Max
    <3>3. header[Max(J)].value \in Nat
      BY <3>2 DEF IsHeader
    <3>4. QED  BY <2>2, <3>3 DEF lastOf
  <2>3. QED  BY <2>1, <2>2
<1>3. \A x \in Nat : x % Word \in 0 .. Word - 1
  BY <1>1
<1>4. QED  BY <1>2, <1>3 DEF valueOf

\* Reading the header that was written.
LEMMA InfoValue ==
  ASSUME NEW o, NEW j \in 1 .. 8
  PROVE  LET names == << "nsrl_bf_version", "hash_bits", "bloom_bits", "k", "added_items",
                         "unique_added_items", "aliased_adds", "comment" >>
         IN  lastOf(info(o), names[j]) = info(o)[j].value
<1> DEFINE names == << "nsrl_bf_version", "hash_bits", "bloom_bits", "k", "added_items",
                       "unique_added_items", "aliased_adds", "comment" >>
           header == info(o)
           J == {l \in DOMAIN header : header[l].key = names[j]}
<1>1. DOMAIN header = 1 .. 8
  BY DEF info
<1>2. \A l \in 1 .. 8 : header[l].key = names[l]
  BY DEF info, line
<1>3. \A l \in 1 .. 8 : names[l] = names[j] => l = j
  OBVIOUS
<1> HIDE DEF names, header
<1>4. J = {j}
  BY <1>1, <1>2, <1>3
<1>5. Max({j}) = j
  <2>1. \E x \in {j} : \A y \in {j} : x >= y
    OBVIOUS
  <2>2. QED  BY <2>1 DEF Max
<1>6. lastOf(header, names[j]) = header[Max(J)].value
  BY <1>4 DEF lastOf
<1>7. QED  BY <1>4, <1>5, <1>6 DEF names, header

\* The file gives back what was written into it.
LEMMA InfoParsed ==
  ASSUME NEW o, IsObject(o), NEW f, f.header = info(o)
  PROVE  /\ f.vector = o.vector =>
              parsed(f) = [o EXCEPT !.added_items = @ % Word,
                                    !.unique_added_items = @ % Word,
                                    !.aliased_adds = @ % Word,
                                    !.comment = IF @ = 0 THEN NullText ELSE @]
         /\ parsed(f).M = o.M /\ parsed(f).k = o.k
         /\ parsed(f).hash_bytes = o.hash_bytes
<1> DEFINE value(name) == valueOf(info(o), name)
           B == ByteBits
<1>1. /\ value("hash_bits") = info(o)[2].value % Word
      /\ value("bloom_bits") = info(o)[3].value % Word
      /\ value("k") = info(o)[4].value % Word
      /\ value("added_items") = info(o)[5].value % Word
      /\ value("unique_added_items") = info(o)[6].value % Word
      /\ value("aliased_adds") = info(o)[7].value % Word
      /\ lastOf(info(o), "comment") = info(o)[8].value
  <2> DEFINE names == << "nsrl_bf_version", "hash_bits", "bloom_bits", "k", "added_items",
                         "unique_added_items", "aliased_adds", "comment" >>
  <2>1. \A j \in 1 .. 8 : lastOf(info(o), names[j]) = info(o)[j].value
    BY InfoValue
  <2> DEFINE last(name) == lastOf(info(o), name)
             content(j) == info(o)[j].value
  <2>2. \A j \in 1 .. 8 : last(names[j]) = content(j)
    BY <2>1
  <2> HIDE DEF last, content
  <2>3. /\ last("hash_bits") = content(2) /\ last("bloom_bits") = content(3)
        /\ last("k") = content(4) /\ last("added_items") = content(5)
        /\ last("unique_added_items") = content(6) /\ last("aliased_adds") = content(7)
        /\ last("comment") = content(8)
    BY <2>2
  <2>4. QED  BY <2>3 DEF last, content, valueOf
<1>2. /\ info(o)[2].value = o.hash_bytes * B
      /\ info(o)[3].value = o.M
      /\ info(o)[4].value = o.k
      /\ info(o)[5].value = o.added_items
      /\ info(o)[6].value = o.unique_added_items
      /\ info(o)[7].value = o.aliased_adds
      /\ info(o)[8].value = IF o.comment = 0 THEN NullText ELSE o.comment
  BY DEF info, line
<1> HIDE DEF value, B
<1>3. B \in Nat \ {0} /\ Word \in Nat \ {0}
  BY ByteHasBits, FormatConstants DEF B
<1>4. /\ o.hash_bytes \in Nat /\ o.hash_bytes * B < Word
      /\ o.M \in 0 .. Word - 1 /\ o.k \in 0 .. Word - 1
  BY DEF IsObject, B
<1>5. o.M % Word = o.M /\ o.k % Word = o.k
  BY <1>3, <1>4
<1>6. ((o.hash_bytes * B) % Word) \div B = o.hash_bytes
  <2>1. \A x \in Nat, y \in Nat \ {0} : x * y \in Nat /\ (x * y) \div y = x
    <3> SUFFICES ASSUME NEW x \in Nat, NEW y \in Nat \ {0}
                 PROVE  x * y \in Nat /\ (x * y) \div y = x
      OBVIOUS
    <3> DEFINE p == x * y
               q == p \div y
    <3>1. p \in Nat
      OBVIOUS
    <3>2. q \in Nat /\ y * q <= p /\ p < y * q + y
      BY <3>1
    <3> HIDE DEF q
    <3>3. q = x
      BY <3>2
    <3>4. QED  BY <3>1, <3>3 DEF q
  <2>2. o.hash_bytes * B \in Nat /\ (o.hash_bytes * B) \div B = o.hash_bytes
    BY <1>3, <1>4, <2>1
  <2>3. (o.hash_bytes * B) % Word = o.hash_bytes * B
    <3> DEFINE p == o.hash_bytes * B
    <3>1. p \in Nat /\ p < Word
      BY <1>4, <2>2
    <3> HIDE DEF p
    <3>2. p % Word = p
      BY <1>3, <3>1
    <3>3. QED  BY <3>2 DEF p
  <2>4. QED  BY <2>2, <2>3
<1>7. parsed(f) =
        [ hash_bytes |-> o.hash_bytes, M |-> o.M, k |-> o.k,
          vector |-> f.vector \cap 0 .. shifted[o.M] - 1,
          added_items |-> o.added_items % Word,
          unique_added_items |-> o.unique_added_items % Word,
          aliased_adds |-> o.aliased_adds % Word,
          comment |-> IF o.comment = 0 THEN NullText ELSE o.comment ]
  BY <1>1, <1>2, <1>5, <1>6 DEF parsed, value, B
<1>8. o = [hash_bytes |-> o.hash_bytes, M |-> o.M, k |-> o.k, vector |-> o.vector,
           added_items |-> o.added_items, unique_added_items |-> o.unique_added_items,
           aliased_adds |-> o.aliased_adds, comment |-> o.comment]
  BY DEF IsObject
<1> DEFINE e == o.added_items % Word
           g == o.unique_added_items % Word
           h == o.aliased_adds % Word
           c == IF o.comment = 0 THEN NullText ELSE o.comment
<1>9. [o EXCEPT !.added_items = e, !.unique_added_items = g, !.aliased_adds = h,
                !.comment = c] =
        [ hash_bytes |-> o.hash_bytes, M |-> o.M, k |-> o.k, vector |-> o.vector,
          added_items |-> e, unique_added_items |-> g, aliased_adds |-> h, comment |-> c ]
  <2> HIDE DEF e, g, h, c
  <2>1. [o EXCEPT !.added_items = e, !.unique_added_items = g, !.aliased_adds = h,
                  !.comment = c] =
          [j \in DOMAIN o |-> IF j = "comment" THEN c
                              ELSE IF j = "added_items" THEN e
                              ELSE IF j = "unique_added_items" THEN g
                              ELSE IF j = "aliased_adds" THEN h ELSE o[j]]
    OBVIOUS
  <2>2. DOMAIN o = { "hash_bytes", "M", "k", "vector", "added_items",
                     "unique_added_items", "aliased_adds", "comment" }
    BY <1>8
  <2>3. QED  BY <2>1, <2>2
<1>10. o.vector \cap 0 .. shifted[o.M] - 1 = o.vector
  BY DEF IsObject
<1>11. f.vector = o.vector =>
         parsed(f) = [o EXCEPT !.added_items = e, !.unique_added_items = g,
                               !.aliased_adds = h, !.comment = c]
  <2> HIDE DEF e, g, h, c
  <2>1. ASSUME f.vector = o.vector
        PROVE  parsed(f) =
                 [ hash_bytes |-> o.hash_bytes, M |-> o.M, k |-> o.k, vector |-> o.vector,
                   added_items |-> e, unique_added_items |-> g, aliased_adds |-> h,
                   comment |-> c ]
    BY <1>7, <1>10, <2>1 DEF e, g, h, c
  <2>2. QED  BY <1>9, <2>1
<1>12. /\ parsed(f).M = o.M /\ parsed(f).k = o.k
       /\ parsed(f).hash_bytes = o.hash_bytes
  BY <1>7
<1>13. QED  BY <1>11, <1>12

\* What open() reads are the parameters of a filter.
LEMMA ParsedIsObject ==
  ASSUME NEW f, IsHeader(f.header)
  PROVE  /\ IsObject(parsed(f))
         /\ parsed(f).vector = f.vector \cap 0 .. shifted[parsed(f).M] - 1
<1> DEFINE p == parsed(f)
           B == ByteBits
<1>1. B \in Nat \ {0} /\ Word \in Nat \ {0}
  BY ByteHasBits, FormatConstants
<1>2. \A name : valueOf(f.header, name) \in 0 .. Word - 1
  BY ValueIs
<1>3. /\ p.hash_bytes = valueOf(f.header, "hash_bits") \div B
      /\ p.M \in 0 .. Word - 1 /\ p.k \in 0 .. Word - 1
      /\ p.added_items \in 0 .. Word - 1 /\ p.unique_added_items \in 0 .. Word - 1
      /\ p.aliased_adds \in 0 .. Word - 1
      /\ p.vector = f.vector \cap 0 .. shifted[p.M] - 1
      /\ p.comment \in Nat
  BY <1>2, ValueIs DEF parsed
<1>4. p = [hash_bytes |-> p.hash_bytes, M |-> p.M, k |-> p.k, vector |-> p.vector,
           added_items |-> p.added_items, unique_added_items |-> p.unique_added_items,
           aliased_adds |-> p.aliased_adds, comment |-> p.comment]
  BY DEF parsed
<1> DEFINE bits == valueOf(f.header, "hash_bits")
<1>5. bits \in Nat /\ bits < Word
  BY <1>1, <1>2
<1> HIDE DEF p, bits
<1>6. p.hash_bytes \in Nat /\ p.hash_bytes * B < Word
  <2> DEFINE q == bits \div B
  <2>1. q \in Nat /\ B * q <= bits /\ B * q = q * B
    <3> HIDE DEF B
    <3>1. q \in Nat /\ B * q <= bits
      BY <1>1, <1>5
    <3> HIDE DEF q
    <3>2. QED  BY <1>1, <3>1
  <2>2. p.hash_bytes = q
    BY <1>3 DEF bits
  <2> HIDE DEF q, B
  <2>3. q * B \in Nat
    BY <1>1, <2>1
  <2>4. QED  BY <1>1, <1>5, <2>1, <2>2, <2>3
<1>7. p.added_items \in Nat /\ p.unique_added_items \in Nat /\ p.aliased_adds \in Nat
  BY <1>1, <1>3 DEF p
<1>8. IsObject(p)
  <2> HIDE DEF p
  <2>1. p.vector \subseteq 0 .. shifted[p.M] - 1
    BY <1>3
  <2>2. QED  BY <1>3, <1>4, <1>6, <1>7, <2>1 DEF IsObject, B
<1>9. QED  BY <1>3, <1>8 DEF p

(***************************************************************************)
(* HeaderRoundTrips.  A filter comes from create(), with the arguments, or *)
(* from the header of a file, with values of 32 bits, and add() leaves its *)
(* parameters alone; a header is one of a file that existed or what        *)
(* nsrl_bloom_info wrote about a filter.                                   *)
(***************************************************************************)
\* The filter is one, of whole bytes.
FilterInv == at = "live" => IsObject(object) /\ object.M >= BytePower

\* The file has a header.
FilterFileInv == filterFile # << >> => IsHeader(filterFile.header)

\* The inductive invariant for HeaderRoundTrips.
FormatTypeInv == FilterInv /\ FilterFileInv

\* A quotient times the divisor.
LEMMA QuotientTimes ==
  ASSUME NEW bits \in Nat, NEW divisor \in Nat \ {0}
  PROVE  /\ bits \div divisor \in Nat
         /\ (bits \div divisor) * divisor <= bits
         /\ bits % divisor = 0 => (bits \div divisor) * divisor = bits
<1>1. bits \in Nat /\ divisor \in Nat /\ divisor > 0
  OBVIOUS
<1>2. \A x \in Nat, y \in Nat :
        y > 0 => /\ x = y * (x \div y) + (x % y)
                 /\ x \div y \in Nat /\ x % y \in Nat
  OBVIOUS
<1> DEFINE q == bits \div divisor
           r == bits % divisor
<1>3. bits = divisor * q + r /\ q \in Nat /\ r \in Nat
  BY <1>1, <1>2
<1> HIDE DEF q, r
<1>4. divisor * q = q * divisor /\ q * divisor \in Nat
  BY <1>1, <1>3
<1>5. q \in Nat /\ q * divisor <= bits /\ (r = 0 => q * divisor = bits)
  BY <1>1, <1>3, <1>4
<1>6. QED  BY <1>5 DEF q, r

\* The filter that create() makes.
LEMMA CreatedIsObject ==
  ASSUME NEW hash_bits \in HashBits, NEW bloom_bits \in BloomBits, NEW functions \in Ks,
         NEW comment \in Comments
  PROVE  IsObject([ hash_bytes |-> hash_bits \div ByteBits, M |-> bloom_bits,
                    k |-> functions, vector |-> {}, added_items |-> 0,
                    unique_added_items |-> 0, aliased_adds |-> 0, comment |-> comment ])
<1> DEFINE B == ByteBits
           bytes == hash_bits \div B
<1>1. /\ Word \in Nat \ {0} /\ B \in Nat \ {0}
      /\ hash_bits \in 0 .. Word - 1 /\ bloom_bits \in 0 .. Word - 1
      /\ functions \in 0 .. Word - 1 /\ comment \in Nat
  BY ByteHasBits, FormatConstants
<1> HIDE DEF B
<1>2. bytes \in Nat /\ bytes * B <= hash_bits
  BY <1>1, QuotientTimes
<1> HIDE DEF bytes
<1>3. bytes * B \in Nat
  BY <1>1, <1>2
<1>4. bytes * B < Word
  BY <1>1, <1>2, <1>3
<1>5. IsObject([ hash_bytes |-> bytes, M |-> bloom_bits, k |-> functions, vector |-> {},
                 added_items |-> 0, unique_added_items |-> 0, aliased_adds |-> 0,
                 comment |-> comment ])
  BY <1>1, <1>2, <1>4 DEF IsObject, B
<1>6. QED  BY <1>5 DEF bytes, B

\* The lines that nsrl_bloom_info writes are a header.
LEMMA InfoIsHeader ==
  ASSUME NEW o, IsObject(o)
  PROVE  IsHeader(info(o))
<1> DEFINE bits == o.hash_bytes * ByteBits
           text == IF o.comment = 0 THEN NullText ELSE o.comment
           header == info(o)
<1>1. bits \in Nat
  BY ByteHasBits DEF IsObject
<1>2. text \in Nat
  BY DEF IsObject, NullText
<1> HIDE DEF bits, text
<1>3. /\ o.M \in Nat /\ o.k \in Nat /\ o.added_items \in Nat /\ o.unique_added_items \in Nat
      /\ o.aliased_adds \in Nat
  BY FormatConstants DEF IsObject
<1>4. Len(header) = 8 /\ DOMAIN header = 1 .. 8
  BY DEF info
<1>5. /\ header[1].value = 2 /\ header[2].value = bits /\ header[3].value = o.M
      /\ header[4].value = o.k /\ header[5].value = o.added_items
      /\ header[6].value = o.unique_added_items /\ header[7].value = o.aliased_adds
      /\ header[8].value = text
  BY DEF info, line, bits, text
<1> HIDE DEF header
<1>6. QED  BY <1>1, <1>2, <1>3, <1>4, <1>5 DEF IsHeader, header

\* What add() does to the filter.
LEMMA AddStep ==
  ASSUME FilterInv, NEW digest \in Digests, Add(digest)
  PROVE  /\ IsObject(object) /\ IsObject(object') /\ object.M >= BytePower
         /\ object'.hash_bytes = object.hash_bytes
         /\ object'.M = object.M /\ object'.k = object.k
         /\ object.vector \subseteq object'.vector
         /\ slices(object, digest) \subseteq object'.vector
<1>1. IsObject(object) /\ object.M >= BytePower /\ Len(digest) = object.hash_bytes
  BY DEF FilterInv, Add
<1>2. PICK stray \in strays(object) :
        object' = [object EXCEPT
          !.vector = @ \cup (slices(object, digest) \cup stray),
          !.unique_added_items =
            @ + (IF addedBits(object, slices(object, digest) \cup stray) = object.k
                 THEN 1 ELSE 0),
          !.aliased_adds =
            @ + (IF addedBits(object, slices(object, digest) \cup stray) = 0
                 THEN 1 ELSE 0),
          !.added_items = @ + 1]
  BY DEF Add
<1> DEFINE set == slices(object, digest) \cup stray
           v == object.vector \cup set
           x == object.unique_added_items
                  + (IF addedBits(object, set) = object.k THEN 1 ELSE 0)
           y == object.aliased_adds + (IF addedBits(object, set) = 0 THEN 1 ELSE 0)
           z == object.added_items + 1
<1>3. x \in Nat /\ y \in Nat /\ z \in Nat
  BY <1>1 DEF IsObject
<1>4. /\ v \subseteq 0 .. shifted[object.M] - 1
      /\ object.vector \subseteq v /\ slices(object, digest) \subseteq v
  <2>1. slices(object, digest) \subseteq 0 .. shifted[object.M] - 1
    BY <1>1, SlicesAreBits
  <2>2. stray \subseteq 0 .. shifted[object.M] - 1
    BY <1>2 DEF strays
  <2>3. QED  BY <1>1, <2>1, <2>2 DEF IsObject
<1>5. object' = [object EXCEPT !.vector = v, !.unique_added_items = x,
                               !.aliased_adds = y, !.added_items = z]
  BY <1>2
<1> HIDE DEF v, x, y, z
<1> DEFINE o == object
           p == object'
<1>6. IsObject(o) /\ p = [o EXCEPT !.vector = v, !.unique_added_items = x,
                                  !.aliased_adds = y, !.added_items = z]
  BY <1>1, <1>5
<1> HIDE DEF o, p
<1>7. p = [j \in DOMAIN o |-> IF j = "added_items" THEN z
                              ELSE IF j = "aliased_adds" THEN y
                              ELSE IF j = "unique_added_items" THEN x
                              ELSE IF j = "vector" THEN v ELSE o[j]]
  BY <1>6
<1>8. o = [hash_bytes |-> o.hash_bytes, M |-> o.M, k |-> o.k, vector |-> o.vector,
           added_items |-> o.added_items, unique_added_items |-> o.unique_added_items,
           aliased_adds |-> o.aliased_adds, comment |-> o.comment]
  BY <1>6 DEF IsObject
<1>9. DOMAIN o = { "hash_bytes", "M", "k", "vector", "added_items",
                   "unique_added_items", "aliased_adds", "comment" }
  BY <1>8
<1>10. p = [hash_bytes |-> o.hash_bytes, M |-> o.M, k |-> o.k, vector |-> v,
            added_items |-> z, unique_added_items |-> x, aliased_adds |-> y,
            comment |-> o.comment]
  BY <1>7, <1>9
<1>11. /\ p.hash_bytes = o.hash_bytes /\ p.M = o.M /\ p.k = o.k /\ p.vector = v
       /\ p.added_items = z /\ p.unique_added_items = x /\ p.aliased_adds = y
       /\ p.comment = o.comment
  BY <1>10
<1>12. v \subseteq 0 .. shifted[o.M] - 1
  BY <1>4 DEF o
<1>13. IsObject(p)
  BY <1>3, <1>6, <1>10, <1>11, <1>12 DEF IsObject
<1>14. QED  BY <1>1, <1>4, <1>6, <1>11, <1>13 DEF o, p

\* The invariant holds in the beginning and after every step.
LEMMA FormatTypeStep ==
  /\ FormatInit => FormatTypeInv
  /\ FormatTypeInv /\ [FormatNext]_formatvars => FormatTypeInv'
<1>1. ASSUME FormatInit
      PROVE  FormatTypeInv
  <2>1. ASSUME filterFile # << >>
        PROVE  IsHeader(filterFile.header)
    <3>1. filterFile \in Given /\ Given \subseteq [header : Headers, vector : SUBSET Nat]
      BY <1>1, <2>1, FormatConstants DEF FormatInit
    <3>2. filterFile.header \in Headers
      BY <3>1
    <3>3. QED  BY <3>2, HeadersAre
  <2>2. QED  BY <1>1, <2>1 DEF FormatInit, FormatTypeInv, FilterInv, FilterFileInv
<1>2. ASSUME FormatTypeInv, [FormatNext]_formatvars
      PROVE  FormatTypeInv'
  <2>1. FilterInv /\ FilterFileInv
    BY <1>2 DEF FormatTypeInv
  <2>2. ASSUME NEW hash_bits \in HashBits, NEW bloom_bits \in BloomBits, NEW functions \in Ks,
               NEW comment \in Comments, Create(hash_bits, bloom_bits, functions, comment)
        PROVE  FormatTypeInv'
    <3>1. at' = "live" => IsObject(object') /\ object'.M >= BytePower
      BY <2>2, CreatedIsObject DEF Create
    <3>2. filterFile' = filterFile
      BY <2>2 DEF Create
    <3>3. QED  BY <2>1, <3>1, <3>2 DEF FormatTypeInv, FilterInv, FilterFileInv
  <2>3. CASE Open
    <3>1. at' = "live" => object' = parsed(filterFile) /\ object'.M >= BytePower
      BY <2>3 DEF Open
    <3>2. IsObject(parsed(filterFile))
      BY <2>1, <2>3, ParsedIsObject DEF Open, FilterFileInv
    <3>3. filterFile' = filterFile
      BY <2>3 DEF Open
    <3>4. QED  BY <2>1, <3>1, <3>2, <3>3 DEF FormatTypeInv, FilterInv, FilterFileInv
  <2>4. ASSUME NEW digest \in Digests, Add(digest)
        PROVE  FormatTypeInv'
    <3>1. IsObject(object') /\ object'.M >= BytePower
      BY <2>1, <2>4, AddStep
    <3>2. \/ filterFile' = << >>
          \/ filterFile # << >> /\ filterFile'.header \in {info(object'), filterFile.header}
      BY <2>4 DEF Add, stored
    <3>3. IsHeader(info(object'))
      BY <3>1, InfoIsHeader
    <3>4. filterFile' # << >> => IsHeader(filterFile'.header)
      BY <2>1, <3>2, <3>3 DEF FilterFileInv
    <3>5. QED  BY <3>1, <3>4 DEF FormatTypeInv, FilterInv, FilterFileInv
  <2>4a. ASSUME NEW digest \in Digests, AddFaults(digest)
         PROVE  FormatTypeInv'
    <3>1. /\ at' # "live"
          /\ filterFile' # << >> => filterFile # << >> /\ filterFile'.header = filterFile.header
      BY <2>4a DEF AddFaults
    <3>2. QED  BY <2>1, <3>1 DEF FormatTypeInv, FilterInv, FilterFileInv
  <2>5. CASE Write
    <3>1. IsHeader(info(object))
      BY <2>1, <2>5, InfoIsHeader DEF Write, FilterInv
    <3>2. at' # "live" /\ filterFile'.header = info(object)
      BY <2>5 DEF Write
    <3>3. QED  BY <3>1, <3>2 DEF FormatTypeInv, FilterInv, FilterFileInv
  <2>6. CASE Close
    BY <2>1, <2>6 DEF Close, FormatTypeInv, FilterInv, FilterFileInv
  <2>7. CASE UNCHANGED formatvars
    BY <2>1, <2>7 DEF formatvars, FormatTypeInv, FilterInv, FilterFileInv
  <2>8. QED  BY <1>2, <2>2, <2>3, <2>4, <2>4a, <2>5, <2>6, <2>7 DEF FormatNext
<1>3. QED  BY <1>1, <1>2

\* In every state the filter is one and the file has a header.
THEOREM FiltersAreFilters ==
  FormatSpec => []FormatTypeInv
<1>1. FormatInit => FormatTypeInv
  BY FormatTypeStep
<1>2. FormatTypeInv /\ [FormatNext]_formatvars => FormatTypeInv'
  BY FormatTypeStep
<1>3. QED  BY <1>1, <1>2, PTL DEF FormatSpec

\* A file with the header that nsrl_bloom_info writes gives back the
\* parameters, and the counters up to 32 bits (HeaderRoundTrips).
THEOREM HeaderIsRead ==
  FormatSpec => []HeaderRoundTrips
<1>1. ASSUME FormatTypeInv
      PROVE  HeaderRoundTrips
  <2> SUFFICES ASSUME at = "live"
               PROVE  parsed([header |-> info(object), vector |-> object.vector]) =
                        [object EXCEPT !.added_items = @ % Word,
                                       !.unique_added_items = @ % Word,
                                       !.aliased_adds = @ % Word,
                                       !.comment = IF @ = 0 THEN NullText ELSE @]
    BY DEF HeaderRoundTrips
  <2> DEFINE o == object
             f == [header |-> info(o), vector |-> o.vector]
  <2>1. IsObject(o)
    BY <1>1 DEF FormatTypeInv, FilterInv
  <2>2. f.header = info(o) /\ f.vector = o.vector
    OBVIOUS
  <2> HIDE DEF o, f
  <2>3. parsed(f) = [o EXCEPT !.added_items = @ % Word,
                                     !.unique_added_items = @ % Word,
                                     !.aliased_adds = @ % Word,
                                     !.comment = IF @ = 0 THEN NullText ELSE @]
    BY <2>1, <2>2, InfoParsed
  <2>4. QED  BY <2>3 DEF o, f
<1>2. QED  BY <1>1, FiltersAreFilters, PTL

(***************************************************************************)
(* AddedAreFound.  Parameters whose product does not wrap fit each other   *)
(* when create() has compared them, and then no slice is outside the hash. *)
(* What was added is in the vector and, while the filter is mapped, in the *)
(* file, which has the same parameters even when its counters are of an    *)
(* earlier add: hence in what the next session opens.  That holds of the   *)
(* slices inside the hash whether or not there are others, whatever those  *)
(* read.                                                                   *)
(***************************************************************************)
\* The parameters of a filter made by create() fit each other.
FittingInv ==
  at = "live" /\ filterFile = << >> /\ object.M * object.k < Word => fits(object)

\* What the filter and the file hold of the hashes that were added.
KeptInv ==
  /\ at = "live" => \A digest \in entries : query(object, digest)
  /\ filterFile # << >> =>
       \A digest \in entries : query(parsed(filterFile), digest)
  /\ at = "live" /\ filterFile # << >> =>
       LET p == parsed(filterFile) IN
       /\ p.M = object.M /\ p.k = object.k /\ p.hash_bytes = object.hash_bytes
       /\ p.vector = object.vector
  /\ at = "none" /\ filterFile = << >> => entries = {}

\* The arguments that create() does not refuse fit each other.
LEMMA CreatedFits ==
  ASSUME NEW hash_bits \in HashBits, NEW bloom_bits \in BloomBits, NEW functions \in Ks,
         NEW comment, ~argumentsRefused(hash_bits, bloom_bits, functions),
         bloom_bits * functions < Word
  PROVE  fits([ hash_bytes |-> hash_bits \div ByteBits, M |-> bloom_bits,
                k |-> functions, vector |-> {}, added_items |-> 0,
                unique_added_items |-> 0, aliased_adds |-> 0, comment |-> comment ])
<1> DEFINE B == ByteBits
           bytes == hash_bits \div B
           product == bloom_bits * functions
<1>1. /\ Word \in Nat \ {0} /\ B \in Nat \ {0} /\ hash_bits \in Nat
      /\ bloom_bits \in Nat /\ functions \in Nat
  BY ByteHasBits, FormatConstants
<1>2. ~(hash_bits < product % Word) /\ hash_bits % B = 0 /\ product < Word
  BY DEF argumentsRefused
<1> HIDE DEF B
<1>3. bytes * B = hash_bits
  BY <1>1, <1>2, QuotientTimes
<1>4. product \in Nat
  BY <1>1
<1> HIDE DEF bytes, product
<1>5. product % Word = product
  BY <1>1, <1>2, <1>4
<1>6. product <= bytes * B
  BY <1>1, <1>2, <1>3, <1>4, <1>5
<1>7. bloom_bits * functions <= bytes * B
  BY <1>6 DEF product
<1>8. fits([ hash_bytes |-> bytes, M |-> bloom_bits, k |-> functions, vector |-> {},
             added_items |-> 0, unique_added_items |-> 0, aliased_adds |-> 0,
             comment |-> comment ])
  BY <1>1, <1>7 DEF fits, B
<1>9. QED  BY <1>8 DEF bytes, B

\* A filter with the same parameters and no fewer bits finds the same hashes.
LEMMA FoundAgain ==
  ASSUME NEW o, NEW p, p.M = o.M, p.k = o.k, p.hash_bytes = o.hash_bytes, NEW digest
  PROVE  /\ slices(p, digest) = slices(o, digest)
         /\ o.vector \subseteq p.vector /\ query(o, digest) => query(p, digest)
<1>1. inside(p) = inside(o)
  BY DEF inside, isInside
<1>2. slices(p, digest) = slices(o, digest)
  BY <1>1 DEF slices
<1>3. QED  BY <1>2 DEF query

\* Add keeps what the filter has and puts in what it is given.
LEMMA AddKeeps ==
  ASSUME FormatTypeInv, FittingInv, KeptInv,
         NEW digest \in Digests, Add(digest)
  PROVE  FittingInv' /\ KeptInv'
<1>1. /\ IsObject(object) /\ IsObject(object')
      /\ object'.hash_bytes = object.hash_bytes
      /\ object'.M = object.M /\ object'.k = object.k
      /\ object.vector \subseteq object'.vector
      /\ slices(object, digest) \subseteq object'.vector
  BY AddStep DEF FormatTypeInv
<1>2. at = "live" /\ at' = "live" /\ entries' = entries \cup {digest}
  BY DEF Add
<1>3. fits(object) => fits(object')
  BY <1>1 DEF fits
<1>4. \A h \in entries' : query(object', h)
  <2>1. slices(object', digest) = slices(object, digest)
    BY <1>1, FoundAgain
  <2>2. query(object', digest)
    BY <1>1, <2>1 DEF query
  <2>3. ASSUME NEW h \in entries
        PROVE  query(object', h)
    BY <1>1, <1>2, FoundAgain DEF KeptInv
  <2>4. QED  BY <1>2, <2>2, <2>3
<1>5. CASE filterFile = << >>
  <2>1. filterFile' = << >>
    BY <1>5 DEF Add
  <2>2. QED  BY <1>1, <1>2, <1>3, <1>4, <1>5, <2>1 DEF FittingInv, KeptInv
<1>6. CASE filterFile # << >>
  <2> DEFINE p == parsed(filterFile)
             q == parsed(filterFile')
             bits == 0 .. shifted[object'.M] - 1
  <2>1. PICK header \in {info(object'), filterFile.header} :
          filterFile' = stored(object', header)
    BY <1>6 DEF Add
  <2>2. /\ filterFile'.header = header
        /\ filterFile'.vector = object'.vector \cup (filterFile.vector \ bits)
        /\ filterFile' # << >>
    <3>1. filterFile' = [header |-> header,
                         vector |-> object'.vector \cup (filterFile.vector \ bits)]
      BY <2>1 DEF stored
    <3>2. "header" \in DOMAIN filterFile' /\ "header" \notin DOMAIN << >>
      BY <3>1
    <3>3. QED  BY <3>1, <3>2
  <2>3. p.M = object.M /\ p.k = object.k /\ p.hash_bytes = object.hash_bytes
    BY <1>2, <1>6 DEF KeptInv
  <2>4. q.M = object'.M /\ q.k = object'.k /\ q.hash_bytes = object'.hash_bytes
    <3>1. CASE header = info(object')
      BY <1>1, <2>2, <3>1, InfoParsed
    <3>2. CASE header = filterFile.header
      <4>1. q.M = p.M /\ q.k = p.k /\ q.hash_bytes = p.hash_bytes
        BY <2>2, <3>2 DEF parsed
      <4>2. QED  BY <1>1, <2>3, <4>1
    <3>3. QED  BY <3>1, <3>2
  <2>5. q.vector = object'.vector
    <3>1. q.vector = filterFile'.vector \cap 0 .. shifted[q.M] - 1
      BY DEF parsed
    <3>2. object'.vector \subseteq bits
      BY <1>1 DEF IsObject
    <3> HIDE DEF bits, q
    <3>3. filterFile'.vector \cap bits = object'.vector
      BY <2>2, <3>2
    <3>4. QED  BY <2>4, <3>1, <3>3 DEF bits
  <2> HIDE DEF q
  <2>6. \A h \in entries' : query(q, h)
    BY <1>4, <2>4, <2>5, FoundAgain
  <2>7. QED  BY <1>2, <1>4, <2>2, <2>4, <2>5, <2>6 DEF FittingInv, KeptInv, q
<1>7. QED  BY <1>5, <1>6

\* An add that is killed leaves what the file has.
LEMMA FaultKeeps ==
  ASSUME FormatTypeInv, FittingInv, KeptInv,
         NEW digest \in Digests, AddFaults(digest)
  PROVE  FittingInv' /\ KeptInv'
<1>1. at' = "exited" /\ entries' = entries
  BY DEF AddFaults
<1>2. PICK set : filterFile' = IF filterFile = << >> THEN << >>
                               ELSE [header |-> filterFile.header,
                                     vector |-> filterFile.vector \cup set]
  BY DEF AddFaults
<1>3. ASSUME filterFile' # << >>
      PROVE  \A h \in entries : query(parsed(filterFile'), h)
  <2> DEFINE p == parsed(filterFile)
             q == parsed(filterFile')
  <2>1. /\ filterFile # << >> /\ filterFile'.header = filterFile.header
        /\ filterFile'.vector = filterFile.vector \cup set
    BY <1>2, <1>3
  <2>2. /\ q.M = p.M /\ q.k = p.k /\ q.hash_bytes = p.hash_bytes
        /\ p.vector \subseteq q.vector
    BY <2>1 DEF parsed
  <2>3. \A h \in entries : query(p, h)
    BY <2>1 DEF KeptInv
  <2> HIDE DEF p, q
  <2>4. \A h \in entries : query(q, h)
    BY <2>2, <2>3, FoundAgain
  <2>5. QED  BY <2>4 DEF q
<1>4. QED  BY <1>1, <1>3 DEF FittingInv, KeptInv

\* Write puts the whole filter into the file.
LEMMA WriteKeeps ==
  ASSUME FormatTypeInv, FittingInv, KeptInv, Write
  PROVE  FittingInv' /\ KeptInv'
<1>1. at = "live" /\ at' = "none" /\ entries' = entries
  BY DEF Write
<1>2. filterFile' = [header |-> info(object), vector |-> object.vector]
  BY DEF Write
<1>3. filterFile'.header = info(object) /\ filterFile'.vector = object.vector
  BY <1>2
<1>4. IsObject(object)
  BY <1>1 DEF FormatTypeInv, FilterInv
<1> DEFINE q == parsed(filterFile')
<1>5. q.M = object.M /\ q.k = object.k /\ q.hash_bytes = object.hash_bytes
  BY <1>3, <1>4, InfoParsed
<1>6. q.vector = object.vector
  <2>1. q.vector = object.vector \cap 0 .. shifted[q.M] - 1
    BY <1>3 DEF parsed
  <2> HIDE DEF q
  <2>2. QED  BY <1>4, <1>5, <2>1 DEF IsObject
<1> HIDE DEF q
<1>7. \A h \in entries' : query(q, h)
  BY <1>1, <1>5, <1>6, FoundAgain DEF KeptInv
<1>8. filterFile' # << >>
  <2>1. "header" \in DOMAIN filterFile' /\ "header" \notin DOMAIN << >>
    BY <1>2
  <2>2. QED  BY <2>1
<1>9. QED  BY <1>1, <1>7, <1>8 DEF FittingInv, KeptInv, q

\* The invariant holds in the beginning and after every step.
LEMMA KeptStep ==
  /\ FormatInit => FittingInv /\ KeptInv
  /\ FormatTypeInv /\ FittingInv /\ KeptInv /\ [FormatNext]_formatvars
       => FittingInv' /\ KeptInv'
<1>1. ASSUME FormatInit
      PROVE  FittingInv /\ KeptInv
  BY <1>1 DEF FormatInit, FittingInv, KeptInv
<1>2. ASSUME FormatTypeInv, FittingInv, KeptInv, [FormatNext]_formatvars
      PROVE  FittingInv' /\ KeptInv'
  <2>1. ASSUME NEW hash_bits \in HashBits, NEW bloom_bits \in BloomBits, NEW functions \in Ks,
               NEW comment \in Comments, Create(hash_bits, bloom_bits, functions, comment)
        PROVE  FittingInv' /\ KeptInv'
    <3>1. /\ at = "none" /\ filterFile = << >>
          /\ filterFile' = filterFile /\ entries' = entries
      BY <2>1 DEF Create
    <3>2. entries' = {}
      BY <1>2, <3>1 DEF KeptInv
    <3>3. at' = "live" =>
            /\ ~argumentsRefused(hash_bits, bloom_bits, functions)
            /\ object' = [ hash_bytes |-> hash_bits \div ByteBits, M |-> bloom_bits,
                           k |-> functions, vector |-> {}, added_items |-> 0,
                           unique_added_items |-> 0, aliased_adds |-> 0,
                           comment |-> comment ]
      BY <2>1 DEF Create
    <3>4. at' = "live" => object'.M = bloom_bits /\ object'.k = functions
      BY <3>3
    <3>5. at' = "live" /\ object'.M * object'.k < Word => fits(object')
      BY <3>3, <3>4, CreatedFits
    <3>6. QED  BY <3>1, <3>2, <3>5 DEF FittingInv, KeptInv
  <2>2. CASE Open
    <3>1. /\ filterFile # << >> /\ at = "none"
          /\ filterFile' = filterFile /\ entries' = entries
          /\ at' = "live" => object' = parsed(filterFile)
      BY <2>2 DEF Open
    <3>2. \A digest \in entries : query(parsed(filterFile), digest)
      BY <1>2, <3>1 DEF KeptInv
    <3>3. parsed(filterFile') = parsed(filterFile)
      BY <3>1
    <3>4. QED  BY <3>1, <3>2, <3>3 DEF FittingInv, KeptInv
  <2>3. ASSUME NEW digest \in Digests, Add(digest)
        PROVE  FittingInv' /\ KeptInv'
    BY <1>2, <2>3, AddKeeps
  <2>4. ASSUME NEW digest \in Digests, AddFaults(digest)
        PROVE  FittingInv' /\ KeptInv'
    BY <1>2, <2>4, FaultKeeps
  <2>5. CASE Write
    BY <1>2, <2>5, WriteKeeps
  <2>6. CASE Close
    <3>1. /\ filterFile # << >> /\ at' = "none"
          /\ filterFile' = filterFile /\ entries' = entries
      BY <2>6 DEF Close
    <3>2. QED  BY <1>2, <3>1 DEF FittingInv, KeptInv
  <2>7. CASE UNCHANGED formatvars
    BY <1>2, <2>7 DEF formatvars, FittingInv, KeptInv
  <2>8. QED  BY <1>2, <2>1, <2>2, <2>3, <2>4, <2>5, <2>6, <2>7 DEF FormatNext
<1>3. QED  BY <1>1, <1>2

\* Filters that create() made of parameters whose product does not wrap, and
\* all whose product fits, have every slice inside the hash; slices name bits
\* inside the vector; and the slices of what was added are found, in this
\* session and in those that open what it left (AddedAreFound).
THEOREM AddedStayFound ==
  FormatSpec => []AddedAreFound
<1> DEFINE AllInv == FormatTypeInv /\ FittingInv /\ KeptInv
<1>1. FormatInit => AllInv
  BY FormatTypeStep, KeptStep
<1>2. AllInv /\ [FormatNext]_formatvars => AllInv'
  BY FormatTypeStep, KeptStep
<1>3. ASSUME AllInv
      PROVE  AddedAreFound
  <2> SUFFICES ASSUME at = "live"
               PROVE  /\ filterFile = << >> /\ object.M * object.k < Word => fits(object)
                      /\ fits(object) => outside(object) = {}
                      /\ \A digest \in Digests : Len(digest) = object.hash_bytes =>
                           \A v \in slices(object, digest) :
                             v \div ByteBits < vectorBytes(object)
                      /\ \A digest \in entries : query(object, digest)
    BY DEF AddedAreFound
  <2>1. IsObject(object) /\ object.M >= BytePower
    BY <1>3 DEF FormatTypeInv, FilterInv
  <2>2. fits(object) => outside(object) = {}
    BY <2>1, SliceInHash DEF outside
  <2>3. ASSUME NEW digest \in Digests, Len(digest) = object.hash_bytes,
               NEW v \in slices(object, digest)
        PROVE  v \div ByteBits < vectorBytes(object)
    <3>1. v \in 0 .. shifted[object.M] - 1
      BY <2>1, <2>3, SlicesAreBits
    <3>2. QED  BY <2>1, <3>1, BitInVector
  <2>4. QED  BY <1>3, <2>2, <2>3 DEF FittingInv, KeptInv
<1> HIDE DEF AllInv
<1>4. QED  BY <1>1, <1>2, <1>3, PTL DEF FormatSpec

(***************************************************************************)
(* Sums.  The sum of the values f has on a finite set is the number of     *)
(* pairs of an element and a number below its value; it is what a fold     *)
(* computes, whichever element the fold takes first.                       *)
(***************************************************************************)
\* The pairs.
Pairs(f, s) == { pair \in s \X Nat : pair[2] < f[pair[1]] }

\* How many there are.
Total(f, s) == Cardinality(Pairs(f, s))

\* One element less.
LEMMA OneLess ==
  ASSUME NEW s, IsFiniteSet(s), NEW x \in s, NEW n \in Nat, Cardinality(s) = n + 1
  PROVE  IsFiniteSet(s \ {x}) /\ Cardinality(s \ {x}) = n
<1> DEFINE rest == s \ {x}
<1>1. /\ IsFiniteSet(rest)
      /\ Cardinality(rest) = IF x \in s THEN Cardinality(s) - 1 ELSE Cardinality(s)
  BY FS_RemoveElement
<1> HIDE DEF rest
<1>2. Cardinality(rest) = (n + 1) - 1
  BY <1>1
<1>3. (n + 1) - 1 = n
  OBVIOUS
<1>4. QED  BY <1>1, <1>2, <1>3 DEF rest

\* The elements of two sets that have none in common.
LEMMA DisjointUnion ==
  ASSUME NEW s, IsFiniteSet(s), NEW r, IsFiniteSet(r), s \cap r = {}
  PROVE  /\ IsFiniteSet(s \cup r)
         /\ Cardinality(s \cup r) = Cardinality(s) + Cardinality(r)
<1> DEFINE both == s \cup r
           common == s \cap r
<1>1. /\ IsFiniteSet(both)
      /\ Cardinality(both) = Cardinality(s) + Cardinality(r) - Cardinality(common)
  BY FS_Union
<1>2. Cardinality(common) = 0
  BY FS_EmptySet
<1>3. Cardinality(s) \in Nat /\ Cardinality(r) \in Nat
  BY FS_CardinalityType
<1> HIDE DEF both, common
<1>4. Cardinality(both) = Cardinality(s) + Cardinality(r)
  BY <1>1, <1>2, <1>3
<1>5. QED  BY <1>1, <1>4 DEF both

\* The pairs of one element and those of the others.
LEMMA PairsSplit ==
  ASSUME NEW f, NEW s, NEW x \in s, f[x] \in Nat
  PROVE  /\ Pairs(f, s) = Pairs(f, s \ {x}) \cup ({x} \X (0 .. f[x] - 1))
         /\ Pairs(f, s \ {x}) \cap ({x} \X (0 .. f[x] - 1)) = {}
         /\ IsFiniteSet({x} \X (0 .. f[x] - 1))
         /\ Cardinality({x} \X (0 .. f[x] - 1)) = f[x]
<1> DEFINE own == {x} \X (0 .. f[x] - 1)
<1>1. ASSUME NEW pair \in Pairs(f, s)
      PROVE  pair \in Pairs(f, s \ {x}) \cup own
  BY DEF Pairs
<1>2. ASSUME NEW pair \in own
      PROVE  pair \in Pairs(f, s) /\ pair \notin Pairs(f, s \ {x})
  BY DEF Pairs
<1>3. ASSUME NEW pair \in Pairs(f, s \ {x})
      PROVE  pair \in Pairs(f, s)
  BY DEF Pairs
<1>4. IsFiniteSet(own) /\ Cardinality(own) = f[x]
  <2> DEFINE n == f[x]
             below == 0 .. n - 1
             one == {x}
  <2>1. IsFiniteSet(one) /\ Cardinality(one) = 1
    BY FS_Singleton
  <2>2. n \in Nat
    OBVIOUS
  <2> HIDE DEF n, one
  <2>3. 0 \in Int /\ n - 1 \in Int /\ (IF 0 > n - 1 THEN 0 ELSE (n - 1) - 0 + 1) = n
    BY <2>2
  <2>4. IsFiniteSet(below) /\ Cardinality(below) = n
    BY <2>3, FS_Interval
  <2> HIDE DEF below
  <2>5. IsFiniteSet(one \X below) /\ Cardinality(one \X below) = 1 * n
    BY <2>1, <2>4, FS_Product
  <2>6. QED  BY <2>2, <2>5 DEF one, below, n
<1> HIDE DEF own
<1>5. Pairs(f, s) = Pairs(f, s \ {x}) \cup own
  BY <1>1, <1>2, <1>3
<1>6. Pairs(f, s \ {x}) \cap own = {}
  BY <1>2
<1>7. QED  BY <1>4, <1>5, <1>6 DEF own

\* There are finitely many pairs.
LEMMA PairsFinite ==
  ASSUME NEW s, IsFiniteSet(s), NEW f, \A x \in s : f[x] \in Nat
  PROVE  IsFiniteSet(Pairs(f, s))
<1> DEFINE Good == { n \in Nat : \A r \in SUBSET s :
                                   Cardinality(r) = n => IsFiniteSet(Pairs(f, r)) }
<1>1. 0 \in Good
  <2>1. ASSUME NEW r \in SUBSET s, Cardinality(r) = 0
        PROVE  Pairs(f, r) = {}
    <3>1. r = {}
      BY <2>1, FS_Subset, FS_EmptySet
    <3>2. QED  BY <3>1 DEF Pairs
  <2>2. QED  BY <2>1, FS_EmptySet
<1>2. ASSUME NEW n \in Nat, n \in Good
      PROVE  n + 1 \in Good
  <2> SUFFICES ASSUME NEW r \in SUBSET s, Cardinality(r) = n + 1 PROVE IsFiniteSet(Pairs(f, r))
    OBVIOUS
  <2>1. IsFiniteSet(r)
    BY FS_Subset
  <2>2. PICK x : x \in r
    BY FS_EmptySet
  <2>3. Cardinality(r \ {x}) = n
    BY <2>1, <2>2, OneLess
  <2>4. IsFiniteSet(Pairs(f, r \ {x}))
    BY <1>2, <2>3
  <2>5. f[x] \in Nat
    BY <2>2
  <2> DEFINE own == {x} \X (0 .. f[x] - 1)
             others == Pairs(f, r \ {x})
  <2>6. Pairs(f, r) = others \cup own /\ others \cap own = {} /\ IsFiniteSet(own)
    BY <2>2, <2>5, PairsSplit
  <2> HIDE DEF own
  <2>7. QED  BY <2>4, <2>6, DisjointUnion
<1> HIDE DEF Good
<1>3. Nat \subseteq Good
  BY <1>1, <1>2, NaturalInduction
<1>4. Cardinality(s) \in Good
  BY <1>3, FS_CardinalityType
<1>5. QED  BY <1>4 DEF Good

\* A sum is a natural number, 0 for the empty set, and one value more for
\* one element more.
LEMMA Totals ==
  ASSUME NEW s, IsFiniteSet(s), NEW f, \A x \in s : f[x] \in Nat
  PROVE  /\ Total(f, s) \in Nat
         /\ Total(f, {}) = 0
         /\ \A x \in s : Total(f, s) = f[x] + Total(f, s \ {x})
<1>1. Total(f, s) \in Nat
  BY PairsFinite, FS_CardinalityType DEF Total
<1>2. Total(f, {}) = 0
  <2>1. Pairs(f, {}) = {}
    BY DEF Pairs
  <2>2. QED  BY <2>1, FS_EmptySet DEF Total
<1>3. ASSUME NEW x \in s
      PROVE  Total(f, s) = f[x] + Total(f, s \ {x})
  <2> DEFINE own == {x} \X (0 .. f[x] - 1)
             others == Pairs(f, s \ {x})
  <2>1. IsFiniteSet(s \ {x})
    BY FS_RemoveElement
  <2>2. IsFiniteSet(others)
    BY <2>1, PairsFinite
  <2>3. /\ Pairs(f, s) = others \cup own /\ others \cap own = {}
        /\ IsFiniteSet(own) /\ Cardinality(own) = f[x]
    BY PairsSplit
  <2>4. Cardinality(others) \in Nat
    BY <2>2, FS_CardinalityType
  <2> HIDE DEF own, others
  <2>5. Cardinality(others \cup own) = Cardinality(others) + Cardinality(own)
    BY <2>2, <2>3, DisjointUnion
  <2>6. QED  BY <2>3, <2>4, <2>5 DEF Total, others
<1>4. QED  BY <1>1, <1>2, <1>3

\* Functions that agree have the same sum.
LEMMA TotalsAgree ==
  ASSUME NEW s, NEW f, NEW g, \A x \in s : f[x] = g[x]
  PROVE  Total(f, s) = Total(g, s)
<1>1. Pairs(f, s) = Pairs(g, s)
  BY DEF Pairs
<1>2. QED  BY <1>1 DEF Total

\* What the recursion of MapThenFoldSet defines.
IsFold(g, f, S) ==
  /\ g = [s \in SUBSET S |-> g[s]]
  /\ g[{}] = 0
  /\ \A s \in SUBSET S : s # {} =>
       LET x == CHOOSE x \in s : TRUE IN g[s] = f[x] + g[s \ {x}]

\* There is such a function: the sums.
LEMMA FoldExists ==
  ASSUME NEW S, IsFiniteSet(S), NEW f, \A x \in S : f[x] \in Nat
  PROVE  IsFold([s \in SUBSET S |-> Total(f, s)], f, S)
<1> DEFINE g == [s \in SUBSET S |-> Total(f, s)]
<1>1. g[{}] = 0
  BY Totals
<1>2. ASSUME NEW s \in SUBSET S, s # {}, NEW x, x = CHOOSE y \in s : TRUE
      PROVE  g[s] = f[x] + g[s \ {x}]
  <2>1. x \in s
    BY <1>2
  <2>2. IsFiniteSet(s)
    BY FS_Subset
  <2>3. Total(f, s) = f[x] + Total(f, s \ {x})
    BY <2>1, <2>2, Totals
  <2>4. s \ {x} \in SUBSET S
    OBVIOUS
  <2>5. QED  BY <2>3, <2>4
<1>3. QED  BY <1>1, <1>2 DEF IsFold

\* And it is the only one.
LEMMA FoldIsTotal ==
  ASSUME NEW S, IsFiniteSet(S), NEW f, \A x \in S : f[x] \in Nat, NEW g, IsFold(g, f, S)
  PROVE  g[S] = Total(f, S)
<1> DEFINE Good == { n \in Nat : \A s \in SUBSET S : Cardinality(s) = n => g[s] = Total(f, s) }
<1>1. 0 \in Good
  <2>1. \A s \in SUBSET S : Cardinality(s) = 0 => s = {}
    BY FS_Subset, FS_EmptySet
  <2>2. QED  BY <2>1, Totals DEF IsFold
<1>2. ASSUME NEW n \in Nat, n \in Good
      PROVE  n + 1 \in Good
  <2> SUFFICES ASSUME NEW s \in SUBSET S, Cardinality(s) = n + 1 PROVE g[s] = Total(f, s)
    OBVIOUS
  <2> DEFINE x == CHOOSE y \in s : TRUE
  <2>1. IsFiniteSet(s)
    BY FS_Subset
  <2>2. s # {}
    BY FS_EmptySet
  <2>3. x \in s
    BY <2>2
  <2>4. g[s] = f[x] + g[s \ {x}]
    BY <2>2 DEF IsFold
  <2> HIDE DEF x
  <2>5. Cardinality(s \ {x}) = n
    BY <2>1, <2>3, OneLess
  <2>6. g[s \ {x}] = Total(f, s \ {x})
    BY <1>2, <2>5
  <2>7. Total(f, s) = f[x] + Total(f, s \ {x})
    BY <2>1, <2>3, Totals
  <2>8. QED  BY <2>4, <2>6, <2>7
<1> HIDE DEF Good
<1>3. Nat \subseteq Good
  BY <1>1, <1>2, NaturalInduction
<1>4. Cardinality(S) \in Good
  BY <1>3, FS_CardinalityType
<1>5. QED  BY <1>4 DEF Good

\* A sum over the numbers up to m.
LEMMA TotalUpTo ==
  ASSUME NEW m \in Nat, NEW f, \A j \in 0 .. m : f[j] \in Nat
  PROVE  Total(f, 0 .. (m + 1) - 1) = Total(f, 0 .. m - 1) + f[m]
<1> DEFINE s == 0 .. m
<1>1. /\ IsFiniteSet(s)
      /\ m \in s /\ s \ {m} = 0 .. m - 1 /\ s = 0 .. (m + 1) - 1
  <2>1. IsFiniteSet(s)
    BY FS_Interval
  <2>2. m \in s /\ (m + 1) - 1 = m
    OBVIOUS
  <2>3. s \ {m} = 0 .. m - 1
    OBVIOUS
  <2>4. QED  BY <2>1, <2>2, <2>3
<1>2. \A j \in 0 .. m - 1 : f[j] \in Nat
  OBVIOUS
<1>3. IsFiniteSet(0 .. m - 1)
  BY FS_Interval
<1>4. Total(f, 0 .. m - 1) \in Nat
  BY <1>2, <1>3, Totals
<1> HIDE DEF s
<1>5. \A j \in s : f[j] \in Nat
  BY DEF s
<1>6. Total(f, s) = f[m] + Total(f, s \ {m})
  BY <1>1, <1>5, Totals
<1>7. f[m] \in Nat
  OBVIOUS
<1>8. Total(f, s \ {m}) = Total(f, 0 .. m - 1) /\ Total(f, s) = Total(f, 0 .. (m + 1) - 1)
  BY <1>1
<1>9. QED  BY <1>4, <1>6, <1>7, <1>8

(***************************************************************************)
(* Bytes.  A byte is the sum of the powers of two of its bits that are 1,  *)
(* and bitOf finds those bits.                                             *)
(***************************************************************************)
\* Powers of two, of the bits that are 1.
IsBinary(f, m) == \A j \in 0 .. m - 1 : f[j] \in {0, shifted[j]}

\* The sum of the lower m of them.
LowerSum(f, m) == Total(f, 0 .. m - 1)

\* One bit more.
LEMMA LowerSums ==
  ASSUME NEW m \in Nat, NEW f, IsBinary(f, m + 1)
  PROVE  /\ IsBinary(f, m)
         /\ f[m] \in {0, shifted[m]}
         /\ LowerSum(f, m) \in Nat
         /\ LowerSum(f, 0) = 0
         /\ LowerSum(f, m + 1) = LowerSum(f, m) + f[m]
<1>1. \A j \in 0 .. m : f[j] \in {0, shifted[j]}
  BY DEF IsBinary
<1>2. \A j \in 0 .. m : f[j] \in Nat
  BY <1>1, ShiftedPositive
<1>3. IsFiniteSet(0 .. m - 1) /\ 0 .. 0 - 1 = {}
  BY FS_Interval
<1>4. Total(f, 0 .. m - 1) \in Nat /\ Total(f, {}) = 0
  BY <1>2, <1>3, Totals
<1>5. Total(f, 0 .. (m + 1) - 1) = Total(f, 0 .. m - 1) + f[m]
  BY <1>2, TotalUpTo
<1>6. IsBinary(f, m) /\ f[m] \in {0, shifted[m]}
  BY <1>1 DEF IsBinary
<1>7. LowerSum(f, 0) = 0
  BY <1>3, <1>4 DEF LowerSum
<1>8. QED  BY <1>4, <1>5, <1>6, <1>7 DEF LowerSum

\* The lower bits do not reach the next one.
LEMMA LowerSumIsSmall ==
  ASSUME NEW n \in Nat, NEW f, IsBinary(f, n)
  PROVE  LowerSum(f, n) \in Nat /\ LowerSum(f, n) < shifted[n]
<1> DEFINE Good == { m \in Nat : m <= n =>
                       LowerSum(f, m) \in Nat /\ LowerSum(f, m) < shifted[m] }
<1>1. 0 \in Good
  <2>1. 0 .. 0 - 1 = {} /\ IsFiniteSet({}) /\ \A j \in {} : f[j] \in Nat
    BY FS_EmptySet
  <2>2. Total(f, {}) = 0
    BY <2>1, Totals
  <2>3. LowerSum(f, 0) = 0
    BY <2>1, <2>2 DEF LowerSum
  <2>4. QED  BY <2>3, Shifted
<1>2. ASSUME NEW m \in Nat, m \in Good
      PROVE  m + 1 \in Good
  <2> SUFFICES ASSUME m + 1 <= n
               PROVE  LowerSum(f, m + 1) \in Nat /\ LowerSum(f, m + 1) < shifted[m + 1]
    OBVIOUS
  <2>1. IsBinary(f, m + 1)
    BY DEF IsBinary
  <2>2. /\ LowerSum(f, m) \in Nat /\ f[m] \in {0, shifted[m]}
        /\ LowerSum(f, m + 1) = LowerSum(f, m) + f[m]
    BY <2>1, LowerSums
  <2>3. LowerSum(f, m) < shifted[m]
    BY <1>2
  <2>4. shifted[m] \in Nat /\ shifted[m + 1] = 2 * shifted[m]
    BY Shifted, ShiftedPositive
  <2>5. QED  BY <2>2, <2>3, <2>4
<1> HIDE DEF Good
<1>3. Nat \subseteq Good
  BY <1>1, <1>2, NaturalInduction
<1>4. QED  BY <1>3 DEF Good

\* Above bit b the sum is a multiple of the power after it.
LEMMA HigherBits ==
  ASSUME NEW n \in Nat, NEW f, IsBinary(f, n), NEW b \in 0 .. n - 1
  PROVE  \E rest \in Nat :
           LowerSum(f, n) = LowerSum(f, b) + f[b] + shifted[b + 1] * rest
<1> DEFINE low == LowerSum(f, b) + f[b]
           next == shifted[b + 1]
           Is(m) == \E rest \in Nat : LowerSum(f, m) = low + next * rest
           Good == { l \in Nat : b + 1 + l <= n => Is(b + 1 + l) }
<1>1. b \in Nat /\ b + 1 \in Nat /\ b + 1 <= n
  OBVIOUS
<1>2. /\ LowerSum(f, b + 1) = low /\ low \in Nat /\ next \in Nat
  <2>1. IsBinary(f, b + 1)
    BY DEF IsBinary
  <2>2. /\ LowerSum(f, b) \in Nat /\ f[b] \in {0, shifted[b]}
        /\ LowerSum(f, b + 1) = LowerSum(f, b) + f[b]
    BY <1>1, <2>1, LowerSums
  <2>3. shifted[b] \in Nat /\ next \in Nat
    BY <1>1, ShiftedPositive
  <2>4. QED  BY <2>2, <2>3
<1> HIDE DEF low
<1>3. 0 \in Good
  <2>1. b + 1 + 0 = b + 1
    OBVIOUS
  <2>2. LowerSum(f, b + 1) = low + next * 0
    BY <1>2
  <2>3. QED  BY <2>1, <2>2
<1>4. ASSUME NEW l \in Nat, l \in Good
      PROVE  l + 1 \in Good
  <2> SUFFICES ASSUME b + 1 + (l + 1) <= n PROVE Is(b + 1 + (l + 1))
    OBVIOUS
  <2> DEFINE m == b + 1 + l
  <2>1. m \in Nat /\ b + 1 + (l + 1) = m + 1 /\ m + 1 <= n
    OBVIOUS
  <2>2. PICK rest \in Nat : LowerSum(f, m) = low + next * rest
    BY <1>4
  <2>3. IsBinary(f, m + 1)
    BY <2>1 DEF IsBinary
  <2>4. f[m] \in {0, shifted[m]} /\ LowerSum(f, m + 1) = LowerSum(f, m) + f[m]
    BY <2>1, <2>3, LowerSums
  <2>5. shifted[m] = next * shifted[l] /\ shifted[l] \in Nat
    <3>1. shifted[(b + 1) + l] = shifted[b + 1] * shifted[l]
      BY <1>1, ShiftedSum
    <3>2. QED  BY <3>1, ShiftedPositive
  <2> HIDE DEF m, next
  <2>6. PICK more \in Nat : f[m] = next * more
    <3>1. next * 0 = 0
      BY <1>2
    <3>2. QED  BY <2>4, <2>5, <3>1
  <2>7. next * (rest + more) = next * rest + next * more /\ rest + more \in Nat
    BY <1>2
  <2>8. next * rest \in Nat /\ next * more \in Nat
    BY <1>2
  <2>9. LowerSum(f, m + 1) = low + next * (rest + more)
    BY <1>2, <2>2, <2>4, <2>6, <2>7, <2>8
  <2>10. QED  BY <2>1, <2>7, <2>9
<1> HIDE DEF Good, next
<1>5. Nat \subseteq Good
  BY <1>3, <1>4, NaturalInduction
<1>6. n - (b + 1) \in Nat /\ b + 1 + (n - (b + 1)) = n
  BY <1>1
<1>7. Is(n)
  BY <1>5, <1>6 DEF Good
<1>8. QED  BY <1>7 DEF low, next

\* The quotient of a multiple and something smaller.
LEMMA QuotientIs ==
  ASSUME NEW x \in Nat, NEW y \in Nat \ {0}, NEW q \in Nat, NEW r \in Nat, r < y, x = r + y * q
  PROVE  x \div y = q
<1> DEFINE d == x \div y
<1>1. d \in Nat /\ y * d <= x /\ x < y * d + y
  OBVIOUS
<1> HIDE DEF d
<1>2. d = q
  <2>1. ASSUME d < q
        PROVE  FALSE
    <3>1. y * (d + 1) <= y * q
      <4>1. \A a, c, e \in Nat : a <= c => e * a <= e * c
        OBVIOUS
      <4>2. d + 1 \in Nat /\ d + 1 <= q
        BY <1>1, <2>1
      <4>3. QED  BY <4>1, <4>2
    <3>2. y * (d + 1) = y * d + y /\ y * d \in Nat /\ y * q \in Nat
      BY <1>1
    <3>3. QED  BY <1>1, <3>1, <3>2
  <2>2. ASSUME q < d
        PROVE  FALSE
    <3>1. y * (q + 1) <= y * d
      <4>1. \A a, c, e \in Nat : a <= c => e * a <= e * c
        OBVIOUS
      <4>2. q + 1 \in Nat /\ q + 1 <= d
        BY <1>1, <2>2
      <4>3. QED  BY <1>1, <4>1, <4>2
    <3>2. y * (q + 1) = y * q + y /\ y * d \in Nat /\ y * q \in Nat
      BY <1>1
    <3>3. QED  BY <1>1, <3>1, <3>2
  <2>3. QED  BY <1>1, <2>1, <2>2
<1>3. QED  BY <1>2 DEF d

\* bitOf finds the bits.
LEMMA BitsOfSum ==
  ASSUME NEW n \in Nat, NEW f, IsBinary(f, n), NEW b \in 0 .. n - 1
  PROVE  bitOf(LowerSum(f, n), b) = IF f[b] = 0 THEN 0 ELSE 1
<1> DEFINE x == LowerSum(f, n)
           y == shifted[b]
           r == LowerSum(f, b)
           digit == IF f[b] = 0 THEN 0 ELSE 1
<1>1. PICK rest \in Nat : x = r + f[b] + shifted[b + 1] * rest
  BY HigherBits
<1>2. y \in Nat \ {0} /\ shifted[b + 1] = 2 * y
  BY Shifted, ShiftedPositive
<1>3. r \in Nat /\ r < y
  <2>1. IsBinary(f, b) /\ b \in Nat
    BY DEF IsBinary
  <2>2. QED  BY <2>1, LowerSumIsSmall
<1>4. x \in Nat
  BY LowerSumIsSmall
<1>5. f[b] = y * digit /\ digit \in {0, 1}
  <2>1. f[b] \in {0, y}
    BY DEF IsBinary
  <2>2. QED  BY <1>2, <2>1
<1>6. bitOf(x, b) = (x \div y) % 2
  BY DEF bitOf
<1> HIDE DEF x, y, r, digit
<1> DEFINE q == digit + 2 * rest
<1>7. q \in Nat
  BY <1>5
<1>8. y * q = y * digit + 2 * y * rest
  BY <1>2, <1>5
<1>9. x = r + y * q
  <2>1. y * digit \in Nat /\ 2 * y * rest \in Nat
    BY <1>2, <1>5
  <2>2. x = r + y * digit + 2 * y * rest
    BY <1>1, <1>2, <1>5
  <2>3. QED  BY <1>3, <1>8, <2>1, <2>2
<1>10. q % 2 = digit
  BY <1>5
<1> HIDE DEF q
<1>11. x \div y = q
  BY <1>2, <1>3, <1>4, <1>7, <1>9, QuotientIs
<1>12. QED  BY <1>6, <1>10, <1>11 DEF x, digit

\* byteAt is a sum of powers of two.
LEMMA ByteAtIs ==
  ASSUME NEW bits, NEW n \in Nat, NEW f,
         \A j \in 0 .. ByteBits - 1 :
           f[j] = IF n * ByteBits + j \in bits THEN shifted[j] ELSE 0
  PROVE  /\ IsBinary(f, ByteBits)
         /\ byteAt(bits, n) = LowerSum(f, ByteBits)
<1> DEFINE B == ByteBits
           S == 0 .. B - 1
           e(j) == IF n * B + j \in bits THEN shifted[j] ELSE 0
           P(g) == g = [s \in SUBSET S |->
                          IF s = {} THEN 0
                          ELSE e(CHOOSE x \in s : TRUE) + g[s \ {CHOOSE x \in s : TRUE}]]
<1>1. byteAt(bits, n) = (CHOOSE g : P(g))[S]
  BY DEF byteAt, MapThenSumSet, MapThenFoldSet
<1>2. B \in Nat \ {0}
  BY ByteHasBits
<1> HIDE DEF B
<1>3. \A j \in S : f[j] = e(j)
  BY DEF B
<1>4. \A j \in S : f[j] \in {0, shifted[j]} /\ f[j] \in Nat
  BY <1>3, ShiftedPositive
<1> HIDE DEF e
<1>5. IsFiniteSet(S)
  BY <1>2, FS_Interval
<1> HIDE DEF S
<1>6. \A s \in SUBSET S : s # {} => e(CHOOSE x \in s : TRUE) = f[CHOOSE x \in s : TRUE]
  BY <1>3
<1>7. \A g : P(g) <=> IsFold(g, f, S)
  <2>1. ASSUME NEW g, P(g)
        PROVE  IsFold(g, f, S)
    <3>1. {} \in SUBSET S /\ g = [s \in SUBSET S |-> g[s]] /\ g[{}] = 0
      BY <2>1
    <3>2. ASSUME NEW s \in SUBSET S, s # {}, NEW x, x = CHOOSE y \in s : TRUE
          PROVE  g[s] = f[x] + g[s \ {x}]
      <4>1. g[s] = e(CHOOSE y \in s : TRUE) + g[s \ {CHOOSE y \in s : TRUE}]
        BY <2>1, <3>2
      <4>2. QED  BY <1>6, <3>2, <4>1
    <3>3. QED  BY <3>1, <3>2 DEF IsFold
  <2>2. ASSUME NEW g, IsFold(g, f, S)
        PROVE  P(g)
    BY <1>6, <2>2 DEF IsFold
  <2>3. QED  BY <2>1, <2>2
<1> HIDE DEF P
<1>8. \E g : P(g)
  BY <1>4, <1>5, <1>7, FoldExists
<1>9. P(CHOOSE g : P(g))
  BY <1>8
<1>10. (CHOOSE g : P(g))[S] = Total(f, S)
  BY <1>4, <1>5, <1>7, <1>9, FoldIsTotal
<1>11. QED  BY <1>1, <1>4, <1>10 DEF IsBinary, LowerSum, S, B

\* bitsPer counts the bits of a byte that are 1.
LEMMA BitsPerIs ==
  ASSUME NEW value \in Nat, NEW f,
         \A j \in 0 .. ByteBits - 1 : f[j] = bitOf(value, j)
  PROVE  /\ bitsPer(value) = Total(f, 0 .. ByteBits - 1)
         /\ \A j \in 0 .. ByteBits - 1 : f[j] \in {0, 1}
<1> DEFINE S == 0 .. ByteBits - 1
           e(j) == bitOf(value, j)
           P(g) == g = [s \in SUBSET S |->
                          IF s = {} THEN 0
                          ELSE e(CHOOSE x \in s : TRUE) + g[s \ {CHOOSE x \in s : TRUE}]]
<1>1. bitsPer(value) = (CHOOSE g : P(g))[S]
  BY DEF bitsPer, MapThenSumSet, MapThenFoldSet
<1>2. \A j \in S : f[j] = e(j) /\ f[j] \in {0, 1}
  <2>1. \A x \in Nat, y \in Nat \ {0} : (x \div y) % 2 \in {0, 1}
    OBVIOUS
  <2>2. \A j \in S : bitOf(value, j) \in {0, 1}
    BY <2>1, ShiftedPositive DEF bitOf
  <2>3. QED  BY <2>2
<1>3. \A x \in S : f[x] = e(x) /\ f[x] \in Nat
  BY <1>2
<1>5. IsFiniteSet(S)
  BY ByteHasBits, FS_Interval
<1> HIDE DEF e, S
<1>6. \A s \in SUBSET S : s # {} => e(CHOOSE x \in s : TRUE) = f[CHOOSE x \in s : TRUE]
  BY <1>3
<1>7. \A g : P(g) <=> IsFold(g, f, S)
  <2>1. ASSUME NEW g, P(g)
        PROVE  IsFold(g, f, S)
    <3>1. {} \in SUBSET S /\ g = [s \in SUBSET S |-> g[s]] /\ g[{}] = 0
      BY <2>1
    <3>2. ASSUME NEW s \in SUBSET S, s # {}, NEW x, x = CHOOSE y \in s : TRUE
          PROVE  g[s] = f[x] + g[s \ {x}]
      <4>1. g[s] = e(CHOOSE y \in s : TRUE) + g[s \ {CHOOSE y \in s : TRUE}]
        BY <2>1, <3>2
      <4>2. QED  BY <1>6, <3>2, <4>1
    <3>3. QED  BY <3>1, <3>2 DEF IsFold
  <2>2. ASSUME NEW g, IsFold(g, f, S)
        PROVE  P(g)
    BY <1>6, <2>2 DEF IsFold
  <2>3. QED  BY <2>1, <2>2
<1> HIDE DEF P
<1>8. \E g : P(g)
  BY <1>3, <1>5, <1>7, FoldExists
<1>9. P(CHOOSE g : P(g))
  BY <1>8
<1>10. (CHOOSE g : P(g))[S] = Total(f, S)
  BY <1>3, <1>5, <1>7, <1>9, FoldIsTotal
<1>11. QED  BY <1>1, <1>2, <1>10 DEF S

\* What nsrl_bloom_utilization adds up for the first bytes.
LEMMA UtilizationIs ==
  ASSUME NEW o, NEW f, NEW count \in Nat,
         \A n \in 0 .. count - 1 :
           f[n] = bitsPer(byteAt(o.vector, n)) /\ f[n] \in Nat
  PROVE  bitsBelow(o, count) = Total(f, 0 .. count - 1)
<1> DEFINE S == 0 .. count - 1
           e(n) == bitsPer(byteAt(o.vector, n))
           P(g) == g = [s \in SUBSET S |->
                          IF s = {} THEN 0
                          ELSE e(CHOOSE x \in s : TRUE) + g[s \ {CHOOSE x \in s : TRUE}]]
<1>1. bitsBelow(o, count) = (CHOOSE g : P(g))[S]
  BY DEF bitsBelow, MapThenSumSet, MapThenFoldSet
<1>3. \A x \in S : f[x] = e(x) /\ f[x] \in Nat
  OBVIOUS
<1>5. IsFiniteSet(S)
  BY FS_Interval
<1> HIDE DEF e, S
<1>6. \A s \in SUBSET S : s # {} => e(CHOOSE x \in s : TRUE) = f[CHOOSE x \in s : TRUE]
  BY <1>3
<1>7. \A g : P(g) <=> IsFold(g, f, S)
  <2>1. ASSUME NEW g, P(g)
        PROVE  IsFold(g, f, S)
    <3>1. {} \in SUBSET S /\ g = [s \in SUBSET S |-> g[s]] /\ g[{}] = 0
      BY <2>1
    <3>2. ASSUME NEW s \in SUBSET S, s # {}, NEW x, x = CHOOSE y \in s : TRUE
          PROVE  g[s] = f[x] + g[s \ {x}]
      <4>1. g[s] = e(CHOOSE y \in s : TRUE) + g[s \ {CHOOSE y \in s : TRUE}]
        BY <2>1, <3>2
      <4>2. QED  BY <1>6, <3>2, <4>1
    <3>3. QED  BY <3>1, <3>2 DEF IsFold
  <2>2. ASSUME NEW g, IsFold(g, f, S)
        PROVE  P(g)
    BY <1>6, <2>2 DEF IsFold
  <2>3. QED  BY <2>1, <2>2
<1> HIDE DEF P
<1>8. \E g : P(g)
  BY <1>3, <1>5, <1>7, FoldExists
<1>9. P(CHOOSE g : P(g))
  BY <1>8
<1>10. (CHOOSE g : P(g))[S] = Total(f, S)
  BY <1>3, <1>5, <1>7, <1>9, FoldIsTotal
<1>11. QED  BY <1>1, <1>10 DEF S

\* What the histogram adds up.
LEMMA HistogramIs ==
  ASSUME NEW o, NEW f, shifted[ByteBits] \in Nat,
         \A value \in 1 .. shifted[ByteBits] - 1 :
           f[value] = bitsPer(value) * counts(o)[value] /\ f[value] \in Nat
  PROVE  histogramBits(o) = Total(f, 1 .. shifted[ByteBits] - 1)
<1> DEFINE S == 1 .. shifted[ByteBits] - 1
           e(value) == bitsPer(value) * counts(o)[value]
           P(g) == g = [s \in SUBSET S |->
                          IF s = {} THEN 0
                          ELSE e(CHOOSE x \in s : TRUE) + g[s \ {CHOOSE x \in s : TRUE}]]
<1>1. histogramBits(o) = (CHOOSE g : P(g))[S]
  BY DEF histogramBits, MapThenSumSet, MapThenFoldSet
<1>3. \A x \in S : f[x] = e(x) /\ f[x] \in Nat
  OBVIOUS
<1>5. IsFiniteSet(S)
  BY FS_Interval
<1> HIDE DEF e, S
<1>6. \A s \in SUBSET S : s # {} => e(CHOOSE x \in s : TRUE) = f[CHOOSE x \in s : TRUE]
  BY <1>3
<1>7. \A g : P(g) <=> IsFold(g, f, S)
  <2>1. ASSUME NEW g, P(g)
        PROVE  IsFold(g, f, S)
    <3>1. {} \in SUBSET S /\ g = [s \in SUBSET S |-> g[s]] /\ g[{}] = 0
      BY <2>1
    <3>2. ASSUME NEW s \in SUBSET S, s # {}, NEW x, x = CHOOSE y \in s : TRUE
          PROVE  g[s] = f[x] + g[s \ {x}]
      <4>1. g[s] = e(CHOOSE y \in s : TRUE) + g[s \ {CHOOSE y \in s : TRUE}]
        BY <2>1, <3>2
      <4>2. QED  BY <1>6, <3>2, <4>1
    <3>3. QED  BY <3>1, <3>2 DEF IsFold
  <2>2. ASSUME NEW g, IsFold(g, f, S)
        PROVE  P(g)
    BY <1>6, <2>2 DEF IsFold
  <2>3. QED  BY <2>1, <2>2
<1> HIDE DEF P
<1>8. \E g : P(g)
  BY <1>3, <1>5, <1>7, FoldExists
<1>9. P(CHOOSE g : P(g))
  BY <1>8
<1>10. (CHOOSE g : P(g))[S] = Total(f, S)
  BY <1>3, <1>5, <1>7, <1>9, FoldIsTotal
<1>11. QED  BY <1>1, <1>10 DEF S

\* A byte of the vector has the bits of the vector.
LEMMA ByteHasItsBits ==
  ASSUME NEW bits, NEW n \in Nat
  PROVE  /\ byteAt(bits, n) \in 0 .. shifted[ByteBits] - 1
         /\ \A j \in 0 .. ByteBits - 1 :
              bitOf(byteAt(bits, n), j) =
                IF n * ByteBits + j \in bits THEN 1 ELSE 0
<1> DEFINE B == ByteBits
           f == [j \in 0 .. B - 1 |-> IF n * B + j \in bits THEN shifted[j] ELSE 0]
<1>1. B \in Nat \ {0} /\ shifted[B] \in Nat
  BY ByteHasBits, ShiftedPositive
<1>2. \A j \in 0 .. B - 1 : f[j] = IF n * B + j \in bits THEN shifted[j] ELSE 0
  OBVIOUS
<1>3. \A j \in 0 .. B - 1 : f[j] = 0 <=> n * B + j \notin bits
  BY <1>2, ShiftedPositive
<1> HIDE DEF f
<1>4. IsBinary(f, B) /\ byteAt(bits, n) = LowerSum(f, B)
  BY <1>2, ByteAtIs
<1> HIDE DEF B
<1>5. LowerSum(f, B) \in Nat /\ LowerSum(f, B) < shifted[B]
  BY <1>1, <1>4, LowerSumIsSmall
<1>6. \A j \in 0 .. B - 1 : bitOf(LowerSum(f, B), j) = IF f[j] = 0 THEN 0 ELSE 1
  BY <1>1, <1>4, BitsOfSum
<1>7. byteAt(bits, n) \in 0 .. shifted[B] - 1
  BY <1>1, <1>4, <1>5
<1>8. \A j \in 0 .. B - 1 :
        bitOf(byteAt(bits, n), j) = IF n * B + j \in bits THEN 1 ELSE 0
  BY <1>3, <1>4, <1>6
<1>9. QED  BY <1>7, <1>8 DEF B

\* As many of some consecutive numbers are in a set as a sum says that counts
\* them one by one.
LEMMA CountUpTo ==
  ASSUME NEW bits, NEW a \in Nat, NEW n \in Nat, NEW f,
         \A j \in 0 .. n - 1 : f[j] = IF a + j \in bits THEN 1 ELSE 0
  PROVE  Total(f, 0 .. n - 1) = Cardinality(bits \cap (a .. a + n - 1))
<1> DEFINE in(m) == bits \cap (a .. a + m - 1)
           Good == { m \in Nat : m <= n => Total(f, 0 .. m - 1) = Cardinality(in(m)) }
<1>1. 0 \in Good
  <2>1. 0 .. 0 - 1 = {} /\ in(0) = {} /\ \A j \in {} : f[j] \in Nat
    OBVIOUS
  <2>2. Total(f, {}) = 0 /\ Cardinality({}) = 0
    BY <2>1, FS_EmptySet, Totals
  <2>3. QED  BY <2>1, <2>2
<1> HIDE DEF in
<1>2. ASSUME NEW m \in Nat, m \in Good
      PROVE  m + 1 \in Good
  <2> SUFFICES ASSUME m + 1 <= n PROVE Total(f, 0 .. (m + 1) - 1) = Cardinality(in(m + 1))
    OBVIOUS
  <2>1. \A j \in 0 .. m : f[j] \in Nat
    OBVIOUS
  <2>2. Total(f, 0 .. (m + 1) - 1) = Total(f, 0 .. m - 1) + f[m]
    BY <2>1, TotalUpTo
  <2>3. Total(f, 0 .. m - 1) = Cardinality(in(m))
    BY <1>2
  <2>4. f[m] = IF a + m \in bits THEN 1 ELSE 0
    OBVIOUS
  <2>5. IsFiniteSet(in(m))
    <3>1. a \in Int /\ a + m - 1 \in Int
      OBVIOUS
    <3>2. IsFiniteSet(a .. a + m - 1)
      BY <3>1, FS_Interval
    <3>3. QED  BY <3>2, FS_Subset DEF in
  <2>6. a + m \notin in(m)
    BY DEF in
  <2>7. in(m + 1) = IF a + m \in bits THEN in(m) \cup {a + m} ELSE in(m)
    <3>1. a .. a + (m + 1) - 1 = (a .. a + m - 1) \cup {a + m}
      OBVIOUS
    <3>2. QED  BY <3>1 DEF in
  <2>8. Cardinality(in(m)) \in Nat
    BY <2>5, FS_CardinalityType
  <2>9. Cardinality(in(m) \cup {a + m}) = Cardinality(in(m)) + 1
    BY <2>5, <2>6, FS_AddElement
  <2>10. QED  BY <2>2, <2>3, <2>4, <2>7, <2>8, <2>9
<1> HIDE DEF Good
<1>3. Nat \subseteq Good
  BY <1>1, <1>2, NaturalInduction
<1>4. QED  BY <1>3 DEF Good, in

\* bitsPer counts the bits of the vector in a byte.
LEMMA BitsOfByte ==
  ASSUME NEW bits, NEW n \in Nat
  PROVE  LET first == n * ByteBits IN
         bitsPer(byteAt(bits, n)) =
           Cardinality(bits \cap (first .. first + ByteBits - 1))
<1> DEFINE B == ByteBits
           first == n * B
           f == [j \in 0 .. B - 1 |-> IF first + j \in bits THEN 1 ELSE 0]
<1>1. B \in Nat /\ shifted[B] \in Nat /\ first \in Nat
  BY ByteHasBits, ShiftedPositive
<1>2. \A j \in 0 .. B - 1 : f[j] = IF first + j \in bits THEN 1 ELSE 0
  OBVIOUS
<1> HIDE DEF f
<1>3. /\ byteAt(bits, n) \in Nat
      /\ \A j \in 0 .. B - 1 : f[j] = bitOf(byteAt(bits, n), j)
  BY <1>1, <1>2, ByteHasItsBits
<1>4. bitsPer(byteAt(bits, n)) = Total(f, 0 .. B - 1)
  BY <1>3, BitsPerIs
<1> HIDE DEF B, first
<1>5. Total(f, 0 .. B - 1) = Cardinality(bits \cap (first .. first + B - 1))
  <2>1. B \in Nat /\ first \in Nat
    BY <1>1
  <2>2. QED  BY ONLY <1>2, <2>1, CountUpTo
<1>6. QED  BY <1>4, <1>5 DEF first, B

\* The bytes have all bits of the vector, each once.
LEMMA SumOfBytes ==
  ASSUME NEW bits, NEW width \in Nat, NEW n \in Nat, NEW f,
         \A j \in 0 .. n - 1 :
           f[j] = Cardinality(bits \cap (j * width .. j * width + width - 1))
  PROVE  Total(f, 0 .. n - 1) = Cardinality(bits \cap (0 .. n * width - 1))
<1> DEFINE below(m) == bits \cap (0 .. m * width - 1)
           own(m) == bits \cap (m * width .. m * width + width - 1)
           Good == { m \in Nat : m <= n => Total(f, 0 .. m - 1) = Cardinality(below(m)) }
<1>1. \A m \in Nat : IsFiniteSet(below(m)) /\ IsFiniteSet(own(m)) /\ Cardinality(own(m)) \in Nat
  <2> SUFFICES ASSUME NEW m \in Nat
               PROVE  IsFiniteSet(below(m)) /\ IsFiniteSet(own(m)) /\ Cardinality(own(m)) \in Nat
    OBVIOUS
  <2> DEFINE first == m * width
  <2>1. first \in Nat
    OBVIOUS
  <2> HIDE DEF first
  <2>2. 0 \in Int /\ first - 1 \in Int /\ first \in Int /\ first + width - 1 \in Int
    BY <2>1
  <2>3. IsFiniteSet(0 .. first - 1) /\ IsFiniteSet(first .. first + width - 1)
    BY <2>2, FS_Interval
  <2>4. IsFiniteSet(below(m)) /\ IsFiniteSet(own(m))
    BY <2>3, FS_Subset DEF first
  <2>5. QED  BY <2>4, FS_CardinalityType
<1>2. 0 \in Good
  <2>1. 0 .. 0 - 1 = {} /\ below(0) = {} /\ \A j \in {} : f[j] \in Nat
    <3>1. 0 * width = 0
      OBVIOUS
    <3>2. QED  BY <3>1
  <2>2. Total(f, {}) = 0 /\ Cardinality({}) = 0
    BY <2>1, FS_EmptySet, Totals
  <2>3. QED  BY <2>1, <2>2
<1>3. ASSUME NEW m \in Nat, m \in Good
      PROVE  m + 1 \in Good
  <2> SUFFICES ASSUME m + 1 <= n PROVE Total(f, 0 .. (m + 1) - 1) = Cardinality(below(m + 1))
    OBVIOUS
  <2>1. f[m] = Cardinality(own(m)) /\ \A j \in 0 .. m : f[j] \in Nat
    <3>1. \A j \in 0 .. n - 1 : f[j] = Cardinality(own(j))
      OBVIOUS
    <3> HIDE DEF own
    <3>2. \A j \in 0 .. m : j \in 0 .. n - 1 /\ j \in Nat
      OBVIOUS
    <3>3. m \in 0 .. n - 1
      OBVIOUS
    <3>4. QED  BY <1>1, <3>1, <3>2, <3>3
  <2>2. Total(f, 0 .. (m + 1) - 1) = Total(f, 0 .. m - 1) + f[m]
    BY <2>1, TotalUpTo
  <2>3. Total(f, 0 .. m - 1) = Cardinality(below(m))
    BY <1>3
  <2>4. below(m + 1) = below(m) \cup own(m) /\ below(m) \cap own(m) = {}
    <3> DEFINE first == m * width
    <3>1. first \in Nat /\ (m + 1) * width = first + width
      <4>1. \A x, y \in Nat : x * y \in Nat /\ (x + 1) * y = x * y + y
        OBVIOUS
      <4>2. QED  BY <4>1
    <3> HIDE DEF first
    <3>2. /\ 0 .. first + width - 1 = (0 .. first - 1) \cup (first .. first + width - 1)
          /\ (0 .. first - 1) \cap (first .. first + width - 1) = {}
      BY <3>1
    <3>3. QED  BY <3>1, <3>2 DEF first
  <2> HIDE DEF below, own
  <2>5. Cardinality(below(m) \cup own(m)) = Cardinality(below(m)) + Cardinality(own(m))
    BY <1>1, <2>4, DisjointUnion
  <2>6. QED  BY <2>1, <2>2, <2>3, <2>4, <2>5
<1> HIDE DEF Good
<1>4. Nat \subseteq Good
  BY <1>2, <1>3, NaturalInduction
<1>5. QED  BY <1>4 DEF Good

\* The first n arguments for which b has the value.
Having(b, n, value) == { j \in 0 .. n - 1 : b[j] = value }

\* each is the weight of the values of b, and f that of a value times how
\* often b has it.
IsWeighted(top, n, b, w, each, f) ==
  /\ \A j \in 0 .. n - 1 : b[j] \in 0 .. top
  /\ \A value \in 0 .. top : w[value] \in Nat
  /\ w[0] = 0
  /\ \A j \in 0 .. n - 1 : each[j] = w[b[j]]
  /\ \A value \in 1 .. top : f[value] = w[value] * Cardinality(Having(b, n, value))

\* Adding up weights value by value is adding them up element by element.
LEMMA ByValue ==
  ASSUME NEW top \in Nat, NEW n \in Nat, NEW b, NEW w, NEW each, NEW f,
         IsWeighted(top, n, b, w, each, f)
  PROVE  Total(f, 1 .. top) = Total(each, 0 .. n - 1)
<1> DEFINE S == 1 .. top
           having(m, value) == Having(b, m, value)
           F(m) == [value \in S |-> w[value] * Cardinality(having(m, value))]
           Good == { m \in Nat : m <= n => Total(F(m), S) = Total(each, 0 .. m - 1) }
<1>1. IsFiniteSet(S)
  BY FS_Interval
<1>2. ASSUME NEW m \in Nat, NEW value
      PROVE  IsFiniteSet(having(m, value)) /\ Cardinality(having(m, value)) \in Nat
  <2>1. 0 \in Int /\ m - 1 \in Int
    OBVIOUS
  <2>2. IsFiniteSet(0 .. m - 1)
    BY <2>1, FS_Interval
  <2>3. having(m, value) \subseteq 0 .. m - 1
    BY DEF Having
  <2>4. IsFiniteSet(having(m, value))
    BY <2>2, <2>3, FS_Subset
  <2>5. QED  BY <2>4, FS_CardinalityType
<1>3. ASSUME NEW m \in Nat
      PROVE  \A value \in S : /\ F(m)[value] = w[value] * Cardinality(having(m, value))
                              /\ F(m)[value] \in Nat
  <2>1. \A x, y \in Nat : x * y \in Nat
    OBVIOUS
  <2>2. \A value \in S : w[value] \in Nat
    BY DEF IsWeighted
  <2> HIDE DEF having
  <2>3. QED  BY <1>2, <2>1, <2>2
<1>4. ASSUME NEW m \in Nat, NEW value
      PROVE  having(m + 1, value) = IF b[m] = value THEN having(m, value) \cup {m}
                                    ELSE having(m, value)
  <2>1. 0 .. (m + 1) - 1 = (0 .. m - 1) \cup {m}
    OBVIOUS
  <2>2. QED  BY <2>1 DEF Having
<1>5. \A m \in Nat : \A value : m \notin having(m, value)
  BY DEF Having
<1>6. \A value : having(0, value) = {}
  BY DEF Having
<1>7. \A value \in S : f[value] = w[value] * Cardinality(having(n, value))
  BY DEF IsWeighted
<1>8. \A value \in S : w[value] \in Nat
  BY DEF IsWeighted
<1>9. \A m \in 0 .. n - 1 : each[m] = w[b[m]] /\ b[m] \in S \cup {0} /\ each[m] \in Nat
  BY DEF IsWeighted
<1> HIDE DEF having, F, S
<1>10. 0 \in Good
  <2>1. 0 .. 0 - 1 = {} /\ \A j \in {} : each[j] \in Nat
    OBVIOUS
  <2>2. Total(each, {}) = 0
    BY <2>1, FS_EmptySet, Totals
  <2>3. \A value \in S : F(0)[value] = 0
    <3> DEFINE zero == 0
    <3>1. zero \in Nat
      OBVIOUS
    <3> HIDE DEF zero
    <3>2. \A value \in S : F(zero)[value] = w[value] * Cardinality(having(zero, value))
      BY <1>3, <3>1
    <3>3. \A value \in S : Cardinality(having(zero, value)) = 0
      BY <1>6, FS_EmptySet DEF zero
    <3>4. \A value \in S : F(zero)[value] = w[value] * 0
      BY <3>2, <3>3
    <3>5. \A x \in Nat : x * 0 = 0
      OBVIOUS
    <3>6. QED  BY <1>8, <3>4, <3>5 DEF zero
  <2>4. Pairs(F(0), S) = {}
    BY <2>3 DEF Pairs
  <2>5. Total(F(0), S) = 0
    BY <2>4, FS_EmptySet DEF Total
  <2>6. QED  BY <2>1, <2>2, <2>5
<1>11. ASSUME NEW m \in Nat, m \in Good
       PROVE  m + 1 \in Good
  <2> SUFFICES ASSUME m + 1 <= n PROVE Total(F(m + 1), S) = Total(each, 0 .. (m + 1) - 1)
    OBVIOUS
  <2>1. Total(F(m), S) = Total(each, 0 .. m - 1)
    BY <1>11
  <2>2. Total(each, 0 .. (m + 1) - 1) = Total(each, 0 .. m - 1) + each[m]
    <3>1. \A j \in 0 .. m : each[j] \in Nat
      BY <1>9
    <3>2. QED  BY <3>1, TotalUpTo
  <2>3. each[m] = w[b[m]] /\ b[m] \in S \cup {0} /\ each[m] \in Nat
    BY <1>9
  <2>4. m + 1 \in Nat
    OBVIOUS
  <2>5. \A value \in S \ {b[m]} : F(m + 1)[value] = F(m)[value]
    <3> SUFFICES ASSUME NEW value \in S \ {b[m]} PROVE F(m + 1)[value] = F(m)[value]
      OBVIOUS
    <3>1. having(m + 1, value) = having(m, value)
      BY <1>4
    <3> DEFINE l == m + 1
    <3>2. l \in Nat
      OBVIOUS
    <3> HIDE DEF l
    <3>3. F(l)[value] = w[value] * Cardinality(having(l, value))
      BY <1>3, <3>2
    <3>4. F(m)[value] = w[value] * Cardinality(having(m, value))
      BY <1>3
    <3>5. QED  BY <3>1, <3>3, <3>4 DEF l
  <2>6. CASE b[m] \in S
    <3> DEFINE v == b[m]
    <3>1. Cardinality(having(m + 1, v)) = Cardinality(having(m, v)) + 1
      <4>1. having(m + 1, v) = having(m, v) \cup {m}
        BY <1>4
      <4>2. IsFiniteSet(having(m, v)) /\ m \notin having(m, v)
        BY <1>2, <1>5
      <4>3. QED  BY <4>1, <4>2, FS_AddElement
    <3>2. F(m + 1)[v] = w[v] * (Cardinality(having(m, v)) + 1)
      BY <1>3, <2>4, <2>6, <3>1
    <3>3. F(m)[v] = w[v] * Cardinality(having(m, v)) /\ F(m)[v] \in Nat /\ w[v] \in Nat
      BY <1>3, <1>8, <2>6
    <3>4. F(m + 1)[v] = F(m)[v] + w[v]
      <4>1. \A x, y \in Nat : x * (y + 1) = x * y + x
        OBVIOUS
      <4>2. Cardinality(having(m, v)) \in Nat
        BY <1>2
      <4>3. QED  BY <3>2, <3>3, <4>1, <4>2
    <3>5. Total(F(m + 1), S \ {v}) = Total(F(m), S \ {v})
      BY <2>5, TotalsAgree
    <3>6. Total(F(m + 1), S) = F(m + 1)[v] + Total(F(m + 1), S \ {v})
      <4>1. \A value \in S : F(m + 1)[value] \in Nat
        BY <1>3, <2>4
      <4>2. QED  BY <1>1, <2>6, <4>1, Totals
    <3>7. Total(F(m), S) = F(m)[v] + Total(F(m), S \ {v})
      <4>1. \A value \in S : F(m)[value] \in Nat
        BY <1>3
      <4>2. QED  BY <1>1, <2>6, <4>1, Totals
    <3>8. IsFiniteSet(S \ {v}) /\ \A value \in S \ {v} : F(m)[value] \in Nat
      BY <1>1, <1>3, FS_RemoveElement
    <3>9. Total(F(m), S \ {v}) \in Nat
      BY <3>8, Totals
    <3>10. each[m] = w[v]
      BY <2>3
    <3> HIDE DEF v
    <3>11. QED  BY <2>1, <2>2, <3>3, <3>4, <3>5, <3>6, <3>7, <3>9, <3>10
  <2>7. CASE b[m] \notin S
    <3>1. b[m] = 0 /\ each[m] = 0
      <4>1. w[0] = 0
        BY DEF IsWeighted
      <4>2. QED  BY <2>3, <2>7, <4>1
    <3>2. Total(F(m + 1), S) = Total(F(m), S)
      <4>1. \A value \in S : F(m + 1)[value] = F(m)[value]
        BY <2>5, <2>7
      <4>2. QED  BY <4>1, TotalsAgree
    <3>3. Total(F(m), S) \in Nat
      BY <1>1, <1>3, Totals
    <3>4. QED  BY <2>1, <2>2, <3>1, <3>2, <3>3
  <2>8. QED  BY <2>6, <2>7
<1> HIDE DEF Good
<1>12. Nat \subseteq Good
  BY <1>10, <1>11, NaturalInduction
<1>13. Total(F(n), S) = Total(each, 0 .. n - 1)
  BY <1>12 DEF Good
<1>14. Total(f, S) = Total(F(n), S)
  <2>1. \A value \in S : f[value] = F(n)[value]
    BY <1>3, <1>7
  <2>2. QED  BY <2>1, TotalsAgree
<1>15. QED  BY <1>13, <1>14 DEF S

\* The instance has its own name for the number of elements.
LEMMA SameCardinality ==
  ASSUME NEW s
  PROVE  Cardinality(s) = Cardinality(s)
BY DEF Cardinality, Cardinality

\* The bits of a value are a number, and 0 has none.
LEMMA BitsOfValue ==
  ASSUME NEW value \in Nat
  PROVE  bitsPer(value) \in Nat /\ (value = 0 => bitsPer(value) = 0)
<1> DEFINE B == ByteBits
           g == [j \in 0 .. B - 1 |-> bitOf(value, j)]
<1>1. \A j \in 0 .. B - 1 : g[j] = bitOf(value, j)
  OBVIOUS
<1> HIDE DEF g
<1>2. bitsPer(value) = Total(g, 0 .. B - 1) /\ \A j \in 0 .. B - 1 : g[j] \in {0, 1}
  BY <1>1, BitsPerIs
<1>3. IsFiniteSet(0 .. B - 1)
  <2>1. B \in Nat
    BY ByteHasBits
  <2> HIDE DEF B
  <2>2. 0 \in Int /\ B - 1 \in Int
    BY <2>1
  <2>3. QED  BY <2>2, FS_Interval
<1> HIDE DEF B
<1>4. \A j \in 0 .. B - 1 : g[j] \in Nat
  BY <1>2
<1>5. bitsPer(value) \in Nat
  BY <1>2, <1>3, <1>4, Totals
<1>6. ASSUME value = 0
      PROVE  bitsPer(value) = 0
  <2>1. \A y \in Nat \ {0} : (0 \div y) % 2 = 0
    OBVIOUS
  <2>2. \A j \in 0 .. B - 1 : g[j] = 0
    BY <1>1, <1>6, <2>1, ShiftedPositive DEF bitOf
  <2>3. Pairs(g, 0 .. B - 1) = {}
    BY <2>2 DEF Pairs
  <2>4. QED  BY <1>2, <2>3, FS_EmptySet DEF Total
<1>7. QED  BY <1>5, <1>6

\* The first bytes have the first bits of the vector.
LEMMA BitsBelowIs ==
  ASSUME NEW o, NEW count \in Nat, NEW each,
         \A n \in 0 .. count - 1 : each[n] = bitsPer(byteAt(o.vector, n))
  PROVE  /\ bitsBelow(o, count) = Total(each, 0 .. count - 1)
         /\ Total(each, 0 .. count - 1) =
              Cardinality(o.vector \cap (0 .. count * ByteBits - 1))
<1> DEFINE B == ByteBits
           top == shifted[B] - 1
<1>1. B \in Nat /\ shifted[B] \in Nat /\ top \in Nat
  <2>1. B \in Nat
    BY ByteHasBits
  <2>2. shifted[B] \in Nat \ {0}
    BY <2>1, ShiftedPositive
  <2>3. QED  BY <2>1, <2>2
<1>2. \A n \in 0 .. count - 1 : each[n] \in Nat
  <2>1. \A n \in 0 .. count - 1 : n \in Nat
    OBVIOUS
  <2>2. \A n \in 0 .. count - 1 : byteAt(o.vector, n) \in 0 .. top
    BY <1>1, <2>1, ByteHasItsBits
  <2>3. \A n \in 0 .. count - 1 : byteAt(o.vector, n) \in Nat
    BY <1>1, <2>2
  <2>4. QED  BY <2>3, BitsOfValue
<1>3. bitsBelow(o, count) = Total(each, 0 .. count - 1)
  BY <1>2, UtilizationIs
<1>4. \A n \in 0 .. count - 1 :
        each[n] = Cardinality(o.vector \cap (n * B .. n * B + B - 1))
  <2>1. \A n \in Nat :
          bitsPer(byteAt(o.vector, n)) =
            Cardinality(o.vector \cap (n * B .. n * B + B - 1))
    BY BitsOfByte
  <2>2. \A n \in 0 .. count - 1 : n \in Nat
    OBVIOUS
  <2> HIDE DEF B
  <2>3. QED  BY <2>1, <2>2
<1> HIDE DEF B
<1>5. Total(each, 0 .. count - 1) = Cardinality(o.vector \cap (0 .. count * B - 1))
  <2> DEFINE bits == o.vector
  <2>1. B \in Nat /\ count \in Nat
    BY <1>1
  <2>2. \A n \in 0 .. count - 1 : each[n] = Cardinality(bits \cap (n * B .. n * B + B - 1))
    BY <1>4
  <2> HIDE DEF bits
  <2>3. Total(each, 0 .. count - 1) = Cardinality(bits \cap (0 .. count * B - 1))
    BY ONLY <2>1, <2>2, SumOfBytes
  <2>4. QED  BY <2>3 DEF bits
<1>6. QED  BY <1>3, <1>5 DEF B

\* Both statistics of a vector that has the size M says are the number of its
\* bits that are 1.
LEMMA StatisticsCount ==
  ASSUME NEW o, o.M \in Nat, o.M >= BytePower,
         o.vector \subseteq 0 .. shifted[o.M] - 1
  PROVE  /\ vectorBytes(o) \in Nat
         /\ bitsBelow(o, vectorBytes(o)) = Cardinality(o.vector)
         /\ histogramBits(o) = Cardinality(o.vector)
<1> DEFINE V == vectorBytes(o)
           B == ByteBits
           top == shifted[B] - 1
           b == [n \in 0 .. V - 1 |-> byteAt(o.vector, n)]
           w == [value \in 0 .. top |-> bitsPer(value)]
           each == [n \in 0 .. V - 1 |-> bitsPer(byteAt(o.vector, n))]
           f == [value \in 1 .. top |-> bitsPer(value) * counts(o)[value]]
<1>1. /\ B \in Nat /\ V \in Nat /\ shifted[B] \in Nat /\ top \in Nat
      /\ V * B = shifted[o.M]
  <2> DEFINE rest == o.M - BytePower
  <2>1. rest \in Nat /\ BytePower \in Nat /\ o.M = rest + BytePower
    BY FormatConstants
  <2> HIDE DEF rest
  <2>2. shifted[rest + BytePower] = shifted[rest] * shifted[BytePower]
    BY <2>1, ShiftedSum
  <2>3. V = shifted[rest] /\ B = shifted[BytePower]
    BY DEF vectorBytes, ByteBits, rest
  <2>4. V \in Nat /\ B \in Nat
    BY <2>1, <2>3, ShiftedPositive
  <2>5. shifted[B] \in Nat \ {0}
    BY <2>4, ShiftedPositive
  <2>6. QED  BY <2>1, <2>2, <2>3, <2>4, <2>5
<1>2. counts(o) =
        [value \in 1 .. top |->
           Cardinality({ n \in 0 .. V - 1 : byteAt(o.vector, n) = value })]
  BY DEF counts
<1>3. \A n \in Nat : byteAt(o.vector, n) \in 0 .. top
  BY <1>1, ByteHasItsBits
<1>5. \A value \in Nat : bitsPer(value) \in Nat /\ (value = 0 => bitsPer(value) = 0)
  BY BitsOfValue
<1>6. /\ bitsBelow(o, V) = Total(each, 0 .. V - 1)
      /\ Total(each, 0 .. V - 1) = Cardinality(o.vector \cap (0 .. V * B - 1))
  <2>1. \A n \in 0 .. V - 1 : each[n] = bitsPer(byteAt(o.vector, n))
    OBVIOUS
  <2> HIDE DEF each, V
  <2>2. QED  BY <1>1, <2>1, BitsBelowIs
<1> DEFINE having(value) == Having(b, V, value)
<1>7. ASSUME NEW value \in 1 .. top
      PROVE  /\ f[value] = bitsPer(value) * counts(o)[value]
             /\ f[value] = w[value] * Cardinality(having(value))
             /\ f[value] \in Nat
  <2>1. f[value] = bitsPer(value) * counts(o)[value]
    OBVIOUS
  <2>2. w[value] = bitsPer(value) /\ w[value] \in Nat
    <3>1. value \in 0 .. top /\ value \in Nat
      OBVIOUS
    <3>2. QED  BY <1>5, <3>1
  <2>3. having(value) = { n \in 0 .. V - 1 : byteAt(o.vector, n) = value }
    BY DEF Having
  <2> HIDE DEF f, w
  <2>4. counts(o)[value] = Cardinality(having(value))
    BY <1>2, <2>3, SameCardinality
  <2>5. IsFiniteSet(having(value))
    <3>1. having(value) \subseteq 0 .. V - 1
      BY DEF Having
    <3>2. 0 \in Int /\ V - 1 \in Int
      BY <1>1
    <3> HIDE DEF V, having
    <3>3. IsFiniteSet(0 .. V - 1)
      BY <3>2, FS_Interval
    <3>4. QED  BY <3>1, <3>3, FS_Subset
  <2>6. Cardinality(having(value)) \in Nat
    BY <2>5, FS_CardinalityType
  <2> HIDE DEF having
  <2>7. f[value] = w[value] * Cardinality(having(value))
    BY <2>1, <2>2, <2>4
  <2>8. f[value] \in Nat
    BY <2>2, <2>6, <2>7
  <2>9. QED  BY <2>1, <2>7, <2>8
<1>8. histogramBits(o) = Total(f, 1 .. top)
  <2>1. \A value \in 1 .. top :
          f[value] = bitsPer(value) * counts(o)[value] /\ f[value] \in Nat
    BY <1>7
  <2> HIDE DEF f
  <2>2. QED  BY <1>1, <2>1, HistogramIs
<1>9. o.vector \cap (0 .. V * B - 1) = o.vector
  BY <1>1
<1>10. Total(f, 1 .. top) = Total(each, 0 .. V - 1)
  <2>1. \A n \in 0 .. V - 1 : b[n] = byteAt(o.vector, n) /\ b[n] \in 0 .. top
    BY <1>3
  <2>2. \A n \in 0 .. V - 1 : each[n] = bitsPer(byteAt(o.vector, n))
    OBVIOUS
  <2>3. \A value \in 0 .. top : w[value] = bitsPer(value)
    OBVIOUS
  <2>4. \A n \in 0 .. V - 1 : each[n] = w[b[n]]
    BY <2>1, <2>2, <2>3
  <2>5. \A value \in 0 .. top : w[value] \in Nat
    <3>1. \A value \in 0 .. top : value \in Nat
      OBVIOUS
    <3>2. QED  BY <1>5, <2>3, <3>1
  <2>6. w[0] = 0
    <3>1. 0 \in 0 .. top /\ 0 \in Nat
      BY <1>1
    <3>2. QED  BY <1>5, <2>3, <3>1
  <2>7. \A value \in 1 .. top :
          f[value] = w[value] * Cardinality(Having(b, V, value))
    BY <1>7
  <2>8. top \in Nat /\ V \in Nat
    BY <1>1
  <2>9. \A n \in 0 .. V - 1 : b[n] \in 0 .. top
    BY <2>1
  <2> HIDE DEF b, w, each, f, V, top
  <2>10. IsWeighted(top, V, b, w, each, f)
    BY <2>4, <2>5, <2>6, <2>7, <2>9 DEF IsWeighted
  <2>11. QED  BY <2>8, <2>10, ByValue
<1>11. QED  BY <1>1, <1>6, <1>8, <1>9, <1>10

\* The first bytes have no more bits than all.
LEMMA NotMoreBits ==
  ASSUME NEW o, o.M \in Nat, o.vector \subseteq 0 .. shifted[o.M] - 1, NEW count \in Nat
  PROVE  bitsBelow(o, count) <= Cardinality(o.vector)
<1> DEFINE each == [n \in 0 .. count - 1 |-> bitsPer(byteAt(o.vector, n))]
           below == o.vector \cap (0 .. count * ByteBits - 1)
           set == o.vector
<1>1. bitsBelow(o, count) = Cardinality(below)
  <2>1. \A n \in 0 .. count - 1 : each[n] = bitsPer(byteAt(o.vector, n))
    OBVIOUS
  <2> HIDE DEF each
  <2>2. QED  BY <2>1, BitsBelowIs
<1>2. IsFiniteSet(set)
  <2>1. 0 \in Int /\ shifted[o.M] - 1 \in Int
    BY ShiftedPositive
  <2>2. QED  BY <2>1, FS_Interval, FS_Subset
<1>3. below \subseteq set
  OBVIOUS
<1> HIDE DEF below, set
<1>4. Cardinality(below) <= Cardinality(set)
  BY <1>2, <1>3, FS_Subset
<1>5. QED  BY <1>1, <1>4 DEF set

\* The histogram counts the bits of the vector that are 1, and so does the
\* utilization when an int can count its bytes; otherwise that counts no more
\* (StatisticsAgree).
THEOREM StatisticsAreRight ==
  FormatSpec => []StatisticsAgree
<1>1. ASSUME FormatTypeInv
      PROVE  StatisticsAgree
  <2> DEFINE set == Cardinality(object.vector)
             all == vectorBytes(object)
  <2> SUFFICES ASSUME at = "live"
               PROVE  /\ histogramBits(object) = set
                      /\ \A bits \in utilizationBits(object) :
                           IF all <= IntValues THEN bits = set ELSE bits <= set
    BY DEF StatisticsAgree
  <2>1. IsObject(object) /\ object.M >= BytePower
    BY <1>1 DEF FormatTypeInv, FilterInv
  <2>2. /\ object.M \in Nat /\ IntValues \in Nat
        /\ object.vector \subseteq 0 .. shifted[object.M] - 1
    BY <2>1, FormatConstants DEF IsObject
  <2>3. /\ all \in Nat
        /\ bitsBelow(object, all) = set
        /\ histogramBits(object) = set
    BY <2>1, <2>2, StatisticsCount, SameCardinality
  <2>4. \A count \in Nat : bitsBelow(object, count) <= set
    BY <2>2, NotMoreBits, SameCardinality
  <2>5. \A bits \in utilizationBits(object) :
          \/ bits = bitsBelow(object, all)
          \/ all > IntValues /\ bits = bitsBelow(object, IntValues)
    BY DEF utilizationBits
  <2> HIDE DEF set, all
  <2>6. ASSUME NEW bits \in utilizationBits(object)
        PROVE  IF all <= IntValues THEN bits = set ELSE bits <= set
    <3>1. bits = set \/ (all > IntValues /\ bits <= set)
      BY <2>2, <2>3, <2>4, <2>5
    <3>2. CASE bits = set
      <4>1. set <= set
        BY <2>3, <2>4
      <4>2. QED  BY <3>2, <4>1
    <3>3. CASE all > IntValues /\ bits <= set
      BY <2>2, <2>3, <3>3
    <3>4. QED  BY <3>1, <3>2, <3>3
  <2>7. QED  BY <2>3, <2>6
<1>2. QED  BY <1>1, FiltersAreFilters, PTL

-----------------------------------------------------------------------------
(***************************************************************************)
(* The lines nsrl_bloom_creator reads, for any size of the buffer and any  *)
(* file, with short lines and with long ones.                              *)
(***************************************************************************)
\* What RDSFileAssumption says of the buffer and the files.
LEMMA RDSConstants ==
  /\ BufSize \in Nat /\ BufSize >= 2
  /\ Files \subseteq Seq(STRING)
BY RDSFileAssumption DEF RDSFileAssumption

\* smallest() is the least number of a set.
LEMMA SmallestIs ==
  ASSUME NEW S, S \subseteq Nat, S # {}
  PROVE  smallest(S) \in S /\ \A y \in S : smallest(S) <= y
<1>1. \E x \in S : \A y \in S : x <= y
  BY LeastNatural
<1>2. QED  BY <1>1 DEF smallest

\* The least number is the only one.
LEMMA SmallestIsOnly ==
  ASSUME NEW S, S \subseteq Nat, NEW x \in S, \A y \in S : x <= y
  PROVE  smallest(S) = x
<1>1. smallest(S) \in S /\ \A y \in S : smallest(S) <= y
  BY SmallestIs
<1>2. x \in Nat /\ smallest(S) \in Nat /\ x <= smallest(S) /\ smallest(S) <= x
  BY <1>1
<1>3. QED  BY <1>2

\* largest() is the greatest number of a set that has a bound.
LEMMA LargestIs ==
  ASSUME NEW bound \in Nat, NEW S, S \subseteq 0 .. bound, S # {}
  PROVE  largest(S) \in S /\ \A y \in S : y <= largest(S)
<1>1. \E x \in S : \A y \in S : y <= x
  BY GreatestNatural
<1>2. QED  BY <1>1 DEF largest

\* The greatest number is the only one.
LEMMA LargestIsOnly ==
  ASSUME NEW bound \in Nat, NEW S, S \subseteq 0 .. bound, NEW x \in S, \A y \in S : y <= x
  PROVE  largest(S) = x
<1>1. largest(S) \in S /\ \A z \in S : z <= largest(S)
  BY LargestIs
<1> DEFINE y == largest(S)
<1>2. y \in S /\ x <= y /\ y <= x
  BY <1>1
<1> HIDE DEF y
<1>3. x \in 0 .. bound /\ y \in 0 .. bound
  BY <1>2
<1>4. QED  BY <1>2, <1>3 DEF y

(***************************************************************************)
(* The inductive invariant, in named parts.                                *)
(***************************************************************************)
\* A part of the file.
Part(first, length, content) ==
  /\ first \in Nat /\ length \in Nat /\ first + length <= Len(file)
  /\ content = [j \in 1 .. length |-> first + j - 1]

\* The buffer holds a part of the file.
Buffered == Part(buf0, buflen, buf)

\* Half a buffer.
Half == BufSize \div 2

\* The byte before n is inside a long line.
InLong(n) ==
  /\ n >= Half
  /\ \A p \in n - Half .. n - 1 : ~ isEol(p)

\* The next line begins behind an end of line, or the buffer ends in a long line.
AtLine ==
  /\ file \in Files
  /\ reads \in Nat /\ asked \in 0 .. Len(file)
  /\ next_line \in 0 .. Len(file)
  /\ reads = 0 => buflen = 0
  /\ reads > 0 /\ next_line < Len(file) =>
       /\ next_line > 0
       /\ ~ isEol(next_line - 1) => next_line = buf0 + buflen /\ InLong(next_line)

\* What the calls have returned.
Returned ==
  /\ returned \in Seq([from : Nat, line : Seq(Nat)])
  /\ Len(returned) = reads

\* A call that returned something, before the end of the file.
Inside(j) == returned[j].from < Len(file) /\ returned[j].line # << >>

\* What is returned begins before the next line, and half a buffer before it
\* where the buffer ended in a line.
Before(p, next) ==
  /\ p < next
  /\ next < Len(file) /\ ~ isEol(next - 1) => p <= next - Half

\* What is returned of a short line is all of it.
Whole(text) == LET s == lineOf(text[1]) IN isShort(s) => text = Line(s)

\* The lines returned are whole, in order, and before the next one.
InOrder ==
  \A j \in DOMAIN returned : Inside(j) =>
    /\ Before(returned[j].line[1], next_line)
    /\ j # 1 => Whole(returned[j].line)
    /\ \A x \in DOMAIN returned :
         x < j /\ Inside(x) => returned[x].line[1] < returned[j].line[1]

\* The line with the byte asked for.
FirstLine ==
  reads > 0 /\ asked < Len(file) /\ ~ isEol(asked) =>
    LET s == lineOf(asked)
    IN  isShort(s) /\ (s > 0 \/ asked = 0) => returned[1].line = Line(s)

\* The inductive invariant.
LinesInv ==
  Buffered /\ AtLine /\ Returned /\ InOrder /\ FirstLine /\ NoLineIsSkipped

\* Half a buffer is a byte at least, and less than the buffer.
LEMMA Halves ==
  /\ BufSize \in Nat /\ Half \in Nat
  /\ Half >= 1 /\ 2 * Half <= BufSize
BY RDSConstants DEF Half

(***************************************************************************)
(* load_buffer: the offset is in the buffer or at its end, and from there  *)
(* on an end of line, the end of the file or half a buffer is too.         *)
(***************************************************************************)
LEMMA Load ==
  ASSUME Buffered, file \in Files,
         NEW place \in 0 .. Len(file), load_buffer(place), file' = file
  PROVE  /\ Buffered'
         /\ place \in buf0' .. buf0' + buflen'
         /\ \/ \E p \in place .. buf0' + buflen' - 1 : isEol(p)
            \/ buf0' + buflen' = Len(file)
            \/ buf0' + buflen' >= place + Half
         /\ ~ (place \in buf0 .. buf0 + buflen - 1) => buf0' = firstOf(place)
<1> DEFINE H == Half
<1>1. BufSize \in Nat /\ H \in Nat /\ H >= 1 /\ 2 * H <= BufSize
  BY Halves
<1>2. Len(file) \in Nat /\ file \in Seq(STRING)
  BY RDSConstants
<1>3. CASE loaded(place)
  <2>1. buf0' = buf0 /\ buflen' = buflen /\ buf' = buf
    BY <1>3 DEF load_buffer
  <2>2. place \in buf0 .. buf0 + buflen - 1
    BY <1>3 DEF loaded
  <2>3. PICK j \in place - buf0 .. buflen - 1 : isEol(buf[j + 1])
    BY <1>3 DEF loaded
  <2>4. buf[j + 1] = buf0 + j /\ buf0 + j \in place .. buf0 + buflen - 1
    BY <2>2, <2>3 DEF Buffered, Part
  <2>5. isEol(buf0 + j)
    BY <2>3, <2>4
  <2>6. Buffered'
    BY <2>1 DEF Buffered, Part
  <2>7. QED  BY <2>1, <2>2, <2>4, <2>5, <2>6 DEF Buffered, Part
<1>4. CASE ~ loaded(place)
  <2> DEFINE first == buf0'
             length == buflen'
  <2>1. /\ first = firstOf(place)
        /\ length = IF Len(file) - first > BufSize THEN BufSize ELSE Len(file) - first
        /\ buf' = [j \in 1 .. length |-> first + j - 1]
    BY <1>4 DEF load_buffer, Size
  <2>2. first = IF place > H THEN place - H ELSE 0
    BY <2>1 DEF firstOf, Half
  <2> HIDE DEF H
  <2>3. Buffered'
    <3>1. first \in Nat /\ first <= Len(file)
      BY <1>1, <1>2, <2>2
    <3> HIDE DEF first, length
    <3>2. length \in Nat /\ first + length <= Len(file)
      BY <1>1, <1>2, <2>1, <3>1
    <3>3. QED  BY <2>1, <3>1, <3>2 DEF Buffered, Part, first, length
  <2> HIDE DEF first, length
  <2>4. first \in Nat /\ length \in Nat /\ place \in first .. first + length
    <3>1. place \in Nat /\ place <= Len(file)
      BY <1>2
    <3>2. first \in Nat /\ first <= place /\ place <= first + H
      BY <1>1, <2>2, <3>1
    <3>3. length \in Nat /\ place <= first + length
      <4>1. CASE Len(file) - first > BufSize
        <5>1. length = BufSize  BY <2>1, <4>1
        <5>2. QED  BY <1>1, <3>1, <3>2, <5>1
      <4>2. CASE ~ (Len(file) - first > BufSize)
        <5>1. length = Len(file) - first  BY <2>1, <4>2
        <5>2. QED  BY <1>2, <3>1, <3>2, <5>1
      <4>3. QED  BY <4>1, <4>2
    <3>4. QED  BY <3>1, <3>2, <3>3
  <2>5. CASE Len(file) - first > BufSize
    <3>1. place + H <= first + length
      <4>1. length = BufSize  BY <2>1, <2>5
      <4>2. place \in Nat /\ place <= first + H
        BY <1>1, <1>2, <2>2
      <4>3. QED  BY <1>1, <1>2, <2>4, <2>5, <4>1, <4>2
    <3>2. QED  BY <2>1, <2>3, <2>4, <3>1 DEF first, length, H
  <2>6. CASE ~ (Len(file) - first > BufSize)
    <3>1. first + length = Len(file)
      BY <1>2, <2>1, <2>4, <2>6
    <3>2. QED  BY <2>1, <2>3, <2>4, <3>1 DEF first, length
  <2>7. QED  BY <2>5, <2>6
<1>5. QED  BY <1>3, <1>4

(***************************************************************************)
(* What a getline() finds: the first end of line from the offset on, or    *)
(* the end of the file, at end; the bytes behind it that are ends of lines *)
(* too, up to next; and where the line begins.                             *)
(***************************************************************************)
Ends(place, end) ==
  /\ end \in place .. Len(file)
  /\ \A p \in place .. end - 1 : ~ isEol(p)
  /\ end < Len(file) => isEol(end)

\* The same in a buffer that ends at last, which may be inside of a line.
Stops(place, end, next, last) ==
  /\ end \in place .. Len(file)
  /\ \A p \in place .. end - 1 : ~ isEol(p)
  /\ next \in end .. Len(file)
  /\ \A p \in end .. next - 1 : isEol(p)
  /\ end < Len(file) /\ ~ (next > end) => next = last /\ next >= place + Half

\* Where a line begins, in a buffer that begins at first.
Begins(first, place, start) ==
  /\ start \in first .. place
  /\ \A p \in start .. place - 1 : ~ isEol(p)
  /\ \/ start <= first + 1
     \/ isEol(start - 1)
  /\ place > first /\ isEol(place - 1) => start = place
  /\ start < place => start > first

\* The end of a line.
LEMMA LineEnds ==
  ASSUME NEW first, NEW length, NEW content, Part(first, length, content),
         file \in Seq(STRING), NEW place \in first .. first + length,
         NEW e, e = lineEnd(content, length, place - first)
  PROVE  /\ e \in place - first .. length
         /\ \A p \in place .. first + e - 1 : ~ isEol(p)
         /\ e < length => isEol(first + e)
<1> DEFINE o == place - first
           S == {j \in o .. length : j = length \/ isEol(content[j + 1])}
<1>1. /\ first \in Nat /\ length \in Nat /\ first + length <= Len(file) /\ Len(file) \in Nat
      /\ o \in 0 .. length /\ place = first + o
      /\ \A j \in 0 .. length - 1 : content[j + 1] = first + j
  BY DEF Part
<1>2. e = smallest(S)
  BY DEF lineEnd
<1>3. S \subseteq Nat /\ length \in S
  BY <1>1
<1>4. e \in S /\ \A y \in S : e <= y
  BY <1>2, <1>3, SmallestIs
<1>5. \A p \in place .. first + e - 1 : ~ isEol(p)
  <2> SUFFICES ASSUME NEW p \in place .. first + e - 1, isEol(p) PROVE FALSE
    OBVIOUS
  <2>1. p - first \in o .. length - 1 /\ p - first < e
    BY <1>1, <1>4
  <2>2. content[(p - first) + 1] = p
    <3> DEFINE j == p - first
    <3>1. j \in 0 .. length - 1 /\ first + j = p
      BY <1>1, <2>1
    <3> HIDE DEF j
    <3>2. content[j + 1] = p
      BY <1>1, <3>1
    <3>3. QED  BY <3>2 DEF j
  <2>3. p - first \in S
    BY <1>1, <2>1, <2>2
  <2>4. QED  BY <1>1, <1>4, <2>1, <2>3
<1>6. e < length => isEol(first + e)
  BY <1>1, <1>4
<1>7. QED  BY <1>1, <1>4, <1>5, <1>6

\* The bytes behind the end of a line.
LEMMA LineContinues ==
  ASSUME NEW first, NEW length, NEW content, Part(first, length, content),
         file \in Seq(STRING), NEW e \in 0 .. length,
         e < length => isEol(first + e),
         NEW n, n = behindEol(content, length, e)
  PROVE  /\ n \in e .. length
         /\ \A p \in first + e .. first + n - 1 : isEol(p)
         /\ e < length => n > e
<1> DEFINE S == {j \in e .. length : j = length \/ ~ isEol(content[j + 1])}
<1>1. /\ first \in Nat /\ length \in Nat /\ first + length <= Len(file) /\ Len(file) \in Nat
      /\ \A j \in 0 .. length - 1 : content[j + 1] = first + j
  BY DEF Part
<1>2. n = smallest(S)
  BY DEF behindEol
<1>3. S \subseteq Nat /\ length \in S
  BY <1>1
<1>4. n \in S /\ \A y \in S : n <= y
  BY <1>2, <1>3, SmallestIs
<1>5. \A p \in first + e .. first + n - 1 : isEol(p)
  <2> SUFFICES ASSUME NEW p \in first + e .. first + n - 1, ~ isEol(p) PROVE FALSE
    OBVIOUS
  <2>1. p - first \in e .. length - 1 /\ p - first < n
    BY <1>1, <1>4
  <2>2. content[(p - first) + 1] = p
    <3> DEFINE j == p - first
    <3>1. j \in 0 .. length - 1 /\ first + j = p
      BY <1>1, <2>1
    <3> HIDE DEF j
    <3>2. content[j + 1] = p
      BY <1>1, <3>1
    <3>3. QED  BY <3>2 DEF j
  <2>3. p - first \in S
    BY <1>1, <2>1, <2>2
  <2>4. n <= p - first
    BY <1>4, <2>3
  <2>5. n \in Nat /\ p - first \in Nat /\ p - first < n
    BY <1>1, <1>4, <2>1
  <2>6. QED  BY <2>4, <2>5
<1>6. e < length => n > e
  <2>1. e < length => ~ (e \in S)
    BY <1>1
  <2>2. QED  BY <1>1, <1>4, <2>1
<1>7. QED  BY <1>1, <1>4, <1>5, <1>6

\* The beginning of a line.
LEMMA LineBegins ==
  ASSUME NEW first, NEW length, NEW content, Part(first, length, content),
         NEW place \in first .. first + length,
         NEW s, s = lineStart(content, place - first)
  PROVE  /\ s \in 0 .. place - first
         /\ Begins(first, place, first + s)
<1> DEFINE o == place - first
           S == {j \in 0 .. o : j <= 1 \/ isEol(content[j])}
<1>1. /\ first \in Nat /\ length \in Nat
      /\ o \in 0 .. length /\ o \in Nat /\ place = first + o
      /\ \A j \in 1 .. length : content[j] = first + j - 1
  BY DEF Part
<1>2. s = largest(S)
  BY DEF lineStart
<1>3. S \subseteq 0 .. o /\ 0 \in S
  BY <1>1
<1>4. s \in S /\ \A y \in S : y <= s
  BY <1>1, <1>2, <1>3, LargestIs
<1> HIDE DEF o
<1>5. \A p \in first + s .. place - 1 : ~ isEol(p)
  <2> SUFFICES ASSUME NEW p \in first + s .. place - 1, isEol(p) PROVE FALSE
    OBVIOUS
  <2> DEFINE j == p - first + 1
  <2>1. j \in 1 .. length /\ j \in 0 .. o /\ j > s
    BY <1>1, <1>4
  <2>2. content[j] = p
    BY <1>1, <2>1
  <2>3. j \in S
    BY <2>1, <2>2
  <2>4. QED  BY <1>1, <1>4, <2>1, <2>3
<1>6. first + s <= first + 1 \/ isEol(first + s - 1)
  <2>1. CASE s <= 1
    BY <1>1, <1>4, <2>1
  <2>2. CASE isEol(content[s]) /\ ~ (s <= 1)
    BY <1>1, <1>4, <2>2
  <2>3. QED  BY <1>4, <2>1, <2>2
<1>7. place > first /\ isEol(place - 1) => first + s = place
  <2> SUFFICES ASSUME place > first, isEol(place - 1) PROVE s = o
    BY <1>1
  <2>1. content[o] = place - 1
    BY <1>1
  <2>2. o \in S
    BY <1>1, <2>1
  <2>3. QED  BY <1>1, <1>4, <2>2
<1>8. first + s < place => s >= 1
  <2>1. o >= 1 => 1 \in S
    BY <1>1
  <2>2. QED  BY <1>1, <1>4, <2>1
<1>9. QED
  BY <1>1, <1>4, <1>5, <1>6, <1>7, <1>8 DEF Begins, o

(***************************************************************************)
(* getline: the buffer, what is found in it, and what is returned.         *)
(***************************************************************************)
LEMMA Getline ==
  ASSUME Buffered, file \in Files,
         NEW place \in 0 .. Len(file), getline(place)
  PROVE  /\ Buffered'
         /\ file' = file /\ reads' = reads + 1
         /\ ~ (place \in buf0 .. buf0 + buflen - 1) => buf0' = firstOf(place)
         /\ \E start, end \in Nat :
              /\ Begins(buf0', place, start)
              /\ Stops(place, end, next_line', buf0' + buflen')
              /\ returned' = Append(returned, [from |-> place,
                                               line |-> [j \in 1 .. end - start |-> start + j - 1]])
<1> DEFINE first == buf0'
           length == buflen'
           content == buf'
           o == place - first
           s == lineStart(content, o)
           e == lineEnd(content, length, o)
           n == behindEol(content, length, e)
<1>1. /\ load_buffer(place)
      /\ next_line' = n + first
      /\ returned' = Append(returned, [from |-> place, line |-> SubSeq(content, s + 1, e)])
      /\ reads' = reads + 1
      /\ file' = file
  BY DEF getline
<1>2. /\ Buffered'
      /\ place \in first .. first + length
      /\ \/ \E p \in place .. first + length - 1 : isEol(p)
         \/ first + length = Len(file)
         \/ first + length >= place + Half
      /\ ~ (place \in buf0 .. buf0 + buflen - 1) => first = firstOf(place)
  BY <1>1, Load
<1>3. Part(first, length, content)
  BY <1>1, <1>2 DEF Buffered, Part
<1>4. file \in Seq(STRING)
  BY RDSConstants
<1> HIDE DEF first, length, content, s, e, n
<1>5. /\ e \in o .. length
      /\ \A p \in place .. first + e - 1 : ~ isEol(p)
      /\ e < length => isEol(first + e)
  BY <1>2, <1>3, <1>4, LineEnds DEF e
<1>6. s \in 0 .. o /\ Begins(first, place, first + s)
  BY <1>2, <1>3, LineBegins DEF s
<1>7. /\ first \in Nat /\ length \in Nat /\ first + length <= Len(file) /\ Len(file) \in Nat
      /\ content = [j \in 1 .. length |-> first + j - 1]
  BY <1>3, <1>4 DEF Part
<1>8. e \in 0 .. length /\ s \in 0 .. e /\ o \in Nat
  BY <1>2, <1>5, <1>6, <1>7
<1>9. Stops(place, first + e, next_line', first + length)
  <2>1. /\ n \in e .. length
        /\ \A p \in first + e .. first + n - 1 : isEol(p)
        /\ e < length => n > e
    BY <1>3, <1>4, <1>5, <1>8, LineContinues DEF n
  <2>2. next_line' = first + n
    BY <1>1, <1>7, <2>1
  <2>3. first + e \in place .. Len(file)
    BY <1>2, <1>5, <1>7, <1>8
  <2>4. first + n \in first + e .. Len(file)
    BY <1>7, <1>8, <2>1
  <2>5. ASSUME first + e < Len(file), ~ (first + n > first + e)
        PROVE  first + n = first + length /\ first + n >= place + Half
    <3>1. e = length /\ n = length
      BY <1>7, <1>8, <2>1, <2>5
    <3>2. ~ \E p \in place .. first + length - 1 : isEol(p)
      BY <1>5, <3>1
    <3>3. QED  BY <1>2, <1>7, <2>5, <3>1, <3>2
  <2>6. Stops(place, first + e, first + n, first + length)
    <3> DEFINE end == first + e
               next == first + n
    <3>1. end \in place .. Len(file) /\ next \in end .. Len(file)
      BY <2>3, <2>4
    <3>2. \A p \in place .. end - 1 : ~ isEol(p)
      BY <1>5, <1>7, <1>8
    <3>3. \A p \in end .. next - 1 : isEol(p)
      BY <1>7, <1>8, <2>1
    <3>4. end < Len(file) /\ ~ (next > end) => next = first + length /\ next >= place + Half
      BY <2>5
    <3> HIDE DEF end, next
    <3>5. Stops(place, end, next, first + length)
      BY <3>1, <3>2, <3>3, <3>4 DEF Stops
    <3>6. QED  BY <3>5 DEF end, next
  <2>7. QED  BY <2>2, <2>6
<1>10. SubSeq(content, s + 1, e) = [j \in 1 .. (first + e) - (first + s) |-> (first + s) + j - 1]
  <2>1. SubSeq(content, s + 1, e) = [j \in 1 .. e - s |-> content[s + j]]
    <3>1. content \in Seq(Nat) /\ Len(content) = length
      BY <1>7
    <3>2. SubSeq(content, s + 1, e) = [j \in 1 .. (e - (s + 1)) + 1 |-> content[(s + 1) + j - 1]]
      BY <3>1, <1>8
    <3>3. /\ (e - (s + 1)) + 1 = e - s
          /\ \A j \in 1 .. e - s : (s + 1) + j - 1 = s + j
      BY <1>8
    <3>4. QED  BY <3>2, <3>3
  <2>2. \A j \in 1 .. e - s : content[s + j] = (first + s) + j - 1
    BY <1>7, <1>8
  <2>3. (first + e) - (first + s) = e - s
    BY <1>7, <1>8
  <2>4. QED  BY <2>1, <2>2, <2>3
<1>11. first + e \in Nat /\ first + s \in Nat
  BY <1>7, <1>8
<1>12. QED
  BY <1>1, <1>2, <1>6, <1>9, <1>10, <1>11 DEF first, length

(***************************************************************************)
(* The lines of the file.                                                  *)
(***************************************************************************)
\* A line is told by where it ends.
LEMMA LineIs ==
  ASSUME NEW s \in Nat, NEW end, file \in Seq(STRING), Ends(s, end)
  PROVE  Line(s) = [j \in 1 .. end - s |-> s + j - 1]
<1> DEFINE E == {p \in s .. Len(file) : p = Len(file) \/ isEol(p)}
<1>1. /\ Len(file) \in Nat /\ end \in s .. Len(file)
      /\ \A p \in s .. end - 1 : ~ isEol(p)
      /\ end < Len(file) => isEol(end)
  BY DEF Ends
<1>2. E \subseteq Nat /\ end \in E
  BY <1>1
<1>3. \A y \in E : end <= y
  BY <1>1
<1>4. smallest(E) = end
  BY <1>2, <1>3, SmallestIsOnly
<1>5. QED  BY <1>4 DEF Line, Size

\* A line begins behind the beginning of the file or behind an end of line.
LEMMA IsStart ==
  ASSUME file \in Seq(STRING), NEW p \in Nat, p < Len(file)
  PROVE  p \in Starts <=> ~ isEol(p) /\ (p = 0 \/ isEol(p - 1))
BY DEF Starts, Size

\* The line a position is in begins behind the last end of line before it.
LEMMA LineOfIs ==
  ASSUME file \in Seq(STRING), NEW p \in Nat, p < Len(file), ~ isEol(p)
  PROVE  /\ lineOf(p) \in Starts
         /\ lineOf(p) \in 0 .. p
         /\ \A q \in lineOf(p) .. p : ~ isEol(q)
         /\ \A t \in Starts : t <= p => t <= lineOf(p)
<1> DEFINE C == {q \in 0 .. p : \A r \in q .. p : ~ isEol(r)}
           B == {t \in Starts : t <= p}
<1>1. Len(file) \in Nat /\ C \subseteq Nat /\ p \in C
  OBVIOUS
<1>2. PICK c \in C : \A q \in C : c <= q
  BY <1>1, LeastNatural
<1>3. c \in 0 .. p /\ \A r \in c .. p : ~ isEol(r)
  BY <1>2
<1>4. c = 0 \/ isEol(c - 1)
  <2> SUFFICES ASSUME c # 0, ~ isEol(c - 1) PROVE FALSE
    OBVIOUS
  <2>1. c - 1 \in 0 .. p /\ \A r \in c - 1 .. p : r = c - 1 \/ r \in c .. p
    BY <1>3
  <2>2. c - 1 \in C
    BY <1>3, <2>1
  <2>3. QED  BY <1>2, <1>3, <2>2
<1>5. c \in B
  BY <1>1, <1>3, <1>4, IsStart
<1>6. B \subseteq 0 .. p
  BY <1>1 DEF Starts, Size
<1> DEFINE m == largest(B)
<1>7. m \in B /\ \A t \in B : t <= m
  BY <1>5, <1>6, LargestIs
<1>8. lineOf(p) = m
  BY DEF lineOf
<1> HIDE DEF m
<1>9. m \in 0 .. p /\ c <= m
  BY <1>5, <1>6, <1>7
<1>10. QED  BY <1>3, <1>7, <1>8, <1>9

\* A line that begins where it is looked for.
LEMMA LineOfStart ==
  ASSUME file \in Seq(STRING), NEW p \in Starts
  PROVE  lineOf(p) = p
<1>1. p \in Nat /\ p < Len(file) /\ ~ isEol(p) /\ Len(file) \in Nat
  BY DEF Starts, Size
<1>2. lineOf(p) \in 0 .. p /\ p <= lineOf(p)
  BY <1>1, LineOfIs
<1>3. QED  BY <1>1, <1>2

\* A line with half a buffer of bytes is not short.
LEMMA LongIsNotShort ==
  ASSUME file \in Seq(STRING), NEW first \in Nat, NEW behind \in Nat,
         behind <= Len(file), first + Half <= behind,
         \A q \in first .. behind - 1 : ~ isEol(q)
  PROVE  ~ isShort(first)
<1> DEFINE E == {p \in first .. Len(file) : p = Len(file) \/ isEol(p)}
           e == smallest(E)
<1>1. Len(file) \in Nat /\ Half \in Nat
  BY Halves
<1>2. E \subseteq Nat /\ Len(file) \in E
  BY <1>1, Halves
<1>3. e \in E
  BY <1>2, SmallestIs
<1>4. Line(first) = [j \in 1 .. e - first |-> first + j - 1]
  BY DEF Line, Size
<1> HIDE DEF e
<1>5. e \in first .. Len(file) /\ e >= behind
  <2>1. e \in first .. Len(file) /\ (e = Len(file) \/ isEol(e))
    BY <1>3
  <2>2. CASE e < behind
    <3>1. e \in first .. behind - 1 /\ e # Len(file)
      BY <1>1, <2>1, <2>2
    <3>2. QED  BY <2>1, <3>1
  <2>3. QED  BY <1>1, <2>1, <2>2
<1>6. Len(Line(first)) = e - first
  <2> DEFINE d == e - first
  <2>1. d \in Nat
    BY <1>1, <1>5
  <2> HIDE DEF d
  <2>2. Len([j \in 1 .. d |-> first + j - 1]) = d
    BY <2>1
  <2>3. QED  BY <1>4, <2>2 DEF d
<1>7. e - first >= Half
  BY <1>1, <1>5
<1>8. QED  BY <1>1, <1>5, <1>6, <1>7 DEF isShort, Half

\* A piece that begins inside half a buffer without an end of line, or behind it,
\* is of a long line.
LEMMA PieceIsOfLong ==
  ASSUME file \in Seq(STRING), NEW n \in Nat, n <= Len(file), InLong(n),
         NEW p \in Nat, p < Len(file), p >= n - Half, p <= n, ~ isEol(p)
  PROVE  ~ isShort(lineOf(p))
<1> DEFINE m == lineOf(p)
<1>1. /\ m \in Starts /\ m \in 0 .. p
      /\ \A q \in m .. p : ~ isEol(q)
  BY LineOfIs
<1> HIDE DEF m
<1>2. Len(file) \in Nat /\ Half \in Nat /\ Half >= 1 /\ n >= Half
      /\ \A q \in n - Half .. n - 1 : ~ isEol(q)
  BY Halves DEF InLong
<1>3. m <= n - Half
  <2> SUFFICES ASSUME m > n - Half PROVE FALSE
    BY <1>1, <1>2
  <2>1. m # 0 /\ m - 1 \in n - Half .. n - 1
    BY <1>1, <1>2
  <2>2. m \in Nat /\ (m = 0 \/ isEol(m - 1))
    BY <1>1 DEF Starts
  <2>3. QED  BY <1>2, <2>1, <2>2
<1>4. \A q \in m .. n - 1 : ~ isEol(q)
  <2> SUFFICES ASSUME NEW q \in m .. n - 1 PROVE ~ isEol(q)
    OBVIOUS
  <2>1. q \in m .. p \/ q \in n - Half .. n - 1
    BY <1>1, <1>2
  <2>2. QED  BY <1>1, <1>2, <2>1
<1>5. m \in Nat /\ m + Half <= n
  BY <1>1, <1>2, <1>3
<1>6. QED  BY <1>4, <1>5, LongIsNotShort DEF m

(***************************************************************************)
(* What a getline() leaves: the next line begins behind an end of line, or *)
(* the buffer ended half a buffer or more behind the offset.               *)
(***************************************************************************)
LEMMA StopsAtLine ==
  ASSUME file \in Seq(STRING), NEW place \in 0 .. Len(file), NEW end, NEW next, NEW last,
         Stops(place, end, next, last)
  PROVE  /\ end \in Nat /\ next \in Nat
         /\ next \in place .. Len(file)
         /\ place < Len(file) => next > place
         /\ next < Len(file) => next > 0
         /\ next < Len(file) /\ ~ isEol(next - 1) =>
              /\ next = last /\ end = next
              /\ next >= place + Half
              /\ InLong(next)
<1>1. /\ Len(file) \in Nat /\ place \in Nat /\ Half \in Nat /\ Half >= 1
      /\ end \in place .. Len(file)
      /\ \A p \in place .. end - 1 : ~ isEol(p)
      /\ next \in end .. Len(file)
      /\ \A p \in end .. next - 1 : isEol(p)
      /\ end < Len(file) /\ ~ (next > end) => next = last /\ next >= place + Half
  BY Halves DEF Stops
<1>2. end \in Nat /\ next \in Nat /\ next \in place .. Len(file)
  BY <1>1
<1>3. place < Len(file) => next > place
  BY <1>1, <1>2
<1>4. ASSUME next < Len(file), ~ isEol(next - 1)
      PROVE  next = last /\ end = next /\ next >= place + Half /\ InLong(next)
  <2>1. ~ (next > end)
    <3> SUFFICES ASSUME next > end PROVE FALSE
      OBVIOUS
    <3>1. next - 1 \in end .. next - 1
      BY <1>1, <1>2
    <3>2. QED  BY <1>1, <1>4, <3>1
  <2>2. end = next /\ next = last /\ next >= place + Half
    BY <1>1, <1>2, <1>4, <2>1
  <2>3. \A p \in next - Half .. next - 1 : p \in place .. end - 1
    BY <1>1, <1>2, <2>2
  <2>4. next >= Half
    BY <1>1, <1>2, <2>2
  <2>5. QED  BY <1>1, <2>2, <2>3, <2>4 DEF InLong
<1>5. next < Len(file) => next > 0
  BY <1>1, <1>2, <1>3
<1>6. QED  BY <1>2, <1>3, <1>4, <1>5

\* What is returned of a line that begins at the offset.
LEMMA FromItsStart ==
  ASSUME file \in Seq(STRING), NEW s \in Starts, NEW place \in s .. Len(file),
         NEW end, NEW next, NEW last, Stops(place, end, next, last),
         \A q \in s .. place : ~ isEol(q),
         isShort(s), place < Len(file)
  PROVE  end > place /\ [j \in 1 .. end - s |-> s + j - 1] = Line(s)
<1>1. /\ Len(file) \in Nat /\ s \in Nat /\ place \in Nat /\ Half \in Nat /\ Half >= 1
      /\ end \in place .. Len(file)
      /\ \A p \in place .. end - 1 : ~ isEol(p)
      /\ next \in end .. Len(file)
      /\ \A p \in end .. next - 1 : isEol(p)
      /\ end < Len(file) /\ ~ (next > end) => next = last /\ next >= place + Half
  BY Halves DEF Stops, Starts, Size
<1>2. end \in Nat /\ next \in Nat
  BY <1>1
<1>3. \A q \in s .. end - 1 : ~ isEol(q)
  <2> SUFFICES ASSUME NEW q \in s .. end - 1 PROVE ~ isEol(q)
    OBVIOUS
  <2>1. q \in s .. place \/ q \in place .. end - 1
    BY <1>1, <1>2
  <2>2. QED  BY <1>1, <2>1
<1>4. CASE end < Len(file) /\ ~ (next > end)
  <2>1. s + Half <= end /\ end <= Len(file)
    BY <1>1, <1>2, <1>4
  <2>2. QED  BY <1>1, <1>2, <1>3, <2>1, LongIsNotShort
<1>5. CASE end < Len(file) /\ next > end
  <2>1. isEol(end)
    BY <1>1, <1>2, <1>5
  <2>2. end > place
    BY <1>1, <1>2, <2>1
  <2>3. Ends(s, end)
    BY <1>1, <1>2, <1>3, <2>1 DEF Ends
  <2>4. QED  BY <1>1, <2>2, <2>3, LineIs
<1>6. CASE ~ (end < Len(file))
  <2>1. end = Len(file) /\ end > place
    BY <1>1, <1>2, <1>6
  <2>2. Ends(s, end)
    BY <1>1, <1>2, <1>3, <2>1 DEF Ends
  <2>3. QED  BY <1>1, <2>1, <2>2, LineIs
<1>7. QED  BY <1>4, <1>5, <1>6

\* A line that begins between the offset and the next line begins at the offset.
LEMMA OneLineBegins ==
  ASSUME file \in Seq(STRING), NEW place \in 0 .. Len(file),
         NEW end, NEW next, NEW last, Stops(place, end, next, last),
         NEW s \in Starts, s \in place .. next - 1
  PROVE  s = place
<1>1. /\ Len(file) \in Nat /\ place \in Nat
      /\ end \in place .. Len(file)
      /\ \A p \in place .. end - 1 : ~ isEol(p)
      /\ next \in end .. Len(file)
      /\ \A p \in end .. next - 1 : isEol(p)
      /\ s \in Nat /\ ~ isEol(s) /\ (s = 0 \/ isEol(s - 1))
  BY DEF Stops, Starts, Size
<1>2. end \in Nat /\ next \in Nat
  BY <1>1
<1>3. s < end
  <2> SUFFICES ASSUME ~ (s < end) PROVE FALSE
    OBVIOUS
  <2>1. s \in end .. next - 1
    BY <1>1, <1>2
  <2>2. QED  BY <1>1, <2>1
<1>4. CASE s # place
  <2>1. s # 0 /\ s - 1 \in place .. end - 1
    BY <1>1, <1>2, <1>3, <1>4
  <2>2. QED  BY <1>1, <2>1
<1>5. QED  BY <1>4

(***************************************************************************)
(* nextline: what it returns begins behind what was returned before; it is *)
(* the whole of a short line or a piece of a long one; and no line begins  *)
(* behind it and before the next one.                                      *)
(***************************************************************************)
LEMMA NextlineStep ==
  ASSUME Buffered, AtLine, Nextline
  PROVE  /\ Buffered' /\ AtLine'
         /\ \E text \in Seq(Nat) :
              /\ returned' = Append(returned, [from |-> next_line, line |-> text])
              /\ next_line < Len(file) /\ text # << >> =>
                   /\ text[1] <= next_line
                   /\ ~ isEol(next_line - 1) => text[1] > next_line - Half
                   /\ isEol(next_line - 1) => text[1] = next_line
                   /\ Whole(text)
              /\ \A s \in Starts :
                   s \in next_line .. next_line' - 1 /\ isShort(s) =>
                     s = next_line /\ text # << >> /\ text = Line(s)
         /\ next_line' \in next_line .. Len(file)
         /\ next_line < Len(file) => next_line' > next_line
         /\ next_line' < Len(file) /\ ~ isEol(next_line' - 1) => next_line' >= next_line + Half
<1>1. getline(next_line) /\ reads > 0 /\ asked' = asked
  BY DEF Nextline, AtLine
<1>2. file \in Files /\ file \in Seq(STRING) /\ Len(file) \in Nat /\ next_line \in 0 .. Len(file)
      /\ reads \in Nat /\ asked \in 0 .. Len(file) /\ next_line \in Nat
      /\ Half \in Nat /\ Half >= 1
  BY RDSConstants, Halves DEF AtLine
<1>3. /\ Buffered' /\ file' = file /\ reads' = reads + 1
      /\ buf0' \in Nat
      /\ ~ (next_line \in buf0 .. buf0 + buflen - 1) => buf0' = firstOf(next_line)
  BY <1>1, <1>2, Getline DEF Buffered, Part
<1>4. PICK start \in Nat, end \in Nat :
        /\ Begins(buf0', next_line, start)
        /\ Stops(next_line, end, next_line', buf0' + buflen')
        /\ returned' = Append(returned, [from |-> next_line,
                                         line |-> [j \in 1 .. end - start |-> start + j - 1]])
  BY <1>1, <1>2, Getline
<1> DEFINE text == [j \in 1 .. end - start |-> start + j - 1]
           next == next_line'
           last == buf0' + buflen'
           first == buf0'
<1> HIDE DEF next, last, first
<1>5. Stops(next_line, end, next, last)
  BY <1>4 DEF next, last
<1>6. /\ next \in Nat /\ next \in next_line .. Len(file)
      /\ next_line < Len(file) => next > next_line
      /\ next < Len(file) => next > 0
      /\ next < Len(file) /\ ~ isEol(next - 1) =>
           next = last /\ end = next /\ next >= next_line + Half /\ InLong(next)
  BY <1>2, <1>5, StopsAtLine
<1>7. AtLine'
  <2>1. \A n : isEol(n)' <=> isEol(n)
    BY <1>3 DEF isEol
  <2>2. \A n : InLong(n)' <=> InLong(n)
    BY <2>1 DEF InLong, Half
  <2>3. QED  BY <1>1, <1>2, <1>3, <1>6, <2>1, <2>2 DEF AtLine, next, last
<1>8. /\ start \in first .. next_line
      /\ \A p \in start .. next_line - 1 : ~ isEol(p)
      /\ next_line > first /\ isEol(next_line - 1) => start = next_line
      /\ start < next_line => start > first
      /\ end \in next_line .. Len(file)
      /\ \A p \in next_line .. end - 1 : ~ isEol(p)
      /\ first \in Nat
  BY <1>3, <1>4, <1>5 DEF Begins, Stops, first
<1>9. end - start \in Nat /\ text \in Seq(Nat)
  <2>1. end - start \in Nat /\ \A j \in 1 .. end - start : start + j - 1 \in Nat
    BY <1>2, <1>8
  <2>2. QED  BY <2>1
<1>10. text # << >> => text[1] = start /\ start < end /\ ~ isEol(start) /\ start < Len(file)
  <2> SUFFICES ASSUME text # << >>
               PROVE  text[1] = start /\ start < end /\ ~ isEol(start) /\ start < Len(file)
    OBVIOUS
  <2>1. start < end
    BY <1>2, <1>8, <1>9
  <2>2. text[1] = start
    BY <1>9, <2>1
  <2>3. start \in start .. next_line - 1 \/ start \in next_line .. end - 1
    BY <1>2, <1>8, <2>1
  <2>4. QED  BY <1>2, <1>8, <2>1, <2>2, <2>3
<1>11. isEol(next_line - 1) /\ next_line < Len(file) => start = next_line
  BY <1>2, <1>8
<1>12. ~ isEol(next_line - 1) /\ next_line < Len(file) =>
         start > next_line - Half /\ InLong(next_line)
  <2> SUFFICES ASSUME ~ isEol(next_line - 1), next_line < Len(file)
               PROVE  start > next_line - Half /\ InLong(next_line)
    OBVIOUS
  <2>1. next_line = buf0 + buflen /\ InLong(next_line)
    BY <1>1 DEF AtLine
  <2>2. ~ (next_line \in buf0 .. buf0 + buflen - 1)
    BY <1>2, <2>1 DEF Buffered, Part
  <2>3. first = IF next_line > Half THEN next_line - Half ELSE 0
    BY <1>3, <2>2 DEF firstOf, Half, first
  <2>4. next_line >= Half
    BY <2>1 DEF InLong
  <2>5. first = next_line - Half
    BY <1>2, <2>3, <2>4
  <2>6. QED  BY <1>2, <1>8, <2>1, <2>5
<1> HIDE DEF text
<1>13. ASSUME isEol(next_line - 1), next_line < Len(file), ~ isEol(next_line)
       PROVE  /\ next_line \in Starts
              /\ isShort(next_line) => text # << >> /\ text = Line(next_line)
  <2>1. next_line \in Starts
    BY <1>2, <1>13, IsStart
  <2>2. ASSUME isShort(next_line)
        PROVE  end > next_line /\ text = Line(next_line)
    <3>1. \A q \in next_line .. next_line : ~ isEol(q)
      BY <1>2, <1>13
    <3>2. start = next_line
      BY <1>11, <1>13
    <3>3. next_line \in next_line .. Len(file)
      BY <1>2
    <3>4. QED  BY <1>2, <1>5, <1>13, <2>1, <2>2, <3>1, <3>2, <3>3, FromItsStart DEF text
  <2>3. ASSUME end > next_line
        PROVE  text # << >>
    <3>1. 1 \in 1 .. end - start
      BY <1>2, <1>8, <2>3
    <3>2. QED  BY <3>1 DEF text
  <2>4. QED  BY <2>1, <2>2, <2>3
<1>14. ASSUME next_line < Len(file), text # << >>
       PROVE  /\ text[1] <= next_line
              /\ ~ isEol(next_line - 1) => text[1] > next_line - Half
              /\ isEol(next_line - 1) => text[1] = next_line
              /\ Whole(text)
  <2>1. text[1] = start /\ ~ isEol(start) /\ start < Len(file) /\ start <= next_line
    BY <1>2, <1>8, <1>10, <1>14 DEF text
  <2>2. CASE isEol(next_line - 1)
    <3>1. start = next_line /\ ~ isEol(next_line)
      BY <1>11, <1>14, <2>1, <2>2
    <3>2. lineOf(next_line) = next_line
      BY <1>2, <1>13, <1>14, <2>2, <3>1, LineOfStart
    <3>3. Whole(text)
      BY <1>13, <1>14, <2>1, <2>2, <3>1, <3>2 DEF Whole
    <3>4. QED  BY <1>2, <2>1, <2>2, <3>1, <3>3
  <2>3. CASE ~ isEol(next_line - 1)
    <3>1. start > next_line - Half /\ InLong(next_line)
      BY <1>12, <1>14, <2>3
    <3>2. ~ isShort(lineOf(start))
      BY <1>2, <2>1, <3>1, PieceIsOfLong
    <3>3. QED  BY <2>1, <2>3, <3>1, <3>2 DEF Whole
  <2>4. QED  BY <2>2, <2>3
<1>15. ASSUME NEW s \in Starts, s \in next_line .. next - 1, isShort(s)
       PROVE  s = next_line /\ text # << >> /\ text = Line(s)
  <2>1. s = next_line
    BY <1>2, <1>5, <1>15, OneLineBegins
  <2>2. s \in Nat /\ s < Len(file) /\ ~ isEol(s) /\ (s = 0 \/ isEol(s - 1))
    BY <1>2 DEF Starts, Size
  <2>3. next_line > 0
    BY <1>1, <2>1, <2>2 DEF AtLine
  <2>4. QED  BY <1>2, <1>13, <1>15, <2>1, <2>2, <2>3
<1>16. \E l \in Seq(Nat) :
          /\ returned' = Append(returned, [from |-> next_line, line |-> l])
          /\ next_line < Len(file) /\ l # << >> =>
               /\ l[1] <= next_line
               /\ ~ isEol(next_line - 1) => l[1] > next_line - Half
               /\ isEol(next_line - 1) => l[1] = next_line
               /\ Whole(l)
          /\ \A s \in Starts :
               s \in next_line .. next - 1 /\ isShort(s) =>
                 s = next_line /\ l # << >> /\ l = Line(s)
  <2>1. returned' = Append(returned, [from |-> next_line, line |-> text])
    BY <1>4 DEF text
  <2>2. text \in Seq(Nat)
    BY <1>9 DEF text
  <2>3. QED  BY <1>14, <1>15, <2>1, <2>2
<1>17. QED  BY <1>3, <1>6, <1>7, <1>16 DEF next

\* The set of the calls with something in it.
LEMMA LinesAre ==
  ASSUME Returned
  PROVE  /\ DOMAIN returned = 1 .. reads
         /\ lines = {j \in DOMAIN returned : Inside(j)}
BY DEF Returned, lines, Inside, Size

\* nextline preserves the invariant.
LEMMA NextlineInv ==
  ASSUME LinesInv, Nextline
  PROVE  LinesInv'
<1>1. /\ Buffered /\ AtLine /\ Returned /\ InOrder /\ FirstLine /\ NoLineIsSkipped
      /\ reads \in Nat /\ Len(returned) = reads
      /\ returned \in Seq([from : Nat, line : Seq(Nat)])
      /\ Len(file) \in Nat /\ next_line \in 0 .. Len(file) /\ asked \in 0 .. Len(file)
      /\ Half \in Nat /\ Half >= 1
  BY RDSConstants, Halves DEF LinesInv, Returned, AtLine
<1>2. /\ reads > 0 /\ reads' = reads + 1
      /\ file' = file /\ asked' = asked
  BY <1>1 DEF Nextline, getline
<1>3. /\ Buffered' /\ AtLine'
      /\ next_line' \in next_line .. Len(file)
      /\ next_line < Len(file) => next_line' > next_line
      /\ next_line' < Len(file) /\ ~ isEol(next_line' - 1) => next_line' >= next_line + Half
  BY <1>1, NextlineStep
<1>4. PICK text \in Seq(Nat) :
        /\ returned' = Append(returned, [from |-> next_line, line |-> text])
        /\ next_line < Len(file) /\ text # << >> =>
             /\ text[1] <= next_line
             /\ ~ isEol(next_line - 1) => text[1] > next_line - Half
             /\ isEol(next_line - 1) => text[1] = next_line
             /\ Whole(text)
        /\ \A s \in Starts :
             s \in next_line .. next_line' - 1 /\ isShort(s) =>
               s = next_line /\ text # << >> /\ text = Line(s)
  BY <1>1, NextlineStep
<1> DEFINE last == [from |-> next_line, line |-> text]
           old == returned
           new == returned'
           InNew(j) == new[j].from < Len(file) /\ new[j].line # << >>
<1>4a. PICK n \in Nat : n = reads
  BY <1>1
<1>5. /\ new \in Seq([from : Nat, line : Seq(Nat)]) /\ Len(new) = n + 1
      /\ DOMAIN new = 1 .. n + 1 /\ DOMAIN old = 1 .. n
      /\ \A j \in 1 .. n : new[j] = old[j]
      /\ new[n + 1] = last
      /\ n >= 1
  BY <1>1, <1>2, <1>4, <1>4a
<1>6. Returned'
  BY <1>2, <1>4a, <1>5 DEF Returned
<1>7. /\ Starts' = Starts
      /\ \A s : Line(s)' = Line(s)
      /\ \A s : isShort(s)' <=> isShort(s)
      /\ \A p : lineOf(p)' = lineOf(p)
      /\ \A p : isEol(p)' <=> isEol(p)
      /\ \A l : Whole(l)' <=> Whole(l)
      /\ \A j : Inside(j)' <=> InNew(j)
  BY <1>2 DEF Starts, Line, Size, isEol, Inside, isShort, Whole, lineOf, smallest, largest
<1>8. /\ \A j \in 1 .. n : InNew(j) <=> Inside(j)
      /\ InNew(n + 1) <=> next_line < Len(file) /\ text # << >>
  BY <1>1, <1>5 DEF Inside
<1> HIDE DEF InNew
<1> DEFINE next == next_line'
<1>8a. /\ next \in Nat /\ next >= next_line
       /\ next_line < Len(file) => next > next_line
       /\ next < Len(file) /\ ~ isEol(next - 1) => next >= next_line + Half
  BY <1>1, <1>2, <1>3, <1>7
<1> HIDE DEF next
<1>9. InOrder'
  <2> SUFFICES ASSUME NEW j \in 1 .. n + 1, InNew(j)
               PROVE  /\ Before(new[j].line[1], next)
                      /\ j # 1 => Whole(new[j].line)
                      /\ \A x \in 1 .. n + 1 :
                           x < j /\ InNew(x) => new[x].line[1] < new[j].line[1]
    <3>1. \A q : Before(q, next_line)' <=> Before(q, next)
      BY <1>2, <1>7 DEF Before, next, Half
    <3>2. QED  BY <1>5, <1>7, <3>1 DEF InOrder
  <2>0. ASSUME NEW x \in 1 .. n, InNew(x)
        PROVE  /\ Inside(x) /\ new[x] = old[x] /\ x \in DOMAIN old
               /\ old[x].line[1] \in Nat
    <3>1. Inside(x) /\ new[x] = old[x] /\ x \in DOMAIN old
      BY <1>5, <1>8, <2>0
    <3>2. old[x] \in [from : Nat, line : Seq(Nat)]
      BY <1>1, <3>1, ElementOf
    <3>3. old[x].line \in Seq(Nat) /\ old[x].line # << >>
      BY <3>1, <3>2 DEF Inside
    <3>4. QED  BY <3>1, <3>3
  <2>1. CASE j \in 1 .. n
    <3>1. Inside(j) /\ new[j] = old[j] /\ j \in DOMAIN old /\ old[j].line[1] \in Nat
      BY <2>0, <2>1
    <3>2. /\ Before(old[j].line[1], next_line)
          /\ j # 1 => Whole(old[j].line)
          /\ \A x \in DOMAIN old : x < j /\ Inside(x) => old[x].line[1] < old[j].line[1]
      BY <1>1, <3>1 DEF InOrder
    <3>3. Before(new[j].line[1], next)
      <4> DEFINE p == old[j].line[1]
      <4>1. p \in Nat /\ Before(p, next_line)
        BY <3>1, <3>2
      <4>2. new[j].line[1] = p
        BY <3>1
      <4> HIDE DEF p
      <4>3. Before(p, next)
        BY <1>1, <1>8a, <4>1 DEF Before
      <4>4. QED  BY <4>2, <4>3
    <3>4. ASSUME NEW x \in 1 .. n + 1, x < j, InNew(x)
          PROVE  new[x].line[1] < new[j].line[1]
      <4>1. x \in 1 .. n
        BY <1>1, <2>1, <3>4
      <4>2. Inside(x) /\ new[x] = old[x] /\ x \in DOMAIN old
        BY <2>0, <3>4, <4>1
      <4>3. QED  BY <3>1, <3>2, <3>4, <4>2
    <3>5. QED  BY <3>1, <3>2, <3>3, <3>4
  <2>2. CASE j = n + 1
    <3>1. /\ new[j].line = text /\ next_line < Len(file) /\ text # << >>
          /\ text[1] <= next_line
          /\ ~ isEol(next_line - 1) => text[1] > next_line - Half
          /\ isEol(next_line - 1) => text[1] = next_line
          /\ Whole(text)
          /\ text[1] \in Nat
      BY <1>4, <1>5, <1>8, <2>2
    <3>2. Before(new[j].line[1], next)
      <4> DEFINE p == text[1]
      <4>1. p \in Nat /\ p <= next_line
        BY <3>1
      <4>2. new[j].line[1] = p
        BY <3>1
      <4> HIDE DEF p
      <4>3. Before(p, next)
        BY <1>1, <1>8a, <3>1, <4>1 DEF Before
      <4>4. QED  BY <4>2, <4>3
    <3>3. ASSUME NEW x \in 1 .. n + 1, x < j, InNew(x)
          PROVE  new[x].line[1] < text[1]
      <4>1. x \in 1 .. n
        BY <1>1, <2>2, <3>3
      <4>2. Inside(x) /\ new[x] = old[x] /\ x \in DOMAIN old /\ old[x].line[1] \in Nat
        BY <2>0, <3>3, <4>1
      <4>3. Before(old[x].line[1], next_line)
        BY <1>1, <4>2 DEF InOrder
      <4>4. old[x].line[1] < text[1]
        <5> DEFINE p == old[x].line[1]
                   q == text[1]
        <5>1. /\ p \in Nat /\ q \in Nat
              /\ Before(p, next_line)
              /\ ~ isEol(next_line - 1) => q > next_line - Half
              /\ isEol(next_line - 1) => q = next_line
          BY <3>1, <4>2, <4>3
        <5> HIDE DEF p, q
        <5>2. p < q
          BY <1>1, <3>1, <5>1 DEF Before
        <5>3. QED  BY <5>2 DEF p, q
      <4>5. QED  BY <4>2, <4>4
    <3>4. QED  BY <3>1, <3>2, <3>3
  <2>3. QED  BY <1>1, <2>1, <2>2
<1>10. FirstLine'
  <2>1. new[1] = old[1]
    BY <1>1, <1>2, <1>5
  <2>2. QED
    BY <1>1, <1>2, <1>7, <2>1 DEF FirstLine
<1>11. NoLineIsSkipped'
  <2> SUFFICES ASSUME NEW s \in Starts, s \in asked .. next_line' - 1, isShort(s)
               PROVE  \E j \in lines' : new[j].line = Line(s)
    BY <1>2, <1>7 DEF NoLineIsSkipped
  <2>1. lines' = {j \in 1 .. n + 1 : InNew(j)}
    BY <1>2, <1>5 DEF lines, InNew, Size
  <2>2. CASE s \in asked .. next_line - 1
    <3>1. PICK j \in lines : old[j].line = Line(s)
      BY <1>1, <1>2, <2>2 DEF NoLineIsSkipped
    <3>2. j \in 1 .. n /\ Inside(j)
      BY <1>1, <1>4a, <3>1, LinesAre
    <3>3. j \in lines' /\ new[j] = old[j]
      <4>1. new[j] = old[j] /\ InNew(j) /\ j \in 1 .. n + 1
        BY ONLY <1>5, <1>8, <3>2, n \in Nat
      <4>2. QED  BY ONLY <2>1, <4>1
    <3>4. QED  BY <3>1, <3>3
  <2>3. CASE s \in next_line .. next_line' - 1
    <3>1. s = next_line /\ text # << >> /\ text = Line(s)
      BY <1>4, <2>3
    <3>2. next_line < Len(file)
      BY <1>1, <3>1 DEF Starts, Size
    <3>3. n + 1 \in lines' /\ new[n + 1].line = text
      BY <1>1, <1>5, <1>8, <2>1, <3>1, <3>2
    <3>4. QED  BY <3>1, <3>3
  <2>4. QED
    <3>1. s \in Nat /\ asked \in Nat /\ next_line \in Nat /\ next_line' \in Nat
      BY <1>1, <1>3 DEF Starts, Size
    <3>2. s \in asked .. next_line - 1 \/ s \in next_line .. next_line' - 1
      <4>1. s \in asked .. next - 1 /\ next \in Nat
        BY <3>1 DEF next
      <4>2. s \in asked .. next_line - 1 \/ s \in next_line .. next - 1
        BY <3>1, <4>1
      <4>3. QED  BY <4>2 DEF next
    <3>3. QED  BY <2>2, <2>3, <3>2
<1>12. QED
  BY <1>3, <1>6, <1>9, <1>10, <1>11 DEF LinesInv

(***************************************************************************)
(* The first call, at any offset.                                          *)
(***************************************************************************)
LEMMA FirstInv ==
  ASSUME LinesInv, NEW place \in 0 .. Len(file), First(place)
  PROVE  LinesInv'
<1>1. /\ Buffered /\ AtLine /\ Returned
      /\ file \in Files /\ file \in Seq(STRING) /\ Len(file) \in Nat
      /\ returned \in Seq([from : Nat, line : Seq(Nat)])
      /\ Len(returned) = reads
      /\ place \in Nat /\ Half \in Nat /\ Half >= 1
  BY RDSConstants, Halves DEF LinesInv, AtLine, Returned
<1>2. /\ reads = 0 /\ buflen = 0
      /\ getline(place) /\ asked' = place
  BY <1>1 DEF First, AtLine
<1>3. /\ Buffered' /\ file' = file /\ reads' = 1
      /\ buf0' \in Nat
      /\ buf0' = firstOf(place)
  BY <1>1, <1>2, Getline DEF Buffered, Part
<1>4. PICK start \in Nat, end \in Nat :
        /\ Begins(buf0', place, start)
        /\ Stops(place, end, next_line', buf0' + buflen')
        /\ returned' = Append(returned, [from |-> place,
                                         line |-> [j \in 1 .. end - start |-> start + j - 1]])
  BY <1>1, <1>2, Getline
<1> DEFINE text == [j \in 1 .. end - start |-> start + j - 1]
           next == next_line'
           new == returned'
           first == buf0'
           last == buf0' + buflen'
<1> HIDE DEF next, first, last
<1>5. /\ end \in place .. Len(file)
      /\ \A p \in place .. end - 1 : ~ isEol(p)
      /\ Stops(place, end, next, last)
      /\ start \in first .. place
      /\ \A p \in start .. place - 1 : ~ isEol(p)
      /\ start <= first + 1 \/ isEol(start - 1)
      /\ place > first /\ isEol(place - 1) => start = place
      /\ start < place => start > first
  BY <1>4 DEF Stops, Begins, next, first, last
<1>6. /\ next \in Nat /\ next \in place .. Len(file)
      /\ place < Len(file) => next > place
      /\ next < Len(file) => next > 0
      /\ next < Len(file) /\ ~ isEol(next - 1) =>
           next = last /\ end = next /\ next >= place + Half /\ InLong(next)
  BY <1>1, <1>5, StopsAtLine
<1>7. AtLine'
  <2>1. \A n : isEol(n)' <=> isEol(n)
    BY <1>3 DEF isEol
  <2>2. \A n : InLong(n)' <=> InLong(n)
    BY <2>1 DEF InLong, Half
  <2>3. QED  BY <1>1, <1>2, <1>3, <1>6, <2>1, <2>2 DEF AtLine, next, last
<1>8. text \in Seq(Nat) /\ (text # << >> => text[1] = start /\ start < end)
  <2>1. end - start \in Nat /\ \A j \in 1 .. end - start : start + j - 1 \in Nat
    BY <1>1, <1>3, <1>5
  <2>2. text # << >> => 1 \in 1 .. end - start
    BY <2>1
  <2>3. QED  BY <1>1, <1>3, <1>5, <2>1, <2>2
<1>9. new = << [from |-> place, line |-> text] >>
  <2>1. returned = << >>
    BY <1>1, <1>2
  <2>2. QED  BY <1>4, <2>1
<1>10. Returned'
  BY <1>1, <1>3, <1>8, <1>9 DEF Returned
<1>11. /\ Starts' = Starts
       /\ \A s : Line(s)' = Line(s)
       /\ \A s : isShort(s)' <=> isShort(s)
       /\ \A p : lineOf(p)' = lineOf(p)
       /\ \A p : isEol(p)' <=> isEol(p)
       /\ DOMAIN new = {1} /\ new[1].line = text /\ new[1].from = place
  BY <1>3, <1>9 DEF Starts, Line, Size, isEol, isShort, lineOf, smallest, largest
<1> HIDE DEF text
<1>12. InOrder'
  <2> SUFFICES ASSUME text # << >>, place < Len(file)
               PROVE  /\ text[1] < next
                      /\ next < Len(file) /\ ~ isEol(next - 1) => text[1] <= next - Half
    BY <1>3, <1>11 DEF InOrder, Inside, Before, Half, next
  <2>1. text[1] = start /\ start <= place /\ start \in Nat
    BY <1>1, <1>3, <1>5, <1>8
  <2>2. QED  BY <1>1, <1>6, <2>1
<1>13. first = IF place > Half THEN place - Half ELSE 0
  BY <1>3 DEF firstOf, first, Half
<1>14. FirstLine'
  <2> DEFINE s == lineOf(place)
  <2> SUFFICES ASSUME place < Len(file), ~ isEol(place), isShort(s), s > 0 \/ place = 0
               PROVE  text = Line(s)
    BY <1>2, <1>3, <1>11 DEF FirstLine
  <2>1. /\ s \in Starts /\ s \in 0 .. place
        /\ \A q \in s .. place : ~ isEol(q)
    BY <1>1, LineOfIs
  <2> HIDE DEF s
  <2>2. s \in Nat /\ (s = 0 \/ isEol(s - 1)) /\ place \in s .. Len(file)
    BY <1>1, <2>1 DEF Starts
  <2>3. place + 1 - s < Half
    <3> SUFFICES ASSUME s + Half <= place + 1 PROVE FALSE
      BY <1>1, <2>1, <2>2
    <3> DEFINE behind == place + 1
    <3>1. /\ behind \in Nat /\ behind <= Len(file) /\ s + Half <= behind
          /\ \A q \in s .. behind - 1 : ~ isEol(q)
      BY <1>1, <2>1, <2>2
    <3> HIDE DEF behind
    <3>2. QED  BY <1>1, <2>2, <3>1, LongIsNotShort
  <2>4. start >= s
    <3> SUFFICES ASSUME start < s PROVE FALSE
      BY <1>1, <1>5, <2>2
    <3>1. s > 0 /\ s - 1 \in start .. place - 1
      BY <1>1, <1>5, <2>1, <2>2
    <3>2. QED  BY <1>5, <2>2, <3>1
  <2>5. start = s
    <3> SUFFICES ASSUME start > s PROVE FALSE
      BY <1>1, <2>2, <2>4
    <3>1. ~ isEol(start - 1)
      <4>1. start - 1 \in s .. place
        BY <1>1, <1>5, <2>2
      <4>2. QED  BY <2>1, <4>1
    <3>2. start <= first + 1 /\ start <= place
      BY <1>1, <1>3, <1>5, <3>1 DEF first
    <3>3. CASE place > Half
      BY <1>1, <1>13, <2>2, <2>3, <3>2, <3>3
    <3>4. CASE ~ (place > Half)
      <4>1. start = 1 /\ s = 0
        BY <1>1, <1>13, <2>2, <3>2, <3>4
      <4>2. QED  BY <1>1, <3>2, <4>1
    <3>5. QED  BY <3>3, <3>4
  <2>6. QED  BY <1>1, <1>5, <2>1, <2>2, <2>5, FromItsStart DEF text
<1>15. NoLineIsSkipped'
  <2> SUFFICES ASSUME NEW s \in Starts, s \in place .. next - 1, isShort(s)
               PROVE  text = Line(s) /\ text # << >>
    <3>1. ASSUME text # << >>, place < Len(file)
          PROVE  lines' = {1}
      BY <1>3, <1>11, <3>1 DEF lines, Size
    <3>2. \A s \in Starts : s \in place .. next - 1 => place < Len(file)
      BY <1>1, <1>6
    <3>3. QED  BY <1>2, <1>3, <1>11, <3>1, <3>2 DEF NoLineIsSkipped, next
  <2>1. s \in Nat /\ s < Len(file) /\ ~ isEol(s) /\ (s = 0 \/ isEol(s - 1))
    BY <1>1 DEF Starts, Size
  <2>2. s = place
    BY <1>1, <1>5, OneLineBegins
  <2>3. start = place
    <3> SUFFICES ASSUME start # place PROVE FALSE
      OBVIOUS
    <3>1. start < place /\ start >= first + 1 /\ place > 0 /\ first \in Nat
      BY <1>1, <1>3, <1>5 DEF first
    <3>2. isEol(place - 1)
      BY <2>1, <2>2, <3>1
    <3>3. QED  BY <1>1, <1>5, <3>1, <3>2
  <2>4. \A q \in s .. place : ~ isEol(q)
    BY <2>1, <2>2
  <2>5. place \in s .. Len(file) /\ place < Len(file)
    BY <1>1, <2>1, <2>2
  <2>6. end > place /\ text = Line(s)
    BY <1>1, <1>5, <2>2, <2>3, <2>4, <2>5, FromItsStart DEF text
  <2>7. text # << >>
    <3>1. 1 \in DOMAIN text
      BY <1>1, <1>5, <2>3, <2>6 DEF text
    <3>2. QED  BY <3>1
  <2>8. QED  BY <2>6, <2>7
<1>16. QED
  BY <1>3, <1>7, <1>10, <1>12, <1>14, <1>15 DEF LinesInv

\* The invariant holds initially.
LEMMA LinesInit == RDSInit => LinesInv
<1> SUFFICES ASSUME RDSInit PROVE LinesInv
  OBVIOUS
<1>1. file \in Files /\ file \in Seq(STRING) /\ Len(file) \in Nat
  BY RDSConstants DEF RDSInit
<1>2. QED
  BY <1>1 DEF RDSInit, LinesInv, Buffered, Part, AtLine, Returned, InOrder, FirstLine,
              NoLineIsSkipped

\* The invariant holds always.
LEMMA SpecLines ==
  RDSSpec => []LinesInv
<1>1. RDSInit => LinesInv
  BY LinesInit
<1>2. LinesInv /\ [RDSNext]_rdsvars => LinesInv'
  <2> SUFFICES ASSUME LinesInv, [RDSNext]_rdsvars PROVE LinesInv'
    OBVIOUS
  <2>1. CASE Nextline
    BY <2>1, NextlineInv
  <2>2. CASE \E place \in 0 .. Size : First(place)
    BY <2>2, FirstInv DEF Size
  <2>3. CASE UNCHANGED rdsvars
    <3>1. /\ file' = file /\ buf0' = buf0 /\ buflen' = buflen /\ buf' = buf
          /\ next_line' = next_line /\ reads' = reads /\ asked' = asked
          /\ returned' = returned
      BY <2>3 DEF rdsvars
    <3>2. Buffered' /\ AtLine' /\ Returned'
      BY <2>3, <3>1 DEF LinesInv, Buffered, Part, AtLine, Returned, InLong, Half, isEol
    <3>3. /\ Starts' = Starts
          /\ \A s : Line(s)' = Line(s)
          /\ \A s : isShort(s)' <=> isShort(s)
          /\ \A p : lineOf(p)' = lineOf(p)
          /\ \A p : isEol(p)' <=> isEol(p)
          /\ lines' = lines
      BY <3>1 DEF Starts, Line, lines, Size, isEol, isShort, lineOf, smallest, largest
    <3>4. InOrder'
      BY <3>1, <3>3 DEF LinesInv, InOrder, Inside, Before, Whole, Half
    <3>5. FirstLine'
      BY <3>1, <3>3 DEF LinesInv, FirstLine
    <3>6. NoLineIsSkipped'
      BY <3>1, <3>3 DEF LinesInv, NoLineIsSkipped
    <3>7. QED  BY <3>2, <3>4, <3>5, <3>6 DEF LinesInv
  <2>4. QED  BY <2>1, <2>2, <2>3 DEF RDSNext
<1>3. QED  BY <1>1, <1>2, PTL DEF RDSSpec

(***************************************************************************)
(* RDSFile::getline gives the line with the byte it was asked for, and     *)
(* nextline one short line after the other without cutting any, wherever   *)
(* the buffer ends and however long the lines around it are; nothing is    *)
(* returned twice.                                                         *)
(***************************************************************************)
THEOREM LinesAreWhole == RDSSpec => []LinesAreWholeAndInOrder
<1>1. LinesInv => LinesAreWholeAndInOrder
  <2> SUFFICES ASSUME LinesInv PROVE LinesAreWholeAndInOrder
    OBVIOUS
  <2>1. lines = {j \in DOMAIN returned : Inside(j)}
    BY LinesAre DEF LinesInv
  <2>2. QED
    BY <2>1 DEF LinesInv, FirstLine, InOrder, Whole, LinesAreWholeAndInOrder, Size
<1>2. QED  BY SpecLines, <1>1, PTL

\* nextline leaves no short line out.
THEOREM LinesAreAll == RDSSpec => []NoLineIsSkipped
<1>1. LinesInv => NoLineIsSkipped
  BY DEF LinesInv
<1>2. QED  BY SpecLines, <1>1, PTL
=============================================================================
