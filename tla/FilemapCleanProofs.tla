------------------------- MODULE FilemapCleanProofs -------------------------
(***************************************************************************)
(* What one call of filemap_t::clean guarantees, proved for every number   *)
(* of master blocks and every filemap.                                     *)
(***************************************************************************)
EXTENDS FilemapClean, FilemapProofs

(***************************************************************************)
(* The inductive invariant.  The loop counter separates the blocks the     *)
(* running loop has settled from those it has yet to visit.                *)
(***************************************************************************)
Counter ==
  /\ pc = "up"   => b >= 1
  /\ pc = "down" => b <= N - 2

\* The blocks a loop has left behind are settled.
Settled ==
  /\ pc = "up" => \A c \in 1 .. N - 1 : c < b => UpSettled(c)
  /\ pc # "up" => \A c \in 1 .. N - 1 : UpSettled(c)
  /\ pc = "down" => \A c \in 0 .. N - 2 : c > b => DownSettled(c)
  /\ pc = "done" => \A c \in 0 .. N - 2 : DownSettled(c)

\* The inductive invariant.
Inv == TypeOK /\ Counter /\ OnlyNarrows /\ NarrowedIsAligned /\ Settled

(***************************************************************************)
(* The effect of one iteration on block e, seen from neighbour d = e - 1   *)
(* or e + 1: the facts both loops share.                                   *)
(***************************************************************************)
Iteration(e, d) ==
  /\ e \in 0 .. N - 1
  /\ d \in 0 .. N - 1
  /\ d = e - 1 \/ d = e + 1
  /\ fm' = [fm EXCEPT ![e] = Pin(fm[d], fm[e], e - d)]
  /\ fm0' = fm0
  /\ N' = N

\* An iteration narrows its block to the one place next to the neighbour, or
\* changes nothing.
LEMMA IterationCases ==
  ASSUME TypeOK, NEW e, NEW d, Iteration(e, d)
  PROVE  /\ fm' \in [0 .. N - 1 -> Seq(Nat)]
         /\ \A c \in 0 .. N - 1 : c # e => fm'[c] = fm[c]
         /\ \/ fm' = fm
            \/ /\ Len(fm[d]) = 1
               /\ Len(fm[e]) # 1
               /\ contains(fm[e], fm[d][1] + (e - d))
               /\ Len(fm'[e]) = 1
               /\ fm'[e][1] = fm[d][1] + (e - d)
<1>1. /\ fm[e] \in Seq(Nat)
      /\ fm[d] \in Seq(Nat)
      /\ e - d \in Int
  BY DEF TypeOK, Iteration
<1>2. fm'[e] = Pin(fm[d], fm[e], e - d)
  BY DEF TypeOK, Iteration
<1>3. Pin(fm[d], fm[e], e - d) \in Seq(Nat)
  BY <1>1, PinCases
<1>4. \/ Pin(fm[d], fm[e], e - d) = fm[e]
      \/ /\ Len(fm[d]) = 1
         /\ Len(fm[e]) # 1
         /\ contains(fm[e], fm[d][1] + (e - d))
         /\ Len(Pin(fm[d], fm[e], e - d)) = 1
         /\ Pin(fm[d], fm[e], e - d)[1] = fm[d][1] + (e - d)
  BY <1>1, PinCases
<1>5. fm' \in [0 .. N - 1 -> Seq(Nat)]
  BY <1>3 DEF TypeOK, Iteration
<1>6. \A c \in 0 .. N - 1 : c # e => fm'[c] = fm[c]
  BY DEF TypeOK, Iteration
<1>7. fm'[e] = fm[e] => fm' = fm
  BY DEF TypeOK, Iteration
<1>8. QED  BY <1>2, <1>4, <1>5, <1>6, <1>7

\* What an iteration changes had several places, and was never narrowed before.
LEMMA IterationNarrows ==
  ASSUME TypeOK, OnlyNarrows, NEW e, NEW d, Iteration(e, d)
  PROVE  OnlyNarrows'
<1>1. CASE fm' = fm
  BY <1>1 DEF OnlyNarrows, Iteration
<1>2. CASE fm' # fm
  <2>1. /\ Len(fm[e]) # 1
        /\ contains(fm[e], fm'[e][1])
        /\ Len(fm'[e]) = 1
    BY <1>2, IterationCases
  <2>2. fm[e] = fm0[e]
    BY <2>1 DEF TypeOK, OnlyNarrows, Iteration
  <2>3. SUFFICES ASSUME NEW c \in 0 .. N - 1
                 PROVE  \/ fm'[c] = fm0[c]
                        \/ /\ Len(fm'[c]) = 1
                           /\ contains(fm0[c], fm'[c][1])
    BY DEF OnlyNarrows, Iteration
  <2>4. CASE c = e
    BY <2>1, <2>2, <2>4
  <2>5. CASE c # e
    <3>1. fm'[c] = fm[c]  BY <2>5, IterationCases
    <3>2. QED  BY <3>1 DEF OnlyNarrows
  <2>6. QED  BY <2>4, <2>5
<1>3. QED  BY <1>1, <1>2

\* A block that was narrowed stays aligned with a neighbour.
LEMMA IterationAligns ==
  ASSUME TypeOK, OnlyNarrows, NarrowedIsAligned, NEW e, NEW d, Iteration(e, d)
  PROVE  NarrowedIsAligned'
<1>1. CASE fm' = fm
  BY <1>1 DEF NarrowedIsAligned, Aligned, Iteration
<1>2. CASE fm' # fm
  <2>1. /\ Len(fm[d]) = 1
        /\ Len(fm[e]) # 1
        /\ Len(fm'[e]) = 1
        /\ fm'[e][1] = fm[d][1] + (e - d)
    BY <1>2, IterationCases
  <2>2. \A c \in 0 .. N - 1 : c # e => fm'[c] = fm[c]
    BY IterationCases
  <2>3. SUFFICES ASSUME NEW c \in 0 .. N - 1, fm'[c] # fm0[c]
                 PROVE  Aligned(c, c - 1)' \/ Aligned(c, c + 1)'
    BY DEF NarrowedIsAligned, Iteration
  <2>4. CASE c = e
    <3>1. fm'[d] = fm[d] /\ d \in 0 .. N - 1
      BY <2>2 DEF TypeOK, Iteration
    <3>2. fm[d][1] \in Nat
      BY <2>1, <3>1 DEF TypeOK
    <3>3. fm'[e][1] - fm'[d][1] = e - d
      BY <2>1, <3>1, <3>2 DEF TypeOK, Iteration
    <3>4. Aligned(e, d)'
      BY <2>1, <3>1, <3>3 DEF Aligned, Iteration
    <3>5. QED  BY <2>4, <3>4 DEF Iteration
  <2>5. CASE c # e
    <3>1. fm'[c] = fm[c]  BY <2>2, <2>5
    <3>2. PICK a \in {c - 1, c + 1} : Aligned(c, a)
      BY <2>3, <3>1 DEF NarrowedIsAligned
    <3>3. a # e /\ a \in 0 .. N - 1
      BY <2>1, <3>2 DEF TypeOK, Aligned, Iteration
    <3>4. fm'[a] = fm[a]  BY <2>2, <3>3
    <3>5. Aligned(c, a)'
      BY <3>1, <3>2, <3>4 DEF Aligned, Iteration
    <3>6. QED  BY <3>2, <3>5
  <2>6. QED  BY <2>4, <2>5
<1>3. QED  BY <1>1, <1>2

(***************************************************************************)
(* An iteration unsettles nobody: the only list that changes had several   *)
(* entries, so it pinned no neighbour, and has one entry afterwards, so    *)
(* nothing pins it any more.  Its neighbour on the far side, which may     *)
(* only now have something to line up with, is the one exception.          *)
(***************************************************************************)
LEMMA IterationSettles ==
  ASSUME TypeOK, NEW e, NEW d, Iteration(e, d)
  PROVE  /\ \A c \in 1 .. N - 1 :
              UpSettled(c) /\ (c - 1 # e \/ d = c) => UpSettled(c)'
         /\ \A c \in 0 .. N - 2 :
              DownSettled(c) /\ (c + 1 # e \/ d = c) => DownSettled(c)'
         /\ d = e - 1 => UpSettled(e)'
         /\ d = e + 1 => DownSettled(e)'
<1>1. CASE fm' = fm
  <2>1. Pin(fm[d], fm[e], e - d) = fm[e]
    BY <1>1 DEF TypeOK, Iteration
  <2>2. d = e - 1 => e - d = 1
    BY DEF TypeOK, Iteration
  <2>3. d = e + 1 => e - d = -1
    BY DEF TypeOK, Iteration
  <2>4. QED  BY <1>1, <2>1, <2>2, <2>3 DEF UpSettled, DownSettled, Iteration
<1>2. CASE fm' # fm
  <2>1. /\ Len(fm[d]) = 1
        /\ Len(fm'[e]) = 1
        /\ \A c \in 0 .. N - 1 : c # e => fm'[c] = fm[c]
        /\ fm' \in [0 .. N - 1 -> Seq(Nat)]
    BY <1>2, IterationCases
  <2>2. Len(fm'[d]) = 1
    <3>1. d # e /\ fm'[d] = fm[d]  BY <2>1 DEF TypeOK, Iteration
    <3>2. QED  BY <2>1, <3>1
  <2>3. UpSettled(e)' /\ DownSettled(e)'
    BY <2>1 DEF UpSettled, DownSettled, Pin
  <2>4. UpSettled(d)' /\ DownSettled(d)'
    BY <2>2 DEF UpSettled, DownSettled, Pin
  <2>5. ASSUME NEW c \in 1 .. N - 1, UpSettled(c), c - 1 # e \/ d = c
        PROVE  UpSettled(c)'
    <3>1. CASE c = e \/ c = d  BY <2>3, <2>4, <3>1
    <3>2. CASE c # e /\ c # d
      <4>1. /\ c \in 0 .. N - 1
            /\ c - 1 \in 0 .. N - 1
            /\ c - 1 # e
        BY <2>5, <3>2 DEF TypeOK
      <4>2. fm'[c] = fm[c] /\ fm'[c - 1] = fm[c - 1]
        BY <2>1, <3>2, <4>1
      <4>3. QED  BY <2>5, <4>2 DEF UpSettled
    <3>3. QED  BY <3>1, <3>2
  <2>6. ASSUME NEW c \in 0 .. N - 2, DownSettled(c), c + 1 # e \/ d = c
        PROVE  DownSettled(c)'
    <3>1. CASE c = e \/ c = d  BY <2>3, <2>4, <3>1
    <3>2. CASE c # e /\ c # d
      <4>1. /\ c \in 0 .. N - 1
            /\ c + 1 \in 0 .. N - 1
            /\ c + 1 # e
        BY <2>6, <3>2 DEF TypeOK
      <4>2. fm'[c] = fm[c] /\ fm'[c + 1] = fm[c + 1]
        BY <2>1, <3>2, <4>1
      <4>3. QED  BY <2>6, <4>2 DEF DownSettled
    <3>3. QED  BY <3>1, <3>2
  <2>7. QED  BY <2>3, <2>5, <2>6
<1>3. QED  BY <1>1, <1>2
-----------------------------------------------------------------------------
\* The invariant holds initially.
LEMMA InitInv == Init => Inv
BY SizesAssumption, ListsAssumption
DEF Init, Inv, TypeOK, Counter, OnlyNarrows, NarrowedIsAligned, Settled

\* A step keeps the invariant.
LEMMA NextInv == Inv /\ [Next]_vars => Inv'
<1> SUFFICES ASSUME Inv, [Next]_vars PROVE Inv'
  OBVIOUS
<1> USE DEF Inv
<1>1. CASE UpStep
  <2>1. Iteration(b, b - 1)
    BY <1>1 DEF UpStep, Iteration, TypeOK, Counter
  <2>2. TypeOK'
    BY <1>1, <2>1, IterationCases DEF UpStep, TypeOK
  <2>3. Counter'
    BY <1>1 DEF UpStep, Counter, TypeOK
  <2>4. Settled'
    <3>1. ASSUME NEW c \in 1 .. N - 1, c < b'
          PROVE  UpSettled(c)'
      <4>1. CASE c = b
        BY <2>1, <4>1, IterationSettles DEF TypeOK
      <4>2. CASE c # b
        <5>1. UpSettled(c) /\ c - 1 # b
          BY <1>1, <3>1, <4>2 DEF Settled, UpStep, TypeOK
        <5>2. QED  BY <2>1, <5>1, IterationSettles
      <4>3. QED  BY <4>1, <4>2
    <3>2. QED  BY <1>1, <3>1 DEF Settled, UpStep
  <2>5. QED
    BY <2>1, <2>2, <2>3, <2>4, IterationNarrows, IterationAligns
<1>2. CASE UpExit
  BY <1>2
  DEF UpExit, TypeOK, Counter, OnlyNarrows, NarrowedIsAligned, Aligned,
      Settled, UpSettled, DownSettled
<1>3. CASE DownStep
  <2>1. Iteration(b, b + 1)
    BY <1>3 DEF DownStep, Iteration, TypeOK, Counter
  <2>2. TypeOK'
    BY <1>3, <2>1, IterationCases DEF DownStep, TypeOK
  <2>3. Counter'
    BY <1>3 DEF DownStep, Counter, TypeOK
  <2>4. Settled'
    <3>1. ASSUME NEW c \in 1 .. N - 1
          PROVE  UpSettled(c)'
      <4>1. UpSettled(c) /\ (c - 1 # b \/ c = b + 1)
        BY <1>3 DEF Settled, DownStep, TypeOK
      <4>2. QED  BY <2>1, <4>1, IterationSettles
    <3>2. ASSUME NEW c \in 0 .. N - 2, c > b'
          PROVE  DownSettled(c)'
      <4>1. CASE c = b
        BY <2>1, <4>1, IterationSettles DEF TypeOK
      <4>2. CASE c # b
        <5>1. DownSettled(c) /\ c + 1 # b
          BY <1>3, <3>2, <4>2 DEF Settled, DownStep, TypeOK
        <5>2. QED  BY <2>1, <5>1, IterationSettles
      <4>3. QED  BY <4>1, <4>2
    <3>3. QED  BY <1>3, <3>1, <3>2 DEF Settled, DownStep
  <2>5. QED
    BY <2>1, <2>2, <2>3, <2>4, IterationNarrows, IterationAligns
<1>4. CASE DownExit
  BY <1>4
  DEF DownExit, TypeOK, Counter, OnlyNarrows, NarrowedIsAligned, Aligned,
      Settled, UpSettled, DownSettled
<1>5. CASE UNCHANGED vars
  BY <1>5
  DEF vars, TypeOK, Counter, OnlyNarrows, NarrowedIsAligned, Aligned,
      Settled, UpSettled, DownSettled
<1>6. QED  BY <1>1, <1>2, <1>3, <1>4, <1>5 DEF Next

\* The invariant holds in every reachable state.
LEMMA SpecInv == Spec => []Inv
<1>1. QED  BY InitInv, NextInv, PTL DEF Spec

(***************************************************************************)
(* The loops stay within the filemap (no index of frag_find.cpp:131-150 is *)
(* out of range) and never build an ill-formed blocklist.                  *)
(***************************************************************************)
THEOREM TypeCorrect == Spec => []TypeOK
<1>1. Inv => TypeOK  BY DEF Inv
<1>2. QED  BY SpecInv, <1>1, PTL

(***************************************************************************)
(* clean() loses no found block and invents no location, for every file.   *)
(***************************************************************************)
THEOREM CleanOnlyNarrows == Spec => []OnlyNarrows
<1>1. Inv => OnlyNarrows  BY DEF Inv
<1>2. QED  BY SpecInv, <1>1, PTL

(***************************************************************************)
(* Whatever clean() dropped, it dropped in favour of a run that is still   *)
(* there when it returns.                                                  *)
(***************************************************************************)
THEOREM CleanPinsToRuns == Spec => []NarrowedIsAligned
<1>1. Inv => NarrowedIsAligned  BY DEF Inv
<1>2. QED  BY SpecInv, <1>1, PTL

(***************************************************************************)
(* One call is enough: a second call of clean() would change nothing,      *)
(* which settles the question of frag_find.cpp:716.                        *)
(***************************************************************************)
THEOREM CleanIsIdempotent == Spec => []NothingLeftToClean
<1>1. Inv => NothingLeftToClean  BY DEF Inv, Settled, NothingLeftToClean
<1>2. QED  BY SpecInv, <1>1, PTL
-----------------------------------------------------------------------------
(***************************************************************************)
(* What the loops have made of fm0 so far: behind the counter it is what   *)
(* the function says of the loop, ahead of it what the loop was given.     *)
(***************************************************************************)
Made ==
  /\ pc = "up" => \A c \in 0 .. N - 1 :
       fm[c] = IF c < b THEN CleanUp(fm0)[c] ELSE fm0[c]
  /\ pc = "down" => \A c \in 0 .. N - 1 :
       fm[c] = IF c > b THEN clean(fm0)[c] ELSE CleanUp(fm0)[c]
  /\ pc = "done" => fm = clean(fm0)

\* The equations of the two functions, block by block.
LEMMA Equations ==
  ASSUME TypeOK
  PROVE  LET up == CleanUp(fm0)
             cleaned == clean(fm0)
         IN /\ cleaned \in [0 .. N - 1 -> Seq(Nat)]
            /\ \A c \in 0 .. N - 1 :
                 /\ c = 0 => up[c] = fm0[c]
                 /\ c # 0 => up[c] = Pin(up[c - 1], fm0[c], 1)
                 /\ c = N - 1 => cleaned[c] = up[c]
                 /\ c # N - 1 => cleaned[c] = Pin(cleaned[c + 1], up[c], -1)
<1> DEFINE up == CleanUp(fm0)
           cleaned == clean(fm0)
<1>1. N \in Nat /\ fm0 \in [0 .. N - 1 -> Seq(Nat)]
  BY DEF TypeOK
<1>2. up = [c \in 0 .. N - 1 |-> IF c = 0 THEN fm0[c] ELSE Pin(up[c - 1], fm0[c], 1)]
  BY <1>1, CleanUpUnfolds
<1>3. up \in [0 .. N - 1 -> Seq(Nat)]
  BY <1>1, CleanUpNarrows
<1>4. cleaned = CleanDown(up)
  BY DEF clean
<1> HIDE DEF up, cleaned
<1>5. cleaned = [c \in 0 .. N - 1 |->
                  IF c = N - 1 THEN up[c] ELSE Pin(cleaned[c + 1], up[c], -1)]
  BY <1>1, <1>3, <1>4, CleanDownUnfolds
<1>6. cleaned \in [0 .. N - 1 -> Seq(Nat)]
  BY <1>1, <1>3, <1>4, CleanDownNarrows
<1>7. /\ cleaned \in [0 .. N - 1 -> Seq(Nat)]
      /\ \A c \in 0 .. N - 1 :
           /\ c = 0 => up[c] = fm0[c]
           /\ c # 0 => up[c] = Pin(up[c - 1], fm0[c], 1)
           /\ c = N - 1 => cleaned[c] = up[c]
           /\ c # N - 1 => cleaned[c] = Pin(cleaned[c + 1], up[c], -1)
  BY <1>2, <1>5, <1>6
<1>8. QED  BY <1>7 DEF up, cleaned

\* A step keeps the blocks the loops have dealt with equal to what clean computes.
LEMMA NextMade == Inv /\ Made /\ [Next]_vars => Made'
<1> SUFFICES ASSUME Inv, Made, [Next]_vars PROVE Made'
  OBVIOUS
<1> DEFINE up == CleanUp(fm0)
           cleaned == clean(fm0)
<1>1. /\ N \in Nat
      /\ TypeOK
      /\ Counter
      /\ b \in Int
      /\ fm \in [0 .. N - 1 -> Seq(Nat)]
  BY DEF Inv, TypeOK
<1>2. /\ cleaned \in [0 .. N - 1 -> Seq(Nat)]
      /\ \A c \in 0 .. N - 1 :
           /\ c = 0 => up[c] = fm0[c]
           /\ c # 0 => up[c] = Pin(up[c - 1], fm0[c], 1)
           /\ c = N - 1 => cleaned[c] = up[c]
           /\ c # N - 1 => cleaned[c] = Pin(cleaned[c + 1], up[c], -1)
  BY <1>1, Equations
<1> SUFFICES
      /\ pc' = "up" => \A c \in 0 .. N - 1 :
           fm'[c] = IF c < b' THEN up[c] ELSE fm0[c]
      /\ pc' = "down" => \A c \in 0 .. N - 1 :
           fm'[c] = IF c > b' THEN cleaned[c] ELSE up[c]
      /\ pc' = "done" => fm' = cleaned
  <2>1. fm0' = fm0 /\ N' = N
    BY DEF Next, UpStep, UpExit, DownStep, DownExit, vars
  <2>2. QED  BY <2>1 DEF Made
<1>3. /\ pc = "up" => \A c \in 0 .. N - 1 :
           fm[c] = IF c < b THEN up[c] ELSE fm0[c]
      /\ pc = "down" => \A c \in 0 .. N - 1 :
           fm[c] = IF c > b THEN cleaned[c] ELSE up[c]
      /\ pc = "done" => fm = cleaned
  BY DEF Made
<1> HIDE DEF up, cleaned
<1>4. CASE UpStep
  <2>1. /\ pc = "up" /\ pc' = "up"
        /\ b < N /\ b >= 1 /\ b' = b + 1
        /\ fm' = [fm EXCEPT ![b] = Pin(fm[b - 1], fm[b], 1)]
    BY <1>1, <1>4 DEF UpStep, Counter
  <2>2. b \in 0 .. N - 1 /\ b - 1 \in 0 .. N - 1
    BY <1>1, <2>1
  <2>3. fm[b - 1] = up[b - 1] /\ fm[b] = fm0[b]
    BY <1>1, <1>3, <2>1, <2>2
  <2>4. fm'[b] = up[b]
    BY <1>1, <1>2, <2>1, <2>2, <2>3
  <2>5. ASSUME NEW c \in 0 .. N - 1
        PROVE  fm'[c] = IF c < b' THEN up[c] ELSE fm0[c]
    <3>1. CASE c = b
      BY <1>1, <2>1, <2>4, <3>1
    <3>2. CASE c # b
      <4>1. fm'[c] = fm[c]
        BY <1>1, <2>1, <3>2
      <4>2. c < b' <=> c < b
        BY <1>1, <2>1, <3>2
      <4>3. QED  BY <1>3, <2>1, <4>1, <4>2
    <3>3. QED  BY <3>1, <3>2
  <2>6. QED  BY <2>1, <2>5
<1>5. CASE UpExit
  <2>1. /\ pc = "up" /\ pc' = "down"
        /\ b >= N /\ b' = N - 2
        /\ fm' = fm
    BY <1>5 DEF UpExit
  <2>2. ASSUME NEW c \in 0 .. N - 1
        PROVE  fm'[c] = IF c > b' THEN cleaned[c] ELSE up[c]
    <3>1. c < b
      BY <1>1, <2>1
    <3>2. fm'[c] = up[c]
      BY <1>3, <2>1, <3>1
    <3>3. c > b' => c = N - 1
      BY <1>1, <2>1
    <3>4. QED  BY <1>2, <3>2, <3>3
  <2>3. QED  BY <2>1, <2>2
<1>6. CASE DownStep
  <2>1. /\ pc = "down" /\ pc' = "down"
        /\ b >= 0 /\ b <= N - 2 /\ b' = b - 1
        /\ fm' = [fm EXCEPT ![b] = Pin(fm[b + 1], fm[b], -1)]
    BY <1>1, <1>6 DEF DownStep, Counter
  <2>2. b \in 0 .. N - 1 /\ b + 1 \in 0 .. N - 1 /\ b # N - 1
    BY <1>1, <2>1
  <2>3. fm[b + 1] = cleaned[b + 1] /\ fm[b] = up[b]
    BY <1>1, <1>3, <2>1, <2>2
  <2>4. fm'[b] = cleaned[b]
    BY <1>1, <1>2, <2>1, <2>2, <2>3
  <2>5. ASSUME NEW c \in 0 .. N - 1
        PROVE  fm'[c] = IF c > b' THEN cleaned[c] ELSE up[c]
    <3>1. CASE c = b
      BY <1>1, <2>1, <2>4, <3>1
    <3>2. CASE c # b
      <4>1. fm'[c] = fm[c]
        BY <1>1, <2>1, <3>2
      <4>2. c > b' <=> c > b
        BY <1>1, <2>1, <3>2
      <4>3. QED  BY <1>3, <2>1, <4>1, <4>2
    <3>3. QED  BY <3>1, <3>2
  <2>6. QED  BY <2>1, <2>5
<1>7. CASE DownExit
  <2>1. /\ pc = "down" /\ pc' = "done"
        /\ b < 0
        /\ fm' = fm
    BY <1>7 DEF DownExit
  <2>2. \A c \in 0 .. N - 1 : fm[c] = cleaned[c]
    <3>1. \A c \in 0 .. N - 1 : c > b
      BY <1>1, <2>1
    <3>2. QED  BY <1>3, <2>1, <3>1
  <2>3. fm = cleaned
    BY <1>1, <1>2, <2>2
  <2>4. QED  BY <2>1, <2>3
<1>8. CASE UNCHANGED vars
  BY <1>3, <1>8 DEF vars
<1>9. QED  BY <1>4, <1>5, <1>6, <1>7, <1>8 DEF Next

(***************************************************************************)
(* The two loops, run one iteration at a time on a filemap of any size,    *)
(* compute the function clean that the model of main() uses for the call.  *)
(***************************************************************************)
THEOREM LoopsComputeClean == Spec => []ComputesClean
<1>1. Init => Made
  <2> SUFFICES ASSUME Init PROVE Made  OBVIOUS
  <2>1. TypeOK
    BY InitInv DEF Inv
  <2>2. \A c \in 0 .. N - 1 : c < b => CleanUp(fm0)[c] = fm0[c]
    <3>1. \A c \in 0 .. N - 1 : c < b => c = 0
      BY DEF Init
    <3>2. QED  BY <2>1, <3>1, Equations
  <2>3. QED  BY <2>2 DEF Init, Made
<1>2. Made => ComputesClean
  BY DEF Made, ComputesClean
<1>3. QED  BY SpecInv, <1>1, NextMade, <1>2, PTL DEF Spec
=============================================================================
