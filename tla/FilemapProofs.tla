--------------------------- MODULE FilemapProofs ---------------------------
(***************************************************************************)
(* What clean() and runlen() do, for filemaps of every length.  CleanUp    *)
(* and CleanDown are recursive functions: that a function with the         *)
(* recursive equation exists is proved here, from the least counterexample *)
(* the well-foundedness of the natural numbers gives.                      *)
(***************************************************************************)
EXTENDS Filemap, WellFoundedInduction, FiniteSetTheorems, TLAPS

\* A set of natural numbers has a least one.
LEMMA LeastNatural ==
  ASSUME NEW S, S \subseteq Nat, S # {}
  PROVE  \E n \in S : \A m \in S : n <= m
<1>1. \E R : /\ IsWellFoundedOn(R, Nat)
             /\ \A m, n \in Nat : m < n => << m, n >> \in R
  <2> DEFINE R == OpToRel(<, Nat)
  <2>1. IsWellFoundedOn(R, Nat)
    BY NatLessThanWellFounded
  <2>2. \A m, n \in Nat : m < n => << m, n >> \in R
    BY DEF OpToRel
  <2> HIDE DEF R
  <2> QED BY <2>1, <2>2
<1>2. PICK R : /\ IsWellFoundedOn(R, Nat)
               /\ \A m, n \in Nat : m < n => << m, n >> \in R
  BY <1>1
<1>3. \E n \in S : \A m \in S : ~ (<< m, n >> \in R)
  BY <1>2, WFMin, ZenonT(60)
<1>3a. PICK n \in S : \A m \in S : ~ (<< m, n >> \in R)
  BY <1>3
<1>4. \A m \in S : ~ (m < n)
  BY <1>2, <1>3a, Zenon
<1>5. QED  BY <1>4

\* Induction, over a set.
LEMMA NaturalInduction ==
  ASSUME NEW S, 0 \in S, \A n \in Nat : n \in S => n + 1 \in S
  PROVE  Nat \subseteq S
<1> SUFFICES ASSUME Nat \ S # {} PROVE FALSE OBVIOUS
<1>1. PICK n \in Nat \ S : \A m \in Nat \ S : n <= m
  BY LeastNatural
<1>2. n # 0 /\ n - 1 \in Nat  BY <1>1
<1>3. n - 1 \in S BY <1>1, <1>2
<1>4. (n - 1) + 1 = n BY <1>1
<1> QED BY <1>1, <1>2, <1>3, <1>4

\* What makes the value at each position out of the value before it.
Steps(S) == [Nat -> [S -> S]]

\* The first n values.
IsIteration(g, S, first, step, n) ==
  /\ g \in [0 .. n -> S]
  /\ g[0] = first
  /\ \A i \in 0 .. n - 1 : g[i + 1] = step[i + 1][g[i]]

\* Iterating a function n times has a result.
LEMMA Iterates ==
  ASSUME NEW S, NEW first, first \in S, NEW step, step \in Steps(S), NEW n, n \in Nat
  PROVE  \E g : IsIteration(g, S, first, step, n)
<1> USE DEF Steps, IsIteration
<1> DEFINE Upto(m) == \E g : IsIteration(g, S, first, step, m)
           Good == { m \in Nat : Upto(m) }
<1>1. Upto(0)
  <2>1. IsIteration([i \in 0 .. 0 |-> first], S, first, step, 0)
    OBVIOUS
  <2>2. QED BY <2>1
<1>2. ASSUME NEW m \in Nat, Upto(m)
      PROVE  Upto(m + 1)
  <2>1. PICK g : IsIteration(g, S, first, step, m)
    BY <1>2
  <2> DEFINE h == [i \in 0 .. m + 1 |-> IF i <= m THEN g[i] ELSE step[m + 1][g[m]]]
  <2>2. h \in [0 .. m + 1 -> S]
    BY <2>1
  <2>3. h[0] = first
    BY <2>1
  <2>4. ASSUME NEW i \in 0 .. m
        PROVE  h[i + 1] = step[i + 1][h[i]]
    <3>1. CASE i = m
      <4>1. h[m] = g[m] /\ h[m + 1] = step[m + 1][g[m]]  OBVIOUS
      <4>2. QED BY <3>1, <4>1
    <3>2. CASE i < m
      <4>1. i \in 0 .. m - 1 /\ i + 1 \in 0 .. m BY <3>2
      <4>2. h[i] = g[i] /\ h[i + 1] = g[i + 1]  BY <4>1
      <4>3. QED BY <2>1, <4>1, <4>2
    <3>3. QED BY <3>1, <3>2
  <2>5. (m + 1) - 1 = m  OBVIOUS
  <2> HIDE DEF h
  <2>6. QED BY <2>2, <2>3, <2>4, <2>5
<1> HIDE DEF Upto
<1>3. 0 \in Good /\ \A m \in Nat : m \in Good => m + 1 \in Good
  BY <1>1, <1>2
<1>3a. Nat \subseteq Good
  <2> HIDE DEF Good
  <2> QED BY <1>3, NaturalInduction
<1>4. Upto(n)  BY <1>3a
<1>5. QED BY <1>4 DEF Upto

\* clean() replaces a list by the one block next to its neighbour, or leaves it.
LEMMA PinCases ==
  ASSUME NEW neighbour \in Seq(Nat), NEW blocklist \in Seq(Nat),
         NEW offset, offset \in Int
  PROVE  LET pinned == Pin(neighbour, blocklist, offset) IN
         /\ pinned \in Seq(Nat)
         /\ \/ pinned = blocklist
            \/ /\ Len(neighbour) = 1
               /\ Len(blocklist) # 1
               /\ contains(blocklist, neighbour[1] + offset)
               /\ pinned = << neighbour[1] + offset >>
               /\ Len(pinned) = 1
               /\ pinned[1] = neighbour[1] + offset
<1>1. CASE /\ Len(neighbour) = 1
           /\ Len(blocklist) > 1
           /\ contains(blocklist, neighbour[1] + offset)
  <2>1. neighbour[1] + offset \in Nat
    <3>1. PICK j \in DOMAIN blocklist : blocklist[j] = neighbour[1] + offset
      BY <1>1 DEF contains
    <3>2. QED  BY <3>1
  <2>2. Len(blocklist) # 1
    <3>1. Len(blocklist) \in Nat  OBVIOUS
    <3>2. \A n \in Nat : n > 1 => n # 1  OBVIOUS
    <3>3. QED  BY <1>1, <3>1, <3>2
  <2>3. QED  BY <1>1, <2>1, <2>2 DEF Pin
<1>2. CASE ~ /\ Len(neighbour) = 1
             /\ Len(blocklist) > 1
             /\ contains(blocklist, neighbour[1] + offset)
  BY <1>2 DEF Pin
<1>3. QED  BY <1>1, <1>2

\* There is a function that does what the upward loop of clean() does: the CHOOSE
\* in its definition finds it.
LEMMA CleanUpUnfolds ==
  ASSUME NEW n \in Nat, NEW fm \in [0 .. n - 1 -> Seq(Nat)]
  PROVE  CleanUp(fm) = [b \in 0 .. n - 1 |->
           IF b = 0 THEN fm[b] ELSE Pin(CleanUp(fm)[b - 1], fm[b], 1)]
<1> DEFINE P(up) == up = [b \in DOMAIN fm |-> IF b = 0 THEN fm[b] ELSE Pin(up[b - 1], fm[b], 1)]
<1>1. \E up : P(up)
  <2>1. CASE n = 0
    <3>1. P(fm) BY <2>1
    <3>2. QED BY <3>1
  <2>2. CASE n # 0
    <3> DEFINE step == [b \in Nat |-> [last \in Seq(Nat) |->
                   IF b \in 0 .. n - 1 THEN Pin(last, fm[b], 1) ELSE << >>]]
    <3>1. step \in Steps(Seq(Nat))
      <4>1. ASSUME NEW b \in 0 .. n - 1, NEW last \in Seq(Nat)
            PROVE  Pin(last, fm[b], 1) \in Seq(Nat)
        <5>1. fm[b] \in Seq(Nat) BY <4>1
        <5>2. QED BY <5>1, PinCases
      <4>2. << >> \in Seq(Nat) OBVIOUS
      <4>3. QED BY <4>1, <4>2 DEF Steps
    <3>2. n - 1 \in Nat /\ fm[0] \in Seq(Nat) BY <2>2
    <3> HIDE DEF step
    <3>3. PICK g : IsIteration(g, Seq(Nat), fm[0], step, n - 1)
      BY ONLY <3>1, <3>2, Iterates
    <3>4. ASSUME NEW b \in 0 .. n - 1, b # 0
          PROVE  g[b] = Pin(g[b - 1], fm[b], 1)
      <4>1. b - 1 \in 0 .. (n - 1) - 1 /\ (b - 1) + 1 = b BY <3>4
      <4>2. g[b] = step[b][g[b - 1]] BY <3>3, <4>1 DEF IsIteration
      <4>3. g[b - 1] \in Seq(Nat) /\ b \in Nat BY <4>1, <3>3 DEF IsIteration
      <4>4. QED BY <4>2, <4>3 DEF step
    <3>5. P(g) BY <3>3, <3>4 DEF IsIteration
    <3>6. QED BY <3>5
  <2>3. QED BY <2>1, <2>2
<1>2. CleanUp(fm) = CHOOSE up : P(up)
  BY DEF CleanUp
<1> HIDE DEF P
<1>3. P(CHOOSE up : P(up))
  BY <1>1
<1>4. P(CleanUp(fm))  BY <1>2, <1>3
<1>5. QED BY <1>4 DEF P

\* The same of the downward loop.
LEMMA CleanDownUnfolds ==
  ASSUME NEW n \in Nat, NEW fm \in [0 .. n - 1 -> Seq(Nat)]
  PROVE  CleanDown(fm) = [b \in 0 .. n - 1 |->
           IF b = n - 1 THEN fm[b] ELSE Pin(CleanDown(fm)[b + 1], fm[b], -1)]
<1> DEFINE P(down) ==
      down = [b \in DOMAIN fm |->
               IF b = size(fm) - 1 THEN fm[b] ELSE Pin(down[b + 1], fm[b], -1)]
<1>0. size(fm) = n
  BY FS_Interval DEF size
<1>1. \E down : P(down)
  <2>1. CASE n = 0
    <3>1. P(fm)  BY <2>1
    <3>2. QED  BY <3>1
  <2>2. CASE n # 0
    <3> DEFINE step == [i \in Nat |-> [last \in Seq(Nat) |->
                 IF i \in 0 .. n - 1 THEN Pin(last, fm[n - 1 - i], -1) ELSE << >>]]
    <3>1. step \in Steps(Seq(Nat))
      <4>1. ASSUME NEW i \in 0 .. n - 1, NEW last \in Seq(Nat)
            PROVE  Pin(last, fm[n - 1 - i], -1) \in Seq(Nat)
        <5>1. fm[n - 1 - i] \in Seq(Nat)
          BY <4>1
        <5>2. QED  BY <5>1, PinCases
      <4>2. << >> \in Seq(Nat)  OBVIOUS
      <4>3. QED  BY <4>1, <4>2 DEF Steps
    <3>2. n - 1 \in Nat /\ fm[n - 1] \in Seq(Nat)
      BY <2>2
    <3> HIDE DEF step
    <3>3. PICK g : IsIteration(g, Seq(Nat), fm[n - 1], step, n - 1)
      BY ONLY <3>1, <3>2, Iterates
    <3> DEFINE down == [b \in 0 .. n - 1 |-> g[n - 1 - b]]
    <3>4. down[n - 1] = fm[n - 1]
      BY <3>2, <3>3 DEF IsIteration
    <3>5. ASSUME NEW b \in 0 .. n - 1, b # n - 1
          PROVE  down[b] = Pin(down[b + 1], fm[b], -1)
      <4> DEFINE i == n - 1 - (b + 1)
      <4>1. /\ i \in 0 .. (n - 1) - 1
            /\ i + 1 \in 0 .. n - 1
            /\ i + 1 = n - 1 - b
            /\ n - 1 - (i + 1) = b
            /\ b + 1 \in 0 .. n - 1
        BY <3>5
      <4>2. down[b] = g[i + 1] /\ down[b + 1] = g[i]
        BY <4>1
      <4>3. g[i + 1] = step[i + 1][g[i]]
        BY <3>3, <4>1 DEF IsIteration
      <4>4. g[i] \in Seq(Nat) /\ i + 1 \in Nat
        BY <3>3, <4>1 DEF IsIteration
      <4> HIDE DEF i
      <4>5. step[i + 1][g[i]] = Pin(g[i], fm[n - 1 - (i + 1)], -1)
        BY <4>1, <4>4 DEF step
      <4>6. QED  BY <4>1, <4>2, <4>3, <4>5
    <3>6. DOMAIN down = 0 .. n - 1  OBVIOUS
    <3> HIDE DEF down
    <3>7. \A b \in 0 .. n - 1 : down[b] = IF b = n - 1 THEN fm[b] ELSE Pin(down[b + 1], fm[b], -1)
      BY <3>4, <3>5
    <3>8. P(down)  BY <3>6, <3>7, <1>0 DEF down
    <3>9. QED  BY <3>8
  <2>3. QED  BY <2>1, <2>2
<1>2. CleanDown(fm) = CHOOSE down : P(down)
  BY DEF CleanDown
<1> HIDE DEF P
<1>3. P(CHOOSE down : P(down))
  BY <1>1
<1>4. P(CleanDown(fm))
  BY <1>2, <1>3
<1>5. QED  BY <1>0, <1>4 DEF P

\* As it was, or one of its blocks.
Narrowed(list, from) ==
  \/ list = from
  \/ Len(list) = 1 /\ contains(from, list[1])

\* One iteration of clean() narrows.
LEMMA PinNarrows ==
  ASSUME NEW neighbour \in Seq(Nat), NEW blocklist \in Seq(Nat),
         NEW offset, offset \in Int
  PROVE  /\ Pin(neighbour, blocklist, offset) \in Seq(Nat)
         /\ Narrowed(Pin(neighbour, blocklist, offset), blocklist)
<1> DEFINE pinned == Pin(neighbour, blocklist, offset)
<1>1. /\ pinned \in Seq(Nat)
      /\ \/ pinned = blocklist
         \/ /\ contains(blocklist, neighbour[1] + offset)
            /\ Len(pinned) = 1
            /\ pinned[1] = neighbour[1] + offset
  BY PinCases
<1> HIDE DEF pinned
<1>2. /\ pinned \in Seq(Nat)
      /\ Narrowed(pinned, blocklist)
  BY <1>1 DEF Narrowed
<1>3. QED  BY <1>2 DEF pinned

\* The upward loop narrows every list.
LEMMA CleanUpNarrows ==
  ASSUME NEW n \in Nat, NEW fm \in [0 .. n - 1 -> Seq(Nat)]
  PROVE  /\ CleanUp(fm) \in [0 .. n - 1 -> Seq(Nat)]
         /\ \A b \in 0 .. n - 1 : Narrowed(CleanUp(fm)[b], fm[b])
<1> DEFINE up == CleanUp(fm)
           Good == { b \in Nat : b < n => up[b] \in Seq(Nat) }
<1>1. up = [b \in 0 .. n - 1 |-> IF b = 0 THEN fm[b] ELSE Pin(up[b - 1], fm[b], 1)]
  BY CleanUpUnfolds
<1> HIDE DEF up
<1>2. 0 \in Good
  BY <1>1
<1>3. ASSUME NEW b \in Nat, b \in Good
      PROVE  b + 1 \in Good
  <2> SUFFICES ASSUME b + 1 < n PROVE up[b + 1] \in Seq(Nat)  OBVIOUS
  <2>1. /\ up[b] \in Seq(Nat)
        /\ fm[b + 1] \in Seq(Nat)
        /\ b + 1 \in 0 .. n - 1
        /\ (b + 1) - 1 = b
        /\ b + 1 # 0
    BY <1>3
  <2>2. up[b + 1] = Pin(up[b], fm[b + 1], 1)
    BY <1>1, <2>1
  <2>3. QED  BY <2>1, <2>2, PinNarrows
<1>4. Nat \subseteq Good
  <2> HIDE DEF Good
  <2>1. QED  BY <1>2, <1>3, NaturalInduction
<1>5. \A b \in 0 .. n - 1 : up[b] \in Seq(Nat)
  BY <1>4
<1>6. up \in [0 .. n - 1 -> Seq(Nat)]
  BY <1>1, <1>5
<1>7. ASSUME NEW b \in 0 .. n - 1
      PROVE  Narrowed(up[b], fm[b])
  <2>1. CASE b = 0
    BY <1>1, <2>1 DEF Narrowed
  <2>2. CASE b # 0
    <3>1. /\ up[b - 1] \in Seq(Nat)
          /\ fm[b] \in Seq(Nat)
      BY <1>5, <2>2
    <3>2. up[b] = Pin(up[b - 1], fm[b], 1)
      BY <1>1, <2>2
    <3>3. QED  BY <3>1, <3>2, PinNarrows
  <2>3. QED  BY <2>1, <2>2
<1>8. QED  BY <1>6, <1>7 DEF up

\* The downward loop narrows every list.
LEMMA CleanDownNarrows ==
  ASSUME NEW n \in Nat, NEW fm \in [0 .. n - 1 -> Seq(Nat)]
  PROVE  /\ CleanDown(fm) \in [0 .. n - 1 -> Seq(Nat)]
         /\ \A b \in 0 .. n - 1 : Narrowed(CleanDown(fm)[b], fm[b])
<1> DEFINE down == CleanDown(fm)
           Good == { i \in Nat : i < n => down[n - 1 - i] \in Seq(Nat) }
<1>1. down = [b \in 0 .. n - 1 |->
               IF b = n - 1 THEN fm[b] ELSE Pin(down[b + 1], fm[b], -1)]
  BY CleanDownUnfolds
<1> HIDE DEF down
<1>2. 0 \in Good
  BY <1>1
<1>3. ASSUME NEW i \in Nat, i \in Good
      PROVE  i + 1 \in Good
  <2> SUFFICES ASSUME i + 1 < n PROVE down[n - 1 - (i + 1)] \in Seq(Nat)  OBVIOUS
  <2> DEFINE b == n - 1 - (i + 1)
  <2>1. /\ n - 1 - i = b + 1
        /\ b \in 0 .. n - 1
        /\ b # n - 1
    OBVIOUS
  <2>2. down[b + 1] \in Seq(Nat)
    BY <1>3, <2>1
  <2> HIDE DEF b
  <2>3. fm[b] \in Seq(Nat)
    BY <2>1
  <2>4. down[b] = Pin(down[b + 1], fm[b], -1)
    BY <1>1, <2>1
  <2>5. Pin(down[b + 1], fm[b], -1) \in Seq(Nat)
    BY ONLY <2>2, <2>3, PinNarrows, -1 \in Int
  <2>6. QED  BY <2>4, <2>5 DEF b
<1>4. Nat \subseteq Good
  <2> HIDE DEF Good
  <2>1. QED  BY <1>2, <1>3, NaturalInduction
<1>5. ASSUME NEW b \in 0 .. n - 1
      PROVE  down[b] \in Seq(Nat)
  <2>1. /\ n - 1 - b \in Nat
        /\ n - 1 - b < n
        /\ n - 1 - (n - 1 - b) = b
    OBVIOUS
  <2>2. QED  BY <1>4, <2>1
<1>6. down \in [0 .. n - 1 -> Seq(Nat)]
  BY <1>1, <1>5
<1>7. ASSUME NEW b \in 0 .. n - 1
      PROVE  Narrowed(down[b], fm[b])
  <2>1. CASE b = n - 1
    BY <1>1, <2>1 DEF Narrowed
  <2>2. CASE b # n - 1
    <3>1. /\ down[b + 1] \in Seq(Nat)
          /\ fm[b] \in Seq(Nat)
      BY <1>5, <2>2
    <3>2. down[b] = Pin(down[b + 1], fm[b], -1)
      BY <1>1, <2>2
    <3>3. QED  BY <3>1, <3>2, PinNarrows
  <2>3. QED  BY <2>1, <2>2
<1>8. QED  BY <1>6, <1>7 DEF down

\* clean() narrows every list.
LEMMA CleanNarrows ==
  ASSUME NEW n \in Nat, NEW fm \in [0 .. n - 1 -> Seq(Nat)]
  PROVE  /\ clean(fm) \in [0 .. n - 1 -> Seq(Nat)]
         /\ \A b \in 0 .. n - 1 : Narrowed(clean(fm)[b], fm[b])
<1> DEFINE up == CleanUp(fm)
<1>1. /\ up \in [0 .. n - 1 -> Seq(Nat)]
      /\ \A b \in 0 .. n - 1 : Narrowed(up[b], fm[b])
  BY CleanUpNarrows
<1> HIDE DEF up
<1>2. /\ CleanDown(up) \in [0 .. n - 1 -> Seq(Nat)]
      /\ \A b \in 0 .. n - 1 : Narrowed(CleanDown(up)[b], up[b])
  BY <1>1, CleanDownNarrows
<1>3. clean(fm) = CleanDown(up)
  BY DEF clean, up
<1>4. ASSUME NEW b \in 0 .. n - 1
      PROVE  Narrowed(CleanDown(up)[b], fm[b])
  <2> DEFINE x == CleanDown(up)[b]
  <2>1. /\ x \in Seq(Nat)
        /\ up[b] \in Seq(Nat)
        /\ Narrowed(x, up[b])
        /\ Narrowed(up[b], fm[b])
    BY <1>1, <1>2
  <2> HIDE DEF x
  <2>2. CASE x = up[b]
    BY <2>1, <2>2 DEF x
  <2>3. CASE up[b] = fm[b]
    BY <2>1, <2>3 DEF x
  <2>4. CASE /\ Len(x) = 1
             /\ contains(up[b], x[1])
             /\ Len(up[b]) = 1
             /\ contains(fm[b], up[b][1])
    <3>1. x[1] = up[b][1]
      BY <2>1, <2>4 DEF contains
    <3>2. QED  BY <2>4, <3>1 DEF Narrowed, x
  <2>5. QED  BY <2>1, <2>2, <2>3, <2>4 DEF Narrowed
<1>5. QED  BY <1>2, <1>3, <1>4

\* Each block of a copy that begins at image block n is among the locations found,
\* if any are.
OnCopy(fm, n) == \A b \in DOMAIN fm : fm[b] # << >> => contains(fm[b], n + b)

\* One iteration of clean() keeps to the copy.
LEMMA PinKeepsCopy ==
  ASSUME NEW neighbour \in Seq(Nat), NEW blocklist \in Seq(Nat), NEW offset \in Int, NEW place \in Int,
         NEW next, next = place + offset,
         neighbour # << >> => contains(neighbour, place),
         blocklist # << >> => contains(blocklist, next)
  PROVE  Pin(neighbour, blocklist, offset) # << >> =>
           contains(Pin(neighbour, blocklist, offset), next)
<1> DEFINE pinned == Pin(neighbour, blocklist, offset)
<1>1. \/ pinned = blocklist
      \/ /\ Len(neighbour) = 1
         /\ Len(pinned) = 1
         /\ pinned[1] = neighbour[1] + offset
  BY PinCases
<1>2. pinned \in Seq(Nat)
  BY PinCases
<1> HIDE DEF pinned
<1>3. CASE pinned = blocklist
  BY <1>3 DEF pinned
<1>4. CASE Len(neighbour) = 1 /\ Len(pinned) = 1 /\ pinned[1] = neighbour[1] + offset
  <2>1. neighbour[1] = place
    <3>0. contains(neighbour, place)
      BY <1>4
    <3>1. PICK j \in DOMAIN neighbour : neighbour[j] = place
      BY <3>0 DEF contains
    <3>2. j = 1
      BY <1>4
    <3>3. QED  BY <3>1, <3>2
  <2>2. 1 \in DOMAIN pinned
    BY <1>2, <1>4
  <2>3. contains(pinned, next)
    BY <1>4, <2>1, <2>2 DEF contains
  <2>4. QED  BY <2>3 DEF pinned
<1>5. QED  BY <1>1, <1>3, <1>4

\* The upward loop keeps to the copy.
LEMMA CleanUpKeepsCopy ==
  ASSUME NEW n \in Nat, NEW fm \in [0 .. n - 1 -> Seq(Nat)], NEW place \in Nat, OnCopy(fm, place)
  PROVE  OnCopy(CleanUp(fm), place)
<1> DEFINE up == CleanUp(fm)
           Good == { b \in Nat : b < n => (up[b] # << >> => contains(up[b], place + b)) }
<1>1. /\ up = [b \in 0 .. n - 1 |-> IF b = 0 THEN fm[b] ELSE Pin(up[b - 1], fm[b], 1)]
      /\ up \in [0 .. n - 1 -> Seq(Nat)]
  BY CleanUpUnfolds, CleanUpNarrows
<1>2. \A b \in 0 .. n - 1 : fm[b] # << >> => contains(fm[b], place + b)
  BY DEF OnCopy
<1> HIDE DEF up
<1>3. 0 \in Good
  BY <1>1, <1>2
<1>4. ASSUME NEW b \in Nat, b \in Good
      PROVE  b + 1 \in Good
  <2> SUFFICES ASSUME b + 1 < n, up[b + 1] # << >> PROVE contains(up[b + 1], place + (b + 1))
    OBVIOUS
  <2>1. /\ b \in 0 .. n - 1 /\ b + 1 \in 0 .. n - 1 /\ (b + 1) - 1 = b /\ b + 1 # 0
    BY <1>4
  <2>2. PICK here, list, pl : /\ here = up[b] /\ list = fm[b + 1] /\ pl = place + b
    OBVIOUS
  <2>3. place + (b + 1) = pl + 1 /\ pl \in Int /\ 1 \in Int
    BY <2>2
  <2>4. /\ here \in Seq(Nat) /\ list \in Seq(Nat)
        /\ here # << >> => contains(here, pl)
    BY <1>1, <1>4, <2>1, <2>2
  <2>5. list # << >> => contains(list, place + (b + 1))
    BY <1>2, <2>1, <2>2, <2>3
  <2>6. up[b + 1] = Pin(here, list, 1)
    BY <1>1, <2>1, <2>2
  <2>7. Pin(here, list, 1) # << >> => contains(Pin(here, list, 1), place + (b + 1))
    BY <2>3, <2>4, <2>5, PinKeepsCopy
  <2>8. QED  BY <2>3, <2>6, <2>7
<1>5. Nat \subseteq Good
  <2> HIDE DEF Good
  <2>1. QED  BY <1>3, <1>4, NaturalInduction
<1>6. \A b \in 0 .. n - 1 : up[b] # << >> => contains(up[b], place + b)
  BY <1>5
<1>7. DOMAIN up = 0 .. n - 1
  BY <1>1
<1>8. QED  BY <1>6, <1>7 DEF OnCopy, up

\* The downward loop keeps to the copy.
LEMMA CleanDownKeepsCopy ==
  ASSUME NEW n \in Nat, NEW fm \in [0 .. n - 1 -> Seq(Nat)], NEW place \in Nat, OnCopy(fm, place)
  PROVE  OnCopy(CleanDown(fm), place)
<1> DEFINE down == CleanDown(fm)
           Good == { i \in Nat : i < n =>
                       (down[n - 1 - i] # << >> => contains(down[n - 1 - i], place + (n - 1 - i))) }
<1>1. /\ down = [b \in 0 .. n - 1 |->
                  IF b = n - 1 THEN fm[b] ELSE Pin(down[b + 1], fm[b], -1)]
      /\ down \in [0 .. n - 1 -> Seq(Nat)]
  BY CleanDownUnfolds, CleanDownNarrows
<1>2. \A b \in 0 .. n - 1 : fm[b] # << >> => contains(fm[b], place + b)
  BY DEF OnCopy
<1> HIDE DEF down
<1>3. 0 \in Good
  <2> SUFFICES ASSUME 0 < n PROVE down[n - 1 - 0] # << >> =>
                                    contains(down[n - 1 - 0], place + (n - 1 - 0))
    OBVIOUS
  <2>1. n - 1 - 0 = n - 1 /\ n - 1 \in 0 .. n - 1
    OBVIOUS
  <2>2. down[n - 1] = fm[n - 1]
    BY <1>1, <2>1
  <2>3. QED  BY <1>2, <2>1, <2>2
<1>4. ASSUME NEW i \in Nat, i \in Good
      PROVE  i + 1 \in Good
  <2> DEFINE b == n - 1 - (i + 1)
  <2> SUFFICES ASSUME i + 1 < n, down[b] # << >> PROVE contains(down[b], place + b)
    OBVIOUS
  <2>1. b \in 0 .. n - 1 /\ b + 1 \in 0 .. n - 1 /\ b + 1 = n - 1 - i /\ b # n - 1
    BY <1>4
  <2>1a. down[n - 1 - i] # << >> => contains(down[n - 1 - i], place + (n - 1 - i))
    BY <1>4
  <2> HIDE DEF b, Good
  <2>2. PICK here, list, pl : /\ here = down[b + 1] /\ list = fm[b] /\ pl = place + (b + 1)
    OBVIOUS
  <2>3. place + b = pl + (-1) /\ pl \in Int /\ -1 \in Int
    BY <2>1, <2>2
  <2>4. /\ here \in Seq(Nat) /\ list \in Seq(Nat)
        /\ here # << >> => contains(here, pl)
    BY <1>1, <2>1, <2>1a, <2>2
  <2>5. list # << >> => contains(list, place + b)
    BY <1>2, <2>1, <2>2, <2>3
  <2>6. down[b] = Pin(here, list, -1)
    BY <1>1, <2>1, <2>2
  <2>7. Pin(here, list, -1) # << >> => contains(Pin(here, list, -1), place + b)
    BY <2>3, <2>4, <2>5, PinKeepsCopy
  <2>8. QED  BY <2>3, <2>6, <2>7
<1>5. Nat \subseteq Good
  <2> HIDE DEF Good
  <2>1. QED  BY <1>3, <1>4, NaturalInduction
<1>6. ASSUME NEW b \in 0 .. n - 1
      PROVE  down[b] # << >> => contains(down[b], place + b)
  <2>1. n - 1 - b \in Nat /\ n - 1 - b < n /\ n - 1 - (n - 1 - b) = b
    OBVIOUS
  <2>2. n - 1 - b \in Good
    <3> HIDE DEF Good
    <3>1. QED  BY <1>5, <2>1
  <2>3. QED  BY <2>1, <2>2
<1>7. DOMAIN down = 0 .. n - 1
  BY <1>1
<1>8. QED  BY <1>6, <1>7 DEF OnCopy, down

\* clean() takes no block of a copy that was found away from the copy.
LEMMA CleanKeepsCopy ==
  ASSUME NEW n \in Nat, NEW fm \in [0 .. n - 1 -> Seq(Nat)], NEW place \in Nat, OnCopy(fm, place)
  PROVE  OnCopy(clean(fm), place)
<1>1. CleanUp(fm) \in [0 .. n - 1 -> Seq(Nat)]
  BY CleanUpNarrows
<1>2. OnCopy(CleanUp(fm), place)
  BY CleanUpKeepsCopy
<1>3. OnCopy(CleanDown(CleanUp(fm)), place)
  BY <1>1, <1>2, CleanDownKeepsCopy
<1>4. QED  BY <1>3 DEF clean

\* A run has a block at least, ends in the filemap, and consecutive places are
\* listed for all of it.
LEMMA RunlenBounds ==
  ASSUME NEW n \in Nat, NEW fm \in [0 .. n - 1 -> Seq(Nat)],
         NEW b \in 0 .. n - 1, NEW place \in Nat
  PROVE  LET len == runlen(fm, b, place) IN
         /\ len \in 1 .. n - b
         /\ \A j \in 1 .. len - 1 : contains(fm[b + j], place + j)
<1> DEFINE stops == { len \in 1 .. (n - b) :
                        \/ b + len = n
                        \/ ~ contains(fm[b + len], place + len) }
<1>1. size(fm) = n
  BY FS_Interval DEF size
<1>2. runlen(fm, b, place) = CHOOSE len \in stops : \A other \in stops : len <= other
  BY <1>1 DEF runlen
<1>3. n - b \in stops
  OBVIOUS
<1>4. stops # {} /\ stops \subseteq Nat
  <2>1. 1 .. n - b \subseteq Nat  OBVIOUS
  <2>2. QED  BY <1>3, <2>1
<1>5. \A j \in 1 .. n - b : j \notin stops => contains(fm[b + j], place + j)
  OBVIOUS
<1>6. stops \subseteq 1 .. n - b
  OBVIOUS
<1> HIDE DEF stops
<1>7. \E len \in stops : \A other \in stops : len <= other
  BY <1>4, LeastNatural
<1> DEFINE len == runlen(fm, b, place)
<1>8. len \in stops /\ \A other \in stops : len <= other
  BY <1>2, <1>7
<1> HIDE DEF len
<1>9. \A j \in 1 .. len - 1 : j \in 1 .. n - b /\ j \notin stops
  BY <1>6, <1>8
<1>10. /\ len \in 1 .. n - b
       /\ \A j \in 1 .. len - 1 : contains(fm[b + j], place + j)
  BY <1>5, <1>6, <1>8, <1>9
<1>11. QED  BY <1>10 DEF len
=============================================================================
