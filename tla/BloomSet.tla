------------------------------ MODULE BloomSet ------------------------------
(***************************************************************************)
(* What a Bloom filter shared by several threads promises (bloom.h:145-149)*)
(* : an approximate set.  present is the set of hashes a query would       *)
(* answer 1 for.  It never shrinks; it grows only while an add is running; *)
(* it holds a hash when the add of that hash returns; and a query answers  *)
(* by it, at one instant between its call and its return.                  *)
(***************************************************************************)
EXTENDS Integers

CONSTANTS Threads, Hashes

VARIABLES
  present,  \* hashes reported as present
  phase,    \* phase[t]: "idle", "asking", "yes", "no" or "adding"
  item      \* item[t]: the hash of the call t is in

absvars == << present, phase, item >>

AbsInit ==
  /\ present = {}
  /\ phase = [t \in Threads |-> "idle"]
  /\ item \in [Threads -> Hashes]

Start(t, h) ==
  /\ phase[t] = "idle"
  /\ phase' \in { [phase EXCEPT ![t] = p] : p \in {"asking", "adding"} }
  /\ item' = [item EXCEPT ![t] = h]
  /\ UNCHANGED present

\* A running add makes more hashes present, aliases of the added one included.
Grow(t) ==
  /\ phase[t] = "adding"
  /\ present' \in SUBSET Hashes
  /\ present \subseteq present'
  /\ UNCHANGED << phase, item >>

Answer(t) ==
  /\ phase[t] = "asking"
  /\ phase' = [phase EXCEPT ![t] = IF item[t] \in present THEN "yes" ELSE "no"]
  /\ UNCHANGED << present, item >>

\* addString goes on to add what its query did not find.
GoOn(t) ==
  /\ phase[t] = "no"
  /\ phase' = [phase EXCEPT ![t] = "adding"]
  /\ UNCHANGED << present, item >>

QueryReturn(t) ==
  /\ phase[t] \in {"yes", "no"}
  /\ phase' = [phase EXCEPT ![t] = "idle"]
  /\ UNCHANGED << present, item >>

AddReturn(t) ==
  /\ phase[t] = "adding"
  /\ item[t] \in present
  /\ phase' = [phase EXCEPT ![t] = "idle"]
  /\ UNCHANGED << present, item >>

AbsNext ==
  \E t \in Threads :
    \/ \E h \in Hashes : Start(t, h)
    \/ Grow(t)
    \/ Answer(t)
    \/ GoOn(t)
    \/ QueryReturn(t)
    \/ AddReturn(t)

AbsSpec == AbsInit /\ [][AbsNext]_absvars
=============================================================================
