---------------------------- MODULE SharedProofs ----------------------------
(****************************************************************************)
(* What the proofs about several components need: induction over the        *)
(* natural numbers, stated of sets, so that a recursive function can be     *)
(* reasoned about without an operator as a parameter; and what              *)
(* vec_make_room leaves behind, for arrays of any size.                     *)
(****************************************************************************)
EXTENDS Vec, WellFoundedInduction, TLAPS

\* A set of natural numbers has a smallest one, because they are well founded.
LEMMA Smallest ==
    ASSUME NEW T \in SUBSET Nat, T # {}
    PROVE  \E x \in T : \A y \in T : x <= y
  <1> DEFINE R == OpToRel(<, Nat)
  <1>1. IsWellFoundedOn(R, Nat)
    BY NatLessThanWellFounded
  <1>2. \A x, y \in Nat : x < y => <<x, y>> \in R
    BY DEF OpToRel
  <1> HIDE DEF R
  <1>3. PICK x \in T : \A y \in T : ~ (<<y, x>> \in R)
    BY <1>1, WFMin
  <1>4. ASSUME NEW y \in T PROVE x <= y
    <2>1. x \in Nat /\ y \in Nat
      OBVIOUS
    <2>2. ~ (y < x)
      BY <1>2, <1>3, <2>1
    <2> QED
      BY <2>1, <2>2
  <1> QED
    BY <1>4

\* A set with 0, and with the successor of each of its elements, is all of them.
LEMMA SetInduction ==
    ASSUME NEW S \in SUBSET Nat, 0 \in S, \A n \in S : n + 1 \in S
    PROVE  S = Nat
  <1> SUFFICES ASSUME Nat \ S # {} PROVE FALSE
    OBVIOUS
  <1>1. PICK x \in Nat \ S : \A y \in Nat \ S : x <= y
    BY Smallest
  <1>2. x - 1 \in Nat /\ x - 1 + 1 = x
    BY <1>1
  <1>3. ~ (x <= x - 1)
    BY <1>1
  <1>4. x - 1 \in S
    BY <1>1, <1>2, <1>3
  <1> QED
    BY <1>1, <1>2, <1>4

-----------------------------------------------------------------------------
\* vec_make_room makes room for the element after the last, and keeps what is
\* there.
LEMMA MakeRoomFits ==
    ASSUME NEW v \in VecHeader, v.base, v.size >= 10,
           NEW idx \in Nat, idx <= v.size
    PROVE  LET w == VecMakeRoom(v, idx)
           IN  /\ w \in VecHeader
               /\ w.base
               /\ w.len = v.len
               /\ w.size >= 10
               /\ idx < w.size
  <1> DEFINE grown == (v.size * 16) \div 10
  <1>1. v.size \in Nat /\ v.len \in Nat
    BY DEF VecHeader
  <1>2. grown \in Nat /\ grown > v.size
    BY <1>1
  <1>3. CASE idx < v.size
    BY <1>1, <1>3 DEF VecMakeRoom, VecHeader
  <1>4. CASE idx >= v.size
    <2>1. VecMakeRoom(v, idx) = [v EXCEPT !.size = grown]
      BY <1>1, <1>2, <1>4 DEF VecMakeRoom, VecGrow
    <2> QED
      BY <1>1, <1>2, <2>1 DEF VecHeader
  <1> QED
    BY <1>1, <1>3, <1>4

\* The array is as large as its n elements need: it is allocated at the first
\* element, never with fewer than ten (growing by 16/10 makes room only from
\* 2 elements on).
VecHolds(v, n) ==
    /\ v \in VecHeader
    /\ IF v.base THEN v.size >= 10 /\ n <= v.size ELSE n = 0

\* The last of n elements is inside the allocation.
LEMMA HoldsInRoom ==
    ASSUME NEW v, NEW n \in Nat, VecHolds(v, n), n > 0
    PROVE  VecInRoom(v, n - 1)
  BY DEF VecHolds, VecInRoom, VecHeader

\* vec_make_room before element n is stored, whether or not it then is.
LEMMA MakeRoomHolds ==
    ASSUME NEW v, NEW n \in Nat, VecHolds(v, n)
    PROVE  LET w == VecMakeRoom(v, n)
           IN  VecHolds(w, n) /\ VecHolds([w EXCEPT !.len = @ + 1], n + 1)
  <1> DEFINE w == VecMakeRoom(v, n)
  <1>1. w \in VecHeader /\ w.base /\ w.size >= 10 /\ n < w.size
    <2>1. CASE v.base
      BY <2>1, MakeRoomFits DEF VecHolds
    <2>2. CASE ~v.base
      <3>1. w = [base |-> TRUE, len |-> v.len, size |-> 10] /\ n = 0
        BY <2>2 DEF VecMakeRoom, VecAlloc, VecHolds, VecHeader
      <3>2. v.len \in Nat
        BY DEF VecHolds, VecHeader
      <3> HIDE DEF w
      <3> QED
        BY <3>1, <3>2 DEF VecHeader
    <2> QED
      BY <2>1, <2>2 DEF VecHolds, VecHeader
  <1> HIDE DEF w
  <1>2. VecHolds(w, n)
    BY <1>1 DEF VecHolds, VecHeader
  <1>3. VecHolds([w EXCEPT !.len = @ + 1], n + 1)
    BY <1>1 DEF VecHolds, VecHeader
  <1> QED
    BY <1>2, <1>3 DEF w
==============================================================================
