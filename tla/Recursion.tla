----------------------------- MODULE Recursion -----------------------------
(***************************************************************************)
(* Why a recursive function is what its definition says.  The elements of  *)
(* S have sizes, and Body(f, x) is what f is defined to be at x: if that   *)
(* depends on what f is at smaller elements only, there is such an f.      *)
(*                                                                         *)
(* A module that defines a function by recursion takes an INSTANCE of this *)
(* one for it: the constants are then its domain, its measure and its      *)
(* body, and no theorem has an operator as a parameter.                    *)
(***************************************************************************)
EXTENDS Integers, WellFoundedInduction, TLAPS

CONSTANTS S, Size(_), Body(_, _)

Sized == \A x \in S : Size(x) \in Nat

Depends ==
  \A g, h : \A x \in S :
    (\A y \in S : Size(y) < Size(x) => g[y] = h[y]) => Body(g, x) = Body(h, x)

-----------------------------------------------------------------------------
(* Induction.                                                              *)

Lt == {p \in Nat \X Nat : p[1] < p[2]}

LEMMA LtWF == IsWellFoundedOn(Lt, Nat)
BY NatLessThanWellFounded DEF OpToRel, Lt, IsWellFoundedOn

\* A set of natural numbers that is not empty has a least element.
LEMMA Least ==
  ASSUME NEW T \in SUBSET Nat, T # {}
  PROVE  \E m \in T : \A n \in T : m <= n
<1>1. PICK x \in T : \A y \in T : ~(<<y, x>> \in Lt)
  BY LtWF, WFMin
<1>2. ASSUME NEW y \in T PROVE x <= y
  <2>1. ~(<<y, x>> \in Lt) /\ x \in Nat /\ y \in Nat
    BY <1>1
  <2>2. ~(y < x)
    BY <2>1 DEF Lt
  <2>3. QED
    BY <2>1, <2>2
<1>3. QED
  BY <1>2

\* A set that an element is in if all the smaller ones are holds them all.
LEMMA Induction ==
  ASSUME Sized, NEW T,
         \A x \in S : (\A y \in S : Size(y) < Size(x) => y \in T) => x \in T
  PROVE  \A x \in S : x \in T
<1>. DEFINE Left == {x \in S : x \notin T}
            Sizes == {Size(x) : x \in Left}
<1>. SUFFICES ASSUME Left # {} PROVE FALSE
  OBVIOUS
<1>1. Sizes \in SUBSET Nat /\ Sizes # {}
  BY DEF Sized
<1>2. PICK m \in Sizes : \A n \in Sizes : m <= n
  <2>. HIDE DEF Sizes
  <2>. QED
    BY <1>1, Least
<1>3. PICK x \in Left : m = Size(x)
  BY <1>2
<1>4. ASSUME NEW y \in S, Size(y) < Size(x), y \notin T PROVE FALSE
  <2>1. Size(y) \in Sizes
    BY <1>4
  <2>2. Size(x) <= Size(y) /\ Size(x) \in Nat /\ Size(y) \in Nat
    BY <2>1, <1>2, <1>3 DEF Sized
  <2>3. QED
    BY <1>4, <2>2
<1>5. QED
  BY <1>3, <1>4

-----------------------------------------------------------------------------
(* Solutions of the equation on the elements below a size.                 *)

Upto(n) == {x \in S : Size(x) < n}

Solves(f, n) == f = [x \in Upto(n) |-> Body(f, x)]

\* Two solutions agree where both are defined.
LEMMA Unique ==
  ASSUME Sized, Depends, NEW f, NEW g, NEW m \in Nat, NEW n \in Nat, m <= n,
         Solves(f, m), Solves(g, n)
  PROVE  \A x \in Upto(m) : f[x] = g[x]
<1>. DEFINE T == {x \in S : Size(x) < m => f[x] = g[x]}
<1>1. ASSUME NEW x \in S, \A y \in S : Size(y) < Size(x) => y \in T, Size(x) < m
      PROVE  f[x] = g[x]
  <2>1. ASSUME NEW y \in S, Size(y) < Size(x) PROVE f[y] = g[y]
    <3>1. Size(y) \in Nat /\ Size(x) \in Nat
      BY DEF Sized
    <3>2. Size(y) < m
      BY <3>1, <2>1, <1>1
    <3>3. QED
      BY <3>2, <2>1, <1>1
  <2>2. Body(f, x) = Body(g, x)
    BY <2>1 DEF Depends
  <2>3. x \in Upto(m) /\ x \in Upto(n)
    BY <1>1 DEF Upto, Sized
  <2>4. f[x] = Body(f, x)
    BY <2>3 DEF Solves
  <2>5. g[x] = Body(g, x)
    BY <2>3 DEF Solves
  <2>6. QED
    BY <2>2, <2>4, <2>5
<1>2. \A x \in S : (\A y \in S : Size(y) < Size(x) => y \in T) => x \in T
  BY <1>1
<1>3. \A x \in S : x \in T
  <2>. HIDE DEF T
  <2>. QED
    BY <1>2, Induction
<1>4. QED
  BY <1>3 DEF Upto

\* There is a solution below every size.
LEMMA Solvable ==
  ASSUME Sized, Depends
  PROVE  \A n \in Nat : \E f : Solves(f, n)
<1>. DEFINE Not == {n \in Nat : ~ \E f : Solves(f, n)}
<1>. SUFFICES ASSUME Not # {} PROVE FALSE
  OBVIOUS
<1>1. PICK m \in Not : \A n \in Not : m <= n
  BY Least
<1>2. m # 0
  <2>1. Upto(0) = {}
    BY DEF Upto, Sized
  <2>2. Solves([x \in Upto(0) |-> 0], 0)
    BY <2>1 DEF Solves
  <2>3. QED
    BY <2>2, <1>1
<1>3. m - 1 \in Nat /\ m - 1 \notin Not
  BY <1>1, <1>2
<1>4. PICK f : Solves(f, m - 1)
  BY <1>3
<1>. DEFINE g == [x \in Upto(m) |-> Body(f, x)]
<1>5. ASSUME NEW x \in Upto(m) PROVE Body(f, x) = Body(g, x)
  <2>1. ASSUME NEW y \in S, Size(y) < Size(x) PROVE f[y] = g[y]
    <3>1. x \in S /\ Size(y) \in Nat /\ Size(x) \in Nat /\ Size(x) < m /\ m \in Nat
      BY <1>5 DEF Sized, Upto
    <3>2. Size(y) < m - 1 /\ Size(y) < m
      BY <3>1, <2>1
    <3>3. y \in Upto(m - 1) /\ y \in Upto(m)
      BY <3>2 DEF Upto
    <3>4. f[y] = Body(f, y)
      BY <3>3, <1>4 DEF Solves
    <3>5. QED
      BY <3>3, <3>4
  <2>2. x \in S
    BY DEF Upto
  <2>. HIDE DEF g
  <2>3. QED
    BY <2>1, <2>2 DEF Depends
<1>6. g = [x \in Upto(m) |-> Body(g, x)]
  <2>1. [x \in Upto(m) |-> Body(f, x)] = [x \in Upto(m) |-> Body(g, x)]
    <3>. HIDE DEF g
    <3>. QED
      BY <1>5
  <2>2. QED
    BY <2>1
<1>7. QED
  BY <1>6, <1>1 DEF Solves

\* What a recursive definition defines exists.
THEOREM Exists ==
  ASSUME Sized, Depends
  PROVE  \E f : f = [x \in S |-> Body(f, x)]
<1>. DEFINE Sol(n) == CHOOSE f : Solves(f, n)
            F == [x \in S |-> Sol(Size(x) + 1)[x]]
<1>1. ASSUME NEW n \in Nat PROVE Solves(Sol(n), n)
  BY Solvable
<1>2. ASSUME NEW x \in S PROVE F[x] = Body(F, x)
  <2>. DEFINE n == Size(x) + 1
  <2>1. Size(x) \in Nat /\ n \in Nat
    BY DEF Sized
  <2>2. Solves(Sol(n), n)
    BY <2>1, <1>1
  <2>3. ASSUME NEW y \in S, Size(y) < Size(x) PROVE Sol(n)[y] = F[y]
    <3>1. Size(y) \in Nat /\ Size(y) + 1 \in Nat /\ Size(y) + 1 <= n
      BY <2>1, <2>3 DEF Sized
    <3>2. Solves(Sol(Size(y) + 1), Size(y) + 1)
      BY <3>1, <1>1
    <3>3. y \in Upto(Size(y) + 1)
      BY <3>1 DEF Upto
    <3>4. F[y] = Sol(Size(y) + 1)[y]
      OBVIOUS
    <3>. HIDE DEF Sol, n, F
    <3>5. \A z \in Upto(Size(y) + 1) : Sol(Size(y) + 1)[z] = Sol(n)[z]
      BY <3>1, <2>1, <2>2, <3>2, Unique
    <3>6. QED
      BY <3>5, <3>3, <3>4
  <2>4. x \in Upto(n)
    BY <2>1 DEF Upto
  <2>5. F[x] = Sol(n)[x]
    OBVIOUS
  <2>. HIDE DEF Sol, n, F
  <2>6. Sol(n)[x] = Body(Sol(n), x)
    BY <2>2, <2>4 DEF Solves
  <2>7. Body(Sol(n), x) = Body(F, x)
    BY <2>3 DEF Depends
  <2>8. QED
    BY <2>5, <2>6, <2>7
<1>3. F = [x \in S |-> F[x]]
  OBVIOUS
<1>4. [x \in S |-> F[x]] = [x \in S |-> Body(F, x)]
  <2>. HIDE DEF F
  <2>. QED
    BY <1>2
<1>5. QED
  <2>. HIDE DEF F
  <2>. QED
    BY <1>3, <1>4
=============================================================================
