---------------------------- MODULE SetInduction ----------------------------
(* Induction over the naturals as a fact about sets of them: the induction *)
(* theorems of the library take an operator, and a set needs none.         *)
EXTENDS Integers, WellFoundedInduction, TLAPS

(* A set of naturals has a least element, hence what holds at 0 and is     *)
(* passed on below n holds up to n.                                        *)
LEMMA Least ==
  ASSUME NEW T, T \subseteq Nat, T # {}
  PROVE  \E x \in T : \A y \in T : x <= y
<1> DEFINE R == {ss \in Nat \X Nat : ss[1] < ss[2]}
<1>1. IsWellFoundedOn(R, Nat)
  BY NatLessThanWellFounded, Zenon DEF OpToRel
<1>2. \E x \in T : \A y \in T : <<y, x>> \notin R
  <2> HIDE DEF R
  <2> QED BY <1>1, WFMin
<1>3. PICK x \in T : \A y \in T : <<y, x>> \notin R
  BY <1>2
<1>4. \A y \in T : ~(y < x)
  <2> SUFFICES ASSUME NEW y \in T, y < x PROVE FALSE
    OBVIOUS
  <2> QED BY <1>3
<1> QED  BY <1>4

LEMMA Inductive ==
  ASSUME NEW T, NEW n \in Nat, 0 \in T, \A m \in 0..(n - 1) : m \in T => m + 1 \in T
  PROVE  \A m \in 0..n : m \in T
<1> DEFINE F == {m \in 0..n : m \notin T}
<1> SUFFICES ASSUME F # {} PROVE FALSE
  OBVIOUS
<1>1. PICK x \in F : \A y \in F : x <= y
  <2>1. F \subseteq Nat
    OBVIOUS
  <2> HIDE DEF F
  <2> QED  BY <2>1, Least
<1>2. x # 0
  BY <1>1
<1>3. x - 1 \in 0..(n - 1) /\ x - 1 \in T
  BY <1>1, <1>2
<1> QED  BY <1>1, <1>3

(* A bounded set of naturals that is not empty has a greatest element. *)
LEMMA Greatest ==
  ASSUME NEW n \in Nat, NEW T, T \subseteq 1..n, T # {}
  PROVE  \E x \in T : \A y \in T : y <= x
<1> DEFINE U == {n - x : x \in T}
<1>1. U \subseteq Nat /\ U # {}
  <2>1. \A x \in T : n - x \in Nat
    OBVIOUS
  <2>2. PICK x : x \in T
    OBVIOUS
  <2> QED  BY <2>1, <2>2
<1> HIDE DEF U
<1>2. PICK u \in U : \A v \in U : u <= v
  BY <1>1, Least
<1> QED  BY <1>2 DEF U
=============================================================================
