--------------------------- MODULE Induction_proofs ---------------------------
(***************************************************************************)
(* Induction over the numbers and over finite sets, and by it what the     *)
(* models use of sums over a finite set (SumFunction of the community      *)
(* modules).                                                               *)
(*                                                                         *)
(* The induction theorems of the library take the statement to be proved   *)
(* as an operator.  Here it is a set instead, of the numbers or of the     *)
(* sets it holds for, which the provers can instantiate.                   *)
(***************************************************************************)
EXTENDS Integers, FiniteSets, Functions, FiniteSetTheorems, WellFoundedInduction, TLAPS

-----------------------------------------------------------------------------
(* Induction                                                               *)

LEMMA LeastNatural ==
    ASSUME NEW S, S \subseteq Nat, S # {}
    PROVE  \E n \in S : \A m \in S : ~ (m < n)
<1> DEFINE R == {ss \in Nat \X Nat : ss[1] < ss[2]}
<1>1. IsWellFoundedOn(R, Nat)
  BY NatLessThanWellFounded, Zenon DEF OpToRel
<1> HIDE DEF R
<1>2. \E n \in S : \A m \in S : <<m, n>> \notin R
  BY <1>1, WFMin
<1> QED
  BY <1>2 DEF R

(* A set of numbers that holds 0 and, with a number, the next one.         *)
LEMMA NumberInduction ==
    ASSUME NEW S, 0 \in S, \A n \in Nat : n \in S => n + 1 \in S
    PROVE  Nat \subseteq S
<1> SUFFICES ASSUME Nat \ S # {}
             PROVE  FALSE
  OBVIOUS
<1>1. PICK n \in Nat \ S : \A m \in Nat \ S : ~ (m < n)
  BY LeastNatural
<1>2. n - 1 \in Nat /\ n - 1 < n
  BY <1>1
<1>3. n - 1 \in S
  BY <1>1, <1>2
<1> QED
  BY <1>1, <1>2, <1>3

(* A collection that holds a set as soon as it holds all that lack one of  *)
(* its elements.                                                           *)
LEMMA SetInduction ==
    ASSUME NEW S, IsFiniteSet(S), NEW F,
           \A T \in SUBSET S : (\A x \in T : T \ {x} \in F) => T \in F
    PROVE  SUBSET S \subseteq F
<1> DEFINE Others == (SUBSET S) \ F
           Sizes == {Cardinality(T) : T \in Others}
<1> SUFFICES ASSUME Others # {}
             PROVE  FALSE
  OBVIOUS
<1>1. \A T \in SUBSET S : IsFiniteSet(T) /\ Cardinality(T) \in Nat
  BY FS_Subset, FS_CardinalityType
<1>2. Sizes \subseteq Nat /\ Sizes # {}
  BY <1>1
<1>3. PICK n \in Sizes : \A m \in Sizes : ~ (m < n)
  BY <1>2, LeastNatural
<1>4. PICK T \in Others : Cardinality(T) = n
  BY <1>3
<1>5. ASSUME NEW x \in T
      PROVE  T \ {x} \in F
  <2>1. T \ {x} \in SUBSET S /\ Cardinality(T \ {x}) = n - 1
    BY <1>1, <1>4, FS_RemoveElement
  <2>2. n - 1 < n
    BY <1>1, <1>4
  <2> QED
    BY <1>3, <2>1, <2>2
<1> QED
  BY <1>4, <1>5

-----------------------------------------------------------------------------
(* Sums                                                                    *)

Pick(s) == CHOOSE x \in s : TRUE

(* g gives the partial sums of f. *)
IsPartial(f, g) ==
    g = [s \in SUBSET DOMAIN f |->
            IF s = {} THEN 0 ELSE f[Pick(s)] + g[s \ {Pick(s)}]]

Partial(f) == CHOOSE g : IsPartial(f, g)

LEMMA SumIsPartial ==
    ASSUME NEW f
    PROVE  SumFunction(f) = Partial(f)[DOMAIN f]
BY DEF SumFunction, SumFunctionOnSet, FoldFunctionOnSet, MapThenFoldSet, Partial, IsPartial, Pick

(* The recursion of the partial sums defines them. *)
LEMMA PartialExists ==
    ASSUME NEW f, IsFiniteSet(DOMAIN f)
    PROVE  IsPartial(f, Partial(f))
<1> DEFINE D == DOMAIN f
           Upto(n) == {s \in SUBSET D : Cardinality(s) <= n}
           Next(s, g) == IF s = {} THEN 0 ELSE f[Pick(s)] + g[s \ {Pick(s)}]
           K == {n \in Nat : \E g : g = [s \in Upto(n) |-> Next(s, g)]}
<1>1. \A s \in SUBSET D : IsFiniteSet(s) /\ Cardinality(s) \in Nat
  BY FS_Subset, FS_CardinalityType
<1>2. \A s \in SUBSET D : s # {} =>
          /\ Pick(s) \in s
          /\ s \ {Pick(s)} \in SUBSET D
          /\ Cardinality(s \ {Pick(s)}) = Cardinality(s) - 1
  BY <1>1, FS_RemoveElement DEF Pick
<1>3. 0 \in K
  <2> DEFINE g == [s \in Upto(0) |-> 0]
  <2>1. \A s \in Upto(0) : s = {}
    BY <1>1, FS_EmptySet
  <2>2. g = [s \in Upto(0) |-> Next(s, g)]
    BY <2>1
  <2> QED
    BY <2>2
<1>4. ASSUME NEW n \in Nat, n \in K
      PROVE  n + 1 \in K
  <2> HIDE DEF Next
  <2>1. PICK g : g = [s \in Upto(n) |-> Next(s, g)]
    BY <1>4
  <2> DEFINE h == [s \in Upto(n + 1) |-> Next(s, g)]
  <2>2. \A s \in Upto(n) : g[s] = Next(s, g)
    BY <2>1
  <2>3. \A s \in Upto(n) : s \in Upto(n + 1) /\ h[s] = g[s]
    BY <1>1, <2>2
  <2>4. \A s \in Upto(n + 1) : s # {} => s \ {Pick(s)} \in Upto(n)
    BY <1>1, <1>2
  <2> HIDE DEF Upto, h
  <2>5. \A s \in Upto(n + 1) : Next(s, h) = Next(s, g)
    BY <2>3, <2>4 DEF Next
  <2>6. h = [s \in Upto(n + 1) |-> Next(s, h)]
    BY <2>5 DEF h
  <2>7. \E k : k = [s \in Upto(n + 1) |-> Next(s, k)]
    BY <2>6
  <2> QED
    BY <2>7 DEF Upto
<1> HIDE DEF K
<1>5. Cardinality(D) \in K
  BY <1>1, <1>3, <1>4, NumberInduction
<1>6. Upto(Cardinality(D)) = SUBSET D
  BY <1>1, FS_Subset
<1>7. \E g : g = [s \in Upto(Cardinality(D)) |-> Next(s, g)]
  BY <1>5 DEF K
<1>8. \E g : IsPartial(f, g)
  BY <1>6, <1>7 DEF IsPartial
<1> QED
  BY <1>8 DEF Partial

(* The partial sums of f, over the subsets of D. *)
SumsUp(D, f) ==
    /\ Partial(f)[{}] = 0
    /\ \A T \in SUBSET D : Partial(f)[T] \in Nat
    /\ \A T \in SUBSET D : \A x \in T : Partial(f)[T] = f[x] + Partial(f)[T \ {x}]

(* Which element is taken out first does not matter. *)
LEMMA PartialSums ==
    ASSUME NEW D, IsFiniteSet(D), NEW f \in [D -> Nat]
    PROVE  SumsUp(D, f)
<1> DEFINE P == Partial(f)
<1>1. P = [s \in SUBSET D |-> IF s = {} THEN 0 ELSE f[Pick(s)] + P[s \ {Pick(s)}]]
  BY PartialExists DEF IsPartial
<1> HIDE DEF P
<1>2. P[{}] = 0
  BY <1>1
<1>3. \A T \in SUBSET D : T # {} => Pick(T) \in T /\ P[T] = f[Pick(T)] + P[T \ {Pick(T)}]
  BY <1>1 DEF Pick
<1>4. \A T \in SUBSET D : P[T] \in Nat
  <2> DEFINE F == {T \in SUBSET D : P[T] \in Nat}
  <2>1. ASSUME NEW T \in SUBSET D, \A x \in T : T \ {x} \in F
        PROVE  T \in F
    <3>1. CASE T = {}
      BY <1>2, <3>1
    <3>2. CASE T # {}
      <4> DEFINE y == Pick(T)
      <4>1. y \in T /\ P[T] = f[y] + P[T \ {y}]
        BY <1>3, <3>2
      <4> HIDE DEF y
      <4>2. P[T \ {y}] \in Nat /\ f[y] \in Nat
        BY <2>1, <4>1
      <4>3. P[T] \in Nat
        BY <4>1, <4>2
      <4> QED
        BY <4>3
    <3> QED
      BY <3>1, <3>2
  <2> HIDE DEF F
  <2>2. SUBSET D \subseteq F
    BY <2>1, SetInduction
  <2> QED
    BY <2>2 DEF F
<1>5. \A T \in SUBSET D : \A x \in T : P[T] = f[x] + P[T \ {x}]
  <2> DEFINE F == {T \in SUBSET D : \A x \in T : P[T] = f[x] + P[T \ {x}]}
  <2>1. ASSUME NEW T \in SUBSET D, \A x \in T : T \ {x} \in F
        PROVE  T \in F
    <3> SUFFICES ASSUME NEW x \in T
                 PROVE  P[T] = f[x] + P[T \ {x}]
      OBVIOUS
    <3> DEFINE y == Pick(T)
    <3>1. y \in T /\ P[T] = f[y] + P[T \ {y}]
      BY <1>3
    <3> HIDE DEF y
    <3>2. CASE x = y
      BY <3>1, <3>2
    <3>3. CASE x # y
      <4>1. P[T \ {y}] = f[x] + P[(T \ {y}) \ {x}]
        BY <2>1, <3>1, <3>3
      <4>2. P[T \ {x}] = f[y] + P[(T \ {x}) \ {y}]
        BY <2>1, <3>1, <3>3
      <4>3. (T \ {y}) \ {x} = (T \ {x}) \ {y}
        OBVIOUS
      <4>4. P[(T \ {x}) \ {y}] \in Nat /\ f[x] \in Nat /\ f[y] \in Nat
        BY <1>4, <3>1
      <4> QED
        BY <3>1, <4>1, <4>2, <4>3, <4>4
    <3> QED
      BY <3>2, <3>3
  <2> HIDE DEF F
  <2>2. SUBSET D \subseteq F
    BY <2>1, SetInduction
  <2> QED
    BY <2>2 DEF F
<1> QED
  BY <1>2, <1>4, <1>5 DEF P, SumsUp

(* Sums of natural numbers. *)
LEMMA SumType ==
    ASSUME NEW D, IsFiniteSet(D), NEW f \in [D -> Nat]
    PROVE  /\ SumFunction(f) \in Nat
           /\ \A x \in D : f[x] <= SumFunction(f)
<1>1. SumFunction(f) = Partial(f)[D]
  BY SumIsPartial
<1>2. SumsUp(D, f)
  BY PartialSums
<1>3. Partial(f)[D] \in Nat
  BY <1>2 DEF SumsUp
<1>4. ASSUME NEW x \in D
      PROVE  f[x] <= Partial(f)[D]
  <2>1. Partial(f)[D] = f[x] + Partial(f)[D \ {x}]
    BY <1>2 DEF SumsUp
  <2>2. Partial(f)[D \ {x}] \in Nat
    BY <1>2 DEF SumsUp
  <2> QED
    BY <2>1, <2>2
<1> QED
  BY <1>1, <1>3, <1>4

(* A sum follows a change of one of its terms. *)
LEMMA SumChange ==
    ASSUME NEW D, IsFiniteSet(D), NEW f \in [D -> Nat], NEW g \in [D -> Nat],
           NEW x \in D, \A y \in D \ {x} : g[y] = f[y]
    PROVE  SumFunction(g) = SumFunction(f) - f[x] + g[x]
<1> DEFINE P == Partial(f)
           Q == Partial(g)
<1>1. SumsUp(D, f) /\ SumsUp(D, g)
  BY PartialSums
<1>2. \A T \in SUBSET D :
         /\ P[T] \in Nat /\ Q[T] \in Nat
         /\ T = {} => P[T] = Q[T]
         /\ \A y \in T : P[T] = f[y] + P[T \ {y}] /\ Q[T] = g[y] + Q[T \ {y}]
  BY <1>1 DEF SumsUp
<1>3. SumFunction(f) = P[D] /\ SumFunction(g) = Q[D]
  BY SumIsPartial
<1> HIDE DEF P, Q
<1> DEFINE S == D \ {x}
           F == {T \in SUBSET S : P[T] = Q[T]}
<1>4. ASSUME NEW T \in SUBSET S, \A y \in T : T \ {y} \in F
      PROVE  T \in F
  <2>1. CASE T = {}
    BY <1>2, <2>1
  <2>2. CASE T # {}
    <3>1. PICK y \in T : TRUE
      BY <2>2
    <3>2. P[T] = f[y] + P[T \ {y}] /\ Q[T] = g[y] + Q[T \ {y}]
      BY <1>2
    <3>3. P[T \ {y}] = Q[T \ {y}] /\ f[y] = g[y]
      BY <1>4
    <3> QED
      BY <3>2, <3>3
  <2> QED
    BY <2>1, <2>2
<1>5. IsFiniteSet(S)
  BY FS_RemoveElement
<1> HIDE DEF F, S
<1>6. SUBSET S \subseteq F
  BY <1>4, <1>5, SetInduction
<1>7. P[D \ {x}] = Q[D \ {x}]
  BY <1>6 DEF F, S
<1>8. P[D] = f[x] + P[D \ {x}] /\ Q[D] = g[x] + Q[D \ {x}] /\ P[D \ {x}] \in Nat
  BY <1>2
<1> QED
  BY <1>3, <1>7, <1>8

(* A sum of nothing but zeros. *)
LEMMA SumZero ==
    ASSUME NEW D, IsFiniteSet(D), NEW f \in [D -> Nat], \A x \in D : f[x] = 0
    PROVE  SumFunction(f) = 0
<1> DEFINE P == Partial(f)
<1>1. SumsUp(D, f)
  BY PartialSums
<1>2. SumFunction(f) = P[D]
  BY SumIsPartial
<1>3. \A T \in SUBSET D : \A y \in T : P[T] = f[y] + P[T \ {y}]
  BY <1>1 DEF SumsUp
<1>4. P[{}] = 0
  BY <1>1 DEF SumsUp
<1> HIDE DEF P
<1> DEFINE F == {T \in SUBSET D : P[T] = 0}
<1>5. ASSUME NEW T \in SUBSET D, \A y \in T : T \ {y} \in F
      PROVE  T \in F
  <2>1. CASE T = {}
    BY <1>4, <2>1
  <2>2. CASE T # {}
    <3>1. PICK y \in T : TRUE
      BY <2>2
    <3>2. P[T] = f[y] + P[T \ {y}]
      BY <1>3
    <3>3. P[T \ {y}] = 0 /\ f[y] = 0
      BY <1>5
    <3> QED
      BY <3>2, <3>3
  <2> QED
    BY <2>1, <2>2
<1> HIDE DEF F
<1>6. SUBSET D \subseteq F
  BY <1>5, SetInduction
<1> QED
  BY <1>2, <1>6 DEF F
=============================================================================
