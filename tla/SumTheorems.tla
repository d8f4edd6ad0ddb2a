------------------------------ MODULE SumTheorems ------------------------------
(***************************************************************************)
(* Sums over finite sets, for the proofs about modules that add up bytes   *)
(* or time with MapThenSumSet.                                             *)
(*                                                                         *)
(* MapThenSumSet is a recursive function on the subsets of the set, chosen *)
(* by its equation (SumEquation).  That a function with this equation      *)
(* exists, and only one, follows by induction over the subsets.  Induction *)
(* is used in the form of FiniteInduction: a SET of subsets that contains  *)
(* the empty set and every subset that is one element larger than one it   *)
(* contains has the whole set in it.                                       *)
(***************************************************************************)
EXTENDS Integers, FiniteSetsExt, FiniteSetTheorems, TLAPS

SumOf(f, S) == MapThenSumSet(LAMBDA x : f[x], S)

-----------------------------------------------------------------------------
(* The recursive function *)

Pick(s) == CHOOSE x \in s : TRUE

SumEquation(f, S, g) ==
    g = [s \in SUBSET S |-> IF s = {} THEN 0 ELSE f[Pick(s)] + g[s \ {Pick(s)}]]

Sums(f, S) == CHOOSE g : SumEquation(f, S, g)

(* The sum is the value of the recursive function at the set. *)
LEMMA SumIsFunction == ASSUME NEW f, NEW S PROVE SumOf(f, S) = Sums(f, S)[S]
BY DEF SumOf, MapThenSumSet, MapThenFoldSet, Sums, SumEquation, Pick

(* A picked element is one of the set. *)
LEMMA Picked == ASSUME NEW S, S # {} PROVE Pick(S) \in S
BY DEF Pick

(* A set of subsets that has the empty set and is closed under one more element
   has the whole finite set. *)
LEMMA FiniteInduction ==
    ASSUME NEW S, IsFiniteSet(S), NEW P, {} \in P,
           \A T \in SUBSET S : T # {} /\ (\A x \in T : T \ {x} \in P) => T \in P
    PROVE  S \in P
<1> DEFINE Bad == {T \in SUBSET S : T \notin P}
<1> SUFFICES ASSUME Bad # {} PROVE FALSE
  OBVIOUS
<1>1. FiniteSubsetsOf(S) = SUBSET S
  BY FS_FiniteSubsetsOfFinite
<1>2. IsWellFoundedOn(StrictSubsetOrdering(S), SUBSET S)
  <2>1. IsWellFoundedOn(StrictSubsetOrdering(S), FiniteSubsetsOf(S))
    BY FS_StrictSubsetOrderingWellFounded
  <2> QED BY <1>1, <2>1, Zenon
<1>3. PICK T \in Bad : \A U \in Bad : ~(<<U, T>> \in StrictSubsetOrdering(S))
  <2> HIDE DEF Bad
  <2>1. Bad \subseteq SUBSET S
    BY DEF Bad
  <2> QED BY <2>1, <1>2, WFMin, Zenon
<1>4. T # {} /\ T \in SUBSET S /\ T \notin P
  OBVIOUS
<1>5. PICK x \in T : T \ {x} \notin P
  BY <1>4
<1>6. T \ {x} \in Bad /\ T \ {x} \subseteq T /\ T \ {x} # T
  BY <1>4, <1>5
<1>7. <<T \ {x}, T>> \in StrictSubsetOrdering(S)
  BY <1>4, <1>6 DEF StrictSubsetOrdering
<1> QED BY <1>3, <1>6, <1>7

(* Two functions with the equations of two sets agree on common subsets. *)
LEMMA SumUnique ==
    ASSUME NEW f, NEW S, NEW T, NEW U, U \subseteq S, U \subseteq T, IsFiniteSet(U),
           NEW g, SumEquation(f, S, g), NEW h, SumEquation(f, T, h)
    PROVE  g[U] = h[U]
<1> DEFINE Same == {V \in SUBSET U : g[V] = h[V]}
<1>1. {} \in Same
  BY DEF SumEquation
<1>2. \A V \in SUBSET U : V # {} /\ (\A x \in V : V \ {x} \in Same) => V \in Same
  <2> SUFFICES ASSUME NEW V \in SUBSET U, V # {}, \A x \in V : V \ {x} \in Same
               PROVE  g[V] = h[V]
    OBVIOUS
  <2>1. Pick(V) \in V
    BY Picked
  <2>2. g[V \ {Pick(V)}] = h[V \ {Pick(V)}]
    BY <2>1
  <2>3. g[V] = f[Pick(V)] + g[V \ {Pick(V)}]
    BY DEF SumEquation
  <2>4. h[V] = f[Pick(V)] + h[V \ {Pick(V)}]
    BY DEF SumEquation
  <2> QED BY <2>2, <2>3, <2>4
<1>3. U \in Same
  <2> HIDE DEF Same
  <2> QED BY <1>1, <1>2, FiniteInduction
<1> QED BY <1>3

(* Every finite set has the recursive function. *)
LEMMA SumExists ==
    ASSUME NEW f, NEW S, IsFiniteSet(S)
    PROVE  SumEquation(f, S, Sums(f, S))
<1> DEFINE Has == {T \in SUBSET S : \E g : SumEquation(f, T, g)}
<1>1. {} \in Has
  <2> DEFINE g == [s \in SUBSET {} |-> 0]
  <2>1. SumEquation(f, {}, g)
    BY DEF SumEquation
  <2> QED BY <2>1
<1>2. \A T \in SUBSET S : T # {} /\ (\A x \in T : T \ {x} \in Has) => T \in Has
  <2> SUFFICES ASSUME NEW T \in SUBSET S, T # {}, \A x \in T : T \ {x} \in Has
               PROVE  \E g : SumEquation(f, T, g)
    OBVIOUS
  <2>f. \A U \in SUBSET S : IsFiniteSet(U)
    BY FS_Subset
  <2> DEFINE h(x) == Sums(f, T \ {x})
             G == [s \in SUBSET T |-> IF s = {} THEN 0 ELSE f[Pick(s)] + h(Pick(s))[s \ {Pick(s)}]]
  <2>1. \A x \in T : SumEquation(f, T \ {x}, h(x))
    BY DEF Sums
  <2> HIDE DEF h
  <2>2. ASSUME NEW U \in SUBSET T, NEW x \in T, x \notin U
        PROVE  G[U] = h(x)[U]
    <3>1. CASE U = {}
      BY <3>1, <2>1, <2>2 DEF SumEquation
    <3>2. CASE U # {}
      <4> DEFINE y == Pick(U)
      <4>1. y \in U
        BY <3>2, Picked
      <4>2. G[U] = f[y] + h(y)[U \ {y}]
        BY <3>2
      <4>3. h(x)[U] = f[y] + h(x)[U \ {y}]
        <5>1. U \in SUBSET (T \ {x})
          BY <2>2
        <5> QED BY <5>1, <3>2, <2>1 DEF SumEquation
      <4>4. h(y)[U \ {y}] = h(x)[U \ {y}]
        <5>1. /\ U \ {y} \subseteq T \ {x} /\ U \ {y} \subseteq T \ {y}
              /\ IsFiniteSet(U \ {y}) /\ y \in T
          BY <2>2, <2>f, <4>1
        <5>2. SumEquation(f, T \ {x}, h(x)) /\ SumEquation(f, T \ {y}, h(y))
          BY <2>1, <5>1
        <5> HIDE DEF y
        <5> QED BY <5>1, <5>2, SumUnique
      <4> QED BY <4>2, <4>3, <4>4
    <3> QED BY <3>1, <3>2
  <2>3. SumEquation(f, T, G)
    <3>1. \A s \in SUBSET T : s # {} => h(Pick(s))[s \ {Pick(s)}] = G[s \ {Pick(s)}]
      <4> SUFFICES ASSUME NEW s \in SUBSET T, s # {}
                   PROVE  h(Pick(s))[s \ {Pick(s)}] = G[s \ {Pick(s)}]
        OBVIOUS
      <4>1. Pick(s) \in s
        BY Picked
      <4> HIDE DEF G
      <4> QED BY <4>1, <2>2
    <3> QED BY <3>1 DEF SumEquation
  <2> QED BY <2>3
<1>3. S \in Has
  <2> HIDE DEF Has
  <2> QED BY <1>1, <1>2, FiniteInduction
<1>4. \E g : SumEquation(f, S, g)
  BY <1>3
<1> QED BY <1>4 DEF Sums

-----------------------------------------------------------------------------
(* Adding up *)

(* A subset's value does not depend on the set the function was built for. *)
LEMMA SumOfSubset ==
    ASSUME NEW f, NEW S, IsFiniteSet(S), NEW T, T \subseteq S
    PROVE  SumOf(f, T) = Sums(f, S)[T]
<1>1. IsFiniteSet(T)
  BY FS_Subset
<1>2. SumEquation(f, T, Sums(f, T)) /\ SumEquation(f, S, Sums(f, S))
  BY <1>1, SumExists
<1>3. Sums(f, T)[T] = Sums(f, S)[T]
  BY <1>1, <1>2, SumUnique
<1> QED BY <1>3, SumIsFunction

(* A sum over nothing is 0. *)
LEMMA SumEmpty == ASSUME NEW f PROVE SumOf(f, {}) = 0
<1>1. IsFiniteSet({})
  BY FS_EmptySet
<1>2. SumEquation(f, {}, Sums(f, {}))
  BY <1>1, SumExists
<1>3. Sums(f, {})[{}] = 0
  BY <1>2 DEF SumEquation
<1> QED BY <1>3, SumIsFunction

(* A sum is the picked element and the rest. *)
LEMMA SumPicked ==
    ASSUME NEW f, NEW S, IsFiniteSet(S), S # {}
    PROVE  SumOf(f, S) = f[Pick(S)] + SumOf(f, S \ {Pick(S)})
<1>1. SumEquation(f, S, Sums(f, S))
  BY SumExists
<1>2. Sums(f, S)[S] = f[Pick(S)] + Sums(f, S)[S \ {Pick(S)}]
  BY <1>1 DEF SumEquation
<1>3. SumOf(f, S \ {Pick(S)}) = Sums(f, S)[S \ {Pick(S)}]
  BY SumOfSubset
<1> QED BY <1>2, <1>3, SumIsFunction

(* A sum of integers is an integer. *)
LEMMA SumInt ==
    ASSUME NEW f, NEW S, IsFiniteSet(S), \A x \in S : f[x] \in Int
    PROVE  SumOf(f, S) \in Int
<1> DEFINE P == {T \in SUBSET S : SumOf(f, T) \in Int}
<1>1. {} \in P
  BY SumEmpty
<1>2. \A T \in SUBSET S : T # {} /\ (\A x \in T : T \ {x} \in P) => T \in P
  <2> SUFFICES ASSUME NEW T \in SUBSET S, T # {}, \A x \in T : T \ {x} \in P
               PROVE  SumOf(f, T) \in Int
    OBVIOUS
  <2>1. Pick(T) \in T /\ IsFiniteSet(T)
    BY Picked, FS_Subset
  <2>2. SumOf(f, T) = f[Pick(T)] + SumOf(f, T \ {Pick(T)})
    BY <2>1, SumPicked
  <2> QED BY <2>1, <2>2
<1>3. S \in P
  <2> HIDE DEF P
  <2> QED BY <1>1, <1>2, FiniteInduction
<1> QED BY <1>3

(* Whichever element is taken out, it is what the sum loses. *)
LEMMA SumRemove ==
    ASSUME NEW f, NEW S, IsFiniteSet(S), \A x \in S : f[x] \in Int, NEW x \in S
    PROVE  SumOf(f, S) = f[x] + SumOf(f, S \ {x})
<1> DEFINE P == {T \in SUBSET S : \A y \in T : SumOf(f, T) = f[y] + SumOf(f, T \ {y})}
<1>1. {} \in P
  OBVIOUS
<1>2. \A T \in SUBSET S : T # {} /\ (\A y \in T : T \ {y} \in P) => T \in P
  <2> SUFFICES ASSUME NEW T \in SUBSET S, T # {}, \A y \in T : T \ {y} \in P, NEW y \in T
               PROVE  SumOf(f, T) = f[y] + SumOf(f, T \ {y})
    OBVIOUS
  <2> DEFINE z == Pick(T)
  <2>1. z \in T /\ IsFiniteSet(T)
    BY Picked, FS_Subset
  <2>2. SumOf(f, T) = f[z] + SumOf(f, T \ {z})
    BY <2>1, SumPicked
  <2> HIDE DEF z
  <2>3. CASE y = z
    BY <2>2, <2>3
  <2>4. CASE y # z
    <3> DEFINE R == (T \ {y}) \ {z}
    <3>1. y \in T \ {z} /\ z \in T \ {y} /\ (T \ {z}) \ {y} = R
      BY <2>1, <2>4
    <3>2. SumOf(f, T \ {z}) = f[y] + SumOf(f, (T \ {z}) \ {y})
      BY <2>1, <3>1
    <3>3. SumOf(f, T \ {y}) = f[z] + SumOf(f, (T \ {y}) \ {z})
      BY <3>1
    <3>4. IsFiniteSet(R) /\ (\A v \in R : f[v] \in Int)
      BY FS_Subset
    <3>5. SumOf(f, R) \in Int /\ f[y] \in Int /\ f[z] \in Int
      <4> HIDE DEF R
      <4> QED BY <2>1, <3>4, SumInt
    <3>6. \A a, b, c \in Int : a + (b + c) = b + (a + c)
      OBVIOUS
    <3>7. f[z] + (f[y] + SumOf(f, R)) = f[y] + (f[z] + SumOf(f, R))
      BY <3>5, <3>6
    <3> QED BY <2>2, <3>1, <3>2, <3>3, <3>7
  <2> QED BY <2>3, <2>4
<1>3. S \in P
  <2> HIDE DEF P
  <2> QED BY <1>1, <1>2, FiniteInduction
<1> QED BY <1>3

(* A sum depends only on the values at the elements of the set. *)
LEMMA SumSame ==
    ASSUME NEW f, NEW g, NEW S, IsFiniteSet(S), \A x \in S : f[x] = g[x]
    PROVE  SumOf(f, S) = SumOf(g, S)
<1> DEFINE P == {T \in SUBSET S : SumOf(f, T) = SumOf(g, T)}
<1>1. {} \in P
  BY SumEmpty
<1>2. \A T \in SUBSET S : T # {} /\ (\A x \in T : T \ {x} \in P) => T \in P
  <2> SUFFICES ASSUME NEW T \in SUBSET S, T # {}, \A x \in T : T \ {x} \in P
               PROVE  SumOf(f, T) = SumOf(g, T)
    OBVIOUS
  <2>1. Pick(T) \in T /\ IsFiniteSet(T)
    BY Picked, FS_Subset
  <2>2. SumOf(f, T) = f[Pick(T)] + SumOf(f, T \ {Pick(T)})
    BY <2>1, SumPicked
  <2>3. SumOf(g, T) = g[Pick(T)] + SumOf(g, T \ {Pick(T)})
    BY <2>1, SumPicked
  <2> QED BY <2>1, <2>2, <2>3
<1>3. S \in P
  <2> HIDE DEF P
  <2> QED BY <1>1, <1>2, FiniteInduction
<1> QED BY <1>3

(* A sum changes by as much as one of its values does. *)
LEMMA SumPoint ==
    ASSUME NEW f, NEW g, NEW S, IsFiniteSet(S), NEW x \in S,
           \A y \in S : f[y] \in Int /\ g[y] \in Int,
           \A y \in S \ {x} : f[y] = g[y]
    PROVE  /\ SumOf(g, S) - SumOf(f, S) = g[x] - f[x]
           /\ SumOf(f, S) \in Int /\ SumOf(g, S) \in Int
<1> DEFINE R == S \ {x}
<1>1. SumOf(f, S) = f[x] + SumOf(f, R) /\ SumOf(g, S) = g[x] + SumOf(g, R)
  BY SumRemove
<1>2. IsFiniteSet(R) /\ (\A y \in R : f[y] = g[y]) /\ (\A y \in R : f[y] \in Int)
  BY FS_Subset
<1> HIDE DEF R
<1>3. SumOf(f, R) = SumOf(g, R) /\ SumOf(f, R) \in Int
  BY <1>2, SumSame, SumInt
<1>4. f[x] \in Int /\ g[x] \in Int
  OBVIOUS
<1> QED BY <1>1, <1>3, <1>4

(* Smaller values have the smaller sum. *)
LEMMA SumLeq ==
    ASSUME NEW f, NEW g, NEW S, IsFiniteSet(S),
           \A x \in S : f[x] \in Int /\ g[x] \in Int /\ f[x] <= g[x]
    PROVE  SumOf(f, S) <= SumOf(g, S)
<1> DEFINE P == {T \in SUBSET S : SumOf(f, T) <= SumOf(g, T)}
<1>1. {} \in P
  BY SumEmpty
<1>2. \A T \in SUBSET S : T # {} /\ (\A x \in T : T \ {x} \in P) => T \in P
  <2> SUFFICES ASSUME NEW T \in SUBSET S, T # {}, \A x \in T : T \ {x} \in P
               PROVE  SumOf(f, T) <= SumOf(g, T)
    OBVIOUS
  <2> DEFINE z == Pick(T)
             R == T \ {z}
  <2>1. z \in T /\ IsFiniteSet(T) /\ IsFiniteSet(R)
    BY Picked, FS_Subset
  <2>2. SumOf(f, T) = f[z] + SumOf(f, R) /\ SumOf(g, T) = g[z] + SumOf(g, R)
    BY <2>1, SumPicked
  <2>3. SumOf(f, R) <= SumOf(g, R)
    BY <2>1
  <2>4. f[z] \in Int /\ g[z] \in Int /\ f[z] <= g[z]
    BY <2>1
  <2>5. \A x \in R : f[x] \in Int /\ g[x] \in Int
    OBVIOUS
  <2> HIDE DEF z, R
  <2>6. SumOf(f, R) \in Int /\ SumOf(g, R) \in Int
    BY <2>1, <2>5, SumInt
  <2> QED BY <2>2, <2>3, <2>4, <2>6
<1>3. S \in P
  <2> HIDE DEF P
  <2> QED BY <1>1, <1>2, FiniteInduction
<1> QED BY <1>3

(* One more element adds its value. *)
LEMMA SumInsert ==
    ASSUME NEW f, NEW S, IsFiniteSet(S), \A y \in S : f[y] \in Int, NEW x, x \notin S, f[x] \in Int
    PROVE  SumOf(f, S \cup {x}) = f[x] + SumOf(f, S)
<1> DEFINE T == S \cup {x}
<1>1. IsFiniteSet(T) /\ x \in T /\ (\A y \in T : f[y] \in Int)
  BY FS_AddElement
<1>2. T \ {x} = S
  OBVIOUS
<1> HIDE DEF T
<1>3. SumOf(f, T) = f[x] + SumOf(f, T \ {x})
  BY <1>1, SumRemove
<1> QED BY <1>2, <1>3 DEF T

(* The sum over two sets without a common element. *)
LEMMA SumJoin ==
    ASSUME NEW f, NEW S, IsFiniteSet(S), NEW U, IsFiniteSet(U), S \cap U = {},
           \A y \in S \cup U : f[y] \in Int
    PROVE  SumOf(f, S \cup U) = SumOf(f, S) + SumOf(f, U)
<1> DEFINE P == {T \in SUBSET U : SumOf(f, S \cup T) = SumOf(f, S) + SumOf(f, T)}
<1>0. SumOf(f, S) \in Int
  BY SumInt
<1>1. {} \in P
  <2>1. S \cup {} = S /\ SumOf(f, {}) = 0
    BY SumEmpty
  <2> QED BY <1>0, <2>1
<1>2. \A T \in SUBSET U : T # {} /\ (\A x \in T : T \ {x} \in P) => T \in P
  <2> SUFFICES ASSUME NEW T \in SUBSET U, NEW x \in T, T \ {x} \in P
               PROVE  SumOf(f, S \cup T) = SumOf(f, S) + SumOf(f, T)
    OBVIOUS
  <2> DEFINE R == T \ {x}
             A == S \cup T
  <2>1. /\ IsFiniteSet(T) /\ IsFiniteSet(R) /\ IsFiniteSet(A)
        /\ A \ {x} = S \cup R /\ x \in A
        /\ \A y \in A : f[y] \in Int
    BY FS_Subset, FS_Union
  <2>2. SumOf(f, S \cup R) = SumOf(f, S) + SumOf(f, R)
    OBVIOUS
  <2>3. SumOf(f, T) = f[x] + SumOf(f, R)
    BY <2>1, SumRemove
  <2>4. \A y \in R : f[y] \in Int
    OBVIOUS
  <2>5. f[x] \in Int
    OBVIOUS
  <2> HIDE DEF R, A
  <2>6. SumOf(f, A) = f[x] + SumOf(f, S \cup R)
    BY <2>1, SumRemove
  <2>7. SumOf(f, R) \in Int
    BY <2>1, <2>4, SumInt
  <2>8. SumOf(f, A) = SumOf(f, S) + SumOf(f, T)
    BY <1>0, <2>2, <2>3, <2>5, <2>6, <2>7
  <2> QED BY <2>8 DEF A
<1>3. U \in P
  <2> HIDE DEF P
  <2> QED BY <1>1, <1>2, FiniteInduction
<1> QED BY <1>3

(* A sum of natural numbers is one, and grows with the set. *)
LEMMA SumNat ==
    ASSUME NEW f, NEW S, IsFiniteSet(S), \A x \in S : f[x] \in Nat
    PROVE  SumOf(f, S) \in Nat
<1> DEFINE P == {T \in SUBSET S : SumOf(f, T) \in Nat}
<1>1. {} \in P
  BY SumEmpty
<1>2. \A T \in SUBSET S : T # {} /\ (\A x \in T : T \ {x} \in P) => T \in P
  <2> SUFFICES ASSUME NEW T \in SUBSET S, T # {}, \A x \in T : T \ {x} \in P
               PROVE  SumOf(f, T) \in Nat
    OBVIOUS
  <2>1. Pick(T) \in T /\ IsFiniteSet(T)
    BY Picked, FS_Subset
  <2>2. SumOf(f, T) = f[Pick(T)] + SumOf(f, T \ {Pick(T)})
    BY <2>1, SumPicked
  <2> QED BY <2>1, <2>2
<1>3. S \in P
  <2> HIDE DEF P
  <2> QED BY <1>1, <1>2, FiniteInduction
<1> QED BY <1>3

(* A part of a sum of natural numbers is at most the sum. *)
LEMMA SumMonotone ==
    ASSUME NEW f, NEW S, IsFiniteSet(S), \A x \in S : f[x] \in Nat, NEW T, T \subseteq S
    PROVE  SumOf(f, T) <= SumOf(f, S) /\ SumOf(f, T) \in Nat /\ SumOf(f, S) \in Nat
<1> DEFINE U == S \ T
<1>1. IsFiniteSet(T) /\ IsFiniteSet(U) /\ T \cap U = {} /\ T \cup U = S
  BY FS_Subset
<1>2. (\A x \in T : f[x] \in Nat) /\ (\A x \in U : f[x] \in Nat)
      /\ (\A x \in T \cup U : f[x] \in Int)
  OBVIOUS
<1> HIDE DEF U
<1>3. SumOf(f, T \cup U) = SumOf(f, T) + SumOf(f, U)
  BY <1>1, <1>2, SumJoin
<1>4. SumOf(f, T) \in Nat /\ SumOf(f, U) \in Nat
  BY <1>1, <1>2, SumNat
<1>5. SumOf(f, S) = SumOf(f, T) + SumOf(f, U)
  BY <1>1, <1>3, Zenon
<1> QED BY <1>4, <1>5

(* What is zero outside a subset adds nothing. *)
LEMMA SumOfZeros ==
    ASSUME NEW f, NEW S, IsFiniteSet(S), \A x \in S : f[x] = 0
    PROVE  SumOf(f, S) = 0
<1> DEFINE P == {T \in SUBSET S : SumOf(f, T) = 0}
<1>1. {} \in P
  BY SumEmpty
<1>2. \A T \in SUBSET S : T # {} /\ (\A x \in T : T \ {x} \in P) => T \in P
  <2> SUFFICES ASSUME NEW T \in SUBSET S, T # {}, \A x \in T : T \ {x} \in P
               PROVE  SumOf(f, T) = 0
    OBVIOUS
  <2>1. Pick(T) \in T /\ IsFiniteSet(T)
    BY Picked, FS_Subset
  <2>2. SumOf(f, T) = f[Pick(T)] + SumOf(f, T \ {Pick(T)})
    BY <2>1, SumPicked
  <2>3. f[Pick(T)] = 0 /\ SumOf(f, T \ {Pick(T)}) = 0
    BY <2>1
  <2> QED BY <2>2, <2>3
<1>3. S \in P
  <2> HIDE DEF P
  <2> QED BY <1>1, <1>2, FiniteInduction
<1> QED BY <1>3

(* Elements that count 0 may be left out. *)
LEMMA SumSupport ==
    ASSUME NEW f, NEW S, IsFiniteSet(S), \A x \in S : f[x] \in Int,
           NEW T, T \subseteq S, \A x \in S \ T : f[x] = 0
    PROVE  SumOf(f, S) = SumOf(f, T)
<1> DEFINE U == S \ T
<1>1. IsFiniteSet(T) /\ IsFiniteSet(U) /\ T \cap U = {} /\ T \cup U = S
  BY FS_Subset
<1>2. /\ \A x \in T : f[x] \in Int
      /\ \A x \in U : f[x] = 0
      /\ \A x \in T \cup U : f[x] \in Int
  OBVIOUS
<1> HIDE DEF U
<1>3. SumOf(f, T \cup U) = SumOf(f, T) + SumOf(f, U)
  BY <1>1, <1>2, SumJoin
<1>4. SumOf(f, T) \in Int /\ SumOf(f, U) = 0
  BY <1>1, <1>2, SumInt, SumOfZeros
<1>5. SumOf(f, S) = SumOf(f, T) + SumOf(f, U)
  BY <1>1, <1>3, Zenon
<1> QED BY <1>4, <1>5

(* The function chosen by the equation of a sum, however it is written. *)
LEMMA SumChosen ==
    ASSUME NEW f, NEW S, IsFiniteSet(S), NEW g, SumEquation(f, S, g)
    PROVE  g[S] = SumOf(f, S)
<1>1. SumEquation(f, S, Sums(f, S))
  BY SumExists
<1>2. g[S] = Sums(f, S)[S]
  BY <1>1, SumUnique
<1> QED BY <1>2, SumIsFunction

(* The sums of two functions. *)
LEMMA SumPlus ==
    ASSUME NEW f, NEW g, NEW h, NEW S, IsFiniteSet(S),
           \A x \in S : f[x] \in Int /\ g[x] \in Int /\ h[x] = f[x] + g[x]
    PROVE  SumOf(h, S) = SumOf(f, S) + SumOf(g, S)
<1> DEFINE P == {T \in SUBSET S : SumOf(h, T) = SumOf(f, T) + SumOf(g, T)}
<1>1. {} \in P
  BY SumEmpty
<1>2. \A T \in SUBSET S : T # {} /\ (\A x \in T : T \ {x} \in P) => T \in P
  <2> SUFFICES ASSUME NEW T \in SUBSET S, T # {}, \A x \in T : T \ {x} \in P
               PROVE  SumOf(h, T) = SumOf(f, T) + SumOf(g, T)
    OBVIOUS
  <2> DEFINE z == Pick(T)
             R == T \ {z}
  <2>1. z \in T /\ IsFiniteSet(T) /\ IsFiniteSet(R)
    BY Picked, FS_Subset
  <2>2. /\ SumOf(f, T) = f[z] + SumOf(f, R) /\ SumOf(g, T) = g[z] + SumOf(g, R)
        /\ SumOf(h, T) = h[z] + SumOf(h, R)
    BY <2>1, SumPicked
  <2>3. SumOf(h, R) = SumOf(f, R) + SumOf(g, R)
    BY <2>1
  <2>4. f[z] \in Int /\ g[z] \in Int /\ h[z] = f[z] + g[z]
    BY <2>1
  <2>5. \A x \in R : f[x] \in Int /\ g[x] \in Int
    OBVIOUS
  <2> HIDE DEF z, R
  <2>6. SumOf(f, R) \in Int /\ SumOf(g, R) \in Int
    BY <2>1, <2>5, SumInt
  <2> QED BY <2>2, <2>3, <2>4, <2>6
<1>3. S \in P
  <2> HIDE DEF P
  <2> QED BY <1>1, <1>2, FiniteInduction
<1> QED BY <1>3

(* Counting is adding ones. *)
LEMMA SumOfOnes ==
    ASSUME NEW f, NEW S, IsFiniteSet(S), \A x \in S : f[x] = 1
    PROVE  SumOf(f, S) = Cardinality(S)
<1> DEFINE P == {T \in SUBSET S : SumOf(f, T) = Cardinality(T)}
<1>1. {} \in P
  BY SumEmpty, FS_EmptySet
<1>2. \A T \in SUBSET S : T # {} /\ (\A x \in T : T \ {x} \in P) => T \in P
  <2> SUFFICES ASSUME NEW T \in SUBSET S, T # {}, \A x \in T : T \ {x} \in P
               PROVE  SumOf(f, T) = Cardinality(T)
    OBVIOUS
  <2> DEFINE z == Pick(T)
  <2>1. z \in T /\ IsFiniteSet(T)
    BY Picked, FS_Subset
  <2>2. SumOf(f, T) = f[z] + SumOf(f, T \ {z})
    BY <2>1, SumPicked
  <2>3. f[z] = 1 /\ SumOf(f, T \ {z}) = Cardinality(T \ {z})
    BY <2>1
  <2> HIDE DEF z
  <2>4. Cardinality(T \ {z}) = Cardinality(T) - 1 /\ Cardinality(T) \in Nat
    BY <2>1, FS_RemoveElement, FS_CardinalityType
  <2> QED BY <2>2, <2>3, <2>4
<1>3. S \in P
  <2> HIDE DEF P
  <2> QED BY <1>1, <1>2, FiniteInduction
<1> QED BY <1>3

(* The sum over one element. *)
LEMMA SumOfOne ==
    ASSUME NEW f, NEW x, f[x] \in Int
    PROVE  SumOf(f, {x}) = f[x]
<1>1. IsFiniteSet({}) /\ x \notin {} /\ SumOf(f, {}) = 0
  BY FS_EmptySet, SumEmpty
<1>2. SumOf(f, {} \cup {x}) = f[x] + SumOf(f, {})
  BY <1>1, SumInsert
<1>3. {} \cup {x} = {x}
  OBVIOUS
<1>4. QED BY <1>1, <1>2, <1>3

(* All terms scaled by one number. *)
LEMMA SumScale ==
    ASSUME NEW f, NEW h, NEW k \in Int, NEW S, IsFiniteSet(S),
           \A x \in S : f[x] \in Int /\ h[x] = k * f[x]
    PROVE  SumOf(h, S) = k * SumOf(f, S)
<1> DEFINE P == {T \in SUBSET S : SumOf(h, T) = k * SumOf(f, T)}
<1>1. {} \in P
  BY SumEmpty
<1>2. ASSUME NEW T \in SUBSET S, T # {}, \A x \in T : T \ {x} \in P
      PROVE  T \in P
  <2>1. PICK x \in T : TRUE
    BY <1>2
  <2>2. IsFiniteSet(T) /\ IsFiniteSet(T \ {x})
    BY FS_Subset
  <2>3. \A y \in S : h[y] \in Int
    OBVIOUS
  <2>4. SumOf(f, T) = f[x] + SumOf(f, T \ {x}) /\ SumOf(h, T) = h[x] + SumOf(h, T \ {x})
    BY <2>1, <2>2, <2>3, SumRemove
  <2>5. SumOf(f, T \ {x}) \in Int
    BY <2>2, SumInt
  <2>6. SumOf(h, T \ {x}) = k * SumOf(f, T \ {x})
    BY <1>2, <2>1
  <2> DEFINE a == f[x]
             b == SumOf(f, T \ {x})
  <2>7. a \in Int /\ b \in Int /\ h[x] = k * a
    BY <2>1, <2>5
  <2> HIDE DEF a, b
  <2>8. k * (a + b) = k * a + k * b
    BY <2>7
  <2>9. QED BY <2>4, <2>6, <2>7, <2>8 DEF a, b
<1>3. S \in P
  <2> HIDE DEF P
  <2>1. QED BY <1>1, <1>2, FiniteInduction
<1>4. QED BY <1>3

(* A sum split by a key of its elements. *)
LEMMA SumByKey ==
    ASSUME NEW f, NEW S, IsFiniteSet(S), \A x \in S : f[x] \in Int,
           NEW K, IsFiniteSet(K), NEW key, \A x \in S : key[x] \in K,
           NEW h, \A k \in K : h[k] = SumOf(f, {x \in S : key[x] = k})
    PROVE  SumOf(h, K) = SumOf(f, S)
<1> DEFINE Of(L) == {x \in S : key[x] \in L}
           P == {L \in SUBSET K : SumOf(h, L) = SumOf(f, Of(L))}
<1>1. {} \in P
  <2>1. Of({}) = {}
    OBVIOUS
  <2> QED BY <2>1, SumEmpty
<1>2. \A L \in SUBSET K : L # {} /\ (\A x \in L : L \ {x} \in P) => L \in P
  <2> SUFFICES ASSUME NEW L \in SUBSET K, L # {}, \A x \in L : L \ {x} \in P
               PROVE  SumOf(h, L) = SumOf(f, Of(L))
    OBVIOUS
  <2> DEFINE z == Pick(L)
             A == Of(L \ {z})
             B == {x \in S : key[x] = z}
  <2>1. z \in L /\ IsFiniteSet(L)
    BY Picked, FS_Subset
  <2>2. SumOf(h, L) = h[z] + SumOf(h, L \ {z})
    BY <2>1, SumPicked
  <2>3. SumOf(h, L \ {z}) = SumOf(f, A) /\ h[z] = SumOf(f, B)
    BY <2>1
  <2>4. /\ IsFiniteSet(A) /\ IsFiniteSet(B) /\ A \cap B = {}
        /\ (\A x \in A \cup B : f[x] \in Int) /\ (\A x \in A : f[x] \in Int) /\ (\A x \in B : f[x] \in Int)
    BY FS_Subset
  <2>5. A \cup B = Of(L)
    BY <2>1
  <2> HIDE DEF A, B, z, Of
  <2>6. SumOf(f, A \cup B) = SumOf(f, A) + SumOf(f, B)
    BY <2>4, SumJoin
  <2>7. SumOf(f, A) \in Int /\ SumOf(f, B) \in Int
    BY <2>4, SumInt
  <2> QED BY <2>2, <2>3, <2>5, <2>6, <2>7
<1>3. K \in P
  <2> HIDE DEF P
  <2> QED BY <1>1, <1>2, FiniteInduction
<1>4. Of(K) = S
  OBVIOUS
<1> QED BY <1>3, <1>4

(* The same, with the parts given as a function. *)
LEMMA SumByPart ==
    ASSUME NEW f, NEW S, IsFiniteSet(S), \A x \in S : f[x] \in Int,
           NEW K, IsFiniteSet(K), NEW key, \A x \in S : key[x] \in K,
           NEW part, \A k \in K : part[k] = {x \in S : key[x] = k},
           NEW h, \A k \in K : h[k] = SumOf(f, part[k])
    PROVE  SumOf(h, K) = SumOf(f, S)
<1>1. \A k \in K : h[k] = SumOf(f, {x \in S : key[x] = k})
  OBVIOUS
<1> QED BY <1>1, SumByKey

-----------------------------------------------------------------------------
(* Adding up along a sequence *)

(* Induction over the natural numbers, for a set of them. *)
LEMMA SetOfNaturals ==
    ASSUME NEW P, 0 \in P, \A n \in Nat : n \in P => n + 1 \in P
    PROVE  Nat \subseteq P
<1> DEFINE Bad == Nat \ P
           R == OpToRel(<, Nat)
<1> SUFFICES ASSUME Bad # {} PROVE FALSE
  OBVIOUS
<1>1. PICK n \in Bad : \A m \in Bad : ~(<<m, n>> \in R)
  <2>1. IsWellFoundedOn(R, Nat)
    BY NatLessThanWellFounded, Zenon
  <2>2. Bad \subseteq Nat
    OBVIOUS
  <2> HIDE DEF Bad, R
  <2> QED BY <2>1, <2>2, WFMin, Zenon
<1>2. n # 0 /\ n - 1 \in Nat /\ n - 1 + 1 = n
  OBVIOUS
<1>3. n - 1 \in Bad
  BY <1>2
<1>4. <<n - 1, n>> \in R
  BY <1>2 DEF OpToRel
<1> QED BY <1>1, <1>3, <1>4

(* A sum up to n + 1 is the sum up to n and the last. *)
LEMMA SumUpTo ==
    ASSUME NEW n \in Nat, NEW f, \A i \in 1..(n + 1) : f[i] \in Int
    PROVE  SumOf(f, 1..(n + 1)) = SumOf(f, 1..n) + f[n + 1] /\ SumOf(f, 1..n) \in Int
<1>1. IsFiniteSet(1..n) /\ IsFiniteSet(1..(n + 1))
  BY FS_Interval
<1>2. 1..(n + 1) = (1..n) \cup {n + 1} /\ n + 1 \notin 1..n
  OBVIOUS
<1>3. (\A i \in 1..n : f[i] \in Int) /\ f[n + 1] \in Int
  OBVIOUS
<1>4. SumOf(f, (1..n) \cup {n + 1}) = f[n + 1] + SumOf(f, 1..n)
  BY <1>1, <1>2, <1>3, SumInsert
<1>5. SumOf(f, 1..n) \in Int
  BY <1>1, <1>3, SumInt
<1>6. SumOf(f, 1..(n + 1)) = f[n + 1] + SumOf(f, 1..n)
  BY <1>2, <1>4, Zenon
<1> QED BY <1>3, <1>5, <1>6

(* The values behind a cut, counted from the cut. *)
LEMMA SumFromCut ==
    ASSUME NEW m \in Nat, NEW n \in Nat, NEW f, \A i \in 1..(m + n) : f[i] \in Int,
           NEW g, \A i \in 1..n : g[i] = f[m + i]
    PROVE  SumOf(f, 1..(m + n)) = SumOf(f, 1..m) + SumOf(g, 1..n)
<1> DEFINE P == {k \in Nat : k <= n => SumOf(f, 1..(m + k)) = SumOf(f, 1..m) + SumOf(g, 1..k)}
<1>0. SumOf(f, 1..m) \in Int
  <2>1. IsFiniteSet(1..m) /\ \A i \in 1..m : f[i] \in Int
    BY FS_Interval
  <2> QED BY <2>1, SumInt
<1>1. 0 \in P
  <2>1. 1..0 = {} /\ m + 0 = m
    OBVIOUS
  <2>2. SumOf(g, 1..0) = 0
    BY <2>1, SumEmpty
  <2> QED BY <1>0, <2>1, <2>2
<1>2. \A k \in Nat : k \in P => k + 1 \in P
  <2> SUFFICES ASSUME NEW k \in Nat, k \in P, k + 1 <= n
               PROVE  SumOf(f, 1..(m + (k + 1))) = SumOf(f, 1..m) + SumOf(g, 1..(k + 1))
    OBVIOUS
  <2>1. SumOf(f, 1..(m + k)) = SumOf(f, 1..m) + SumOf(g, 1..k)
    OBVIOUS
  <2>2. (\A i \in 1..((m + k) + 1) : f[i] \in Int) /\ m + k \in Nat /\ m + (k + 1) = (m + k) + 1
    OBVIOUS
  <2>3. SumOf(f, 1..((m + k) + 1)) = SumOf(f, 1..(m + k)) + f[(m + k) + 1]
    BY <2>2, SumUpTo
  <2>4. \A i \in 1..(k + 1) : i \in 1..n /\ m + i \in 1..(m + n)
    OBVIOUS
  <2>5. \A i \in 1..(k + 1) : g[i] \in Int
    BY <2>4
  <2>6. SumOf(g, 1..(k + 1)) = SumOf(g, 1..k) + g[k + 1] /\ SumOf(g, 1..k) \in Int
    BY <2>5, SumUpTo
  <2>7. g[k + 1] = f[(m + k) + 1] /\ g[k + 1] \in Int
    <3>1. k + 1 \in 1..(k + 1) /\ k + 1 \in 1..n
      OBVIOUS
    <3>2. g[k + 1] = f[m + (k + 1)]
      BY <3>1
    <3> QED BY <2>2, <2>5, <3>1, <3>2
  <2> HIDE DEF P
  <2> QED BY <1>0, <2>1, <2>2, <2>3, <2>6, <2>7
<1>3. n \in P
  <2> HIDE DEF P
  <2> QED BY <1>1, <1>2, SetOfNaturals
<1> QED BY <1>3

(* A sum up to m + n is cut at m. *)
LEMMA SumCut ==
    ASSUME NEW k \in Nat, NEW m \in Nat, NEW n \in Nat, k = m + n,
           NEW f, \A i \in 1..k : f[i] \in Int,
           NEW g, \A i \in 1..n : g[i] = f[m + i]
    PROVE  SumOf(f, 1..k) = SumOf(f, 1..m) + SumOf(g, 1..n)
BY SumFromCut

(* Values of distinct elements are at most the values along a sequence. *)
LEMMA SumOfItems ==
    ASSUME NEW n \in Nat, NEW s, NEW f, \A i \in 1..n : f[s[i]] \in Nat,
           NEW g, \A i \in 1..n : g[i] = f[s[i]]
    PROVE  SumOf(f, {s[i] : i \in 1..n}) <= SumOf(g, 1..n)
<1> DEFINE Items(k) == {s[i] : i \in 1..k}
           P == {k \in Nat : k <= n => IsFiniteSet(Items(k)) /\ SumOf(f, Items(k)) <= SumOf(g, 1..k)}
<1>1. 0 \in P
  <2>1. 1..0 = {} /\ Items(0) = {}
    OBVIOUS
  <2> QED BY <2>1, SumEmpty, FS_EmptySet
<1>2. \A k \in Nat : k \in P => k + 1 \in P
  <2> SUFFICES ASSUME NEW k \in Nat, k \in P, k + 1 <= n
               PROVE  IsFiniteSet(Items(k + 1)) /\ SumOf(f, Items(k + 1)) <= SumOf(g, 1..(k + 1))
    OBVIOUS
  <2>1. IsFiniteSet(Items(k)) /\ SumOf(f, Items(k)) <= SumOf(g, 1..k)
    OBVIOUS
  <2>2. (\A i \in 1..k : i \in 1..n) /\ k + 1 \in 1..n /\ (\A i \in 1..(k + 1) : i \in 1..n)
    OBVIOUS
  <2>3. \A i \in 1..(k + 1) : g[i] \in Int
    BY <2>2
  <2>4. SumOf(g, 1..(k + 1)) = SumOf(g, 1..k) + g[k + 1] /\ SumOf(g, 1..k) \in Int
    BY <2>3, SumUpTo
  <2>5. g[k + 1] = f[s[k + 1]] /\ f[s[k + 1]] \in Nat
    BY <2>2
  <2>6. Items(k + 1) = Items(k) \cup {s[k + 1]}
    <3>1. \A i \in 1..(k + 1) : i \in 1..k \/ i = k + 1
      OBVIOUS
    <3>2. \A i \in 1..k : i \in 1..(k + 1)
      OBVIOUS
    <3>3. k + 1 \in 1..(k + 1)
      OBVIOUS
    <3> QED BY <3>1, <3>2, <3>3
  <2>7. IsFiniteSet(Items(k)) /\ \A x \in Items(k) : f[x] \in Nat
    BY <2>1, <2>2
  <2> HIDE DEF Items, P
  <2>f. IsFiniteSet(Items(k + 1))
    BY <2>1, <2>6, FS_AddElement
  <2>8. SumOf(f, Items(k)) \in Int
    BY <2>7, SumInt
  <2>9. CASE s[k + 1] \in Items(k)
    <3>1. Items(k + 1) = Items(k)
      BY <2>6, <2>9
    <3>2. SumOf(f, Items(k + 1)) = SumOf(f, Items(k))
      BY <3>1
    <3> QED BY <3>2, <2>f, <2>1, <2>4, <2>5, <2>8
  <2>10. CASE s[k + 1] \notin Items(k)
    <3>1. SumOf(f, Items(k) \cup {s[k + 1]}) = f[s[k + 1]] + SumOf(f, Items(k))
      BY <2>5, <2>7, <2>10, SumInsert
    <3>2. SumOf(f, Items(k + 1)) = f[s[k + 1]] + SumOf(f, Items(k))
      BY <3>1, <2>6, Zenon
    <3> QED BY <3>2, <2>f, <2>1, <2>4, <2>5, <2>8
  <2> QED BY <2>9, <2>10
<1>3. n \in P
  <2> HIDE DEF P
  <2> QED BY <1>1, <1>2, SetOfNaturals
<1> QED BY <1>3

-----------------------------------------------------------------------------
(* Tables whose rows stand for groups *)

(* A sum over a set is that over a part of it and that over the rest. *)
LEMMA SumSplit ==
    ASSUME NEW f, NEW S, IsFiniteSet(S), \A x \in S : f[x] \in Int, NEW T, T \subseteq S
    PROVE  /\ SumOf(f, S) = SumOf(f, T) + SumOf(f, S \ T)
           /\ IsFiniteSet(T) /\ IsFiniteSet(S \ T)
<1> DEFINE U == S \ T
<1>1. IsFiniteSet(T) /\ IsFiniteSet(U) /\ T \cap U = {} /\ T \cup U = S
  BY FS_Subset
<1>2. \A x \in T \cup U : f[x] \in Int
  OBVIOUS
<1> HIDE DEF U
<1>3. SumOf(f, T \cup U) = SumOf(f, T) + SumOf(f, U)
  BY <1>1, <1>2, SumJoin
<1>4. SumOf(f, S) = SumOf(f, T) + SumOf(f, U)
  BY <1>1, <1>3, Zenon
<1> QED BY <1>1, <1>4 DEF U

(* The rows K of a table: row k, called name[k], is about the elements of S with
   that id and says in h[k] what f is for all of them. *)
Tabulates(K, name, h, S, id, f) ==
    /\ IsFiniteSet(S) /\ IsFiniteSet(K)
    /\ \A x \in S : f[x] \in Int
    /\ \A x \in S : \E k \in K : name[k] = id[x]
    /\ \A k, l \in K : name[k] = name[l] => k = l
    /\ \A k \in K : h[k] = SumOf(f, {x \in S : id[x] = name[k]})

(* The rows add up to what the set does. *)
LEMMA RowsAddUp ==
    ASSUME NEW K, NEW name, NEW h, NEW S, NEW id, NEW f, Tabulates(K, name, h, S, id, f)
    PROVE  SumOf(h, K) = SumOf(f, S)
<1> DEFINE key == [x \in S |-> CHOOSE k \in K : name[k] = id[x]]
           part == [k \in K |-> {x \in S : id[x] = name[k]}]
<1>1. \A x \in S : key[x] \in K /\ name[key[x]] = id[x]
  BY DEF Tabulates
<1>2. \A k \in K : part[k] = {x \in S : key[x] = k}
  BY <1>1 DEF Tabulates
<1>3. \A k \in K : h[k] = SumOf(f, part[k])
  BY DEF Tabulates
<1>4. IsFiniteSet(S) /\ IsFiniteSet(K) /\ \A x \in S : f[x] \in Int
  BY DEF Tabulates
<1> HIDE DEF key, part
<1> QED BY <1>1, <1>2, <1>3, <1>4, SumByPart

(* The image of a finite set under a function is finite. *)
LEMMA FiniteImage ==
    ASSUME NEW S, IsFiniteSet(S), NEW T, NEW g, \A x \in S : g[x] \in T,
           \A y \in T : \E x \in S : y = g[x]
    PROVE  IsFiniteSet(T)
<1> DEFINE e == [x \in S |-> g[x]]
<1>1. e \in Surjection(S, T)
  BY DEF Surjection
<1> HIDE DEF e
<1> QED BY <1>1, FS_Surjection
=============================================================================
