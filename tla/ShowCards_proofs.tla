--------------------------- MODULE ShowCards_proofs ---------------------------
(***************************************************************************)
(* The showdown, for any number of seats, contributions and hands:         *)
(* distributePot divides the pot as the rules of side pots do, and         *)
(* whoever is left in the hand shows, nobody else.                         *)
(***************************************************************************)
EXTENDS ShowCards, FiniteSetTheorems, WellFoundedInduction, TLAPS

(***************************************************************************)
(* Numbers and finite sets                                                 *)
(***************************************************************************)

LEMMA LeastNumber ==
    ASSUME NEW I, I \subseteq Nat, I # {}
    PROVE  \E x \in I : \A y \in I : x <= y
  <1>1. PICK x \in I : \A y \in I : <<y, x>> \notin OpToRel(<, Nat)
    BY NatLessThanWellFounded, WFMin
  <1>2. \A y \in I : x <= y
    <2> SUFFICES ASSUME NEW y \in I, y < x PROVE FALSE
      OBVIOUS
    <2> DEFINE pair == <<y, x>>
    <2>1. pair \in Nat \X Nat /\ pair[1] = y /\ pair[2] = x
      OBVIOUS
    <2> HIDE DEF pair
    <2>2. pair[1] < pair[2]
      BY <2>1
    <2>3. pair \in OpToRel(<, Nat)
      BY <2>1, <2>2, Zenon DEF OpToRel
    <2> QED BY <1>1, <2>3, Zenon DEF pair
  <1> QED BY <1>2

\* Induction on the natural numbers: Q are those with the property.
LEMMA NumbersByInduction ==
    ASSUME NEW Q, 0 \in Q, \A n \in Nat : n \in Q => n + 1 \in Q
    PROVE  Nat \subseteq Q
  <1> SUFFICES ASSUME Nat \ Q # {} PROVE FALSE
    OBVIOUS
  <1>1. PICK m \in Nat \ Q : \A k \in Nat \ Q : m <= k
    BY LeastNumber
  <1>2. m - 1 \in Nat /\ m - 1 \in Q
    <2>1. m - 1 \in Nat /\ ~(m <= m - 1)
      BY <1>1
    <2> QED BY <1>1, <2>1
  <1>3. (m - 1) + 1 \in Q
    BY <1>2
  <1> QED BY <1>1, <1>3

\* Induction on finite sets, one element at a time: Q are the subsets of D with
\* the property.
LEMMA SetsByInduction ==
    ASSUME NEW D, IsFiniteSet(D), NEW Q, {} \in Q,
           \A T \in SUBSET D : \A x \in T : T \ {x} \in Q => T \in Q
    PROVE  D \in Q
  <1> DEFINE bad == (SUBSET D) \ Q
             sizes == {Cardinality(T) : T \in bad}
  <1>0. \A T \in SUBSET D : IsFiniteSet(T) /\ Cardinality(T) \in Nat
    BY FS_Subset, FS_CardinalityType
  <1> SUFFICES ASSUME bad # {} PROVE FALSE
    OBVIOUS
  <1>1. sizes \subseteq Nat /\ sizes # {}
    BY <1>0
  <1>2. PICK n \in sizes : \A k \in sizes : n <= k
    BY <1>1, LeastNumber
  <1>3. PICK T \in bad : n = Cardinality(T)
    OBVIOUS
  <1>4. T \in SUBSET D /\ T \notin Q /\ T # {}
    BY <1>3
  <1>5. PICK x \in T : TRUE
    BY <1>4
  <1>6. T \ {x} \in SUBSET D /\ Cardinality(T \ {x}) = n - 1 /\ n \in Nat
    BY <1>0, <1>3, <1>4, <1>5, FS_RemoveElement
  <1>7. T \ {x} \notin bad
    <2>1. ~(n <= n - 1)
      BY <1>6
    <2> QED BY <1>2, <1>6, <2>1
  <1> QED BY <1>4, <1>5, <1>6, <1>7

LEMMA DivMod ==
    ASSUME NEW a \in Nat, NEW b \in Nat \ {0}
    PROVE  /\ a \div b \in Nat /\ a % b \in Nat
           /\ a % b < b
           /\ a = (b * (a \div b)) + (a % b)
  OBVIOUS

LEMMA DivExact ==
    ASSUME NEW m \in Nat, NEW b \in Nat \ {0}
    PROVE  (b * m) \div b = m
  OBVIOUS

(***************************************************************************)
(* Sums                                                                    *)
(***************************************************************************)

\* One step of the fold that SumFunctionOnSet is, when it adds up the rest.
SumBody(f, it, T) ==
    IF T = {} THEN 0
    ELSE f[CHOOSE x \in T : TRUE] + it[T \ {CHOOSE x \in T : TRUE}]

\* it adds up f on the subsets of D.
SumSolves(f, it, D) == it = [T \in SUBSET D |-> SumBody(f, it, T)]

LEMMA SumChooses ==
    ASSUME NEW f, NEW D
    PROVE  SumFunctionOnSet(f, D) = (CHOOSE it : SumSolves(f, it, D))[D]
  BY DEF SumFunctionOnSet, FoldFunctionOnSet, MapThenFoldSet, SumBody, SumSolves

LEMMA SumBodyLocal ==
    ASSUME NEW D, IsFiniteSet(D), NEW T \in SUBSET D, NEW f, NEW g, NEW h,
           \A U \in SUBSET D : Cardinality(U) < Cardinality(T) => g[U] = h[U]
    PROVE  SumBody(f, g, T) = SumBody(f, h, T)
  <1>1. CASE T = {}
    BY <1>1 DEF SumBody
  <1>2. CASE T # {}
    <2> DEFINE x == CHOOSE x \in T : TRUE
    <2>1. x \in T /\ IsFiniteSet(T)
      BY <1>2, FS_Subset
    <2> HIDE DEF x
    <2>2. T \ {x} \in SUBSET D /\ Cardinality(T \ {x}) < Cardinality(T)
      <3>1. Cardinality(T \ {x}) = Cardinality(T) - 1
        BY <2>1, FS_RemoveElement
      <3>2. Cardinality(T) \in Nat
        BY <2>1, FS_CardinalityType
      <3> QED BY <3>1, <3>2
    <2>3. g[T \ {x}] = h[T \ {x}]
      BY <2>2
    <2> QED BY <1>2, <2>3 DEF SumBody, x
  <1> QED BY <1>1, <1>2

LEMMA SumHasSolution ==
    ASSUME NEW D, IsFiniteSet(D), NEW f
    PROVE  \E it : SumSolves(f, it, D)
  <1> DEFINE Upto(n) == {T \in SUBSET D : Cardinality(T) <= n}
             Q == {n \in Nat : \E it : \A T \in Upto(n) : it[T] = SumBody(f, it, T)}
  <1>0. \A T \in SUBSET D : Cardinality(T) \in Nat /\ Cardinality(T) <= Cardinality(D)
    BY FS_Subset, FS_CardinalityType
  <1>1. ASSUME NEW n \in Nat, NEW it,
               \A T \in SUBSET D : Cardinality(T) < n => it[T] = SumBody(f, it, T)
        PROVE  n \in Q
    <2> DEFINE g == [T \in SUBSET D |-> SumBody(f, it, T)]
    <2>1. ASSUME NEW T \in Upto(n)
          PROVE  g[T] = SumBody(f, g, T)
      <3>1. T \in SUBSET D /\ g[T] = SumBody(f, it, T)
        OBVIOUS
      <3>2. ASSUME NEW U \in SUBSET D, Cardinality(U) < Cardinality(T)
            PROVE  it[U] = g[U]
        BY <1>0, <1>1, <3>2
      <3> HIDE DEF g
      <3>3. SumBody(f, it, T) = SumBody(f, g, T)
        BY <3>1, <3>2, SumBodyLocal
      <3> QED BY <3>1, <3>3
    <2> HIDE DEF g, Upto
    <2> QED BY <2>1
  <1>2. 0 \in Q
    <2>1. \A T \in SUBSET D : ~(Cardinality(T) < 0)
      BY <1>0
    <2> HIDE DEF Q
    <2> QED BY <1>1, <2>1
  <1>3. \A n \in Nat : n \in Q => n + 1 \in Q
    <2> SUFFICES ASSUME NEW n \in Q PROVE n + 1 \in Q
      OBVIOUS
    <2>1. PICK it : \A T \in Upto(n) : it[T] = SumBody(f, it, T)
      OBVIOUS
    <2>2. n \in Nat /\ n + 1 \in Nat
      OBVIOUS
    <2>3. \A T \in SUBSET D : Cardinality(T) < n + 1 => it[T] = SumBody(f, it, T)
      BY <1>0, <2>1, <2>2
    <2> HIDE DEF Q, Upto
    <2> QED BY <1>1, <2>2, <2>3
  <1>4. Cardinality(D) \in Q
    <2> HIDE DEF Q
    <2> QED BY <1>0, <1>2, <1>3, NumbersByInduction
  <1>5. PICK it : \A T \in Upto(Cardinality(D)) : it[T] = SumBody(f, it, T)
    BY <1>4
  <1>6. \A T \in SUBSET D : it[T] = SumBody(f, it, T)
    BY <1>0, <1>5
  <1> DEFINE h == [T \in SUBSET D |-> it[T]]
  <1>7. ASSUME NEW T \in SUBSET D PROVE h[T] = SumBody(f, h, T)
    <2>1. \A U \in SUBSET D : it[U] = h[U]
      OBVIOUS
    <2>2. h[T] = SumBody(f, it, T)
      BY <1>6
    <2> HIDE DEF h
    <2> QED BY <2>1, <2>2, SumBodyLocal
  <1>8. h = [T \in SUBSET D |-> h[T]]
    OBVIOUS
  <1> HIDE DEF h
  <1>9. [T \in SUBSET D |-> h[T]] = [T \in SUBSET D |-> SumBody(f, h, T)]
    BY <1>7
  <1> QED BY <1>8, <1>9 DEF SumSolves

\* What a sum is does not depend on the set it is a part of.
LEMMA SumOfPart ==
    ASSUME NEW D, IsFiniteSet(D), NEW T \in SUBSET D, NEW f, NEW it, SumSolves(f, it, D)
    PROVE  SumFunctionOnSet(f, T) = it[T]
  <1> DEFINE mine == CHOOSE g : SumSolves(f, g, T)
             Q == {U \in SUBSET T : mine[U] = it[U]}
  <1>1. IsFiniteSet(T)
    BY FS_Subset
  <1>2. SumSolves(f, mine, T)
    BY <1>1, SumHasSolution
  <1>3. SumFunctionOnSet(f, T) = mine[T]
    BY SumChooses
  <1> HIDE DEF mine
  <1>4. \A U \in SUBSET T : mine[U] = SumBody(f, mine, U) /\ it[U] = SumBody(f, it, U)
    <2>1. \A U \in SUBSET T : U \in SUBSET D
      OBVIOUS
    <2> QED BY <1>2, <2>1 DEF SumSolves
  <1>5. \A n \in Nat : \A U \in SUBSET T : Cardinality(U) < n => mine[U] = it[U]
    <2> DEFINE R == {n \in Nat : \A U \in SUBSET T : Cardinality(U) < n => mine[U] = it[U]}
    <2>0. \A U \in SUBSET T : Cardinality(U) \in Nat
      BY <1>1, FS_Subset, FS_CardinalityType
    <2>1. 0 \in R
      BY <2>0
    <2>2. ASSUME NEW n \in R PROVE n + 1 \in R
      <3>1. ASSUME NEW U \in SUBSET T, Cardinality(U) < n + 1
            PROVE  mine[U] = it[U]
        <4>1. \A W \in SUBSET T : Cardinality(W) < Cardinality(U) => mine[W] = it[W]
          BY <2>0, <3>1
        <4>2. SumBody(f, mine, U) = SumBody(f, it, U)
          BY <1>1, <4>1, SumBodyLocal
        <4> QED BY <1>4, <4>2
      <3> QED BY <3>1
    <2> HIDE DEF R
    <2>3. Nat \subseteq R
      BY <2>1, <2>2, NumbersByInduction
    <2> QED BY <2>3 DEF R
  <1>6. mine[T] = it[T]
    <2>1. Cardinality(T) + 1 \in Nat /\ Cardinality(T) < Cardinality(T) + 1
      BY <1>1, FS_CardinalityType
    <2> QED BY <1>5, <2>1
  <1> QED BY <1>3, <1>6

LEMMA SumEmpty ==
    ASSUME NEW f
    PROVE  SumFunctionOnSet(f, {}) = 0
  <1>1. PICK it : SumSolves(f, it, {})
    BY SumHasSolution, FS_EmptySet
  <1>2. SumFunctionOnSet(f, {}) = it[{}]
    BY <1>1, SumOfPart, FS_EmptySet
  <1>3. it[{}] = SumBody(f, it, {})
    BY <1>1 DEF SumSolves
  <1> QED BY <1>2, <1>3 DEF SumBody

\* Some element can be split off a sum.
LEMMA SumSplits ==
    ASSUME NEW T, IsFiniteSet(T), T # {}, NEW f
    PROVE  \E x \in T : SumFunctionOnSet(f, T) = f[x] + SumFunctionOnSet(f, T \ {x})
  <1>1. PICK it : SumSolves(f, it, T)
    BY SumHasSolution
  <1> DEFINE x == CHOOSE x \in T : TRUE
  <1>2. x \in T
    OBVIOUS
  <1>3. it[T] = SumBody(f, it, T)
    BY <1>1 DEF SumSolves
  <1>4. it[T] = f[x] + it[T \ {x}]
    BY <1>3 DEF SumBody
  <1> HIDE DEF x
  <1>5. SumFunctionOnSet(f, T) = it[T] /\ SumFunctionOnSet(f, T \ {x}) = it[T \ {x}]
    BY <1>1, SumOfPart
  <1> QED BY <1>2, <1>4, <1>5

LEMMA SumType ==
    ASSUME NEW T, IsFiniteSet(T), NEW f, \A y \in T : f[y] \in Int
    PROVE  SumFunctionOnSet(f, T) \in Int
  <1> DEFINE Q == {U \in SUBSET T : SumFunctionOnSet(f, U) \in Int}
             sizes == {n \in Nat : \A U \in SUBSET T : Cardinality(U) = n => U \in Q}
  <1>0. \A U \in SUBSET T : IsFiniteSet(U) /\ Cardinality(U) \in Nat
    BY FS_Subset, FS_CardinalityType
  <1>1. 0 \in sizes
    <2> SUFFICES ASSUME NEW U \in SUBSET T, Cardinality(U) = 0 PROVE U \in Q
      OBVIOUS
    <2>1. U = {}
      BY <1>0, FS_EmptySet
    <2> QED BY <2>1, SumEmpty
  <1>2. ASSUME NEW n \in sizes PROVE n + 1 \in sizes
    <2> SUFFICES ASSUME NEW U \in SUBSET T, Cardinality(U) = n + 1 PROVE U \in Q
      OBVIOUS
    <2>1. U # {}
      BY FS_EmptySet
    <2>2. PICK x \in U : SumFunctionOnSet(f, U) = f[x] + SumFunctionOnSet(f, U \ {x})
      BY <1>0, <2>1, SumSplits
    <2>3. Cardinality(U \ {x}) = n
      <3>1. Cardinality(U \ {x}) = Cardinality(U) - 1
        BY <1>0, FS_RemoveElement
      <3> QED BY <3>1
    <2>4. SumFunctionOnSet(f, U \ {x}) \in Int
      BY <2>3
    <2> QED BY <2>2, <2>4
  <1> HIDE DEF sizes
  <1>3. Cardinality(T) \in sizes
    BY <1>0, <1>1, <1>2, NumbersByInduction
  <1> QED BY <1>3 DEF sizes

\* Any element can be split off a sum.
LEMMA SumRemoves ==
    ASSUME NEW T, IsFiniteSet(T), NEW f, \A y \in T : f[y] \in Int, NEW a \in T
    PROVE  SumFunctionOnSet(f, T) = f[a] + SumFunctionOnSet(f, T \ {a})
  <1> DEFINE sum(U) == SumFunctionOnSet(f, U)
             sizes == {n \in Nat : \A U \in SUBSET T : Cardinality(U) = n =>
                                       \A y \in U : sum(U) = f[y] + sum(U \ {y})}
  <1>0. \A U \in SUBSET T : IsFiniteSet(U) /\ Cardinality(U) \in Nat
    BY FS_Subset, FS_CardinalityType
  <1>1. \A U \in SUBSET T : sum(U) \in Int
    BY <1>0, SumType
  <1>2. \A U \in SUBSET T : U # {} => \E x \in U : sum(U) = f[x] + sum(U \ {x})
    BY <1>0, SumSplits
  <1> HIDE DEF sum
  <1>3. 0 \in sizes
    <2>1. \A U \in SUBSET T : Cardinality(U) = 0 => U = {}
      BY <1>0, FS_EmptySet
    <2> QED BY <2>1
  <1>4. ASSUME NEW n \in sizes PROVE n + 1 \in sizes
    <2> SUFFICES ASSUME NEW U \in SUBSET T, Cardinality(U) = n + 1, NEW y \in U
                 PROVE  sum(U) = f[y] + sum(U \ {y})
      OBVIOUS
    <2>1. PICK x \in U : sum(U) = f[x] + sum(U \ {x})
      BY <1>2
    <2>2. CASE x = y
      BY <2>1, <2>2
    <2>3. CASE x # y
      <3>1. \A z \in U : Cardinality(U \ {z}) = n
        <4> TAKE z \in U
        <4>1. Cardinality(U \ {z}) = Cardinality(U) - 1
          BY <1>0, FS_RemoveElement
        <4> QED BY <4>1
      <3>2. sum(U \ {x}) = f[y] + sum((U \ {x}) \ {y})
        BY <2>3, <3>1
      <3>3. sum(U \ {y}) = f[x] + sum((U \ {y}) \ {x})
        BY <2>3, <3>1
      <3>4. (U \ {x}) \ {y} = (U \ {y}) \ {x}
        OBVIOUS
      <3>5. f[x] \in Int /\ f[y] \in Int /\ sum((U \ {x}) \ {y}) \in Int
        BY <1>1
      <3>6. ASSUME NEW i \in Int, NEW j \in Int, NEW k \in Int
            PROVE  i + (j + k) = j + (i + k)
        OBVIOUS
      <3>7. f[x] + (f[y] + sum((U \ {x}) \ {y})) = f[y] + (f[x] + sum((U \ {x}) \ {y}))
        BY <3>5, <3>6
      <3> QED BY <2>1, <3>2, <3>3, <3>4, <3>7, Zenon
    <2> QED BY <2>2, <2>3
  <1> HIDE DEF sizes
  <1>5. Cardinality(T) \in sizes
    BY <1>0, <1>3, <1>4, NumbersByInduction
  <1> QED BY <1>5 DEF sizes, sum

\* Sums are added term by term.
LEMMA SumAdds ==
    ASSUME NEW T, IsFiniteSet(T), NEW f, NEW g, NEW h,
           \A y \in T : f[y] \in Int /\ g[y] \in Int /\ h[y] = f[y] + g[y]
    PROVE  SumFunctionOnSet(h, T) = SumFunctionOnSet(f, T) + SumFunctionOnSet(g, T)
  <1> DEFINE Q == {U \in SUBSET T : SumFunctionOnSet(h, U)
                                      = SumFunctionOnSet(f, U) + SumFunctionOnSet(g, U)}
  <1>0. \A U \in SUBSET T : IsFiniteSet(U)
    BY FS_Subset
  <1>1. {} \in Q
    BY SumEmpty
  <1>2. ASSUME NEW U \in SUBSET T, NEW x \in U, U \ {x} \in Q PROVE U \in Q
    <2>1. /\ SumFunctionOnSet(f, U) = f[x] + SumFunctionOnSet(f, U \ {x})
          /\ SumFunctionOnSet(g, U) = g[x] + SumFunctionOnSet(g, U \ {x})
          /\ SumFunctionOnSet(h, U) = h[x] + SumFunctionOnSet(h, U \ {x})
      <3>1. \A y \in U : f[y] \in Int /\ g[y] \in Int /\ h[y] \in Int
        OBVIOUS
      <3> QED BY <1>0, <3>1, SumRemoves
    <2>2. SumFunctionOnSet(f, U \ {x}) \in Int /\ SumFunctionOnSet(g, U \ {x}) \in Int
      <3>1. U \ {x} \in SUBSET T
        OBVIOUS
      <3> QED BY <1>0, <3>1, SumType
    <2>3. h[x] = f[x] + g[x] /\ f[x] \in Int /\ g[x] \in Int
      OBVIOUS
    <2>4. SumFunctionOnSet(h, U \ {x})
            = SumFunctionOnSet(f, U \ {x}) + SumFunctionOnSet(g, U \ {x})
      BY <1>2
    <2> QED BY <2>1, <2>2, <2>3, <2>4
  <1> HIDE DEF Q
  <1>3. T \in Q
    BY <1>1, <1>2, SetsByInduction
  <1> QED BY <1>3 DEF Q

\* A sum that has the same term wherever it has one.
LEMMA SumOfEqualTerms ==
    ASSUME NEW T, IsFiniteSet(T), NEW Z, NEW c \in Int, NEW f,
           \A y \in T : f[y] = IF y \in Z THEN c ELSE 0
    PROVE  SumFunctionOnSet(f, T) = c * Cardinality(T \cap Z)
  <1> DEFINE Q == {U \in SUBSET T : SumFunctionOnSet(f, U) = c * Cardinality(U \cap Z)}
  <1>0. \A U \in SUBSET T : /\ IsFiniteSet(U) /\ IsFiniteSet(U \cap Z)
                            /\ Cardinality(U \cap Z) \in Nat
    BY FS_Subset, FS_CardinalityType
  <1>1. {} \in Q
    <2>1. {} \cap Z = {} /\ Cardinality({}) = 0
      BY FS_EmptySet
    <2>2. c * 0 = 0
      OBVIOUS
    <2> QED BY <2>1, <2>2, SumEmpty
  <1>2. ASSUME NEW U \in SUBSET T, NEW x \in U, U \ {x} \in Q PROVE U \in Q
    <2> DEFINE n == Cardinality((U \ {x}) \cap Z)
    <2>1. n \in Nat
      <3>1. U \ {x} \in SUBSET T
        OBVIOUS
      <3> QED BY <1>0, <3>1
    <2>2. SumFunctionOnSet(f, U) = f[x] + SumFunctionOnSet(f, U \ {x})
      <3>1. \A y \in U : f[y] \in Int
        OBVIOUS
      <3> QED BY <1>0, <3>1, SumRemoves
    <2>3. SumFunctionOnSet(f, U \ {x}) = c * n
      BY <1>2
    <2>4. CASE x \in Z
      <3>1. U \cap Z = ((U \ {x}) \cap Z) \cup {x} /\ x \notin (U \ {x}) \cap Z
        BY <2>4
      <3>2. U \ {x} \in SUBSET T
        OBVIOUS
      <3>3. Cardinality(U \cap Z) = n + 1
        BY <1>0, <3>1, <3>2, FS_AddElement
      <3>4. f[x] = c
        BY <2>4
      <3> HIDE DEF n, Q
      <3>5. c + c * n = c * (n + 1)
        BY <2>1
      <3>6. SumFunctionOnSet(f, U) = c * Cardinality(U \cap Z)
        BY <2>2, <2>3, <3>3, <3>4, <3>5
      <3> QED BY <3>6 DEF Q
    <2>5. CASE x \notin Z
      <3>1. U \cap Z = (U \ {x}) \cap Z
        BY <2>5
      <3>2. f[x] = 0
        BY <2>5
      <3> HIDE DEF Q
      <3>3. c * n \in Int /\ 0 + c * n = c * n
        BY <2>1
      <3>4. SumFunctionOnSet(f, U) = c * Cardinality(U \cap Z)
        BY <2>2, <2>3, <3>1, <3>2, <3>3
      <3> QED BY <3>4 DEF Q
    <2> QED BY <2>4, <2>5
  <1> HIDE DEF Q
  <1>3. T \in Q
    BY <1>1, <1>2, SetsByInduction
  <1> QED BY <1>3 DEF Q

LEMMA SumOfEqualFunctions ==
    ASSUME NEW T, IsFiniteSet(T), NEW f, NEW g, \A y \in T : f[y] \in Int /\ g[y] = f[y]
    PROVE  SumFunctionOnSet(g, T) = SumFunctionOnSet(f, T)
  <1> DEFINE none == [y \in T |-> 0]
  <1>1. SumFunctionOnSet(none, T) = 0
    <2>1. SumFunctionOnSet(none, T) = 0 * Cardinality(T \cap {})
      <3> DEFINE zero == 0  nobody == {}
      <3>1. zero \in Int /\ \A y \in T : none[y] = IF y \in nobody THEN zero ELSE 0
        OBVIOUS
      <3> HIDE DEF none, zero, nobody
      <3>2. SumFunctionOnSet(none, T) = zero * Cardinality(T \cap nobody)
        BY <3>1, SumOfEqualTerms
      <3> QED BY <3>2 DEF zero, nobody
    <2>2. Cardinality(T \cap {}) = 0
      <3>1. T \cap {} = {}
        OBVIOUS
      <3> QED BY <3>1, FS_EmptySet
    <2> QED BY <2>1, <2>2
  <1>2. \A y \in T : f[y] \in Int /\ none[y] \in Int /\ g[y] = f[y] + none[y]
    OBVIOUS
  <1> HIDE DEF none
  <1>3. SumFunctionOnSet(g, T) = SumFunctionOnSet(f, T) + SumFunctionOnSet(none, T)
    BY <1>2, SumAdds
  <1>4. SumFunctionOnSet(f, T) \in Int
    BY SumType
  <1> QED BY <1>1, <1>3, <1>4

\* A sum of terms that are not negative is at least each of them.
LEMMA SumNotNegative ==
    ASSUME NEW T, IsFiniteSet(T), NEW f, \A y \in T : f[y] \in Nat
    PROVE  /\ SumFunctionOnSet(f, T) \in Nat
           /\ \A y \in T : f[y] <= SumFunctionOnSet(f, T)
  <1> DEFINE Q == {U \in SUBSET T : SumFunctionOnSet(f, U) \in Nat}
  <1>0. \A U \in SUBSET T : IsFiniteSet(U)
    BY FS_Subset
  <1>1. {} \in Q
    BY SumEmpty
  <1>2. ASSUME NEW U \in SUBSET T, NEW x \in U PROVE SumFunctionOnSet(f, U) = f[x] + SumFunctionOnSet(f, U \ {x})
    BY <1>0, SumRemoves
  <1>3. \A U \in SUBSET T : \A x \in U : U \ {x} \in Q => U \in Q
    <2> SUFFICES ASSUME NEW U \in SUBSET T, NEW x \in U, U \ {x} \in Q PROVE U \in Q
      OBVIOUS
    <2>1. f[x] \in Nat /\ SumFunctionOnSet(f, U \ {x}) \in Nat
      OBVIOUS
    <2> QED BY <1>2, <2>1
  <1>4. \A U \in SUBSET T : U \in Q
    <2> SUFFICES ASSUME NEW U \in SUBSET T PROVE U \in Q
      OBVIOUS
    <2> DEFINE R == {W \in SUBSET U : W \in Q}
    <2>1. {} \in R /\ \A W \in SUBSET U : \A x \in W : W \ {x} \in R => W \in R
      BY <1>1, <1>3
    <2> HIDE DEF R, Q
    <2>2. U \in R
      BY <1>0, <2>1, SetsByInduction
    <2> QED BY <2>2 DEF R
  <1>5. SumFunctionOnSet(f, T) \in Nat
    BY <1>4
  <1>6. ASSUME NEW y \in T PROVE f[y] <= SumFunctionOnSet(f, T)
    <2>1. SumFunctionOnSet(f, T \ {y}) \in Nat
      BY <1>4
    <2> QED BY <1>2, <2>1
  <1> QED BY <1>5, <1>6

(***************************************************************************)
(* Odd chips                                                               *)
(***************************************************************************)

\* If no two members of W are equally far away, exactly r of them have fewer
\* than r others before them.
LEMMA FirstOnes ==
    ASSUME NEW W, IsFiniteSet(W), NEW d, \A w \in W : d[w] \in Nat,
           \A v, w \in W : d[v] = d[w] => v = w,
           NEW r \in Nat, r <= Cardinality(W)
    PROVE  Cardinality({w \in W : Cardinality({v \in W : d[v] < d[w]}) < r}) = r
  <1> DEFINE Before(w) == {v \in W : d[v] < d[w]}
             rank(w) == Cardinality(Before(w))
             First(n) == {w \in W : rank(w) < n}
             Q == {n \in Nat : n <= Cardinality(W) => Cardinality(First(n)) = n}
  <1>0. Cardinality(W) \in Nat
    BY FS_CardinalityType
  <1>1. \A w \in W : Before(w) \in SUBSET W /\ rank(w) \in Nat
    <2> TAKE w \in W
    <2>1. Before(w) \in SUBSET W
      OBVIOUS
    <2> QED BY <2>1, FS_Subset, FS_CardinalityType
  <1>2. ASSUME NEW v \in W, NEW w \in W, d[v] < d[w]
        PROVE  rank(v) < rank(w)
    <2>1. Before(v) \cup {v} \in SUBSET Before(w) /\ v \notin Before(v)
      BY <1>2
    <2>2. IsFiniteSet(Before(v)) /\ IsFiniteSet(Before(w))
      BY <1>1, FS_Subset
    <2> HIDE DEF Before
    <2>3. Cardinality(Before(v) \cup {v}) = rank(v) + 1
      BY <2>1, <2>2, FS_AddElement
    <2>4. Cardinality(Before(v) \cup {v}) <= rank(w)
      BY <2>1, <2>2, FS_Subset
    <2> HIDE DEF rank
    <2> QED BY <1>1, <2>3, <2>4
  <1> HIDE DEF rank
  <1>3. 0 \in Q
    <2>1. First(0) = {}
      BY <1>1
    <2> QED BY <2>1, FS_EmptySet
  <1>4. ASSUME NEW n \in Q PROVE n + 1 \in Q
    <2> SUFFICES ASSUME n + 1 <= Cardinality(W) PROVE Cardinality(First(n + 1)) = n + 1
      OBVIOUS
    <2>1. n \in Nat /\ Cardinality(First(n)) = n
      BY <1>0
    <2>2. First(n) \in SUBSET W /\ IsFiniteSet(First(n))
      BY FS_Subset
    <2>3. W \ First(n) # {}
      <3> SUFFICES ASSUME W \ First(n) = {} PROVE FALSE
        OBVIOUS
      <3>1. W = First(n)
        BY <2>2
      <3> HIDE DEF First
      <3> QED BY <1>0, <2>1, <3>1
    <2> DEFINE far == {d[w] : w \in W \ First(n)}
    <2>4. far \subseteq Nat /\ far # {}
      <3> HIDE DEF First
      <3> QED BY <2>3
    <2>5. PICK k \in far : \A j \in far : k <= j
      BY <2>4, LeastNumber
    <2>6. PICK s \in W \ First(n) : k = d[s]
      OBVIOUS
    <2>7. s \in W /\ d[s] \in Nat /\ ~(rank(s) < n) /\ \A w \in W \ First(n) : d[s] <= d[w]
      BY <2>5, <2>6
    <2>8. ASSUME NEW w \in W, d[w] < d[s] PROVE rank(w) < n
      <3>1. d[w] \in Nat /\ ~(d[s] <= d[w])
        BY <2>7, <2>8
      <3>2. w \in First(n)
        BY <2>7, <3>1
      <3> QED BY <3>2
    <2>9. ASSUME NEW w \in W, rank(w) < n PROVE d[w] < d[s]
      <3>1. d[w] \in Nat /\ d[s] \in Nat
        BY <2>7
      <3>2. CASE d[s] < d[w]
        <4>1. rank(s) < rank(w)
          BY <1>2, <2>7, <3>2
        <4> QED BY <1>1, <2>1, <2>7, <2>9, <4>1
      <3>3. CASE d[s] = d[w]
        <4>1. s = w
          BY <2>7, <3>3
        <4> QED BY <2>7, <2>9, <4>1
      <3> QED BY <3>1, <3>2, <3>3
    <2>10. Before(s) = First(n)
      BY <2>7, <2>8, <2>9
    <2>11. rank(s) = n
      BY <2>1, <2>10 DEF rank
    <2>12. ASSUME NEW w \in W, rank(w) < n + 1, w # s PROVE rank(w) < n
      <3>1. d[w] \in Nat /\ d[s] \in Nat /\ d[w] # d[s]
        BY <2>7, <2>12
      <3>2. CASE d[w] < d[s]
        BY <2>8, <3>2
      <3>3. CASE d[s] < d[w]
        <4>1. rank(s) < rank(w)
          BY <1>2, <2>7, <3>3
        <4> QED BY <1>1, <2>1, <2>11, <2>12, <4>1
      <3> QED BY <3>1, <3>2, <3>3
    <2>13. First(n + 1) = First(n) \cup {s}
      <3>1. ASSUME NEW w \in First(n + 1) PROVE w \in First(n) \cup {s}
        BY <2>12
      <3>2. \A w \in First(n) : w \in First(n + 1)
        BY <1>1, <2>1
      <3>3. s \in First(n + 1)
        BY <2>1, <2>7, <2>11
      <3> HIDE DEF First
      <3> QED BY <3>1, <3>2, <3>3
    <2>14. s \notin First(n)
      BY <2>7
    <2> HIDE DEF First
    <2>15. Cardinality(First(n + 1)) = Cardinality(First(n)) + 1
      BY <2>2, <2>13, <2>14, FS_AddElement
    <2> QED BY <2>1, <2>15
  <1> HIDE DEF Q
  <1>5. r \in Q
    BY <1>3, <1>4, NumbersByInduction
  <1>6. Cardinality(First(r)) = r
    BY <1>5 DEF Q
  <1> QED BY <1>6 DEF rank

(***************************************************************************)
(* The seats                                                               *)
(***************************************************************************)

LEMMA SeatsFinite ==
    /\ IsFiniteSet(PotSeats) /\ Cardinality(PotSeats) = N
    /\ N \in Nat /\ N > 1
    /\ \A S \in SUBSET PotSeats : /\ IsFiniteSet(S)
                                  /\ Cardinality(S) \in Nat
                                  /\ Cardinality(S) <= N
  <1>1. N \in Nat /\ N > 1
    BY PotAssumption
  <1>2. IsFiniteSet(PotSeats) /\ Cardinality(PotSeats) = N
    <2>1. 0 \in Int /\ N - 1 \in Int /\ ~(0 > N - 1) /\ (N - 1) - 0 + 1 = N
      BY <1>1
    <2> QED BY <2>1, FS_Interval DEF PotSeats
  <1> QED BY <1>1, <1>2, FS_Subset, FS_CardinalityType

LEMMA ShareUnitDivides ==
    ASSUME NEW n \in 1..N
    PROVE  /\ ShareUnit \in Nat \ {0}
           /\ ShareUnit \div n \in Nat \ {0}
           /\ ShareUnit = n * (ShareUnit \div n)
  <1>1. ShareUnit \in Nat \ {0} /\ ShareUnit % n = 0 /\ n \in Nat \ {0}
    BY PotAssumption
  <1>2. ShareUnit \div n \in Nat /\ ShareUnit = (n * (ShareUnit \div n)) + (ShareUnit % n)
    BY <1>1, DivMod
  <1>3. ShareUnit \div n # 0
    <2>1. n * 0 = 0
      BY <1>1
    <2> QED BY <1>1, <1>2, <2>1
  <1>4. n * (ShareUnit \div n) \in Nat
    BY <1>1, <1>2
  <1> QED BY <1>1, <1>2, <1>3, <1>4

LEMMA DistancesDiffer ==
    ASSUME dealer \in PotSeats
    PROVE  /\ \A s \in PotSeats : Distance(s) \in Nat
           /\ \A s, t \in PotSeats : Distance(s) = Distance(t) => s = t
  <1>1. N \in Nat /\ \A s \in PotSeats : s \in Int /\ 0 <= s /\ s < N
    BY SeatsFinite DEF PotSeats
  <1> QED BY <1>1 DEF Distance

(***************************************************************************)
(* What the winners W of a level with sum chips get.                       *)
(***************************************************************************)

\* Those of W who sit nearer after the dealer than s.
Earlier(W, s) == {w \in W : Distance(w) < Distance(s)}

LEMMA EarlierGrows ==
    ASSUME dealer \in PotSeats, NEW W \in SUBSET PotSeats
    PROVE  /\ \A s \in PotSeats : Cardinality(Earlier(W, s)) \in Nat
           /\ \A s, t \in W : Distance(s) < Distance(t) =>
                  Cardinality(Earlier(W, s)) <= Cardinality(Earlier(W, t))
  <1>1. \A s \in PotSeats : Earlier(W, s) \in SUBSET PotSeats
    BY DEF Earlier
  <1>2. \A s \in PotSeats : IsFiniteSet(Earlier(W, s)) /\ Cardinality(Earlier(W, s)) \in Nat
    BY <1>1, SeatsFinite
  <1>3. ASSUME NEW s \in W, NEW t \in W, Distance(s) < Distance(t)
        PROVE  Earlier(W, s) \in SUBSET Earlier(W, t)
    BY <1>3, DistancesDiffer DEF Earlier
  <1> QED BY <1>2, <1>3, FS_Subset

LEMMA ShareOfWinner ==
    ASSUME dealer \in PotSeats, NEW W \in SUBSET PotSeats, W # {}, NEW sum \in Nat, NEW s \in W
    PROVE  /\ Cardinality(W) \in 1..N
           /\ sum \div Cardinality(W) \in Nat /\ sum % Cardinality(W) \in Nat
           /\ sum % Cardinality(W) < Cardinality(W)
           /\ sum = (Cardinality(W) * (sum \div Cardinality(W))) + (sum % Cardinality(W))
           /\ OddShare(W, sum, s) = sum \div Cardinality(W)
                + (IF Cardinality(Earlier(W, s)) < sum % Cardinality(W) THEN 1 ELSE 0)
           /\ OddShare(W, sum, s) \in Nat
  <1>1. Cardinality(W) \in 1..N
    <2>1. Cardinality(W) # 0
      BY SeatsFinite, FS_EmptySet
    <2> QED BY <2>1, SeatsFinite
  <1>2. Cardinality(W) \in Nat \ {0}
    BY <1>1, SeatsFinite
  <1>3. /\ sum \div Cardinality(W) \in Nat /\ sum % Cardinality(W) \in Nat
        /\ sum % Cardinality(W) < Cardinality(W)
        /\ sum = (Cardinality(W) * (sum \div Cardinality(W))) + (sum % Cardinality(W))
    BY <1>2, DivMod
  <1>4. OddShare(W, sum, s) = sum \div Cardinality(W)
                + (IF Cardinality(Earlier(W, s)) < sum % Cardinality(W) THEN 1 ELSE 0)
    BY DEF OddShare, Earlier
  <1> QED BY <1>1, <1>3, <1>4

\* All of the sum is paid.
LEMMA SharesAddUp ==
    ASSUME dealer \in PotSeats, NEW W \in SUBSET PotSeats, W # {}, NEW sum \in Nat
    PROVE  SumFunctionOnSet([s \in PotSeats |-> IF s \in W THEN OddShare(W, sum, s) ELSE 0],
                            PotSeats) = sum
  <1> DEFINE w == Cardinality(W)
             q == sum \div w
             r == sum % w
             odd == {s \in W : Cardinality(Earlier(W, s)) < r}
             even == [s \in PotSeats |-> IF s \in W THEN q ELSE 0]
             more == [s \in PotSeats |-> IF s \in odd THEN 1 ELSE 0]
             all == [s \in PotSeats |-> IF s \in W THEN OddShare(W, sum, s) ELSE 0]
  <1>1. /\ w \in 1..N /\ q \in Nat /\ r \in Nat /\ r < w /\ sum = (w * q) + r
        /\ \A s \in W : OddShare(W, sum, s)
                          = q + (IF Cardinality(Earlier(W, s)) < r THEN 1 ELSE 0)
    BY ShareOfWinner
  <1>2. Cardinality(odd) = r
    <2> DEFINE d == [s \in W |-> Distance(s)]
    <2>1. /\ \A s \in W : d[s] \in Nat
          /\ \A s, t \in W : d[s] = d[t] => s = t
          /\ \A s \in W : Earlier(W, s) = {v \in W : d[v] < d[s]}
      BY DistancesDiffer DEF Earlier
    <2>2. IsFiniteSet(W) /\ r <= Cardinality(W)
      BY <1>1, SeatsFinite
    <2> HIDE DEF d
    <2>3. odd = {s \in W : Cardinality({v \in W : d[v] < d[s]}) < r}
      BY <2>1
    <2> HIDE DEF odd, q, r
    <2>4. Cardinality({s \in W : Cardinality({v \in W : d[v] < d[s]}) < r}) = r
      BY <1>1, <2>1, <2>2, FirstOnes
    <2> QED BY <2>3, <2>4
  <1>3. odd \in SUBSET W
    OBVIOUS
  <1>4. \A s \in PotSeats : /\ even[s] \in Int /\ more[s] \in Int
                            /\ all[s] = even[s] + more[s]
    BY <1>1
  <1>5. /\ \A s \in PotSeats : even[s] = IF s \in W THEN q ELSE 0
        /\ \A s \in PotSeats : more[s] = IF s \in odd THEN 1 ELSE 0
    OBVIOUS
  <1> HIDE DEF even, more, all, odd, q, r, w
  <1>6. SumFunctionOnSet(all, PotSeats)
          = SumFunctionOnSet(even, PotSeats) + SumFunctionOnSet(more, PotSeats)
    BY <1>4, SeatsFinite, SumAdds
  <1>7. SumFunctionOnSet(even, PotSeats) = q * w
    <2>1. q \in Int /\ PotSeats \cap W = W
      BY <1>1
    <2>2. SumFunctionOnSet(even, PotSeats) = q * Cardinality(PotSeats \cap W)
      BY <1>5, <2>1, SeatsFinite, SumOfEqualTerms
    <2> QED BY <2>1, <2>2 DEF w
  <1>8. SumFunctionOnSet(more, PotSeats) = r
    <2> DEFINE one == 1
    <2>1. /\ one \in Int /\ PotSeats \cap odd = odd /\ one * Cardinality(odd) = r
          /\ \A s \in PotSeats : more[s] = IF s \in odd THEN one ELSE 0
      BY <1>1, <1>2, <1>3, <1>5
    <2> HIDE DEF one
    <2>2. SumFunctionOnSet(more, PotSeats) = one * Cardinality(PotSeats \cap odd)
      BY <2>1, SeatsFinite, SumOfEqualTerms
    <2> QED BY <2>1, <2>2
  <1>9. (q * w) + r = sum
    <2>1. q * w = w * q
      BY <1>1, SeatsFinite
    <2> QED BY <1>1, <2>1
  <1> QED BY <1>6, <1>7, <1>8, <1>9 DEF all

\* An odd chip is the only difference, and the nearer seat has it.
LEMMA SharesDiffer ==
    ASSUME dealer \in PotSeats, NEW W \in SUBSET PotSeats, NEW sum \in Nat,
           NEW s \in W, NEW t \in W, Distance(s) < Distance(t)
    PROVE  OddShare(W, sum, s) - OddShare(W, sum, t) \in 0..1
  <1> DEFINE r == sum % Cardinality(W)
             q == sum \div Cardinality(W)
             i == Cardinality(Earlier(W, s))
             j == Cardinality(Earlier(W, t))
  <1>1. /\ q \in Nat /\ r \in Nat
        /\ OddShare(W, sum, s) = q + (IF i < r THEN 1 ELSE 0)
        /\ OddShare(W, sum, t) = q + (IF j < r THEN 1 ELSE 0)
    BY ShareOfWinner
  <1>2. i \in Nat /\ j \in Nat /\ i <= j
    BY EarlierGrows
  <1> HIDE DEF r, q, i, j
  <1> QED BY <1>1, <1>2

\* An exact share is less than one chip away; a single winner has no odd chip.
LEMMA SharesAreNear ==
    ASSUME dealer \in PotSeats, NEW W \in SUBSET PotSeats, NEW sum \in Nat, NEW s \in W
    PROVE  LET exact == sum * (ShareUnit \div Cardinality(W))
               paidOut == ShareUnit * OddShare(W, sum, s)
           IN  /\ exact \in Nat /\ paidOut \in Nat
               /\ paidOut - exact <= ShareUnit - 1 /\ exact - paidOut <= ShareUnit - 1
               /\ Cardinality(W) = 1 => paidOut = exact
  <1> DEFINE w == Cardinality(W)
             u == ShareUnit \div w
             q == sum \div w
             r == sum % w
             i == Cardinality(Earlier(W, s))
  <1>1. /\ w \in 1..N /\ q \in Nat /\ r \in Nat /\ r < w /\ sum = (w * q) + r
        /\ OddShare(W, sum, s) = q + (IF i < r THEN 1 ELSE 0)
    BY ShareOfWinner
  <1>2. ShareUnit \in Nat \ {0} /\ u \in Nat \ {0} /\ ShareUnit = w * u /\ w \in Nat \ {0}
    <2>1. w \in 1..N /\ N \in Nat
      BY <1>1, SeatsFinite
    <2> HIDE DEF w, q, r, i
    <2> QED BY <2>1, ShareUnitDivides
  <1>3. i \in Nat
    BY EarlierGrows
  <1> DEFINE x == OddShare(W, sum, s)
  <1>4. x = q + (IF i < r THEN 1 ELSE 0)
    BY <1>1
  <1> HIDE DEF w, u, q, r, i, x
  <1>5. sum * u = (ShareUnit * q) + (r * u)
    <2>1. ((w * q) + r) * u = ((w * u) * q) + (r * u)
      BY <1>1, <1>2
    <2> QED BY <1>1, <1>2, <2>1
  <1>6. r * u \in Nat /\ ShareUnit * q \in Nat /\ sum * u \in Nat
    BY <1>1, <1>2, <1>5
  <1>7. r * u <= ShareUnit - 1
    <2>1. (w - 1 - r) * u >= 0
      BY <1>1, <1>2
    <2>2. (w - 1 - r) * u = ((w * u) - u) - (r * u)
      BY <1>1, <1>2
    <2> QED BY <1>2, <1>6, <2>1, <2>2
  <1>8. CASE i < r
    <2>1. x = q + 1 /\ ShareUnit * (q + 1) = (ShareUnit * q) + ShareUnit
      BY <1>1, <1>2, <1>4, <1>8
    <2>2. r >= 1
      BY <1>1, <1>3, <1>8
    <2>3. r * u >= 1
      <3>1. (r - 1) * u >= 0 /\ (r - 1) * u = (r * u) - u
        BY <1>1, <1>2, <2>2
      <3> QED BY <1>2, <1>6, <3>1
    <2>4. w # 1
      BY <1>1, <2>2
    <2>5. ShareUnit * x = (ShareUnit * q) + ShareUnit
      BY <2>1
    <2>6. ShareUnit * x \in Nat
      BY <1>2, <1>6, <2>5
    <2>7. /\ (ShareUnit * x) - (sum * u) <= ShareUnit - 1
          /\ (sum * u) - (ShareUnit * x) <= ShareUnit - 1
      BY <1>2, <1>5, <1>6, <1>7, <2>3, <2>5, <2>6
    <2> QED BY <1>6, <2>4, <2>6, <2>7 DEF x, u, w
  <1>9. CASE ~(i < r)
    <2>1. ShareUnit * x = ShareUnit * q /\ ShareUnit * x \in Nat
      BY <1>1, <1>4, <1>6, <1>9
    <2>2. w = 1 => r * u = 0
      <3> SUFFICES ASSUME w = 1 PROVE r * u = 0
        OBVIOUS
      <3>1. r = 0
        BY <1>1
      <3> QED BY <1>2, <3>1
    <2>3. w = 1 => ShareUnit * x = sum * u
      BY <1>5, <1>6, <2>1, <2>2
    <2>4. /\ (ShareUnit * x) - (sum * u) <= ShareUnit - 1
          /\ (sum * u) - (ShareUnit * x) <= ShareUnit - 1
      BY <1>2, <1>5, <1>6, <1>7, <2>1
    <2> QED BY <1>6, <2>1, <2>3, <2>4 DEF x, u, w
  <1> QED BY <1>8, <1>9


(***************************************************************************)
(* The inductive invariant of distributePot                                *)
(*                                                                         *)
(* SharesAreExact speaks of the end of the loop.  On the way there, after  *)
(* a chip layers have been distributed, left is what everybody paid above  *)
(* them, and what a seat has won, together with its part of the chips that *)
(* were carried over, is what these layers give it, but for one chip for   *)
(* every level that may have had odd chips.                                *)
(***************************************************************************)

PotType ==
    /\ paid \in [PotSeats -> 0..MaxContribution]
    /\ values \in [PotSeats -> 1..MaxValue]
    /\ folded \in SUBSET PotSeats /\ NonFolded # {}
    /\ dealer \in PotSeats
    /\ level \in 0..N
    /\ left \in [PotSeats -> Nat]
    /\ carry \in Nat
    /\ won \in [PotSeats -> Nat]
    /\ pot \in Nat

\* Who has nothing left in the pot, and who is in the hand and has.
Zeros == {s \in PotSeats : left[s] = 0}
Contenders == {s \in NonFolded : left[s] > 0}

\* Every level so far has used up at least one seat's contribution.
LevelsUseSeats == level <= Cardinality(Zeros)

\* No chip is lost; carried-over chips have somebody to go to.
ChipsAreThere ==
    /\ Total(won) + pot = Total(paid)
    /\ pot = carry + Total(left)
    /\ carry > 0 => Contenders # {}

\* a layers have been distributed.
LayersGone(a) == left = [s \in PotSeats |-> IF paid[s] > a THEN paid[s] - a ELSE 0]

\* What the first a layers give seat s.
Shares(s) == [k \in 1..MaxContribution |-> LayerShare(k, s)]
Upto(s, a) == SumFunctionOnSet(Shares(s), 1..a)

\* Chips carried over belong to the best hands that are still in.
Owed(s) ==
    IF s \in BestOf(Contenders)
    THEN carry * (ShareUnit \div Cardinality(BestOf(Contenders))) ELSE 0

\* How many levels may have had odd chips: the last contender's level had none,
\* unless it used up two seats at once.
OddLevels == IF Contenders = {} THEN Cardinality(Zeros) - 1 ELSE level

\* x and y differ by less than one chip for each of n levels.
Near(x, y, n) == x - y <= n * (ShareUnit - 1) /\ y - x <= n * (ShareUnit - 1)

Accounted(a) ==
    \A s \in PotSeats : /\ Near((ShareUnit * won[s]) + Owed(s), Upto(s, a), OddLevels)
                        /\ won[s] > 0 => Upto(s, a) > 0

\* Seats with equal claims, s before t after the dealer.
Equals(s, t) == paid[s] = paid[t] /\ values[s] = values[t] /\ Distance(s) < Distance(t)

\* How often s can have had an odd chip that t had not.
OddLevelsOf(s) == IF left[s] = 0 THEN Cardinality(Zeros) - 1 ELSE level

EqualsAreNear ==
    \A s, t \in NonFolded : Equals(s, t) => won[s] - won[t] \in 0..OddLevelsOf(s)

PotInv ==
    /\ PotType
    /\ LevelsUseSeats
    /\ ChipsAreThere
    /\ \E a \in 0..MaxContribution : LayersGone(a) /\ Accounted(a)
    /\ EqualsAreNear


LEMMA TotalIs ==
    ASSUME NEW f, NEW S, f \in [PotSeats -> S]
    PROVE  Total(f) = SumFunctionOnSet(f, PotSeats)
  <1>1. DOMAIN f = PotSeats
    OBVIOUS
  <1> QED BY <1>1 DEF Total, SumFunction

\* Among some seats there is a best hand.
LEMMA BestExists ==
    ASSUME values \in [PotSeats -> 1..MaxValue], NEW S \in SUBSET PotSeats
    PROVE  /\ BestOf(S) \in SUBSET S
           /\ S # {} => BestOf(S) # {}
  <1>1. BestOf(S) \in SUBSET S
    BY DEF BestOf
  <1>2. ASSUME S # {} PROVE BestOf(S) # {}
    <2> DEFINE short == {MaxValue - values[s] : s \in S}
    <2>1. MaxValue \in Nat /\ \A s \in S : values[s] \in Int /\ values[s] <= MaxValue
      BY PotAssumption
    <2>2. short \subseteq Nat /\ short # {}
      BY <1>2, <2>1
    <2>3. PICK x \in short : \A y \in short : x <= y
      BY <2>2, LeastNumber
    <2>4. PICK s \in S : x = MaxValue - values[s]
      OBVIOUS
    <2>5. \A t \in S : values[t] <= values[s]
      <3> TAKE t \in S
      <3>1. x <= MaxValue - values[t]
        BY <2>3
      <3> QED BY <2>1, <2>4, <3>1
    <2> QED BY <2>5 DEF BestOf
  <1> QED BY <1>1, <1>2

\* Those whose best are among a part of them, are the best of that part.
LEMMA BestOfPart ==
    ASSUME values \in [PotSeats -> 1..MaxValue],
           NEW S \in SUBSET PotSeats, NEW T \in SUBSET S, S # {}, BestOf(S) \in SUBSET T
    PROVE  BestOf(T) = BestOf(S)
  <1>1. PICK b \in BestOf(S) : TRUE
    BY BestExists
  <1>2. b \in T /\ b \in S /\ \A t \in S : values[t] <= values[b]
    BY <1>1 DEF BestOf
  <1>3. \A s \in PotSeats : values[s] \in Int
    OBVIOUS
  <1>4. ASSUME NEW s \in BestOf(T) PROVE s \in BestOf(S)
    <2>1. s \in T /\ values[b] <= values[s]
      BY <1>2 DEF BestOf
    <2>2. \A t \in S : values[t] <= values[s]
      BY <1>2, <1>3, <2>1
    <2> QED BY <2>1, <2>2 DEF BestOf
  <1>5. ASSUME NEW s \in BestOf(S) PROVE s \in BestOf(T)
    BY DEF BestOf
  <1> QED BY <1>4, <1>5

\* There is a (level + 1)-th smallest of what is left.
LEMMA LevelAmountIs ==
    ASSUME left \in [PotSeats -> Nat], level \in Nat, level < N
    PROVE  /\ LevelAmount \in Nat
           /\ \E s \in PotSeats : left[s] = LevelAmount
           /\ Cardinality({s \in PotSeats : left[s] < LevelAmount}) <= level
           /\ Cardinality({s \in PotSeats : left[s] <= LevelAmount}) > level
  <1> DEFINE Below(a) == {s \in PotSeats : left[s] < a}
             UpTo(a) == {s \in PotSeats : left[s] <= a}
             enough == {a \in Nat : Cardinality(UpTo(a)) > level}
             total == SumFunctionOnSet(left, PotSeats)
  <1>0. \A a \in Nat : /\ Below(a) \in SUBSET PotSeats /\ UpTo(a) \in SUBSET PotSeats
                       /\ IsFiniteSet(Below(a)) /\ IsFiniteSet(UpTo(a))
                       /\ Cardinality(Below(a)) \in Nat /\ Cardinality(UpTo(a)) \in Nat
    <2> TAKE a \in Nat
    <2>1. Below(a) \in SUBSET PotSeats /\ UpTo(a) \in SUBSET PotSeats
      OBVIOUS
    <2> HIDE DEF Below, UpTo
    <2> QED BY <2>1, SeatsFinite
  <1>1. total \in enough
    <2>1. total \in Nat /\ \A s \in PotSeats : left[s] <= total
      BY SeatsFinite, SumNotNegative
    <2> HIDE DEF total
    <2>2. UpTo(total) = PotSeats
      BY <2>1
    <2> QED BY <2>1, <2>2, SeatsFinite
  <1>2. enough \subseteq Nat
    OBVIOUS
  <1> HIDE DEF total
  <1>3. PICK a \in enough : \A b \in enough : a <= b
    <2> HIDE DEF enough
    <2> QED BY <1>1, <1>2, LeastNumber
  <1>4. a \in Nat /\ Cardinality(UpTo(a)) > level
    BY <1>3
  <1>5. Cardinality(Below(a)) <= level
    <2>1. CASE a = 0
      <3>1. Below(a) = {}
        BY <2>1
      <3> QED BY <3>1, FS_EmptySet
    <2>2. CASE a # 0
      <3>1. a - 1 \in Nat /\ ~(a <= a - 1)
        BY <1>4, <2>2
      <3>2. a - 1 \notin enough
        <4> HIDE DEF enough
        <4> QED BY <1>3, <3>1
      <3>3. Below(a) = UpTo(a - 1)
        BY <1>4, <3>1
      <3>4. ~(Cardinality(UpTo(a - 1)) > level) /\ Cardinality(UpTo(a - 1)) \in Nat
        BY <1>0, <3>1, <3>2
      <3> QED BY <3>3, <3>4
    <2> QED BY <2>1, <2>2
  <1>6. \E s \in PotSeats : left[s] = a
    <2> SUFFICES ASSUME \A s \in PotSeats : left[s] # a PROVE FALSE
      OBVIOUS
    <2>1. Below(a) = UpTo(a)
      BY <1>4
    <2> HIDE DEF Below, UpTo
    <2> QED BY <1>0, <1>4, <1>5, <2>1
  <1>7. LevelAmount = CHOOSE x \in {left[s] : s \in PotSeats} :
                        Cardinality(Below(x)) <= level /\ Cardinality(UpTo(x)) > level
    BY DEF LevelAmount
  <1>8. \E x \in {left[s] : s \in PotSeats} :
            Cardinality(Below(x)) <= level /\ Cardinality(UpTo(x)) > level
    <2> HIDE DEF Below, UpTo, enough
    <2> QED BY <1>4, <1>5, <1>6
  <1> HIDE DEF Below, UpTo, enough
  <1>9. /\ LevelAmount \in {left[s] : s \in PotSeats}
        /\ Cardinality(Below(LevelAmount)) <= level
        /\ Cardinality(UpTo(LevelAmount)) > level
    BY <1>7, <1>8
  <1> QED BY <1>9 DEF Below, UpTo

LEMMA LevelFacts ==
    ASSUME PotType, LevelsUseSeats, level < N
    PROVE  /\ LevelAmount \in Nat
           /\ LevelAmount = 0 => level + 1 <= Cardinality(Zeros)
           /\ LevelAmount > 0 =>
                /\ Cardinality(Zeros) = level
                /\ \E s \in PotSeats : left[s] = LevelAmount
                /\ \A s \in PotSeats : left[s] > 0 => left[s] >= LevelAmount
                /\ Cardinality({s \in PotSeats : left[s] > 0}) = N - level
                /\ Entitled(LevelAmount) = Contenders
  <1> DEFINE amount == LevelAmount
             below == {s \in PotSeats : left[s] < amount}
             upto == {s \in PotSeats : left[s] <= amount}
  <1>1. /\ amount \in Nat /\ \E s \in PotSeats : left[s] = amount
        /\ Cardinality(below) <= level /\ Cardinality(upto) > level
    BY LevelAmountIs DEF PotType
  <1>2. level \in Nat /\ \A s \in PotSeats : left[s] \in Nat
    BY SeatsFinite DEF PotType
  <1>3. below \in SUBSET PotSeats /\ upto \in SUBSET PotSeats /\ Zeros \in SUBSET PotSeats
    BY DEF Zeros
  <1>4. /\ IsFiniteSet(below) /\ IsFiniteSet(upto) /\ IsFiniteSet(Zeros)
        /\ Cardinality(below) \in Nat /\ Cardinality(upto) \in Nat /\ Cardinality(Zeros) \in Nat
    <2> HIDE DEF below, upto
    <2> QED BY <1>3, SeatsFinite
  <1>5. ASSUME amount = 0 PROVE level + 1 <= Cardinality(Zeros)
    <2>1. upto = Zeros
      BY <1>2, <1>5 DEF Zeros
    <2> QED BY <1>1, <1>2, <1>4, <2>1
  <1>6. ASSUME amount > 0
        PROVE  /\ Cardinality(Zeros) = level
               /\ \A s \in PotSeats : left[s] > 0 => left[s] >= amount
               /\ Cardinality({s \in PotSeats : left[s] > 0}) = N - level
               /\ Entitled(amount) = Contenders
    <2>1. Zeros \in SUBSET below
      BY <1>6 DEF Zeros
    <2>2. Cardinality(Zeros) = level /\ Cardinality(below) = level
      <3>1. Cardinality(Zeros) <= Cardinality(below)
        BY <1>4, <2>1, FS_Subset
      <3> QED BY <1>1, <1>2, <1>4, <3>1 DEF LevelsUseSeats
    <2>3. Zeros = below
      BY <1>4, <2>1, <2>2, FS_Subset
    <2>4. \A s \in PotSeats : left[s] > 0 => left[s] >= amount
      <3> SUFFICES ASSUME NEW s \in PotSeats, left[s] > 0, ~(left[s] >= amount) PROVE FALSE
        OBVIOUS
      <3>1. s \in below
        BY <1>1, <1>2
      <3> QED BY <1>2, <2>3, <3>1 DEF Zeros
    <2>5. Cardinality({s \in PotSeats : left[s] > 0}) = N - level
      <3>1. {s \in PotSeats : left[s] > 0} = PotSeats \ Zeros
        BY <1>2 DEF Zeros
      <3>2. PotSeats \cap Zeros = Zeros
        BY <1>3
      <3>3. Cardinality(PotSeats \ Zeros) = Cardinality(PotSeats) - Cardinality(PotSeats \cap Zeros)
        BY SeatsFinite, FS_Difference
      <3> QED BY <2>2, <3>1, <3>2, <3>3, SeatsFinite
    <2>6. Entitled(amount) = Contenders
      <3>1. NonFolded \in SUBSET PotSeats
        BY DEF NonFolded
      <3> QED BY <1>1, <1>2, <1>6, <2>4, <3>1 DEF Entitled, Contenders
    <2> QED BY <2>2, <2>4, <2>5, <2>6
  <1> QED BY <1>1, <1>5, <1>6


(***************************************************************************)
(* The layers of a level                                                   *)
(***************************************************************************)

\* After its first a terms f has n that are c.
Stretch(f, a, n, c) ==
    /\ a \in Nat /\ n \in Nat /\ c \in Int
    /\ \A k \in 1..(a + n) : f[k] \in Int
    /\ \A k \in (a + 1)..(a + n) : f[k] = c

LEMMA SumOfStretch ==
    ASSUME NEW f, NEW a, NEW n, NEW c, Stretch(f, a, n, c)
    PROVE  SumFunctionOnSet(f, 1..(a + n)) = SumFunctionOnSet(f, 1..a) + (n * c)
  <1> DEFINE m == a + n
  <1> /\ a \in Nat /\ n \in Nat /\ c \in Int /\ m \in Nat
      /\ \A k \in 1..m : f[k] \in Int
      /\ \A k \in (a + 1)..(a + n) : f[k] = c
    BY DEF Stretch
  <1> a + n <= m
    OBVIOUS
  <1> HIDE DEF m
  <1> DEFINE sum(b) == SumFunctionOnSet(f, 1..b)
             Q == {i \in Nat : i <= n => sum(a + i) = sum(a) + (i * c)}
  <1>0. ASSUME NEW b \in Nat, b <= m
        PROVE  IsFiniteSet(1..b) /\ sum(b) \in Int
    <2>1. IsFiniteSet(1..b)
      BY FS_Interval
    <2>2. \A k \in 1..b : f[k] \in Int
      BY <1>0
    <2> QED BY <2>1, <2>2, SumType
  <1>1. 0 \in Q
    <2>1. a + 0 = a /\ 0 * c = 0 /\ sum(a) \in Int
      BY <1>0
    <2> HIDE DEF sum
    <2>2. sum(a + 0) = sum(a) + (0 * c)
      BY <2>1
    <2> QED BY <2>2
  <1>2. ASSUME NEW i \in Q PROVE i + 1 \in Q
    <2> SUFFICES ASSUME i + 1 <= n PROVE sum(a + (i + 1)) = sum(a) + ((i + 1) * c)
      OBVIOUS
    <2>1. i \in Nat /\ sum(a + i) = sum(a) + (i * c)
      OBVIOUS
    <2>2. /\ a + (i + 1) \in Nat /\ a + (i + 1) <= m /\ a + (i + 1) \in (a + 1)..(a + n)
          /\ a + (i + 1) \in 1..(a + (i + 1)) /\ a <= m
      BY <2>1
    <2>3. (1..(a + (i + 1))) \ {a + (i + 1)} = 1..(a + i)
      BY <2>1
    <2>4. sum(a + (i + 1)) = f[a + (i + 1)] + sum(a + i)
      <3>1. IsFiniteSet(1..(a + (i + 1)))
        BY <1>0, <2>2
      <3>2. \A k \in 1..(a + (i + 1)) : f[k] \in Int
        BY <2>2
      <3> DEFINE last == a + (i + 1)
      <3> HIDE DEF last
      <3>3. SumFunctionOnSet(f, 1..last) = f[last] + SumFunctionOnSet(f, (1..last) \ {last})
        BY <2>2, <3>1, <3>2, SumRemoves DEF last
      <3> QED BY <2>3, <3>3 DEF last
    <2>5. f[a + (i + 1)] = c /\ sum(a) \in Int
      BY <1>0, <2>2
    <2>6. (i + 1) * c = (i * c) + c /\ i * c \in Int
      BY <2>1
    <2> HIDE DEF sum
    <2> QED BY <2>1, <2>4, <2>5, <2>6
  <1> HIDE DEF Q
  <1>3. n \in Q
    BY <1>1, <1>2, NumbersByInduction
  <1> QED BY <1>3 DEF Q

LEMMA OwnersExist ==
    ASSUME PotType, NEW k
    PROVE  /\ LayerOwners(k) \in SUBSET NonFolded
           /\ Cardinality(LayerOwners(k)) \in 1..N
  <1>1. NonFolded \in SUBSET PotSeats /\ NonFolded # {}
        /\ values \in [PotSeats -> 1..MaxValue]
    BY DEF PotType, NonFolded
  <1> DEFINE in == {s \in NonFolded : paid[s] >= k}
  <1>2. in \in SUBSET NonFolded /\ in \in SUBSET PotSeats
    BY <1>1
  <1>3. LayerOwners(k) = IF in # {} THEN BestOf(in) ELSE BestOf(NonFolded)
    BY DEF LayerOwners
  <1> HIDE DEF in
  <1>4. LayerOwners(k) \in SUBSET NonFolded /\ LayerOwners(k) # {}
    BY <1>1, <1>2, <1>3, BestExists
  <1>5. Cardinality(LayerOwners(k)) # 0
    BY <1>1, <1>4, SeatsFinite, FS_EmptySet
  <1> QED BY <1>1, <1>4, <1>5, SeatsFinite

LEMMA SharesType ==
    ASSUME PotType, NEW s \in PotSeats
    PROVE  /\ \A k \in 1..MaxContribution : Shares(s)[k] = LayerShare(k, s) /\ Shares(s)[k] \in Nat
           /\ \A a \in 0..MaxContribution : Upto(s, a) \in Nat
           /\ ExactShare(s) = Upto(s, MaxContribution)
  <1>1. ASSUME NEW k \in 1..MaxContribution
        PROVE  Shares(s)[k] = LayerShare(k, s) /\ Shares(s)[k] \in Nat
    <2> DEFINE n == Cardinality({p \in PotSeats : paid[p] >= k})
               w == Cardinality(LayerOwners(k))
    <2>1. n \in Nat
      BY SeatsFinite
    <2>2. w \in Nat \ {0} /\ ShareUnit \in Nat
      BY OwnersExist, SeatsFinite, PotAssumption
    <2>3. LayerShare(k, s) = IF s \notin LayerOwners(k) THEN 0 ELSE (ShareUnit * n) \div w
      BY DEF LayerShare
    <2> HIDE DEF n, w
    <2>4. ShareUnit * n \in Nat
      BY <2>1, <2>2
    <2>5. (ShareUnit * n) \div w \in Nat
      BY <2>2, <2>4, DivMod
    <2>6. Shares(s)[k] = LayerShare(k, s)
      BY DEF Shares
    <2> QED BY <2>3, <2>5, <2>6
  <1>2. \A a \in 0..MaxContribution : Upto(s, a) \in Nat
    <2> TAKE a \in 0..MaxContribution
    <2>1. IsFiniteSet(1..a) /\ \A k \in 1..a : Shares(s)[k] \in Nat
      <3>1. a \in Nat /\ a <= MaxContribution /\ MaxContribution \in Nat
        BY PotAssumption
      <3>2. 1..a \in SUBSET (1..MaxContribution)
        BY <3>1
      <3> QED BY <1>1, <3>1, <3>2, FS_Interval
    <2> QED BY <2>1, SumNotNegative DEF Upto
  <1>3. ExactShare(s) = Upto(s, MaxContribution)
    <2>1. DOMAIN Shares(s) = 1..MaxContribution
      BY DEF Shares
    <2>2. ExactShare(s) = SumFunction(Shares(s))
      BY DEF ExactShare, Shares
    <2> QED BY <2>1, <2>2 DEF SumFunction, Upto
  <1> QED BY <1>1, <1>2, <1>3

\* What is left of a contribution, and which layers it reaches.
LEMMA LeftOver ==
    ASSUME PotType, NEW a \in 0..MaxContribution, LayersGone(a), NEW s \in PotSeats
    PROVE  /\ left[s] = IF paid[s] > a THEN paid[s] - a ELSE 0
           /\ paid[s] \in Nat /\ paid[s] <= MaxContribution /\ a \in Nat /\ MaxContribution \in Nat
  <1>1. MaxContribution \in Nat /\ a \in Nat /\ paid[s] \in 0..MaxContribution
    BY PotAssumption DEF PotType
  <1> QED BY <1>1 DEF LayersGone

LEMMA WinnersExist ==
    ASSUME PotType, NEW amount
    PROVE  /\ LevelWinners(amount) \in SUBSET NonFolded
           /\ LevelWinners(amount) # {}
           /\ Cardinality(LevelWinners(amount)) \in 1..N
  <1>1. NonFolded \in SUBSET PotSeats /\ NonFolded # {}
        /\ values \in [PotSeats -> 1..MaxValue]
    BY DEF PotType, NonFolded
  <1>2. Entitled(amount) \in SUBSET NonFolded
    BY DEF Entitled
  <1>3. LevelWinners(amount) \in SUBSET NonFolded /\ LevelWinners(amount) # {}
    BY <1>1, <1>2, BestExists DEF LevelWinners
  <1>4. Cardinality(LevelWinners(amount)) # 0
    BY <1>1, <1>3, SeatsFinite, FS_EmptySet
  <1> QED BY <1>1, <1>3, <1>4, SeatsFinite

\* The layers that a level distributes belong to its winners.
LEMMA LayersOfLevel ==
    ASSUME PotType, LevelsUseSeats, level < N, LevelAmount > 0,
           NEW a \in 0..MaxContribution, LayersGone(a)
    PROVE  /\ a + LevelAmount \in 0..MaxContribution
           /\ \A k \in (a + 1)..(a + LevelAmount) :
                /\ {p \in PotSeats : paid[p] >= k} = {p \in PotSeats : left[p] > 0}
                /\ LayerOwners(k) = LevelWinners(LevelAmount)
  <1> DEFINE amount == LevelAmount
  <1>1. /\ amount \in Nat
        /\ \E s \in PotSeats : left[s] = amount
        /\ \A s \in PotSeats : left[s] > 0 => left[s] >= amount
        /\ Entitled(amount) = Contenders
    BY LevelFacts
  <1>2. \A s \in PotSeats : /\ left[s] = IF paid[s] > a THEN paid[s] - a ELSE 0
                            /\ paid[s] \in Nat /\ paid[s] <= MaxContribution
                            /\ a \in Nat /\ MaxContribution \in Nat
    BY LeftOver
  <1> HIDE DEF amount
  <1>3. a + amount \in 0..MaxContribution
    <2>1. PICK s \in PotSeats : left[s] = amount
      BY <1>1
    <2>2. amount > 0
      BY DEF amount
    <2> QED BY <1>1, <1>2, <2>1, <2>2
  <1>4. ASSUME NEW k \in (a + 1)..(a + amount)
        PROVE  /\ {p \in PotSeats : paid[p] >= k} = {p \in PotSeats : left[p] > 0}
               /\ LayerOwners(k) = LevelWinners(amount)
    <2>1. \A p \in PotSeats : paid[p] >= k <=> left[p] > 0
      <3> TAKE p \in PotSeats
      <3>1. a \in Nat /\ k \in Int /\ a + 1 <= k /\ k <= a + amount
        BY <1>1, <1>2
      <3>2. /\ left[p] = IF paid[p] > a THEN paid[p] - a ELSE 0
            /\ paid[p] \in Nat /\ (left[p] > 0 => left[p] >= amount)
        BY <1>1, <1>2
      <3> QED BY <1>1, <3>1, <3>2
    <2>2. {s \in NonFolded : paid[s] >= k} = Contenders
      BY <2>1 DEF Contenders, NonFolded
    <2>3. LayerOwners(k) = IF Contenders # {} THEN BestOf(Contenders) ELSE BestOf(NonFolded)
      BY <2>2 DEF LayerOwners
    <2> QED BY <1>1, <2>1, <2>3 DEF LevelWinners
  <1> QED BY <1>3, <1>4 DEF amount

\* What the layers of a level give a seat.
LEMMA UptoGrows ==
    ASSUME PotType, LevelsUseSeats, level < N, LevelAmount > 0,
           NEW a \in 0..MaxContribution, LayersGone(a), NEW s \in PotSeats
    PROVE  Upto(s, a + LevelAmount) = Upto(s, a) +
             (IF s \in LevelWinners(LevelAmount)
              THEN ((N - level) * LevelAmount)
                     * (ShareUnit \div Cardinality(LevelWinners(LevelAmount)))
              ELSE 0)
  <1> DEFINE amount == LevelAmount
             n == N - level
             W == LevelWinners(amount)
             w == Cardinality(W)
             u == ShareUnit \div w
             c == IF s \in W THEN n * u ELSE 0
  <1>1. /\ a + amount \in 0..MaxContribution
        /\ \A k \in (a + 1)..(a + amount) :
             /\ {p \in PotSeats : paid[p] >= k} = {p \in PotSeats : left[p] > 0}
             /\ LayerOwners(k) = W
    BY LayersOfLevel
  <1>2. Cardinality({p \in PotSeats : left[p] > 0}) = n /\ amount \in Nat
    BY LevelFacts
  <1>3. w \in 1..N
    BY WinnersExist
  <1>4. /\ n \in Nat /\ u \in Nat \ {0} /\ ShareUnit = w * u /\ w \in Nat \ {0}
        /\ a \in Nat /\ MaxContribution \in Nat
    <2>1. level \in Nat /\ N \in Nat /\ MaxContribution \in Nat /\ a \in Nat
      BY SeatsFinite, PotAssumption DEF PotType
    <2>2. w \in Nat \ {0}
      BY <1>3, <2>1
    <2> HIDE DEF w, W, amount
    <2>3. u \in Nat \ {0} /\ ShareUnit = w * u
      BY <1>3, ShareUnitDivides
    <2> QED BY <2>1, <2>2, <2>3
  <1> HIDE DEF w, W, amount, u, n
  <1>5. c \in Int
    BY <1>4
  <1>6. ASSUME NEW k \in (a + 1)..(a + amount)
        PROVE  Shares(s)[k] = c
    <2>1. k \in 1..MaxContribution
      BY <1>1, <1>2, <1>4
    <2>2. Shares(s)[k] = LayerShare(k, s)
      BY <2>1, SharesType
    <2>3. LayerShare(k, s) = IF s \notin W THEN 0 ELSE (ShareUnit * n) \div w
      BY <1>1, <1>2 DEF LayerShare, w
    <2>4. ShareUnit * n = w * (n * u)
      <3>1. (w * u) * n = w * (n * u)
        BY <1>4
      <3> QED BY <1>4, <3>1
    <2>5. (w * (n * u)) \div w = n * u
      <3>1. n * u \in Nat
        BY <1>4
      <3> QED BY <1>4, <3>1, DivExact
    <2> QED BY <2>2, <2>3, <2>4, <2>5
  <1>7. \A k \in 1..MaxContribution : Shares(s)[k] \in Int
    BY SharesType
  <1> HIDE DEF c
  <1>8. SumFunctionOnSet(Shares(s), 1..(a + amount)) = SumFunctionOnSet(Shares(s), 1..a) + (amount * c)
    <2>1. Stretch(Shares(s), a, amount, c)
      <3>1. \A k \in 1..(a + amount) : Shares(s)[k] \in Int
        BY <1>1, <1>2, <1>4, <1>5, <1>6, <1>7
      <3> QED BY <1>1, <1>2, <1>4, <1>5, <1>6, <1>7, <3>1 DEF Stretch
    <2> QED BY <2>1, SumOfStretch
  <1>9. amount * c = IF s \in W THEN (n * amount) * u ELSE 0
    <2>1. amount * (n * u) = (n * amount) * u /\ amount * 0 = 0
      BY <1>2, <1>4
    <2> QED BY <2>1 DEF c
  <1> QED BY <1>8, <1>9 DEF Upto, amount, n, u, w, W

\* When nothing is left, no layer is missing.
LEMMA NoLayerLeft ==
    ASSUME PotType, NEW a \in 0..MaxContribution, LayersGone(a),
           \A p \in PotSeats : left[p] = 0, NEW s \in PotSeats
    PROVE  ExactShare(s) = Upto(s, a)
  <1>1. /\ \A p \in PotSeats : paid[p] \in Nat /\ paid[p] <= a
        /\ a \in Nat /\ MaxContribution \in Nat /\ a <= MaxContribution
    <2>1. \A p \in PotSeats : /\ left[p] = IF paid[p] > a THEN paid[p] - a ELSE 0
                              /\ paid[p] \in Nat
      BY LeftOver
    <2>2. a \in Nat /\ MaxContribution \in Nat /\ a <= MaxContribution
      BY PotAssumption
    <2> QED BY <2>1, <2>2
  <1>2. ASSUME NEW k \in (a + 1)..(a + (MaxContribution - a))
        PROVE  Shares(s)[k] = 0
    <2>1. k \in 1..MaxContribution /\ k > a /\ k \in Int
      BY <1>1
    <2>2. {p \in PotSeats : paid[p] >= k} = {}
      BY <1>1, <2>1
    <2> DEFINE w == Cardinality(LayerOwners(k))
    <2>3. w \in Nat \ {0} /\ ShareUnit \in Nat
      BY OwnersExist, SeatsFinite, PotAssumption
    <2>4. Cardinality({}) = 0
      BY FS_EmptySet
    <2>5. LayerShare(k, s) = IF s \notin LayerOwners(k) THEN 0 ELSE (ShareUnit * 0) \div w
      BY <2>2, <2>4 DEF LayerShare
    <2> HIDE DEF w
    <2>6. ShareUnit * 0 = w * 0
      BY <2>3
    <2>7. (w * 0) \div w = 0
      BY <2>3, DivExact
    <2>8. Shares(s)[k] = LayerShare(k, s)
      BY <2>1, SharesType
    <2> QED BY <2>5, <2>6, <2>7, <2>8
  <1>3. \A k \in 1..MaxContribution : Shares(s)[k] \in Int
    BY SharesType
  <1> DEFINE zero == 0  n == MaxContribution - a
  <1>4. n \in Nat /\ a + n = MaxContribution /\ zero \in Int /\ n * zero = 0
        /\ \A k \in (a + 1)..(a + n) : Shares(s)[k] = zero
    BY <1>1, <1>2
  <1>5. a + n <= MaxContribution
    BY <1>1, <1>4
  <1> HIDE DEF zero, n
  <1>6. SumFunctionOnSet(Shares(s), 1..(a + n)) = SumFunctionOnSet(Shares(s), 1..a) + (n * zero)
    <2>1. Stretch(Shares(s), a, n, zero)
      <3>1. \A k \in 1..(a + n) : Shares(s)[k] \in Int
        BY <1>1, <1>3, <1>4, <1>5
      <3> QED BY <1>1, <1>3, <1>4, <1>5, <3>1 DEF Stretch
    <2> QED BY <2>1, SumOfStretch
  <1>7. Upto(s, MaxContribution) = Upto(s, a) + 0 /\ Upto(s, a) \in Nat
    BY <1>4, <1>6, SharesType DEF Upto
  <1> QED BY <1>7, SharesType


(***************************************************************************)
(* One pass of the level loop                                              *)
(***************************************************************************)

\* The pass leaves the hand as it is.
LEMMA HandStays ==
    ASSUME PotType, DistributeLevel
    PROVE  /\ paid' = paid /\ values' = values /\ folded' = folded /\ dealer' = dealer
           /\ NonFolded' = NonFolded
           /\ \A S : BestOf(S)' = BestOf(S)
           /\ \A s, a : Upto(s, a)' = Upto(s, a)
           /\ \A s : Distance(s)' = Distance(s)
           /\ \A s, t : Equals(s, t)' = Equals(s, t)
  <1>1. paid' = paid /\ values' = values /\ folded' = folded /\ dealer' = dealer
    BY DEF DistributeLevel
  <1>2. NonFolded' = NonFolded /\ \A S : BestOf(S)' = BestOf(S)
    BY <1>1 DEF NonFolded, BestOf
  <1>3. \A s : Distance(s)' = Distance(s)
    BY <1>1 DEF Distance
  <1>4. \A s, t : Equals(s, t)' = Equals(s, t)
    BY <1>1, <1>3 DEF Equals
  <1>5. ASSUME NEW s, NEW a PROVE Upto(s, a)' = Upto(s, a)
    <2>1. \A k : LayerOwners(k)' = LayerOwners(k)
      BY <1>1 DEF LayerOwners, NonFolded, BestOf
    <2>2. \A k : LayerShare(k, s)' = LayerShare(k, s)
      BY <1>1, <2>1 DEF LayerShare
    <2>3. Shares(s)' = Shares(s)
      BY <2>2 DEF Shares
    <2> QED BY <2>3 DEF Upto
  <1> QED BY <1>1, <1>2, <1>3, <1>4, <1>5

\* A level without chips changes nothing but its number.
LEMMA EmptyLevel ==
    ASSUME PotType, LevelsUseSeats, DistributeLevel, LevelAmount = 0
    PROVE  /\ left' = left /\ won' = won /\ pot' = pot /\ carry' = carry
           /\ level' = level + 1
           /\ level + 1 <= Cardinality(Zeros)
  <1>1. left \in [PotSeats -> Nat]
    BY DEF PotType
  <1>2. left' = [s \in PotSeats |-> left[s] - (IF left[s] < 0 THEN left[s] ELSE 0)]
    BY DEF DistributeLevel
  <1>3. left' = left
    <2>1. \A s \in PotSeats : left[s] - (IF left[s] < 0 THEN left[s] ELSE 0) = left[s]
      BY <1>1
    <2>2. left' = [s \in PotSeats |-> left[s]]
      BY <1>2, <2>1
    <2> QED BY <1>1, <2>2
  <1>4. level < N
    BY DEF DistributeLevel
  <1> QED BY <1>3, <1>4, LevelFacts DEF DistributeLevel

\* A level with chips takes its amount from everybody who has something left,
\* and at least one of them has nothing left then.
LEMMA ChipLevel ==
    ASSUME PotType, LevelsUseSeats, DistributeLevel, LevelAmount > 0
    PROVE  /\ LevelAmount \in Nat
           /\ level \in Nat /\ level' = level + 1 /\ N - level \in Nat \ {0}
           /\ left' \in [PotSeats -> Nat]
           /\ \A s \in PotSeats : left'[s] = IF left[s] = 0 THEN 0 ELSE left[s] - LevelAmount
           /\ Total(left) \in Nat /\ Total(left)' \in Nat
           /\ Total(left)' = Total(left) - ((N - level) * LevelAmount)
           /\ Cardinality(Zeros) \in Nat /\ Cardinality(Zeros') \in Nat
           /\ Cardinality(Zeros) = level
           /\ level + 1 <= Cardinality(Zeros')
           /\ Contenders' = {s \in Contenders : left[s] > LevelAmount}
           /\ Entitled(LevelAmount) = Contenders
  <1> DEFINE amount == LevelAmount
             n == N - level
  <1>1. level \in Nat /\ level < N /\ level' = level + 1 /\ n \in Nat \ {0}
    BY SeatsFinite DEF PotType, DistributeLevel
  <1>2. /\ amount \in Nat /\ amount > 0
        /\ Cardinality(Zeros) = level
        /\ \E s \in PotSeats : left[s] = amount
        /\ \A s \in PotSeats : left[s] > 0 => left[s] >= amount
        /\ Cardinality({s \in PotSeats : left[s] > 0}) = n
        /\ Entitled(amount) = Contenders
    BY <1>1, LevelFacts
  <1>3. left' = [s \in PotSeats |-> left[s] - (IF left[s] < amount THEN left[s] ELSE amount)]
    BY DEF DistributeLevel
  <1>4. left \in [PotSeats -> Nat]
    BY DEF PotType
  <1> HIDE DEF amount, n
  <1>5. ASSUME NEW s \in PotSeats
        PROVE  left'[s] \in Nat /\ left'[s] = IF left[s] = 0 THEN 0 ELSE left[s] - amount
    <2>1. left'[s] = left[s] - (IF left[s] < amount THEN left[s] ELSE amount)
      BY <1>3
    <2> QED BY <1>2, <1>4, <2>1
  <1>6. left' \in [PotSeats -> Nat]
    <2>1. DOMAIN left' = PotSeats /\ left' = [s \in PotSeats |-> left'[s]]
      BY <1>3
    <2> QED BY <1>5, <2>1
  <1>7. Total(left) \in Nat /\ Total(left)' \in Nat /\ Total(left)' = Total(left) - (n * amount)
    <2> DEFINE taken == [s \in PotSeats |-> IF s \in {p \in PotSeats : left[p] > 0} THEN amount ELSE 0]
               S == {p \in PotSeats : left[p] > 0}
    <2>1. SumFunctionOnSet(taken, PotSeats) = amount * n
      <3>1. PotSeats \cap S = S /\ amount \in Int /\ Cardinality(S) = n
        BY <1>2
      <3>2. \A s \in PotSeats : taken[s] = IF s \in S THEN amount ELSE 0
        OBVIOUS
      <3> HIDE DEF taken, S
      <3>3. SumFunctionOnSet(taken, PotSeats) = amount * Cardinality(PotSeats \cap S)
        BY <3>1, <3>2, SeatsFinite, SumOfEqualTerms
      <3> QED BY <3>1, <3>3
    <2>2. \A s \in PotSeats : /\ left'[s] \in Int /\ taken[s] \in Int
                              /\ left[s] = left'[s] + taken[s]
      BY <1>2, <1>4, <1>5
    <2> HIDE DEF taken
    <2>3. SumFunctionOnSet(left, PotSeats)
            = SumFunctionOnSet(left', PotSeats) + SumFunctionOnSet(taken, PotSeats)
      BY <2>2, SeatsFinite, SumAdds
    <2>4. Total(left) = SumFunctionOnSet(left, PotSeats)
      BY <1>4, TotalIs
    <2>5. Total(left)' = SumFunctionOnSet(left', PotSeats)
      <3>1. Total(left)' = SumFunctionOnSet(left', DOMAIN left')
        BY DEF Total, SumFunction
      <3> QED BY <1>6, <3>1
    <2>6. SumFunctionOnSet(left, PotSeats) \in Nat /\ SumFunctionOnSet(left', PotSeats) \in Nat
      BY <1>4, <1>6, SeatsFinite, SumNotNegative
    <2>7. amount * n = n * amount /\ n * amount \in Int
      BY <1>1, <1>2
    <2> QED BY <2>1, <2>3, <2>4, <2>5, <2>6, <2>7
  <1>8. Cardinality(Zeros) \in Nat /\ Cardinality(Zeros') \in Nat
    <2>1. Zeros \in SUBSET PotSeats /\ Zeros' \in SUBSET PotSeats
      BY DEF Zeros
    <2> QED BY <2>1, SeatsFinite
  <1>9. level + 1 <= Cardinality(Zeros')
    <2>1. PICK s \in PotSeats : left[s] = amount
      BY <1>2
    <2>2. Zeros \cup {s} \in SUBSET Zeros' /\ s \notin Zeros
      <3>1. s \in Zeros' /\ s \notin Zeros
        BY <1>2, <1>4, <1>5, <2>1 DEF Zeros
      <3>2. \A p \in Zeros : p \in Zeros'
        BY <1>5 DEF Zeros
      <3> QED BY <3>1, <3>2
    <2>3. IsFiniteSet(Zeros) /\ IsFiniteSet(Zeros')
      <3>1. Zeros \in SUBSET PotSeats /\ Zeros' \in SUBSET PotSeats
        BY DEF Zeros
      <3> QED BY <3>1, SeatsFinite
    <2>4. Cardinality(Zeros \cup {s}) = level + 1
      BY <1>2, <2>2, <2>3, FS_AddElement
    <2>5. Cardinality(Zeros \cup {s}) <= Cardinality(Zeros')
      BY <2>2, <2>3, FS_Subset
    <2> QED BY <2>4, <2>5
  <1>10. Contenders' = {s \in Contenders : left[s] > amount}
    <2>1. NonFolded' = NonFolded /\ NonFolded \in SUBSET PotSeats
      BY HandStays DEF NonFolded
    <2>2. Contenders' = {s \in NonFolded : left'[s] > 0}
      BY <2>1 DEF Contenders
    <2>3. \A s \in NonFolded : left'[s] > 0 <=> (left[s] > 0 /\ left[s] > amount)
      <3> TAKE s \in NonFolded
      <3>1. /\ left'[s] = IF left[s] = 0 THEN 0 ELSE left[s] - amount
            /\ left[s] \in Nat
        BY <1>4, <1>5, <2>1
      <3> QED BY <1>2, <3>1
    <2> QED BY <2>2, <2>3 DEF Contenders
  <1> QED BY <1>1, <1>2, <1>5, <1>6, <1>7, <1>8, <1>9, <1>10 DEF amount, n

\* The layers that are gone after the pass.
LEMMA LayersGo ==
    ASSUME PotType, LevelsUseSeats, DistributeLevel, LevelAmount > 0,
           NEW a \in 0..MaxContribution, LayersGone(a)
    PROVE  \E b \in 0..MaxContribution : b = a + LevelAmount /\ LayersGone(b)'
  <1>1. level < N
    BY DEF DistributeLevel
  <1>2. a + LevelAmount \in 0..MaxContribution
    BY <1>1, LayersOfLevel
  <1>3. paid' = paid
    BY HandStays
  <1>4. /\ LevelAmount \in Nat /\ left' \in [PotSeats -> Nat]
        /\ \A s \in PotSeats : left'[s] = IF left[s] = 0 THEN 0 ELSE left[s] - LevelAmount
    BY ChipLevel
  <1>5. \A s \in PotSeats : left[s] > 0 => left[s] >= LevelAmount
    BY <1>1, LevelFacts
  <1> DEFINE amount == LevelAmount
             g == [s \in PotSeats |-> IF paid[s] > a + amount THEN paid[s] - (a + amount) ELSE 0]
  <1>6. ASSUME NEW s \in PotSeats PROVE left'[s] = g[s]
    <2>1. /\ left[s] = IF paid[s] > a THEN paid[s] - a ELSE 0
          /\ paid[s] \in Nat /\ a \in Nat
      BY LeftOver
    <2> HIDE DEF amount
    <2>2. amount \in Nat /\ amount > 0 /\ (left[s] > 0 => left[s] >= amount)
          /\ left'[s] = IF left[s] = 0 THEN 0 ELSE left[s] - amount
      BY <1>4, <1>5 DEF amount
    <2> QED BY <2>1, <2>2
  <1>7. left' = g
    <2>1. left' = [s \in PotSeats |-> left'[s]]
      BY <1>4
    <2> QED BY <1>6, <2>1
  <1>8. PICK b \in 0..MaxContribution : b = a + amount
    BY <1>2
  <1>9. left' = [s \in PotSeats |-> IF paid[s] > b THEN paid[s] - b ELSE 0]
    BY <1>7, <1>8
  <1>10. LayersGone(b)'
    BY <1>3, <1>9 DEF LayersGone
  <1> QED BY <1>8, <1>10


LEMMA NearMoves ==
    ASSUME NEW x \in Int, NEW y \in Int, NEW dx \in Int, NEW dy \in Int,
           NEW n \in Int, NEW m \in Int, Near(x, y, n),
           \/ dx = dy /\ m >= n
           \/ Near(dx, dy, 1) /\ m >= n + 1
    PROVE  Near(x + dx, y + dy, m)
  <1> DEFINE u == ShareUnit - 1
  <1>1. u \in Nat
    BY PotAssumption
  <1>2. x - y <= n * u /\ y - x <= n * u
    BY DEF Near
  <1> HIDE DEF u
  <1>3. n * u \in Int /\ m * u \in Int
    BY <1>1
  <1>4. CASE dx = dy /\ m >= n
    <2>1. n * u <= m * u
      <3>1. (m - n) * u >= 0
        BY <1>1, <1>4
      <3>2. (m - n) * u = (m * u) - (n * u)
        BY <1>1
      <3> QED BY <1>3, <3>1, <3>2
    <2>2. (x + dx) - (y + dy) <= m * u /\ (y + dy) - (x + dx) <= m * u
      BY <1>2, <1>3, <1>4, <2>1
    <2> QED BY <2>2 DEF Near, u
  <1>5. CASE Near(dx, dy, 1) /\ m >= n + 1
    <2>1. dx - dy <= u /\ dy - dx <= u
      <3>1. 1 * u = u
        BY <1>1
      <3> QED BY <1>5, <3>1 DEF Near, u
    <2>2. (n * u) + u <= m * u
      <3>1. (m - n - 1) * u >= 0
        BY <1>1, <1>5
      <3>2. (m - n - 1) * u = (m * u) - (n * u) - u
        BY <1>1
      <3> QED BY <1>1, <1>3, <3>1, <3>2
    <2>3. (x + dx) - (y + dy) <= m * u /\ (y + dy) - (x + dx) <= m * u
      BY <1>1, <1>2, <1>3, <2>1, <2>2
    <2> QED BY <2>3 DEF Near, u
  <1> QED BY <1>4, <1>5

\* What is owed is a number of ShareUnits' parts.
LEMMA OwedType ==
    ASSUME PotType, NEW s \in PotSeats
    PROVE  /\ Owed(s) \in Nat
           /\ carry = 0 => Owed(s) = 0
           /\ ShareUnit * won[s] \in Nat
           /\ OddLevels \in Int
           /\ Contenders \in SUBSET PotSeats
  <1>1. Contenders \in SUBSET PotSeats /\ Zeros \in SUBSET PotSeats
    BY DEF Contenders, NonFolded, Zeros
  <1>2. values \in [PotSeats -> 1..MaxValue] /\ carry \in Nat /\ won[s] \in Nat /\ level \in Int
    BY SeatsFinite DEF PotType
  <1> DEFINE W == BestOf(Contenders)  w == Cardinality(W)
  <1>3. ASSUME s \in W PROVE w \in 1..N
    <2>1. W \in SUBSET PotSeats
      BY <1>1, <1>2, BestExists
    <2>2. w # 0
      BY <1>3, <2>1, SeatsFinite, FS_EmptySet
    <2> QED BY <2>1, <2>2, SeatsFinite
  <1>4. Owed(s) = IF s \in W THEN carry * (ShareUnit \div w) ELSE 0
    BY DEF Owed
  <1> HIDE DEF W, w
  <1>5. s \in W => ShareUnit \div w \in Nat
    BY <1>3, ShareUnitDivides
  <1>6. Owed(s) \in Nat /\ (carry = 0 => Owed(s) = 0)
    BY <1>2, <1>4, <1>5
  <1>7. ShareUnit * won[s] \in Nat
    BY <1>2, PotAssumption
  <1>8. OddLevels \in Int
    BY <1>1, <1>2, SeatsFinite DEF OddLevels
  <1> QED BY <1>1, <1>6, <1>7, <1>8

\* Equal claims have the same left of them.
LEMMA EqualsLeft ==
    ASSUME PotType, NEW a \in 0..MaxContribution, LayersGone(a),
           NEW s \in NonFolded, NEW t \in NonFolded, Equals(s, t)
    PROVE  /\ left[s] = left[t] /\ left[s] \in Nat
           /\ values[s] = values[t] /\ s # t /\ s \in PotSeats /\ t \in PotSeats
  <1>1. s \in PotSeats /\ t \in PotSeats
    BY DEF NonFolded
  <1>2. s # t
    BY <1>1, DistancesDiffer DEF Equals, PotType
  <1> QED BY <1>1, <1>2, LeftOver DEF Equals, PotType

\* Two seats used up at once leave a level over.
LEMMA TwoAtOnce ==
    ASSUME PotType, LevelsUseSeats, DistributeLevel, LevelAmount > 0,
           NEW S \in SUBSET PotSeats, \A s \in S : left[s] = LevelAmount,
           NEW s \in S, NEW t \in S, s # t
    PROVE  level + 2 <= Cardinality(Zeros')
  <1>1. /\ LevelAmount \in Nat /\ level \in Nat
        /\ \A p \in PotSeats : left'[p] = IF left[p] = 0 THEN 0 ELSE left[p] - LevelAmount
        /\ Cardinality(Zeros) = level /\ Cardinality(Zeros') \in Nat
    BY ChipLevel
  <1>2. Zeros \in SUBSET PotSeats /\ Zeros' \in SUBSET PotSeats
    BY DEF Zeros
  <1>3. IsFiniteSet(Zeros) /\ IsFiniteSet(Zeros')
    BY <1>2, SeatsFinite
  <1>4. s \in PotSeats /\ t \in PotSeats /\ left[s] = LevelAmount /\ left[t] = LevelAmount
    OBVIOUS
  <1>5. s \notin Zeros /\ t \notin Zeros /\ s \in Zeros' /\ t \in Zeros'
    BY <1>1, <1>4 DEF Zeros
  <1>6. \A p \in Zeros : p \in Zeros'
    BY <1>1 DEF Zeros
  <1>7. (Zeros \cup {s}) \cup {t} \in SUBSET Zeros'
    BY <1>5, <1>6
  <1>8. IsFiniteSet(Zeros \cup {s}) /\ Cardinality(Zeros \cup {s}) = level + 1
    BY <1>1, <1>3, <1>5, FS_AddElement
  <1>9. Cardinality((Zeros \cup {s}) \cup {t}) = (level + 1) + 1
    <2>1. t \notin Zeros \cup {s}
      BY <1>5
    <2> QED BY <1>8, <2>1, FS_AddElement
  <1>10. Cardinality((Zeros \cup {s}) \cup {t}) <= Cardinality(Zeros')
    BY <1>3, <1>7, FS_Subset
  <1> QED BY <1>1, <1>9, <1>10

\* Whose claims are equal has one more odd chip at most after every level.
LEMMA OddLevelsOfGrow ==
    ASSUME PotType, LevelsUseSeats, DistributeLevel, LevelAmount > 0,
           NEW a \in 0..MaxContribution, LayersGone(a),
           NEW s \in NonFolded, NEW t \in NonFolded, Equals(s, t)
    PROVE  OddLevelsOf(s) \in Int /\ OddLevelsOf(s)' \in Int /\ OddLevelsOf(s)' >= OddLevelsOf(s) + 1
  <1>1. /\ LevelAmount \in Nat /\ level \in Nat /\ level' = level + 1
        /\ \A p \in PotSeats : left'[p] = IF left[p] = 0 THEN 0 ELSE left[p] - LevelAmount
        /\ Cardinality(Zeros) = level /\ Cardinality(Zeros') \in Nat
        /\ level + 1 <= Cardinality(Zeros')
    BY ChipLevel
  <1>2. left[s] = left[t] /\ left[s] \in Nat /\ s # t /\ s \in PotSeats /\ t \in PotSeats
    BY EqualsLeft
  <1>3. left'[s] = 0 /\ left[s] # 0 => level + 2 <= Cardinality(Zeros')
    <2> SUFFICES ASSUME left'[s] = 0, left[s] # 0 PROVE level + 2 <= Cardinality(Zeros')
      OBVIOUS
    <2>1. left[s] = LevelAmount /\ left[t] = LevelAmount
      BY <1>1, <1>2
    <2> DEFINE S == {s, t}
    <2>2. S \in SUBSET PotSeats /\ (\A p \in S : left[p] = LevelAmount) /\ s \in S /\ t \in S
      BY <1>2, <2>1
    <2> HIDE DEF S
    <2> QED BY <1>2, <2>2, TwoAtOnce
  <1>4. /\ OddLevelsOf(s) = IF left[s] = 0 THEN Cardinality(Zeros) - 1 ELSE level
        /\ OddLevelsOf(s)' = IF left'[s] = 0 THEN Cardinality(Zeros') - 1 ELSE level'
    BY DEF OddLevelsOf
  <1>5. left[s] = 0 => left'[s] = 0
    BY <1>1, <1>2
  <1> QED BY <1>1, <1>3, <1>4, <1>5

\* So has everybody, but that a single winner's level has none.
LEMMA OddLevelsGrow ==
    ASSUME PotType, LevelsUseSeats, DistributeLevel, LevelAmount > 0
    PROVE  /\ OddLevels \in Int /\ OddLevels' \in Int
           /\ Contenders' # {} => OddLevels' >= OddLevels + 1
           /\ \/ OddLevels' >= OddLevels + 1
              \/ OddLevels' >= OddLevels /\ Cardinality(LevelWinners(LevelAmount)) = 1
  <1> DEFINE amount == LevelAmount  W == LevelWinners(amount)
  <1>1. /\ amount \in Nat /\ level \in Nat /\ level' = level + 1
        /\ Cardinality(Zeros) = level /\ Cardinality(Zeros') \in Nat
        /\ level + 1 <= Cardinality(Zeros')
        /\ Contenders' = {s \in Contenders : left[s] > amount}
        /\ Entitled(amount) = Contenders
    BY ChipLevel
  <1>2. /\ OddLevels = IF Contenders = {} THEN Cardinality(Zeros) - 1 ELSE level
        /\ OddLevels' = IF Contenders' = {} THEN Cardinality(Zeros') - 1 ELSE level'
    BY DEF OddLevels
  <1>3. CASE Contenders = {} \/ Contenders' # {}
    BY <1>1, <1>2, <1>3
  <1>4. CASE Contenders # {} /\ Contenders' = {}
    <2>1. OddLevels' >= OddLevels
      BY <1>1, <1>2, <1>4
    <2>2. CASE Cardinality(W) = 1
      BY <1>1, <1>2, <1>4, <2>1, <2>2
    <2>3. CASE Cardinality(W) # 1
      <3>1. W \in SUBSET NonFolded /\ W # {} /\ NonFolded \in SUBSET PotSeats
        BY WinnersExist DEF NonFolded
      <3>2. W = BestOf(Contenders)
        BY <1>1, <1>4 DEF LevelWinners
      <3>3. W \in SUBSET Contenders
        BY <3>2 DEF BestOf
      <3>4. PICK s \in W : TRUE
        BY <3>1
      <3>5. W # {s}
        <4> SUFFICES ASSUME W = {s} PROVE FALSE
          OBVIOUS
        <4> QED BY <2>3, FS_Singleton
      <3>6. PICK t \in W : t # s
        BY <3>4, <3>5
      <3>7. \A p \in W : left[p] = amount
        <4> TAKE p \in W
        <4>1. p \in Contenders /\ left[p] > 0 /\ p \in PotSeats /\ ~(left[p] > amount)
          BY <1>1, <1>4, <3>1, <3>3 DEF Contenders
        <4>2. left[p] >= amount /\ left[p] \in Nat
          BY <1>1, <4>1 DEF Entitled, PotType
        <4> QED BY <1>1, <4>1, <4>2
      <3>8. W \in SUBSET PotSeats
        BY <3>1
      <3> HIDE DEF W
      <3>9. level + 2 <= Cardinality(Zeros')
        BY <3>4, <3>6, <3>7, <3>8, TwoAtOnce
      <3> QED BY <1>1, <1>2, <1>4, <3>9
    <2> QED BY <2>2, <2>3
  <1> QED BY <1>3, <1>4


(***************************************************************************)
(* The invariant holds                                                     *)
(***************************************************************************)

LEMMA PotInvInit ==
    Init => PotInv
  <1> SUFFICES ASSUME Init PROVE PotInv
    OBVIOUS
  <1>1. /\ MaxContribution \in Nat /\ ShareUnit \in Nat /\ N \in Nat
        /\ paid \in [PotSeats -> 0..MaxContribution] /\ left = paid
    BY PotAssumption DEF Init
  <1>2. paid \in [PotSeats -> Nat] /\ left \in [PotSeats -> Nat]
    BY <1>1
  <1>3. Total(paid) \in Nat
    BY <1>2, TotalIs, SeatsFinite, SumNotNegative
  <1>4. NonFolded # {}
    BY DEF Init, NonFolded
  <1>5. PotType
    BY <1>1, <1>2, <1>3, <1>4 DEF PotType, Init
  <1>6. Zeros \in SUBSET PotSeats /\ Cardinality(Zeros) \in Nat /\ IsFiniteSet(Zeros)
    <2>1. Zeros \in SUBSET PotSeats
      BY DEF Zeros
    <2> QED BY <2>1, SeatsFinite
  <1>7. LevelsUseSeats
    BY <1>6 DEF LevelsUseSeats, Init
  <1>8. ChipsAreThere
    <2>1. won = [s \in PotSeats |-> 0] /\ pot = Total(paid) /\ carry = 0
      BY DEF Init
    <2>2. Total(won) = SumFunctionOnSet(won, PotSeats)
      <3>1. won \in [PotSeats -> Nat]
        BY <1>5 DEF PotType
      <3> QED BY <3>1, TotalIs
    <2>3. SumFunctionOnSet(won, PotSeats) = 0
      <3> DEFINE zero == 0  nobody == {}
      <3>1. zero \in Int /\ \A s \in PotSeats : won[s] = IF s \in nobody THEN zero ELSE 0
        BY <2>1
      <3> HIDE DEF zero, nobody
      <3>2. SumFunctionOnSet(won, PotSeats) = zero * Cardinality(PotSeats \cap nobody)
        BY <3>1, SeatsFinite, SumOfEqualTerms
      <3>3. PotSeats \cap nobody = {} /\ Cardinality({}) = 0 /\ zero * 0 = 0
        BY FS_EmptySet DEF zero, nobody
      <3> QED BY <3>2, <3>3
    <2> QED BY <1>1, <1>3, <2>1, <2>2, <2>3 DEF ChipsAreThere
  <1>9. OddLevels \in Nat
    <2>1. CASE Contenders = {}
      <3>1. PICK s \in NonFolded : TRUE
        BY <1>4
      <3>2. s \in PotSeats /\ ~(left[s] > 0) /\ left[s] \in Nat
        BY <1>2, <2>1 DEF Contenders, NonFolded
      <3>3. s \in Zeros
        BY <3>2 DEF Zeros
      <3>4. Cardinality(Zeros) # 0
        BY <1>6, <3>3, FS_EmptySet
      <3> QED BY <1>6, <2>1, <3>4 DEF OddLevels
    <2>2. CASE Contenders # {}
      BY <2>2 DEF OddLevels, Init
    <2> QED BY <2>1, <2>2
  <1>10. LayersGone(0)
    <2>1. left = [s \in PotSeats |-> left[s]]
      BY <1>2
    <2>2. \A s \in PotSeats : left[s] = IF paid[s] > 0 THEN paid[s] - 0 ELSE 0
      BY <1>1, <1>2
    <2> QED BY <2>1, <2>2 DEF LayersGone
  <1>11. Accounted(0)
    <2> SUFFICES ASSUME NEW s \in PotSeats
                 PROVE  /\ Near((ShareUnit * won[s]) + Owed(s), Upto(s, 0), OddLevels)
                        /\ won[s] > 0 => Upto(s, 0) > 0
      BY DEF Accounted
    <2>1. won[s] = 0 /\ carry = 0
      BY DEF Init
    <2>2. ShareUnit * won[s] = 0 /\ Owed(s) = 0
      BY <1>1, <1>5, <2>1, OwedType
    <2>3. Upto(s, 0) = 0
      <3>1. 1..0 = {}
        OBVIOUS
      <3> QED BY <3>1, SumEmpty DEF Upto
    <2>4. OddLevels * (ShareUnit - 1) >= 0
      <3>1. ShareUnit - 1 \in Nat
        BY PotAssumption
      <3> QED BY <1>9, <3>1
    <2> QED BY <2>1, <2>2, <2>3, <2>4 DEF Near
  <1>12. EqualsAreNear
    <2> SUFFICES ASSUME NEW s \in NonFolded, NEW t \in NonFolded, Equals(s, t)
                 PROVE  won[s] - won[t] \in 0..OddLevelsOf(s)
      BY DEF EqualsAreNear
    <2>1. s \in PotSeats /\ t \in PotSeats
      BY DEF NonFolded
    <2>2. won[s] = 0 /\ won[t] = 0 /\ level = 0
      BY <2>1 DEF Init
    <2>3. OddLevelsOf(s) \in Nat
      <3>1. CASE left[s] = 0
        <4>1. s \in Zeros
          BY <2>1, <3>1 DEF Zeros
        <4>2. Cardinality(Zeros) # 0
          BY <1>6, <4>1, FS_EmptySet
        <4> QED BY <1>6, <3>1, <4>2 DEF OddLevelsOf
      <3>2. CASE left[s] # 0
        BY <2>2, <3>2 DEF OddLevelsOf
      <3> QED BY <3>1, <3>2
    <2> QED BY <2>2, <2>3
  <1>13. 0 \in 0..MaxContribution
    BY <1>1
  <1> QED BY <1>5, <1>7, <1>8, <1>10, <1>11, <1>12, <1>13 DEF PotInv

LEMMA EmptyLevelKeeps ==
    ASSUME PotInv, DistributeLevel, LevelAmount = 0
    PROVE  PotInv'
  <1>1. /\ left' = left /\ won' = won /\ pot' = pot /\ carry' = carry
        /\ level' = level + 1 /\ level + 1 <= Cardinality(Zeros)
    BY EmptyLevel DEF PotInv
  <1>2. /\ paid' = paid /\ values' = values /\ folded' = folded /\ dealer' = dealer
        /\ NonFolded' = NonFolded
        /\ \A s, a : Upto(s, a)' = Upto(s, a)
        /\ \A s, t : Equals(s, t)' = Equals(s, t)
    BY HandStays DEF PotInv
  <1>3. PotType /\ LevelsUseSeats /\ ChipsAreThere /\ EqualsAreNear
    BY DEF PotInv
  <1>4. level \in Nat /\ level < N /\ N \in Nat
    BY <1>3, SeatsFinite DEF DistributeLevel, PotType
  <1>5. PotType'
    BY <1>1, <1>2, <1>3, <1>4 DEF PotType
  <1>6. Zeros' = Zeros /\ Contenders' = Contenders
    BY <1>1, <1>2 DEF Zeros, Contenders
  <1>7. LevelsUseSeats'
    BY <1>1, <1>6 DEF LevelsUseSeats
  <1>8. ChipsAreThere'
    BY <1>1, <1>2, <1>3, <1>6 DEF ChipsAreThere, Total
  <1>9. PICK a \in 0..MaxContribution : LayersGone(a) /\ Accounted(a)
    BY DEF PotInv
  <1>10. LayersGone(a)'
    BY <1>1, <1>2, <1>9 DEF LayersGone
  <1>11. /\ OddLevels \in Int /\ OddLevels' \in Int /\ OddLevels' >= OddLevels
         /\ \A s \in PotSeats : Owed(s)' = Owed(s)
    <2>1. OddLevels \in Int /\ OddLevels' = IF Contenders = {} THEN Cardinality(Zeros) - 1 ELSE level + 1
      <3>1. PICK s \in PotSeats : TRUE
        BY <1>3 DEF PotType, NonFolded
      <3> QED BY <1>1, <1>3, <1>6, <3>1, OwedType DEF OddLevels
    <2>2. OddLevels = IF Contenders = {} THEN Cardinality(Zeros) - 1 ELSE level
      BY DEF OddLevels
    <2>3. \A s \in PotSeats : Owed(s)' = Owed(s)
      BY <1>1, <1>2, <1>6 DEF Owed, BestOf
    <2> QED BY <1>4, <2>1, <2>2, <2>3
  <1>12. Accounted(a)'
    <2> SUFFICES ASSUME NEW s \in PotSeats
                 PROVE  /\ Near((ShareUnit * won[s]) + Owed(s), Upto(s, a), OddLevels)'
                        /\ (won[s] > 0 => Upto(s, a) > 0)'
      BY DEF Accounted
    <2> DEFINE x == (ShareUnit * won[s]) + Owed(s)
               y == Upto(s, a)
    <2>1. x \in Int /\ y \in Int /\ Near(x, y, OddLevels) /\ (won[s] > 0 => y > 0)
      BY <1>3, <1>9, OwedType, SharesType DEF Accounted
    <2>2. x' = x /\ y' = y
      BY <1>1, <1>2, <1>11
    <2>4. Near(x, y, OddLevels')
      <3> DEFINE z == 0  n == OddLevels  m == OddLevels'
      <3>1. z \in Int /\ n \in Int /\ m \in Int /\ m >= n /\ Near(x, y, n)
            /\ x + z = x /\ y + z = y
        BY <1>11, <2>1
      <3> HIDE DEF x, y, z, n, m
      <3>2. Near(x + z, y + z, m)
        BY <2>1, <3>1, NearMoves
      <3> QED BY <3>1, <3>2 DEF m
    <2>5. Near(x, y, OddLevels)'
      BY <2>2, <2>4 DEF Near
    <2> QED BY <1>1, <2>1, <2>2, <2>5
  <1>13. EqualsAreNear'
    <2> SUFFICES ASSUME NEW s \in NonFolded, NEW t \in NonFolded, Equals(s, t)
                 PROVE  won'[s] - won'[t] \in 0..(OddLevelsOf(s)')
      BY <1>2 DEF EqualsAreNear
    <2>1. won[s] - won[t] \in 0..OddLevelsOf(s)
      BY <1>3 DEF EqualsAreNear
    <2>2. /\ OddLevelsOf(s) = IF left[s] = 0 THEN Cardinality(Zeros) - 1 ELSE level
          /\ OddLevelsOf(s)' = IF left[s] = 0 THEN Cardinality(Zeros) - 1 ELSE level + 1
      BY <1>1, <1>6 DEF OddLevelsOf
    <2>3. Cardinality(Zeros) \in Nat
      <3>1. Zeros \in SUBSET PotSeats
        BY DEF Zeros
      <3> QED BY <3>1, SeatsFinite
    <2> QED BY <1>1, <1>4, <2>1, <2>2, <2>3
  <1> QED BY <1>5, <1>7, <1>8, <1>9, <1>10, <1>12, <1>13 DEF PotInv

\* The types, when the chips are there after a level that had some.
LEMMA ChipLevelType ==
    ASSUME PotType, LevelsUseSeats, DistributeLevel, LevelAmount > 0,
           carry' \in Nat, won' \in [PotSeats -> Nat], pot' = carry' + Total(left)'
    PROVE  PotType' /\ LevelsUseSeats'
  <1>1. /\ level \in Nat /\ level' = level + 1 /\ left' \in [PotSeats -> Nat]
        /\ Total(left)' \in Nat /\ level + 1 <= Cardinality(Zeros')
    BY ChipLevel
  <1>2. level < N /\ N \in Nat
    BY SeatsFinite DEF DistributeLevel
  <1>3. pot' \in Nat
    BY <1>1
  <1>4. PotType'
    BY <1>1, <1>2, <1>3, HandStays DEF PotType
  <1> QED BY <1>1, <1>4 DEF LevelsUseSeats


LEMMA CarriedLevelKeeps ==
    ASSUME PotInv, DistributeLevel, LevelAmount > 0, ~IsFinalPot(LevelAmount)
    PROVE  PotInv'
  <1> DEFINE amount == LevelAmount
             n == N - level
             sum == (n * amount) + carry
             W == BestOf(Contenders)
             u == ShareUnit \div Cardinality(W)
  <1>1. PotType /\ LevelsUseSeats /\ ChipsAreThere /\ EqualsAreNear
    BY DEF PotInv
  <1>2. /\ amount \in Nat /\ amount > 0 /\ n \in Nat \ {0}
        /\ Total(left) \in Nat /\ Total(left)' \in Nat
        /\ Total(left)' = Total(left) - (n * amount)
        /\ Contenders' = {s \in Contenders : left[s] > amount}
        /\ Entitled(amount) = Contenders
    BY <1>1, ChipLevel
  <1>3. /\ paid' = paid /\ values' = values /\ NonFolded' = NonFolded
        /\ \A s, b : Upto(s, b)' = Upto(s, b)
        /\ \A s, t : Equals(s, t)' = Equals(s, t)
    BY <1>1, HandStays
  <1>4. carry' = sum /\ won' = won /\ pot' = pot
    BY <1>2 DEF DistributeLevel, CarryOver
  <1>5. Contenders # {} /\ Contenders \in SUBSET PotSeats /\ LevelWinners(amount) = W
    BY <1>2 DEF IsFinalPot, Contenders, NonFolded, LevelWinners
  <1>6. W # {} /\ W \in SUBSET Contenders
    BY <1>1, <1>5, BestExists DEF PotType
  <1>7. W \in SUBSET Contenders'
    <2>1. ASSUME NEW s \in W PROVE left[s] > amount
      <3>1. left[s] # amount
        BY <1>2, <1>5 DEF IsFinalPot
      <3>2. s \in Entitled(amount) /\ s \in PotSeats
        BY <1>2, <1>5, <1>6
      <3>3. left[s] >= amount /\ left[s] \in Nat
        BY <1>1, <3>2 DEF Entitled, PotType
      <3> QED BY <1>2, <3>1, <3>3
    <2> QED BY <1>2, <1>6, <2>1
  <1>8. BestOf(Contenders)' = W
    <2>1. Contenders' \in SUBSET Contenders
      BY <1>2
    <2> DEFINE T == Contenders'
    <2>2. BestOf(Contenders)' = BestOf(T)
      BY <1>3 DEF BestOf
    <2> HIDE DEF T
    <2>3. BestOf(T) = BestOf(Contenders)
      <3>1. T \in SUBSET Contenders /\ BestOf(Contenders) \in SUBSET T
        BY <1>7, <2>1 DEF T
      <3> QED BY <1>1, <1>5, <3>1, BestOfPart DEF PotType
    <2> QED BY <2>2, <2>3
  <1>9. carry \in Nat /\ n * amount \in Nat /\ sum \in Nat
    BY <1>1, <1>2 DEF PotType
  <1>10. ChipsAreThere'
    <2>1. pot = carry + Total(left) /\ Total(won) + pot = Total(paid)
      BY <1>1 DEF ChipsAreThere
    <2>2. pot' = carry' + Total(left)'
      <3> HIDE DEF n, amount
      <3> QED BY <1>2, <1>4, <1>9, <2>1
    <2>3. Total(won)' = Total(won) /\ Total(paid)' = Total(paid)
      BY <1>3, <1>4 DEF Total
    <2>4. Contenders' # {}
      BY <1>6, <1>7
    <2> QED BY <1>4, <2>1, <2>2, <2>3, <2>4 DEF ChipsAreThere
  <1>11. PotType' /\ LevelsUseSeats'
    <2>1. carry' \in Nat /\ won' \in [PotSeats -> Nat] /\ pot' = carry' + Total(left)'
      BY <1>1, <1>4, <1>9, <1>10 DEF PotType, ChipsAreThere
    <2> QED BY <1>1, <2>1, ChipLevelType
  <1>12. PICK a \in 0..MaxContribution : LayersGone(a) /\ Accounted(a)
    BY DEF PotInv
  <1>13. PICK b \in 0..MaxContribution : b = a + amount /\ LayersGone(b)'
    BY <1>1, <1>12, LayersGo
  <1>14. Accounted(b)'
    <2> SUFFICES ASSUME NEW s \in PotSeats
                 PROVE  /\ Near((ShareUnit * won[s]) + Owed(s), Upto(s, b), OddLevels)'
                        /\ (won[s] > 0 => Upto(s, b) > 0)'
      BY DEF Accounted
    <2> DEFINE x == (ShareUnit * won[s]) + Owed(s)
               d == IF s \in W THEN (n * amount) * u ELSE 0
               o == OddLevels
               o2 == OddLevels'
    <2>1. /\ x \in Int /\ Upto(s, a) \in Nat /\ Near(x, Upto(s, a), o)
          /\ (won[s] > 0 => Upto(s, a) > 0)
          /\ ShareUnit * won[s] \in Nat /\ Owed(s) \in Nat
      BY <1>1, <1>12, OwedType, SharesType DEF Accounted
    <2>2. Upto(s, b) = Upto(s, a) + d
      <3>1. level < N
        BY DEF DistributeLevel
      <3> QED BY <1>1, <1>5, <1>12, <1>13, <3>1, UptoGrows
    <2>3. u \in Nat
      <3>1. Cardinality(W) \in 1..N
        BY <1>1, <1>5, WinnersExist
      <3> HIDE DEF W
      <3> QED BY <3>1, ShareUnitDivides
    <2>4. d \in Nat
      BY <1>9, <2>3
    <2>5. Owed(s)' = Owed(s) + d
      <3>1. Owed(s) = IF s \in W THEN carry * u ELSE 0
        BY DEF Owed
      <3>2. Owed(s)' = IF s \in W THEN sum * u ELSE 0
        BY <1>4, <1>8 DEF Owed
      <3> HIDE DEF W, u, n, amount
      <3>3. ((n * amount) + carry) * u = ((n * amount) * u) + (carry * u)
        BY <1>9, <2>3
      <3>4. carry * u \in Nat /\ (n * amount) * u \in Nat
        BY <1>9, <2>3
      <3> QED BY <3>1, <3>2, <3>3, <3>4
    <2>6. o \in Int /\ o2 \in Int /\ o2 >= o
      <3>1. Contenders' # {}
        BY <1>6, <1>7
      <3> QED BY <1>1, <3>1, OddLevelsGrow
    <2>7. ((ShareUnit * won[s]) + Owed(s))' = x + d
      <3> HIDE DEF d
      <3> QED BY <1>4, <2>1, <2>4, <2>5
    <2>8. Near(x + d, Upto(s, a) + d, o2)
      <3> DEFINE y == Upto(s, a)
      <3>1. y \in Int /\ d \in Int /\ Near(x, y, o)
        BY <2>1, <2>4
      <3> HIDE DEF x, y, d, o, o2
      <3>2. Near(x + d, y + d, o2)
        BY <2>1, <2>6, <3>1, NearMoves
      <3> QED BY <3>2 DEF y
    <2>9. Near((ShareUnit * won[s]) + Owed(s), Upto(s, b), OddLevels)'
      <3> HIDE DEF x, d
      <3>1. Upto(s, b)' = Upto(s, a) + d
        BY <1>3, <2>2
      <3> QED BY <2>7, <2>8, <3>1 DEF Near
    <2>10. (won[s] > 0 => Upto(s, b) > 0)'
      <3> HIDE DEF d
      <3>1. won'[s] = won[s] /\ Upto(s, b)' = Upto(s, a) + d
        BY <1>3, <1>4, <2>2
      <3> QED BY <2>1, <2>4, <3>1
    <2> QED BY <2>9, <2>10
  <1>15. EqualsAreNear'
    <2> SUFFICES ASSUME NEW s \in NonFolded, NEW t \in NonFolded, Equals(s, t)
                 PROVE  won'[s] - won'[t] \in 0..(OddLevelsOf(s)')
      BY <1>3 DEF EqualsAreNear
    <2>1. won[s] - won[t] \in 0..OddLevelsOf(s)
      BY <1>1 DEF EqualsAreNear
    <2>2. OddLevelsOf(s) \in Int /\ OddLevelsOf(s)' \in Int /\ OddLevelsOf(s)' >= OddLevelsOf(s) + 1
      BY <1>1, <1>12, OddLevelsOfGrow
    <2> QED BY <1>4, <2>1, <2>2
  <1> QED BY <1>10, <1>11, <1>13, <1>14, <1>15 DEF PotInv

LEMMA FinalLevelKeeps ==
    ASSUME PotInv, DistributeLevel, LevelAmount > 0, IsFinalPot(LevelAmount)
    PROVE  PotInv'
  <1> DEFINE amount == LevelAmount
             n == N - level
             sum == (n * amount) + carry
             W == LevelWinners(amount)
             u == ShareUnit \div Cardinality(W)
             gain == [s \in PotSeats |-> IF s \in W THEN OddShare(W, sum, s) ELSE 0]
  <1>1. PotType /\ LevelsUseSeats /\ ChipsAreThere /\ EqualsAreNear
    BY DEF PotInv
  <1>2. /\ amount \in Nat /\ amount > 0 /\ n \in Nat \ {0}
        /\ Total(left) \in Nat /\ Total(left)' \in Nat
        /\ Total(left)' = Total(left) - (n * amount)
        /\ Contenders' = {s \in Contenders : left[s] > amount}
        /\ Entitled(amount) = Contenders
    BY <1>1, ChipLevel
  <1>3. /\ paid' = paid /\ values' = values /\ NonFolded' = NonFolded
        /\ \A s, b : Upto(s, b)' = Upto(s, b)
        /\ \A s, t : Equals(s, t)' = Equals(s, t)
    BY <1>1, HandStays
  <1>4. /\ carry' = 0 /\ pot' = pot - sum
        /\ won' = [s \in PotSeats |-> won[s] + gain[s]]
    <2>1. PayLevel(amount, sum)
      BY <1>2 DEF DistributeLevel
    <2> QED BY <2>1 DEF PayLevel
  <1>5. /\ W \in SUBSET NonFolded /\ W \in SUBSET PotSeats /\ W # {}
        /\ Cardinality(W) \in 1..N /\ dealer \in PotSeats
    BY <1>1, WinnersExist DEF NonFolded, PotType
  <1>6. carry \in Nat /\ n * amount \in Nat /\ sum \in Nat
    BY <1>1, <1>2 DEF PotType
  <1>7. \A s \in PotSeats : gain[s] \in Nat /\ won[s] \in Nat
    <2> TAKE s \in PotSeats
    <2>1. won[s] \in Nat
      BY <1>1 DEF PotType
    <2> HIDE DEF W, sum
    <2>2. s \in W => OddShare(W, sum, s) \in Nat
      BY <1>5, <1>6, ShareOfWinner
    <2> QED BY <2>1, <2>2
  <1>8. won' \in [PotSeats -> Nat]
    <2> HIDE DEF gain
    <2> QED BY <1>4, <1>7
  <1>9. SumFunctionOnSet(gain, PotSeats) = sum
    <2> HIDE DEF W, sum
    <2> QED BY <1>5, <1>6, SharesAddUp
  <1>10. ChipsAreThere'
    <2>1. pot = carry + Total(left) /\ Total(won) + pot = Total(paid) /\ pot \in Nat
      BY <1>1 DEF ChipsAreThere, PotType
    <2>2. pot' = carry' + Total(left)'
      <3> HIDE DEF n, amount
      <3> QED BY <1>2, <1>4, <1>6, <2>1
    <2>3. Total(won)' = Total(won) + sum /\ Total(won) \in Int
      <3>1. \A s \in PotSeats : /\ won[s] \in Int /\ gain[s] \in Int
                                /\ won'[s] = won[s] + gain[s]
        BY <1>4, <1>7
      <3> HIDE DEF gain
      <3>2. SumFunctionOnSet(won', PotSeats)
              = SumFunctionOnSet(won, PotSeats) + SumFunctionOnSet(gain, PotSeats)
        BY <3>1, SeatsFinite, SumAdds
      <3>3. Total(won) = SumFunctionOnSet(won, PotSeats)
        BY <1>1, TotalIs DEF PotType
      <3>4. Total(won)' = SumFunctionOnSet(won', PotSeats)
        <4>1. Total(won)' = SumFunctionOnSet(won', DOMAIN won')
          BY DEF Total, SumFunction
        <4> QED BY <1>8, <4>1
      <3>5. SumFunctionOnSet(won, PotSeats) \in Int
        BY <3>1, SeatsFinite, SumType
      <3> QED BY <1>9, <3>2, <3>3, <3>4, <3>5
    <2>4. Total(paid)' = Total(paid)
      BY <1>3 DEF Total
    <2>5. Total(won)' + pot' = Total(paid)'
      <3> HIDE DEF sum
      <3> QED BY <1>4, <1>6, <2>1, <2>3, <2>4
    <2> QED BY <1>4, <2>2, <2>5 DEF ChipsAreThere
  <1>11. PotType' /\ LevelsUseSeats'
    <2>1. carry' \in Nat /\ pot' = carry' + Total(left)'
      BY <1>4, <1>10 DEF ChipsAreThere
    <2> QED BY <1>1, <1>8, <2>1, ChipLevelType
  <1>12. PICK a \in 0..MaxContribution : LayersGone(a) /\ Accounted(a)
    BY DEF PotInv
  <1>13. PICK b \in 0..MaxContribution : b = a + amount /\ LayersGone(b)'
    BY <1>1, <1>12, LayersGo
  <1>14. Accounted(b)'
    <2> SUFFICES ASSUME NEW s \in PotSeats
                 PROVE  /\ Near((ShareUnit * won[s]) + Owed(s), Upto(s, b), OddLevels)'
                        /\ (won[s] > 0 => Upto(s, b) > 0)'
      BY DEF Accounted
    <2> DEFINE x == (ShareUnit * won[s]) + Owed(s)
               y == Upto(s, a)
               d == IF s \in W THEN (n * amount) * u ELSE 0
               e == IF s \in W THEN carry * u ELSE 0
               g == ShareUnit * gain[s]
               o == OddLevels
               o2 == OddLevels'
    <2>1. /\ x \in Int /\ y \in Nat /\ Near(x, y, o)
          /\ (won[s] > 0 => y > 0)
          /\ ShareUnit * won[s] \in Nat /\ Owed(s) \in Nat
      BY <1>1, <1>12, OwedType, SharesType DEF Accounted
    <2>2. Upto(s, b) = y + d
      <3>1. level < N
        BY DEF DistributeLevel
      <3> QED BY <1>1, <1>12, <1>13, <3>1, UptoGrows
    <2>3. u \in Nat \ {0}
      <3> HIDE DEF W
      <3> QED BY <1>5, ShareUnitDivides
    <2>4. d \in Nat /\ e \in Nat /\ (s \in W => d > 0)
      <3> HIDE DEF u, W, n, amount
      <3>1. (n * amount) * u \in Nat /\ carry * u \in Nat
        BY <1>6, <2>3
      <3>2. (n * amount) * u > 0
        <4>1. n * amount > 0
          BY <1>2
        <4> QED BY <1>6, <2>3, <4>1
      <3> QED BY <3>1, <3>2
    <2>5. Owed(s) = e
      <3>1. CASE Contenders # {}
        <4>1. W = BestOf(Contenders)
          BY <1>2, <3>1 DEF LevelWinners
        <4> QED BY <4>1 DEF Owed
      <3>2. CASE Contenders = {}
        <4>1. carry = 0
          BY <1>1, <1>6, <3>2 DEF ChipsAreThere
        <4>2. Owed(s) = 0
          BY <1>1, <4>1, OwedType
        <4> HIDE DEF u, W
        <4>3. carry * u = 0
          BY <2>3, <4>1
        <4> QED BY <4>2, <4>3
      <3> QED BY <3>1, <3>2
    <2>6. Owed(s)' = 0
      <3> DEFINE T == BestOf(Contenders)'  v == ShareUnit \div Cardinality(T)
      <3>1. Owed(s)' = IF s \in T THEN 0 * v ELSE 0
        BY <1>4 DEF Owed
      <3>2. T \in SUBSET PotSeats
        BY <1>2 DEF BestOf, Contenders, NonFolded
      <3> HIDE DEF T
      <3>3. s \in T => Cardinality(T) \in 1..N
        BY <3>2, SeatsFinite, FS_EmptySet
      <3>4. s \in T => v \in Nat
        BY <3>3, ShareUnitDivides
      <3> HIDE DEF v
      <3> QED BY <3>1, <3>4
    <2>7. /\ g \in Nat
          /\ g - (d + e) <= ShareUnit - 1 /\ (d + e) - g <= ShareUnit - 1
          /\ Cardinality(W) = 1 => g = d + e
      <3>1. CASE s \in W
        <4> DEFINE exact == sum * u  out == ShareUnit * OddShare(W, sum, s)
        <4>1. /\ exact \in Nat /\ out \in Nat
              /\ out - exact <= ShareUnit - 1 /\ exact - out <= ShareUnit - 1
              /\ Cardinality(W) = 1 => out = exact
          <5> HIDE DEF W, sum
          <5> QED BY <1>5, <1>6, <3>1, SharesAreNear
        <4>2. g = out
          BY <3>1
        <4>3. exact = d + e
          <5>1. d = (n * amount) * u /\ e = carry * u
            BY <3>1
          <5> HIDE DEF d, e, u, W, n, amount
          <5>2. ((n * amount) + carry) * u = ((n * amount) * u) + (carry * u)
            BY <1>6, <2>3
          <5> QED BY <5>1, <5>2
        <4> HIDE DEF exact, out, g, d, e
        <4> QED BY <4>1, <4>2, <4>3
      <3>2. CASE s \notin W
        <4>1. gain[s] = 0 /\ d = 0 /\ e = 0
          BY <3>2
        <4>2. ShareUnit \in Nat \ {0}
          BY PotAssumption
        <4>3. g = 0
          <5> HIDE DEF gain
          <5> QED BY <4>1, <4>2
        <4> HIDE DEF g, d, e
        <4> QED BY <4>1, <4>2, <4>3
      <3> QED BY <3>1, <3>2
    <2>8. /\ o \in Int /\ o2 \in Int
          /\ o2 >= o + 1 \/ (o2 >= o /\ Cardinality(W) = 1)
      BY <1>1, OddLevelsGrow
    <2>9. ((ShareUnit * won[s]) + Owed(s))' = (x - e) + g
      <3>1. ShareUnit * (won[s] + gain[s]) = (ShareUnit * won[s]) + (ShareUnit * gain[s])
        <4> HIDE DEF gain
        <4> QED BY <1>7, PotAssumption
      <3>2. won'[s] = won[s] + gain[s]
        <4> HIDE DEF gain
        <4> QED BY <1>4
      <3> HIDE DEF gain, e
      <3>3. ((ShareUnit * won[s]) + Owed(s))' = (ShareUnit * (won[s] + gain[s])) + 0
        BY <2>6, <3>2
      <3>4. x = (ShareUnit * won[s]) + e
        BY <2>5
      <3> HIDE DEF x
      <3> QED BY <2>1, <2>4, <2>7, <3>1, <3>3, <3>4
    <2>10. Near(x + (g - e), y + d, o2)
      <3> DEFINE f == g - e
      <3>1. f \in Int /\ d \in Int /\ y \in Int /\ x \in Int
        BY <2>1, <2>4, <2>7
      <3>2. Near(f, d, 1) /\ (Cardinality(W) = 1 => f = d)
        <4> HIDE DEF g, d, e
        <4>1. ShareUnit - 1 \in Int /\ 1 * (ShareUnit - 1) = ShareUnit - 1
          BY PotAssumption
        <4> QED BY <2>4, <2>7, <4>1 DEF Near
      <3> HIDE DEF f, x, y, d, o, o2, W
      <3>3. Near(x + f, y + d, o2)
        <4>1. \/ f = d /\ o2 >= o
              \/ Near(f, d, 1) /\ o2 >= o + 1
          BY <2>8, <3>2
        <4> QED BY <2>1, <2>8, <3>1, <4>1, NearMoves
      <3> QED BY <3>3 DEF f
    <2>11. Near((ShareUnit * won[s]) + Owed(s), Upto(s, b), OddLevels)'
      <3>1. Upto(s, b)' = y + d
        BY <1>3, <2>2
      <3>2. (x - e) + g = x + (g - e)
        <4> HIDE DEF x, e, g
        <4> QED BY <2>1, <2>4, <2>7
      <3> HIDE DEF x, y, d, e, g
      <3> QED BY <2>9, <2>10, <3>1, <3>2 DEF Near
    <2>12. (won[s] > 0 => Upto(s, b) > 0)'
      <3>1. Upto(s, b)' = y + d
        BY <1>3, <2>2
      <3>2. s \notin W => won'[s] = won[s]
        <4>1. s \notin W => gain[s] = 0
          OBVIOUS
        <4> HIDE DEF gain
        <4> QED BY <1>4, <1>7, <4>1
      <3> HIDE DEF y, d
      <3> QED BY <2>1, <2>4, <3>1, <3>2
    <2> QED BY <2>11, <2>12
  <1>15. EqualsAreNear'
    <2> SUFFICES ASSUME NEW s \in NonFolded, NEW t \in NonFolded, Equals(s, t)
                 PROVE  won'[s] - won'[t] \in 0..(OddLevelsOf(s)')
      BY <1>3 DEF EqualsAreNear
    <2>1. won[s] - won[t] \in 0..OddLevelsOf(s)
      BY <1>1 DEF EqualsAreNear
    <2>2. OddLevelsOf(s) \in Int /\ OddLevelsOf(s)' \in Int /\ OddLevelsOf(s)' >= OddLevelsOf(s) + 1
      BY <1>1, <1>12, OddLevelsOfGrow
    <2>3. left[s] = left[t] /\ values[s] = values[t] /\ s \in PotSeats /\ t \in PotSeats
      BY <1>1, <1>12, EqualsLeft
    <2>4. s \in W <=> t \in W
      <3>1. s \in Entitled(amount) <=> t \in Entitled(amount)
        BY <2>3 DEF Entitled
      <3> QED BY <2>3, <3>1 DEF LevelWinners, BestOf
    <2>5. gain[s] - gain[t] \in 0..1
      <3>1. CASE s \in W
        <4>1. Distance(s) < Distance(t) /\ t \in W
          BY <2>4, <3>1 DEF Equals
        <4>2. OddShare(W, sum, s) - OddShare(W, sum, t) \in 0..1
          <5> HIDE DEF W, sum
          <5> QED BY <1>5, <1>6, <3>1, <4>1, SharesDiffer
        <4>3. gain[s] = OddShare(W, sum, s) /\ gain[t] = OddShare(W, sum, t)
          BY <2>3, <3>1, <4>1
        <4> QED BY <4>2, <4>3
      <3>2. CASE s \notin W
        <4>1. gain[s] = 0 /\ gain[t] = 0
          BY <2>3, <2>4, <3>2
        <4> QED BY <4>1
      <3> QED BY <3>1, <3>2
    <2> HIDE DEF gain
    <2>6. /\ won'[s] = won[s] + gain[s] /\ won'[t] = won[t] + gain[t]
          /\ won[s] \in Nat /\ won[t] \in Nat /\ gain[s] \in Nat /\ gain[t] \in Nat
      BY <1>4, <1>7, <2>3
    <2> QED BY <2>1, <2>2, <2>5, <2>6
  <1> QED BY <1>10, <1>11, <1>13, <1>14, <1>15 DEF PotInv


\* distributePot keeps the invariant.
LEMMA PotInvStep ==
    PotInv /\ [Next]_vars => PotInv'
  <1> SUFFICES ASSUME PotInv, [Next]_vars PROVE PotInv'
    OBVIOUS
  <1>1. CASE DistributeLevel
    <2>1. LevelAmount \in Nat
      BY <1>1, LevelFacts DEF PotInv, DistributeLevel
    <2>2. CASE LevelAmount = 0
      BY <1>1, <2>2, EmptyLevelKeeps
    <2>3. CASE LevelAmount > 0 /\ IsFinalPot(LevelAmount)
      BY <1>1, <2>3, FinalLevelKeeps
    <2>4. CASE LevelAmount > 0 /\ ~IsFinalPot(LevelAmount)
      BY <1>1, <2>4, CarriedLevelKeeps
    <2> QED BY <2>1, <2>2, <2>3, <2>4
  <1>2. CASE UNCHANGED vars
    <2>1. /\ paid' = paid /\ values' = values /\ folded' = folded /\ dealer' = dealer
          /\ level' = level /\ left' = left /\ carry' = carry /\ won' = won /\ pot' = pot
      BY <1>2 DEF vars
    <2>2. /\ NonFolded' = NonFolded /\ Zeros' = Zeros /\ Contenders' = Contenders
          /\ \A S : BestOf(S)' = BestOf(S)
          /\ \A s : Distance(s)' = Distance(s)
      BY <2>1 DEF NonFolded, Zeros, Contenders, BestOf, Distance
    <2>3. PotType' /\ LevelsUseSeats' /\ ChipsAreThere'
      BY <2>1, <2>2 DEF PotInv, PotType, LevelsUseSeats, ChipsAreThere, Total
    <2>4. EqualsAreNear'
      BY <2>1, <2>2 DEF PotInv, EqualsAreNear, Equals, OddLevelsOf
    <2>5. PICK a \in 0..MaxContribution : LayersGone(a) /\ Accounted(a)
      BY DEF PotInv
    <2>6. LayersGone(a)'
      BY <2>1, <2>5 DEF LayersGone
    <2>7. Accounted(a)'
      <3>1. \A k : LayerOwners(k)' = LayerOwners(k)
        BY <2>1, <2>2 DEF LayerOwners, BestOf
      <3>2. \A k, s : LayerShare(k, s)' = LayerShare(k, s)
        BY <2>1, <3>1 DEF LayerShare
      <3>3. \A s : Upto(s, a)' = Upto(s, a)
        BY <3>2 DEF Upto, Shares
      <3>4. OddLevels' = OddLevels
        BY <2>1, <2>2 DEF OddLevels
      <3>5. \A s : Owed(s)' = Owed(s)
        BY <2>1, <2>2 DEF Owed, BestOf
      <3> QED BY <2>1, <2>5, <3>3, <3>4, <3>5 DEF Accounted, Near
    <2> QED BY <2>3, <2>4, <2>5, <2>6, <2>7 DEF PotInv
  <1> QED BY <1>1, <1>2 DEF Next, Distributed

\* When the loop is over nobody has anything left.
LEMMA PotIsEmptyAtTheEnd ==
    ASSUME PotInv, level = N
    PROVE  /\ \A s \in PotSeats : left[s] = 0
           /\ Cardinality(Zeros) = N /\ Contenders = {}
           /\ carry = 0 /\ pot = 0
  <1>1. PotType /\ LevelsUseSeats /\ ChipsAreThere
    BY DEF PotInv
  <1>2. Zeros \in SUBSET PotSeats
    BY DEF Zeros
  <1>3. Cardinality(Zeros) = N /\ Zeros = PotSeats
    <2>1. Cardinality(Zeros) = Cardinality(PotSeats)
      BY <1>1, <1>2, SeatsFinite DEF LevelsUseSeats
    <2> QED BY <1>2, <2>1, SeatsFinite, FS_Subset
  <1>4. \A s \in PotSeats : left[s] = 0
    BY <1>3 DEF Zeros
  <1>5. Contenders = {}
    BY <1>4 DEF Contenders, NonFolded
  <1>6. carry = 0
    BY <1>1, <1>5 DEF ChipsAreThere, PotType
  <1>7. Total(left) = 0
    <2> DEFINE zero == 0  nobody == {}
    <2>1. zero \in Int /\ \A s \in PotSeats : left[s] = IF s \in nobody THEN zero ELSE 0
      BY <1>4
    <2> HIDE DEF zero, nobody
    <2>2. SumFunctionOnSet(left, PotSeats) = zero * Cardinality(PotSeats \cap nobody)
      BY <2>1, SeatsFinite, SumOfEqualTerms
    <2>3. PotSeats \cap nobody = {} /\ Cardinality({}) = 0 /\ zero * 0 = 0
      BY FS_EmptySet DEF zero, nobody
    <2>4. Total(left) = SumFunctionOnSet(left, PotSeats)
      BY <1>1, TotalIs DEF PotType
    <2> QED BY <2>2, <2>3, <2>4
  <1> QED BY <1>1, <1>3, <1>4, <1>5, <1>6, <1>7 DEF ChipsAreThere

LEMMA PotInvIsExact ==
    PotInv => SharesAreExact
  <1> SUFFICES ASSUME PotInv PROVE SharesAreExact
    OBVIOUS
  <1>1. PotType /\ LevelsUseSeats /\ ChipsAreThere /\ EqualsAreNear
    BY DEF PotInv
  <1>2. PICK a \in 0..MaxContribution : LayersGone(a) /\ Accounted(a)
    BY DEF PotInv
  <1>3. PotIsPaidOut
    BY <1>1, PotIsEmptyAtTheEnd DEF PotIsPaidOut, ChipsAreThere, PotType
  <1>4. LayersAreShared
    <2> SUFFICES ASSUME level = N, NEW s \in PotSeats
                 PROVE  /\ ShareUnit * won[s] - ExactShare(s) < ShareUnit * (N - 1)
                        /\ ExactShare(s) - ShareUnit * won[s] < ShareUnit * (N - 1)
                        /\ ExactShare(s) = 0 => won[s] = 0
      BY DEF LayersAreShared
    <2> DEFINE x == ShareUnit * won[s]  y == ExactShare(s)
    <2>1. /\ \A p \in PotSeats : left[p] = 0
          /\ Cardinality(Zeros) = N /\ Contenders = {} /\ carry = 0
      BY PotIsEmptyAtTheEnd
    <2>2. y = Upto(s, a) /\ y \in Nat
      BY <1>1, <1>2, <2>1, NoLayerLeft, SharesType
    <2>3. Owed(s) = 0 /\ x \in Nat /\ OddLevels = N - 1
      BY <1>1, <2>1, OwedType DEF OddLevels
    <2>4. Near(x, y, N - 1) /\ (won[s] > 0 => y > 0)
      <3>1. Near(x + Owed(s), Upto(s, a), OddLevels) /\ (won[s] > 0 => Upto(s, a) > 0)
        BY <1>2 DEF Accounted
      <3> HIDE DEF x, y
      <3>2. x + Owed(s) = x
        BY <2>3
      <3> QED BY <2>2, <2>3, <3>1, <3>2
    <2>5. won[s] \in Nat
      BY <1>1 DEF PotType
    <2> HIDE DEF x, y
    <2>6. (N - 1) * (ShareUnit - 1) < ShareUnit * (N - 1)
      <3>1. N - 1 \in Nat \ {0} /\ ShareUnit \in Nat \ {0}
        BY SeatsFinite, PotAssumption
      <3> DEFINE i == N - 1  j == i * (ShareUnit - 1)  k == ShareUnit * i
      <3>2. i \in Nat \ {0}
        BY <3>1
      <3> HIDE DEF i
      <3>3. j \in Int /\ k = j + i
        BY <3>1, <3>2
      <3> HIDE DEF j, k
      <3>4. j < k
        BY <3>2, <3>3
      <3> QED BY <3>4 DEF i, j, k
    <2>7. x - y < ShareUnit * (N - 1) /\ y - x < ShareUnit * (N - 1)
      <3>1. (N - 1) * (ShareUnit - 1) \in Int /\ ShareUnit * (N - 1) \in Int
        BY SeatsFinite, PotAssumption
      <3>2. x - y <= (N - 1) * (ShareUnit - 1) /\ y - x <= (N - 1) * (ShareUnit - 1)
        BY <2>4 DEF Near
      <3> QED BY <2>2, <2>3, <2>6, <3>1, <3>2
    <2>8. y = 0 => won[s] = 0
      BY <2>2, <2>4, <2>5
    <2> QED BY <2>7, <2>8 DEF x, y
  <1>5. EqualsShareAlike
    <2> SUFFICES ASSUME level = N, NEW s \in NonFolded, NEW t \in NonFolded,
                        paid[s] = paid[t], values[s] = values[t], Distance(s) < Distance(t)
                 PROVE  won[s] - won[t] \in 0..(N - 1)
      BY DEF EqualsShareAlike
    <2>1. won[s] - won[t] \in 0..OddLevelsOf(s)
      BY <1>1 DEF EqualsAreNear, Equals
    <2>2. OddLevelsOf(s) = N - 1
      BY PotIsEmptyAtTheEnd DEF OddLevelsOf, NonFolded
    <2> QED BY <2>1, <2>2
  <1> QED BY <1>3, <1>4, <1>5 DEF SharesAreExact

\* For any number of seats, contributions and hands, distributePot
\* (localboard.cpp) pays out the whole pot, as the chip layers divide it but for
\* the odd chips, and gives equal hands with equal contributions the same.
THEOREM SharesStayExact == Spec => []SharesAreExact
  <1>1. Init => PotInv
    BY PotInvInit
  <1>2. PotInv /\ [Next]_vars => PotInv'
    BY PotInvStep
  <1>3. PotInv => SharesAreExact
    BY PotInvIsExact
  <1> QED BY <1>1, <1>2, <1>3, PTL DEF Spec


(***************************************************************************)
(* Who shows                                                               *)
(***************************************************************************)

\* One step of the fold over the seats q.
ShowBody(b, q, it, T) ==
    IF T = {} THEN b ELSE VisitSeat(it[T \ {Max(T)}], q[Max(T)])

ShowSolves(b, q, it) == it = [T \in SUBSET DOMAIN q |-> ShowBody(b, q, it, T)]

LEMMA ShowChooses ==
    ASSUME NEW b, NEW q
    PROVE  FoldLeft(VisitSeat, b, q) = (CHOOSE it : ShowSolves(b, q, it))[DOMAIN q]
  BY DEF FoldLeft, MapThenFoldSet, ShowBody, ShowSolves

LEMMA LastPlace ==
    ASSUME NEW T \in SUBSET (1..N), T # {}
    PROVE  Max(T) \in T /\ \A i \in T : i <= Max(T)
  <1> DEFINE before == {N - i : i \in T}
  <1>1. N \in Nat /\ \A i \in T : i \in Int /\ i <= N
    BY SeatsFinite
  <1>2. before \subseteq Nat /\ before # {}
    <2>1. \A i \in T : N - i \in Nat
      BY <1>1
    <2> QED BY <2>1
  <1>3. PICK x \in before : \A y \in before : x <= y
    BY <1>2, LeastNumber
  <1>4. PICK j \in T : x = N - j
    OBVIOUS
  <1>5. \A i \in T : j >= i
    <2> TAKE i \in T
    <2>1. x <= N - i
      BY <1>3
    <2> QED BY <1>1, <1>4, <2>1
  <1>6. Max(T) = CHOOSE m \in T : \A i \in T : m >= i
    BY DEF Max
  <1>7. Max(T) \in T /\ \A i \in T : Max(T) >= i
    BY <1>5, <1>6
  <1> QED BY <1>1, <1>7

LEMMA ShowBodyLocal ==
    ASSUME NEW b, NEW q, NEW g, NEW h, NEW T \in SUBSET (1..N),
           \A U \in SUBSET (1..N) : Cardinality(U) < Cardinality(T) => g[U] = h[U]
    PROVE  ShowBody(b, q, g, T) = ShowBody(b, q, h, T)
  <1>1. CASE T = {}
    BY <1>1 DEF ShowBody
  <1>2. CASE T # {}
    <2> DEFINE x == Max(T)
    <2>1. x \in T
      BY <1>2, LastPlace
    <2>2. IsFiniteSet(T)
      <3>1. IsFiniteSet(1..N)
        BY SeatsFinite, FS_Interval
      <3> QED BY <3>1, FS_Subset
    <2> HIDE DEF x
    <2>3. Cardinality(T \ {x}) = Cardinality(T) - 1 /\ Cardinality(T) \in Nat
      BY <2>1, <2>2, FS_RemoveElement, FS_CardinalityType
    <2>4. g[T \ {x}] = h[T \ {x}]
      <3>1. Cardinality(T \ {x}) < Cardinality(T)
        BY <2>3
      <3>2. T \ {x} \in SUBSET (1..N)
        OBVIOUS
      <3> QED BY <3>1, <3>2
    <2> QED BY <1>2, <2>4 DEF ShowBody, x
  <1> QED BY <1>1, <1>2

LEMMA ShowHasSolution ==
    ASSUME NEW b, NEW q, DOMAIN q = 1..N
    PROVE  \E it : ShowSolves(b, q, it)
  <1> DEFINE D == 1..N
             Few(n) == {T \in SUBSET D : Cardinality(T) <= n}
             Q == {n \in Nat : \E it : \A T \in Few(n) : it[T] = ShowBody(b, q, it, T)}
  <1>0. \A T \in SUBSET D : Cardinality(T) \in Nat /\ Cardinality(T) <= Cardinality(D)
    <2>1. IsFiniteSet(D)
      BY SeatsFinite, FS_Interval
    <2> HIDE DEF D
    <2> QED BY <2>1, FS_Subset, FS_CardinalityType
  <1>1. ASSUME NEW n \in Nat, NEW it,
               \A T \in SUBSET D : Cardinality(T) < n => it[T] = ShowBody(b, q, it, T)
        PROVE  n \in Q
    <2> DEFINE g == [T \in SUBSET D |-> ShowBody(b, q, it, T)]
    <2>1. ASSUME NEW T \in Few(n)
          PROVE  g[T] = ShowBody(b, q, g, T)
      <3>1. T \in SUBSET D /\ g[T] = ShowBody(b, q, it, T)
        OBVIOUS
      <3>2. ASSUME NEW U \in SUBSET D, Cardinality(U) < Cardinality(T)
            PROVE  it[U] = g[U]
        BY <1>0, <1>1, <3>2
      <3> HIDE DEF g
      <3>3. ShowBody(b, q, it, T) = ShowBody(b, q, g, T)
        BY <3>1, <3>2, ShowBodyLocal
      <3> QED BY <3>1, <3>3
    <2> HIDE DEF g, Few
    <2> QED BY <2>1
  <1>2. 0 \in Q
    <2>1. \A T \in SUBSET D : ~(Cardinality(T) < 0)
      BY <1>0
    <2> HIDE DEF Q
    <2> QED BY <1>1, <2>1
  <1>3. \A n \in Nat : n \in Q => n + 1 \in Q
    <2> SUFFICES ASSUME NEW n \in Q PROVE n + 1 \in Q
      OBVIOUS
    <2>1. PICK it : \A T \in Few(n) : it[T] = ShowBody(b, q, it, T)
      OBVIOUS
    <2>2. n \in Nat /\ n + 1 \in Nat
      OBVIOUS
    <2>3. \A T \in SUBSET D : Cardinality(T) < n + 1 => it[T] = ShowBody(b, q, it, T)
      <3> HIDE DEF D
      <3> QED BY <1>0, <2>1, <2>2
    <2> HIDE DEF Q, Few
    <2> QED BY <1>1, <2>2, <2>3
  <1>4. Cardinality(D) \in Q
    <2> HIDE DEF Q
    <2> QED BY <1>0, <1>2, <1>3, NumbersByInduction
  <1>5. PICK it : \A T \in Few(Cardinality(D)) : it[T] = ShowBody(b, q, it, T)
    BY <1>4
  <1>6. \A T \in SUBSET D : it[T] = ShowBody(b, q, it, T)
    BY <1>0, <1>5
  <1> DEFINE h == [T \in SUBSET D |-> it[T]]
  <1>7. ASSUME NEW T \in SUBSET D PROVE h[T] = ShowBody(b, q, h, T)
    <2>1. \A U \in SUBSET D : it[U] = h[U]
      OBVIOUS
    <2>2. h[T] = ShowBody(b, q, it, T)
      BY <1>6
    <2> HIDE DEF h
    <2> QED BY <2>1, <2>2, ShowBodyLocal
  <1>8. h = [T \in SUBSET D |-> h[T]]
    OBVIOUS
  <1> HIDE DEF h
  <1>9. [T \in SUBSET D |-> h[T]] = [T \in SUBSET D |-> ShowBody(b, q, h, T)]
    BY <1>7
  <1> QED BY <1>8, <1>9 DEF ShowSolves

\* A visit shows the seat, if it has not folded, whatever was shown before.
LEMMA VisitShows ==
    ASSUME NEW acc, "shown" \in DOMAIN acc, NEW s
    PROVE  /\ "shown" \in DOMAIN VisitSeat(acc, s)
           /\ VisitSeat(acc, s).shown = acc.shown \cup ({s} \ folded)
  <1>1. CASE s \in folded
    BY <1>1 DEF VisitSeat
  <1>2. CASE s \notin folded
    <2> DEFINE new == [shown |-> acc.shown \cup {s},
                       levels |-> InsertLevel(acc.levels, s,
                                    Min({k \in DOMAIN acc.levels : DecidesFor(acc.levels, s, k)}))]
               same == [acc EXCEPT !.shown = @ \cup {s}]
    <2>1. VisitSeat(acc, s) = new \/ VisitSeat(acc, s) = same
      BY <1>2 DEF VisitSeat
    <2>2. "shown" \in DOMAIN new /\ new.shown = acc.shown \cup {s}
      OBVIOUS
    <2>3. "shown" \in DOMAIN same /\ same.shown = acc.shown \cup {s}
      OBVIOUS
    <2>4. {s} \ folded = {s}
      BY <1>2
    <2> HIDE DEF new, same
    <2> QED BY <2>1, <2>2, <2>3, <2>4
  <1> QED BY <1>1, <1>2

LEMMA RoundTheTable ==
    ASSUME NEW f \in PotSeats
    PROVE  /\ DOMAIN AroundFrom(f) = 1..N
           /\ \A i \in 1..N : AroundFrom(f)[i] \in PotSeats
           /\ \A s \in PotSeats : \E i \in 1..N : AroundFrom(f)[i] = s
  <1>1. N \in Nat \ {0} /\ f \in Nat /\ f < N
    BY SeatsFinite DEF PotSeats
  <1>2. \A i \in 1..N : AroundFrom(f)[i] = (f + i) % N
    BY DEF AroundFrom
  <1>3. ASSUME NEW i \in 1..N PROVE (f + i) % N \in PotSeats
    <2>1. f + i \in Nat
      BY <1>1
    <2>2. (f + i) % N \in Nat /\ (f + i) % N < N
      BY <1>1, <2>1, DivMod
    <2> QED BY <1>1, <2>2 DEF PotSeats
  <1>4. ASSUME NEW s \in PotSeats PROVE \E i \in 1..N : AroundFrom(f)[i] = s
    <2>1. s \in Nat /\ s < N
      BY <1>1 DEF PotSeats
    <2>2. s % N = s /\ (s + N) % N = s
      BY <1>1, <2>1
    <2>3. CASE s > f
      <3>1. s - f \in 1..N /\ f + (s - f) = s
        BY <1>1, <2>1, <2>3
      <3> QED BY <1>2, <2>2, <3>1
    <2>4. CASE ~(s > f)
      <3>1. (s + N) - f \in 1..N /\ f + ((s + N) - f) = s + N
        BY <1>1, <2>1, <2>4
      <3> QED BY <1>2, <2>2, <3>1
    <2> QED BY <2>3, <2>4
  <1> QED BY <1>2, <1>3, <1>4 DEF AroundFrom

LEMMA EverybodyShows ==
    ASSUME PotType, NEW allIn, NEW last
    PROVE  SeatsThatShow(allIn, last) = NonFolded
  <1> DEFINE first == FirstToShow(last)
             q == AroundFrom(first)
             b == [shown |-> {first}, levels |-> <<LevelOf(first)>>]
             it == CHOOSE f : ShowSolves(b, q, f)
             Visited(n) == {first} \cup {s \in NonFolded : \E i \in 1..n : q[i] = s}
  <1>1. NonFolded \in SUBSET PotSeats /\ NonFolded # {} /\ NonFolded = PotSeats \ folded
    BY DEF PotType, NonFolded
  <1>2. first \in NonFolded /\ first \in PotSeats
    <2>1. NonFolded \subseteq Nat
      <3>1. N \in Nat
        BY SeatsFinite
      <3> QED BY <1>1, <3>1 DEF PotSeats
    <2>2. \E m \in NonFolded : \A s \in NonFolded : m <= s
      BY <1>1, <2>1, LeastNumber
    <2>3. Min(NonFolded) \in NonFolded
      BY <2>2 DEF Min
    <2> QED BY <1>1, <2>3 DEF FirstToShow
  <1>3. /\ DOMAIN q = 1..N
        /\ \A i \in 1..N : q[i] \in PotSeats
        /\ \A s \in PotSeats : \E i \in 1..N : q[i] = s
    BY <1>2, RoundTheTable
  <1>4. "shown" \in DOMAIN b /\ b.shown = {first}
    OBVIOUS
  <1>5. SeatsThatShow(allIn, last) = NonFolded \/ SeatsThatShow(allIn, last) = it[1..N].shown
    <2>1. FoldLeft(VisitSeat, b, q) = it[DOMAIN q]
      BY ShowChooses
    <2> QED BY <1>3, <2>1 DEF SeatsThatShow
  <1> HIDE DEF first, q, b
  <1>6. \A T \in SUBSET (1..N) : it[T] = ShowBody(b, q, it, T)
    <2>1. ShowSolves(b, q, it)
      BY <1>3, ShowHasSolution
    <2> HIDE DEF it
    <2> QED BY <1>3, <2>1 DEF ShowSolves
  <1> HIDE DEF it
  <1> DEFINE Q == {n \in Nat : n <= N => /\ "shown" \in DOMAIN it[1..n]
                                         /\ it[1..n].shown = Visited(n)}
  <1>7. N \in Nat
    BY SeatsFinite
  <1>8. 0 \in Q
    <2>1. 1..0 = {} /\ {} \in SUBSET (1..N)
      OBVIOUS
    <2>2. it[1..0] = b
      BY <1>6, <2>1 DEF ShowBody
    <2>3. Visited(0) = {first}
      BY <2>1
    <2> QED BY <1>4, <2>2, <2>3
  <1>9. ASSUME NEW n \in Q PROVE n + 1 \in Q
    <2> SUFFICES ASSUME n + 1 <= N
                 PROVE  /\ "shown" \in DOMAIN it[1..(n + 1)]
                        /\ it[1..(n + 1)].shown = Visited(n + 1)
      OBVIOUS
    <2>1. n \in Nat /\ "shown" \in DOMAIN it[1..n] /\ it[1..n].shown = Visited(n)
      BY <1>7
    <2> DEFINE T == 1..(n + 1)
    <2>2. T \in SUBSET (1..N) /\ T # {} /\ n + 1 \in T /\ \A i \in T : i \in Int /\ i <= n + 1
      BY <1>7, <2>1
    <2>3. T \ {n + 1} = 1..n
      BY <2>1
    <2> HIDE DEF T, Visited
    <2>4. Max(T) = n + 1
      <3> DEFINE m == Max(T)
      <3>1. m \in T /\ n + 1 <= m
        BY <2>2, LastPlace
      <3> HIDE DEF m
      <3>2. m \in Int /\ m <= n + 1
        BY <2>2, <3>1
      <3>3. m = n + 1
        BY <2>1, <3>1, <3>2
      <3> QED BY <3>3 DEF m
    <2>5. it[T] = VisitSeat(it[1..n], q[n + 1])
      BY <1>6, <2>2, <2>3, <2>4 DEF ShowBody
    <2>6. "shown" \in DOMAIN it[T] /\ it[T].shown = Visited(n) \cup ({q[n + 1]} \ folded)
      BY <2>1, <2>5, VisitShows
    <2>7. Visited(n + 1) = Visited(n) \cup ({q[n + 1]} \ folded)
      <3>1. n + 1 \in 1..N /\ q[n + 1] \in PotSeats
        BY <1>3, <1>7, <2>1
      <3>2. \A s : (\E i \in 1..(n + 1) : q[i] = s) <=> ((\E i \in 1..n : q[i] = s) \/ q[n + 1] = s)
        <4>1. 1..(n + 1) = (1..n) \cup {n + 1}
          BY <2>1
        <4> QED BY <4>1
      <3> QED BY <1>1, <3>1, <3>2 DEF Visited
    <2> QED BY <2>6, <2>7 DEF T
  <1>10. N \in Q
    <2> HIDE DEF Q
    <2> QED BY <1>7, <1>8, <1>9, NumbersByInduction
  <1>11. it[1..N].shown = Visited(N)
    BY <1>7, <1>10
  <1>12. Visited(N) = NonFolded
    BY <1>1, <1>2, <1>3
  <1> QED BY <1>5, <1>11, <1>12

\* For any number of seats, whoever is left in the hand when it is shown down
\* has to show, and nobody else (determinePlayerNeedToShowCards).
THEOREM ShowdownIsComplete == Spec => []AllInTheHandShow
  <1>1. Init => PotInv
    BY PotInvInit
  <1>2. PotInv /\ [Next]_vars => PotInv'
    BY PotInvStep
  <1>3. PotInv => AllInTheHandShow
    BY EverybodyShows DEF PotInv, AllInTheHandShow
  <1> QED BY <1>1, <1>2, <1>3, PTL DEF Spec

=============================================================================
