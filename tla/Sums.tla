-------------------------------- MODULE Sums --------------------------------
(***************************************************************************)
(* Sums over finite sets, as Functions has them, for the theorems about    *)
(* the ledger and the statistics: SumFunctionOnSet(f, S) picks one element *)
(* after another, and what it returns does not depend on the order.        *)
(*                                                                         *)
(* An induction is carried out on a set: were a fact false of some subset, *)
(* it would be false of a smallest one.                                    *)
(***************************************************************************)
EXTENDS FiniteSetsExt, FiniteSetTheorems, WellFoundedInduction, TLAPS

-----------------------------------------------------------------------------
(***************************************************************************)
(* Smallest numbers and sets.                                              *)
(***************************************************************************)
LEMMA SmallestOf ==
    ASSUME NEW T, T \subseteq Nat, T # {}
    PROVE  \E n \in T : \A m \in T : n <= m
  <1> DEFINE R == OpToRel(<, Nat)
  <1>1. IsWellFoundedOn(R, Nat)
    BY NatLessThanWellFounded
  <1>2. \A x, y \in Nat : x < y => <<x, y>> \in R
    BY DEF OpToRel
  <1> HIDE DEF R
  <1>3. PICK n \in T : \A m \in T : ~(<<m, n>> \in R)
    BY <1>1, WFMin
  <1>4. \A m \in T : m \in Nat /\ n \in Nat /\ ~(m < n)
    BY <1>2, <1>3
  <1>5. \A m \in T : n <= m
    BY <1>4
  <1> QED
    BY <1>3, <1>5

\* Of some subsets of a finite set one becomes none of them by losing an element.
LEMMA SmallestSubset ==
    ASSUME NEW S, IsFiniteSet(S), NEW D, D \subseteq SUBSET S, D # {}
    PROVE  \E T \in D : \A x \in T : T \ {x} \notin D
  <1> DEFINE sizes == {Cardinality(T) : T \in D}
  <1>1. \A T \in D : IsFiniteSet(T) /\ Cardinality(T) \in Nat
    BY FS_Subset, FS_CardinalityType
  <1>2. sizes \subseteq Nat /\ sizes # {}
    BY <1>1
  <1>3. \A T \in D : Cardinality(T) \in sizes
    OBVIOUS
  <1>4. \A n \in sizes : \E T \in D : n = Cardinality(T)
    OBVIOUS
  <1> HIDE DEF sizes
  <1>5. PICK n \in sizes : \A m \in sizes : n <= m
    BY <1>2, SmallestOf
  <1>6. PICK T \in D : n = Cardinality(T)
    BY <1>4, <1>5
  <1>7. ASSUME NEW x \in T, T \ {x} \in D PROVE FALSE
    <2>1. Cardinality(T \ {x}) = n - 1
      BY <1>1, <1>6, FS_RemoveElement
    <2>2. n <= n - 1 /\ n \in Nat
      BY <1>1, <1>3, <1>5, <1>6, <1>7, <2>1
    <2> QED
      BY <2>2
  <1> QED
    BY <1>7

-----------------------------------------------------------------------------
(***************************************************************************)
(* The recursive function behind a sum exists, and is one for all sets.    *)
(***************************************************************************)
Picked(s) == CHOOSE x \in s : TRUE

Folded(f, g, s) == IF s = {} THEN 0 ELSE f[Picked(s)] + g[s \ {Picked(s)}]

Folding(f, S, g) == g = [s \in SUBSET S |-> Folded(f, g, s)]

LEMMA SumUnfolds ==
    ASSUME NEW f, NEW S, \E g : Folding(f, S, g)
    PROVE  \E g : Folding(f, S, g) /\ SumFunctionOnSet(f, S) = g[S]
  <1> DEFINE it == CHOOSE g : Folding(f, S, g)
  <1>1. Folding(f, S, it)
    OBVIOUS
  <1>2. SumFunctionOnSet(f, S) = it[S]
    BY DEF SumFunctionOnSet, FoldFunctionOnSet, MapThenFoldSet, Folding, Folded, Picked
  <1> QED
    BY <1>1, <1>2

\* There is one for the subsets of at most n elements, from one for those of less.
LEMMA FoldingExists ==
    ASSUME NEW S, IsFiniteSet(S), NEW f, \A x \in S : f[x] \in Int
    PROVE  \E g \in [SUBSET S -> Int] : Folding(f, S, g)
  <1> DEFINE Upto(n) == {s \in SUBSET S : Cardinality(s) <= n}
             Good(n) == \E g \in [Upto(n) -> Int] : \A s \in Upto(n) : g[s] = Folded(f, g, s)
             Bad == {n \in Nat : ~Good(n)}
  <1>1. \A s \in SUBSET S : IsFiniteSet(s) /\ Cardinality(s) \in Nat
    BY FS_Subset, FS_CardinalityType
  <1>2. \A s \in SUBSET S : s # {} => Picked(s) \in s
    BY DEF Picked
  <1>3. Good(0)
    <2>1. \A s \in Upto(0) : s = {}
      BY <1>1, FS_EmptySet
    <2> DEFINE zero == [s \in Upto(0) |-> 0]
    <2>2. zero \in [Upto(0) -> Int]
      OBVIOUS
    <2>3. \A s \in Upto(0) : zero[s] = Folded(f, zero, s)
      BY <2>1 DEF Folded
    <2> HIDE DEF zero
    <2> QED
      BY <2>2, <2>3
  <1>4. ASSUME NEW n \in Nat, Good(n) PROVE Good(n + 1)
    <2>1. PICK g \in [Upto(n) -> Int] : \A s \in Upto(n) : g[s] = Folded(f, g, s)
      BY <1>4
    <2> DEFINE h == [s \in Upto(n + 1) |-> Folded(f, g, s)]
    <2>2. \A s \in Upto(n + 1) : s # {} => s \ {Picked(s)} \in Upto(n)
      BY <1>1, <1>2, FS_RemoveElement
    <2>3. h \in [Upto(n + 1) -> Int]
      BY <1>2, <2>2 DEF Folded
    <2>4. Upto(n) \subseteq Upto(n + 1)
      BY <1>1
    <2>5. \A s \in Upto(n) : h[s] = g[s]
      BY <2>1, <2>4
    <2>6. \A s \in Upto(n + 1) : h[s] = Folded(f, h, s)
      BY <2>2, <2>5 DEF Folded
    <2> QED
      BY <2>3, <2>6
  <1>5. Bad = {}
    <2> SUFFICES ASSUME Bad # {} PROVE FALSE
      OBVIOUS
    <2>1. PICK n \in Bad : \A m \in Bad : n <= m
      BY SmallestOf
    <2>2. n \in Nat /\ ~Good(n)
      OBVIOUS
    <2> HIDE DEF Good
    <2>3. n # 0
      BY <1>3, <2>2
    <2>4. n - 1 \in Nat /\ ~(n <= n - 1) /\ (n - 1) + 1 = n
      BY <2>2, <2>3
    <2>5. Good(n - 1)
      BY <2>1, <2>4
    <2> QED
      BY <1>4, <2>2, <2>4, <2>5
  <1>6. Good(Cardinality(S))
    BY <1>1, <1>5
  <1>7. Upto(Cardinality(S)) = SUBSET S
    BY FS_Subset, FS_CardinalityType
  <1> QED
    BY <1>6, <1>7 DEF Folding

LEMMA FoldingsAgree ==
    ASSUME NEW S, IsFiniteSet(S), NEW T, T \subseteq S, NEW f, NEW g, NEW h,
           Folding(f, S, g), Folding(f, T, h)
    PROVE  g[T] = h[T]
  <1> DEFINE D == {s \in SUBSET T : g[s] # h[s]}
  <1> SUFFICES ASSUME D # {} PROVE FALSE
    OBVIOUS
  <1>1. IsFiniteSet(T) /\ D \subseteq SUBSET T
    BY FS_Subset
  <1>2. PICK s \in D : \A x \in s : s \ {x} \notin D
    BY <1>1, SmallestSubset
  <1>3. g[s] = Folded(f, g, s) /\ h[s] = Folded(f, h, s)
    BY DEF Folding
  <1>4. s # {}
    BY <1>3 DEF Folded
  <1>5. Picked(s) \in s
    BY <1>4 DEF Picked
  <1>6. g[s \ {Picked(s)}] = h[s \ {Picked(s)}]
    BY <1>2, <1>5
  <1> QED
    BY <1>3, <1>6 DEF Folded

-----------------------------------------------------------------------------
(***************************************************************************)
(* Sums.                                                                   *)
(***************************************************************************)
\* A sum of numbers is a number; without its picked element it is one of the rest.
LEMMA SumPicks ==
    ASSUME NEW S, IsFiniteSet(S), NEW f, \A x \in S : f[x] \in Int
    PROVE  /\ SumFunctionOnSet(f, S) \in Int
           /\ S = {} => SumFunctionOnSet(f, S) = 0
           /\ S # {} => /\ Picked(S) \in S
                        /\ SumFunctionOnSet(f, S) =
                              f[Picked(S)] + SumFunctionOnSet(f, S \ {Picked(S)})
  <1>1. PICK g \in [SUBSET S -> Int] : Folding(f, S, g)
    BY FoldingExists
  <1>2. \A T \in SUBSET S : SumFunctionOnSet(f, T) = g[T]
    <2> SUFFICES ASSUME NEW T \in SUBSET S PROVE SumFunctionOnSet(f, T) = g[T]
      OBVIOUS
    <2>1. IsFiniteSet(T) /\ \A x \in T : f[x] \in Int
      BY FS_Subset
    <2>2. \E h : Folding(f, T, h)
      BY <2>1, FoldingExists
    <2>3. PICK h : Folding(f, T, h) /\ SumFunctionOnSet(f, T) = h[T]
      BY <2>2, SumUnfolds
    <2>4. g[T] = h[T]
      BY <1>1, <2>3, FoldingsAgree
    <2> QED
      BY <2>3, <2>4
  <1>3. g[S] = Folded(f, g, S)
    BY <1>1 DEF Folding
  <1>4. S # {} => Picked(S) \in S
    BY DEF Picked
  <1> QED
    BY <1>1, <1>2, <1>3, <1>4 DEF Folded

\* The order is of no account: any element may be taken out.
LEMMA SumSplits ==
    ASSUME NEW S, IsFiniteSet(S), NEW f, \A x \in S : f[x] \in Int
    PROVE  /\ SumFunctionOnSet(f, S) \in Int
           /\ \A x \in S : SumFunctionOnSet(f, S) = f[x] + SumFunctionOnSet(f, S \ {x})
  <1> DEFINE Sum(T) == SumFunctionOnSet(f, T)
             Splits(T) == \A x \in T : Sum(T) = f[x] + Sum(T \ {x})
             D == {T \in SUBSET S : ~Splits(T)}
  <1>1. \A T \in SUBSET S :
           /\ Sum(T) \in Int
           /\ T # {} => Picked(T) \in T /\ Sum(T) = f[Picked(T)] + Sum(T \ {Picked(T)})
    BY FS_Subset, SumPicks
  <1>2. ASSUME D # {} PROVE FALSE
    <2> HIDE DEF Splits
    <2>1. PICK T \in D : \A x \in T : T \ {x} \notin D
      BY <1>2, SmallestSubset
    <2> USE DEF Splits
    <2>2. PICK x \in T : Sum(T) # f[x] + Sum(T \ {x})
      OBVIOUS
    <2> DEFINE p == Picked(T)
    <2>3. p \in T /\ Sum(T) = f[p] + Sum(T \ {p})
      BY <1>1, <2>2
    <2>4. x # p
      BY <2>2, <2>3
    <2>5. Splits(T \ {p}) /\ Splits(T \ {x})
      BY <2>1, <2>2, <2>3
    <2>6. Sum(T \ {p}) = f[x] + Sum((T \ {p}) \ {x})
      BY <2>2, <2>4, <2>5
    <2>7. Sum(T \ {x}) = f[p] + Sum((T \ {x}) \ {p})
      BY <2>3, <2>4, <2>5
    <2>8. (T \ {p}) \ {x} = (T \ {x}) \ {p}
      OBVIOUS
    <2>9. Sum((T \ {x}) \ {p}) \in Int /\ f[x] \in Int /\ f[p] \in Int
      BY <1>1, <2>2, <2>3
    <2> DEFINE rest == Sum((T \ {x}) \ {p})
    <2> HIDE DEF Sum
    <2>10. Sum(T \ {p}) = f[x] + rest
      BY <2>6, <2>8
    <2>11. Sum(T \ {x}) = f[p] + rest
      BY <2>7
    <2> HIDE DEF rest, p
    <2> QED
      BY <2>2, <2>3, <2>9, <2>10, <2>11 DEF rest
  <1>3. Splits(S)
    BY <1>2
  <1> QED
    BY <1>1, <1>3

\* Terms that are as large sum up to as much, and equal ones to the same.
LEMMA SumMonotone ==
    ASSUME NEW S, IsFiniteSet(S), NEW f, NEW g,
           \A x \in S : f[x] \in Int /\ g[x] \in Int /\ f[x] <= g[x]
    PROVE  SumFunctionOnSet(f, S) <= SumFunctionOnSet(g, S)
  <1> DEFINE F(T) == SumFunctionOnSet(f, T)
             G(T) == SumFunctionOnSet(g, T)
             D == {T \in SUBSET S : ~(F(T) <= G(T))}
  <1>1. \A T \in SUBSET S :
           /\ F(T) \in Int /\ G(T) \in Int
           /\ T = {} => F(T) = 0 /\ G(T) = 0
           /\ \A x \in T : F(T) = f[x] + F(T \ {x}) /\ G(T) = g[x] + G(T \ {x})
    <2> SUFFICES ASSUME NEW T \in SUBSET S
                 PROVE  /\ F(T) \in Int /\ G(T) \in Int
                        /\ T = {} => F(T) = 0 /\ G(T) = 0
                        /\ \A x \in T : F(T) = f[x] + F(T \ {x}) /\ G(T) = g[x] + G(T \ {x})
      OBVIOUS
    <2>1. IsFiniteSet(T) /\ \A x \in T : f[x] \in Int /\ g[x] \in Int
      BY FS_Subset
    <2>2. F(T) \in Int /\ (T = {} => F(T) = 0) /\ \A x \in T : F(T) = f[x] + F(T \ {x})
      BY <2>1, SumPicks, SumSplits
    <2>3. G(T) \in Int /\ (T = {} => G(T) = 0) /\ \A x \in T : G(T) = g[x] + G(T \ {x})
      BY <2>1, SumPicks, SumSplits
    <2> QED
      BY <2>2, <2>3
  <1> HIDE DEF F, G
  <1>2. ASSUME D # {} PROVE FALSE
    <2>1. PICK T \in D : \A x \in T : T \ {x} \notin D
      BY <1>2, SmallestSubset
    <2>2. PICK x \in T : TRUE
      BY <1>1
    <2>3. F(T \ {x}) <= G(T \ {x}) /\ F(T \ {x}) \in Int /\ G(T \ {x}) \in Int
      BY <1>1, <2>1
    <2>4. F(T) <= G(T)
      BY <1>1, <2>3
    <2> QED
      BY <2>4
  <1>3. F(S) <= G(S)
    BY <1>2
  <1> QED
    BY <1>3 DEF F, G

LEMMA SumOfSame ==
    ASSUME NEW S, IsFiniteSet(S), NEW f, NEW g,
           \A x \in S : f[x] \in Int /\ f[x] = g[x]
    PROVE  SumFunctionOnSet(f, S) = SumFunctionOnSet(g, S)
  <1>1. \A x \in S : f[x] <= g[x] /\ g[x] <= f[x] /\ g[x] \in Int
    OBVIOUS
  <1>2. SumFunctionOnSet(f, S) <= SumFunctionOnSet(g, S)
    BY <1>1, SumMonotone
  <1>3. SumFunctionOnSet(g, S) <= SumFunctionOnSet(f, S)
    BY <1>1, SumMonotone
  <1>4. SumFunctionOnSet(f, S) \in Int /\ SumFunctionOnSet(g, S) \in Int
    BY <1>1, SumSplits
  <1> QED
    BY <1>2, <1>3, <1>4

\* One term changes.
LEMMA SumChanges ==
    ASSUME NEW S, IsFiniteSet(S), NEW f, NEW g, NEW r \in S,
           \A x \in S : f[x] \in Int /\ g[x] \in Int,
           \A x \in S \ {r} : f[x] = g[x]
    PROVE  SumFunctionOnSet(g, S) = SumFunctionOnSet(f, S) - f[r] + g[r]
  <1>1. IsFiniteSet(S \ {r})
    BY FS_RemoveElement
  <1>2. SumFunctionOnSet(f, S \ {r}) = SumFunctionOnSet(g, S \ {r})
    BY <1>1, SumOfSame
  <1>3. SumFunctionOnSet(f, S) = f[r] + SumFunctionOnSet(f, S \ {r})
    BY SumSplits
  <1>4. SumFunctionOnSet(g, S) = g[r] + SumFunctionOnSet(g, S \ {r})
    BY SumSplits
  <1>5. SumFunctionOnSet(f, S \ {r}) \in Int
    BY <1>1, SumSplits
  <1> QED
    BY <1>2, <1>3, <1>4, <1>5

LEMMA SumOfNothing ==
    ASSUME NEW S, IsFiniteSet(S), NEW f, \A x \in S : f[x] = 0
    PROVE  SumFunctionOnSet(f, S) = 0
  <1> DEFINE F(T) == SumFunctionOnSet(f, T)
             D == {T \in SUBSET S : F(T) # 0}
  <1>1. \A T \in SUBSET S :
           /\ T = {} => F(T) = 0
           /\ \A x \in T : F(T) = f[x] + F(T \ {x})
    <2> SUFFICES ASSUME NEW T \in SUBSET S
                 PROVE  (T = {} => F(T) = 0) /\ \A x \in T : F(T) = f[x] + F(T \ {x})
      OBVIOUS
    <2>1. IsFiniteSet(T) /\ \A x \in T : f[x] \in Int
      BY FS_Subset
    <2> QED
      BY <2>1, SumPicks, SumSplits
  <1> HIDE DEF F
  <1>2. ASSUME D # {} PROVE FALSE
    <2>1. PICK T \in D : \A x \in T : T \ {x} \notin D
      BY <1>2, SmallestSubset
    <2>2. PICK x \in T : TRUE
      BY <1>1
    <2>3. F(T \ {x}) = 0 /\ f[x] = 0
      BY <2>1
    <2> QED
      BY <1>1, <2>2, <2>3
  <1>3. F(S) = 0
    BY <1>2
  <1> QED
    BY <1>3 DEF F

\* Disjoint sets.
LEMMA SumOfUnion ==
    ASSUME NEW A, IsFiniteSet(A), NEW B, IsFiniteSet(B), A \cap B = {},
           NEW f, \A x \in A \cup B : f[x] \in Int
    PROVE  SumFunctionOnSet(f, A \cup B) = SumFunctionOnSet(f, A) + SumFunctionOnSet(f, B)
  <1> DEFINE F(T) == SumFunctionOnSet(f, T)
             D == {T \in SUBSET A : F(T \cup B) # F(T) + F(B)}
  <1>1. IsFiniteSet(A \cup B)
    BY FS_Union
  <1>2. \A T \in SUBSET (A \cup B) :
           /\ F(T) \in Int /\ (T = {} => F(T) = 0)
           /\ \A x \in T : F(T) = f[x] + F(T \ {x})
    <2> SUFFICES ASSUME NEW T \in SUBSET (A \cup B)
                 PROVE  F(T) \in Int /\ (T = {} => F(T) = 0) /\ \A x \in T : F(T) = f[x] + F(T \ {x})
      OBVIOUS
    <2>1. IsFiniteSet(T) /\ \A x \in T : f[x] \in Int
      BY <1>1, FS_Subset
    <2> QED
      BY <2>1, SumPicks, SumSplits
  <1> HIDE DEF F
  <1>3. ASSUME D # {} PROVE FALSE
    <2>1. PICK T \in D : \A x \in T : T \ {x} \notin D
      BY <1>3, SmallestSubset
    <2>2. T \in SUBSET A /\ F(T \cup B) # F(T) + F(B)
      OBVIOUS
    <2>3. T # {}
      <3>1. SUFFICES ASSUME T = {} PROVE FALSE
        OBVIOUS
      <3>2. T \cup B = B
        BY <3>1
      <3>3. F(T \cup B) = F(B)
        BY <3>2
      <3>4. F(T) = 0 /\ F(B) \in Int
        BY <1>2, <3>1
      <3>5. F(T) + F(B) = F(B)
        BY <3>4
      <3> QED
        BY <2>2, <3>3, <3>5
    <2>4. PICK x \in T : TRUE
      BY <2>3
    <2>5. F((T \ {x}) \cup B) = F(T \ {x}) + F(B)
      BY <2>1, <2>2, <2>4
    <2>6. (T \cup B) \ {x} = (T \ {x}) \cup B
      BY <2>2, <2>4
    <2>7. F(T \cup B) = f[x] + F((T \cup B) \ {x})
      BY <1>2, <2>2, <2>4
    <2>8. F(T) = f[x] + F(T \ {x})
      BY <1>2, <2>2, <2>4
    <2>9. F(T \ {x}) \in Int /\ F(B) \in Int /\ f[x] \in Int
      BY <1>2, <2>2, <2>4
    <2>10. F(T \cup B) = f[x] + (F(T \ {x}) + F(B))
      BY <2>5, <2>6, <2>7
    <2>11. F(T) + F(B) = f[x] + (F(T \ {x}) + F(B))
      BY <2>8, <2>9
    <2> QED
      BY <2>2, <2>10, <2>11
  <1>4. F(A \cup B) = F(A) + F(B)
    BY <1>3
  <1> QED
    BY <1>4 DEF F

LEMMA SumOfNaturals ==
    ASSUME NEW S, IsFiniteSet(S), NEW f, \A x \in S : f[x] \in Nat
    PROVE  SumFunctionOnSet(f, S) \in Nat
  <1> DEFINE zero == [x \in S |-> 0]
  <1>1. SumFunctionOnSet(zero, S) = 0
    BY SumOfNothing
  <1>2. SumFunctionOnSet(zero, S) <= SumFunctionOnSet(f, S)
    <2>1. \A x \in S : zero[x] \in Int /\ f[x] \in Int /\ zero[x] <= f[x]
      OBVIOUS
    <2> HIDE DEF zero
    <2> QED
      BY <2>1, SumMonotone
  <1>3. SumFunctionOnSet(f, S) \in Int
    BY SumSplits
  <1> QED
    BY <1>1, <1>2, <1>3

LEMMA SumOfMore ==
    ASSUME NEW S, IsFiniteSet(S), NEW T, T \subseteq S, NEW f, \A x \in S : f[x] \in Nat
    PROVE  SumFunctionOnSet(f, T) <= SumFunctionOnSet(f, S)
  <1>1. IsFiniteSet(T) /\ IsFiniteSet(S \ T) /\ T \cap (S \ T) = {} /\ T \cup (S \ T) = S
    BY FS_Subset
  <1>2. SumFunctionOnSet(f, S) = SumFunctionOnSet(f, T) + SumFunctionOnSet(f, S \ T)
    BY <1>1, SumOfUnion
  <1>3. SumFunctionOnSet(f, T) \in Nat /\ SumFunctionOnSet(f, S \ T) \in Nat
    BY <1>1, SumOfNaturals
  <1> QED
    BY <1>2, <1>3

LEMMA CountIsSum ==
    ASSUME NEW S, IsFiniteSet(S), NEW f, \A x \in S : f[x] = 1
    PROVE  Cardinality(S) = SumFunctionOnSet(f, S)
  <1> DEFINE F(T) == SumFunctionOnSet(f, T)
             D == {T \in SUBSET S : Cardinality(T) # F(T)}
  <1>1. \A T \in SUBSET S :
           /\ Cardinality(T) \in Nat /\ (T = {} => F(T) = 0 /\ Cardinality(T) = 0)
           /\ \A x \in T : F(T) = f[x] + F(T \ {x}) /\ Cardinality(T \ {x}) = Cardinality(T) - 1
    <2> SUFFICES ASSUME NEW T \in SUBSET S
                 PROVE  /\ Cardinality(T) \in Nat /\ (T = {} => F(T) = 0 /\ Cardinality(T) = 0)
                        /\ \A x \in T : F(T) = f[x] + F(T \ {x}) /\ Cardinality(T \ {x}) = Cardinality(T) - 1
      OBVIOUS
    <2>1. IsFiniteSet(T) /\ \A x \in T : f[x] \in Int
      BY FS_Subset
    <2>2. Cardinality(T) \in Nat /\ (T = {} => Cardinality(T) = 0)
      BY <2>1, FS_CardinalityType, FS_EmptySet
    <2>3. \A x \in T : Cardinality(T \ {x}) = Cardinality(T) - 1
      BY <2>1, FS_RemoveElement
    <2>4. (T = {} => F(T) = 0) /\ \A x \in T : F(T) = f[x] + F(T \ {x})
      BY <2>1, SumPicks, SumSplits
    <2> QED
      BY <2>2, <2>3, <2>4
  <1> HIDE DEF F
  <1>2. ASSUME D # {} PROVE FALSE
    <2>1. PICK T \in D : \A x \in T : T \ {x} \notin D
      BY <1>2, SmallestSubset
    <2>2. T \in SUBSET S /\ Cardinality(T) # F(T)
      OBVIOUS
    <2>3. PICK x \in T : TRUE
      BY <1>1, <2>2
    <2>4. Cardinality(T \ {x}) = F(T \ {x}) /\ f[x] = 1
      BY <2>1, <2>2
    <2>5. F(T) = 1 + F(T \ {x}) /\ Cardinality(T \ {x}) = Cardinality(T) - 1 /\ Cardinality(T) \in Nat
      BY <1>1, <2>2, <2>3, <2>4
    <2> QED
      BY <2>2, <2>4, <2>5
  <1>3. Cardinality(S) = F(S)
    BY <1>2
  <1> QED
    BY <1>3 DEF F

\* A sum is that of its parts: those of the terms with each of some keys.
LEMMA SumOfParts ==
    ASSUME NEW S, IsFiniteSet(S), NEW f, \A x \in S : f[x] \in Int,
           NEW key, NEW K, IsFiniteSet(K), \A x \in S : key[x] \in K,
           NEW part, \A k \in K : part[k] \subseteq S /\ \A x \in S : x \in part[k] <=> key[x] = k,
           NEW g, \A k \in K : g[k] = SumFunctionOnSet(f, part[k])
    PROVE  SumFunctionOnSet(g, K) = SumFunctionOnSet(f, S)
  <1> DEFINE Part(T) == {x \in S : key[x] \in T}
             F(T) == SumFunctionOnSet(f, Part(T))
             G(T) == SumFunctionOnSet(g, T)
             D == {T \in SUBSET K : G(T) # F(T)}
  <1>1. \A T : IsFiniteSet(Part(T)) /\ \A x \in Part(T) : f[x] \in Int
    BY FS_Subset
  <1>2. \A T : F(T) \in Int
    BY <1>1, SumSplits
  <1>3. F({}) = 0
    <2>1. Part({}) = {}
      OBVIOUS
    <2>2. SumFunctionOnSet(f, {}) = 0
      BY FS_EmptySet, SumOfNothing
    <2> QED
      BY <2>1, <2>2
  <1>4. \A k \in K : g[k] = F({k})
    <2>1. \A k \in K : Part({k}) = part[k]
      OBVIOUS
    <2> QED
      BY <2>1
  <1>5. \A T \in SUBSET K : \A k \in T : F(T) = F({k}) + F(T \ {k})
    <2> SUFFICES ASSUME NEW T \in SUBSET K, NEW k \in T PROVE F(T) = F({k}) + F(T \ {k})
      OBVIOUS
    <2>1. Part(T) = Part({k}) \cup Part(T \ {k}) /\ Part({k}) \cap Part(T \ {k}) = {}
      OBVIOUS
    <2>2. SumFunctionOnSet(f, Part({k}) \cup Part(T \ {k})) = F({k}) + F(T \ {k})
      <3> DEFINE A == Part({k})
                 B == Part(T \ {k})
      <3>1. IsFiniteSet(A) /\ IsFiniteSet(B) /\ \A x \in A \cup B : f[x] \in Int
        BY <1>1
      <3>2. A \cap B = {}
        BY <2>1
      <3> HIDE DEF A, B
      <3>3. SumFunctionOnSet(f, A \cup B) = SumFunctionOnSet(f, A) + SumFunctionOnSet(f, B)
        BY <3>1, <3>2, SumOfUnion
      <3> QED
        BY <3>3 DEF A, B
    <2> QED
      BY <2>1, <2>2
  <1>5a. \A k \in K : g[k] \in Int
    <2> HIDE DEF F
    <2> SUFFICES ASSUME NEW k \in K PROVE g[k] \in Int
      OBVIOUS
    <2>1. g[k] = F({k}) /\ F({k}) \in Int
      BY <1>2, <1>4
    <2> QED
      BY <2>1
  <1> HIDE DEF F
  <1>6. \A T \in SUBSET K :
           /\ G(T) \in Int /\ (T = {} => G(T) = 0)
           /\ \A k \in T : G(T) = g[k] + G(T \ {k})
    <2> SUFFICES ASSUME NEW T \in SUBSET K
                 PROVE  G(T) \in Int /\ (T = {} => G(T) = 0) /\ \A k \in T : G(T) = g[k] + G(T \ {k})
      OBVIOUS
    <2>1. IsFiniteSet(T)
      BY FS_Subset
    <2>2. \A k \in T : g[k] \in Int
      BY <1>5a
    <2>3. G(T) \in Int /\ \A k \in T : G(T) = g[k] + G(T \ {k})
      BY <2>1, <2>2, SumSplits
    <2>4. T = {} => G(T) = 0
      BY <2>1, <2>2, SumPicks
    <2> QED
      BY <2>3, <2>4
  <1>7. Part(K) = S
    OBVIOUS
  <1> HIDE DEF G, Part
  <1>8. ASSUME D # {} PROVE FALSE
    <2>1. PICK T \in D : \A k \in T : T \ {k} \notin D
      BY <1>8, SmallestSubset
    <2>2. T \in SUBSET K /\ G(T) # F(T)
      OBVIOUS
    <2>3. PICK k \in T : TRUE
      BY <1>3, <1>6, <2>2
    <2>4. G(T \ {k}) = F(T \ {k})
      BY <2>1, <2>2, <2>3
    <2>5. G(T) = g[k] + G(T \ {k}) /\ F(T) = F({k}) + F(T \ {k}) /\ g[k] = F({k})
      BY <1>4, <1>5, <1>6, <2>2, <2>3
    <2> QED
      BY <2>2, <2>4, <2>5
  <1>9. G(K) = F(K)
    BY <1>8
  <1> QED
    BY <1>7, <1>9 DEF F, G
=============================================================================
