---------------------------- MODULE PricingProofs ----------------------------
(***************************************************************************)
(* Lemmas about the floats of Pricing, for any precision: what is a float, *)
(* that rounding keeps the order of quotients, and that it is off by one   *)
(* part in 2^Precision at most.  Costs of two requests are compared by the *)
(* order, a cost and the exact one by the bound.                           *)
(***************************************************************************)
EXTENDS Pricing, Sums, TLAPS

Powers == {2^e : e \in Nat}
Fractions == Nat \X (Nat \ {0})
Floats == Nat \X Powers
Prices == [input : Nat, output : Nat]

LEMMA ProductType == \A m, n \in Nat : m * n \in Nat
  OBVIOUS

LEMMA QuotientType == \A m \in Nat, n \in Nat \ {0} : m \div n \in Nat /\ -((-m) \div n) \in Nat
  OBVIOUS

LEMMA PowerType == ASSUME NEW e \in Nat PROVE 2^e \in Nat /\ 2^e > 0
  <1>1. IsFiniteSet(1 .. e) /\ Cardinality(1 .. e) = e
    BY FS_Interval
  <1>2. IsFiniteSet(SUBSET (1 .. e)) /\ Cardinality(SUBSET (1 .. e)) = 2^e
    BY <1>1, FS_SUBSET
  <1>3. SUBSET (1 .. e) # {}
    OBVIOUS
  <1> QED
    BY <1>2, <1>3, FS_CardinalityType, FS_EmptySet

LEMMA PowerOfZero == 2^0 = 1
  <1>1. IsFiniteSet({}) /\ Cardinality({}) = 0
    BY FS_EmptySet
  <1>2. Cardinality(SUBSET {}) = 2^0
    BY <1>1, FS_SUBSET
  <1>3. SUBSET {} = {{}} /\ Cardinality({{}}) = 1
    BY FS_Singleton
  <1> QED
    BY <1>2, <1>3

LEMMA Doubling == ASSUME NEW e \in Nat PROVE 2^(e + 1) = 2 * 2^e
  <1> DEFINE S == 1 .. e
             x == e + 1
             A == SUBSET S
             B == {s \cup {x} : s \in A}
             f == [s \in A |-> s \cup {x}]
  <1>1. IsFiniteSet(S) /\ Cardinality(S) = e /\ x \notin S
    <2>1. 1 \in Int /\ e \in Int /\ (IF 1 > e THEN 0 ELSE e - 1 + 1) = e
      OBVIOUS
    <2> QED
      BY <2>1, FS_Interval
  <1> HIDE DEF S, x
  <1>2. IsFiniteSet(S \cup {x}) /\ Cardinality(S \cup {x}) = e + 1
    BY <1>1, FS_AddElement
  <1>3. /\ IsFiniteSet(A) /\ Cardinality(A) = 2^e
        /\ Cardinality(SUBSET (S \cup {x})) = 2^(e + 1)
    BY <1>1, <1>2, FS_SUBSET
  <1>4. SUBSET (S \cup {x}) = A \cup B
    <2>1. ASSUME NEW s \in SUBSET (S \cup {x}), x \in s PROVE s \in B
      <3>1. s \ {x} \in A /\ s = (s \ {x}) \cup {x}
        BY <2>1
      <3> QED
        BY <3>1
    <2> QED
      BY <2>1
  <1>5. A \cap B = {}
    BY <1>1
  <1>6. f \in Bijection(A, B)
    <2>1. f \in [A -> B] /\ \A t \in B : \E s \in A : f[s] = t
      OBVIOUS
    <2>2. \A s, t \in A : f[s] = f[t] => s = t
      <3> SUFFICES ASSUME NEW s \in A, NEW t \in A, f[s] = f[t] PROVE s = t
        OBVIOUS
      <3>1. s \cup {x} = t \cup {x} /\ x \notin s /\ x \notin t
        BY <1>1
      <3> QED
        BY <3>1
    <2> HIDE DEF f, A, B
    <2> QED
      BY <2>1, <2>2 DEF Bijection, Injection, Surjection, IsInjective
  <1> HIDE DEF A, B, f
  <1>7. IsFiniteSet(B) /\ Cardinality(B) = Cardinality(A)
    <2>1. ExistsBijection(A, B)
      BY <1>6 DEF ExistsBijection
    <2> QED
      BY <1>3, <2>1, FS_Bijection
  <1>8. Cardinality(A \cup B) = Cardinality(A) + Cardinality(B) - Cardinality({})
    BY <1>3, <1>5, <1>7, FS_Union
  <1> QED
    <2>1. 2^e \in Nat /\ Cardinality({}) = 0
      BY FS_EmptySet, PowerType
    <2>2. 2^(e + 1) = Cardinality(A \cup B)
      BY <1>3, <1>4
    <2>3. Cardinality(A \cup B) = 2^e + 2^e - 0
      BY <1>3, <1>7, <1>8, <2>1
    <2> QED
      BY <2>1, <2>2, <2>3

LEMMA PowersAdd == ASSUME NEW a \in Nat, NEW b \in Nat PROVE 2^(a + b) = 2^a * 2^b
  <1> DEFINE Good(e) == 2^(a + e) = 2^a * 2^e
             Bad == {e \in Nat : ~Good(e)}
  <1>1. Good(0)
    <2>1. a + 0 = a /\ 2^a * 1 = 2^a
      BY PowerType
    <2> QED
      BY <2>1, PowerOfZero
  <1>2. ASSUME NEW e \in Nat, Good(e) PROVE Good(e + 1)
    <2>1. a + (e + 1) = (a + e) + 1 /\ a + e \in Nat
      OBVIOUS
    <2>2. 2^(a + (e + 1)) = 2 * (2^a * 2^e)
      BY <1>2, <2>1, Doubling
    <2>3. 2 * (2^a * 2^e) = 2^a * (2 * 2^e)
      BY PowerType
    <2>4. 2^(e + 1) = 2 * 2^e
      BY Doubling
    <2> QED
      BY <2>2, <2>3, <2>4
  <1> HIDE DEF Good
  <1>3. Bad = {}
    <2> SUFFICES ASSUME Bad # {} PROVE FALSE
      OBVIOUS
    <2>1. PICK e \in Bad : \A f \in Bad : e <= f
      BY SmallestOf
    <2>2. e \in Nat /\ ~Good(e) /\ e # 0
      BY <1>1
    <2>3. e - 1 \in Nat /\ ~(e <= e - 1) /\ (e - 1) + 1 = e
      BY <2>2
    <2>4. Good(e - 1)
      BY <2>1, <2>3
    <2> QED
      BY <1>2, <2>2, <2>3, <2>4
  <1>4. Good(b)
    BY <1>3
  <1> QED
    BY <1>4 DEF Good

\* A larger power of two is a multiple of a smaller one.
LEMMA PowersDivide ==
    ASSUME NEW a \in Nat, NEW b \in Nat, a <= b
    PROVE  \E k \in Nat \ {0} : 2^b = k * 2^a
  <1>1. b - a \in Nat /\ a + (b - a) = b
    OBVIOUS
  <1>2. 2^b = 2^a * 2^(b - a)
    BY <1>1, PowersAdd
  <1>3. 2^(b - a) \in Nat \ {0} /\ 2^a * 2^(b - a) = 2^(b - a) * 2^a
    BY <1>1, PowerType
  <1> QED
    BY <1>2, <1>3

LEMMA PowersArePositive == Powers \subseteq Nat \ {0}
  <1>1. \A e \in Nat : 2^e \in Nat /\ 2^e > 0
    BY PowerType
  <1> QED
    BY <1>1 DEF Powers

LEMMA FloatsAreFractions == Floats \subseteq Fractions
  BY PowersArePositive DEF Floats, Fractions

\* The scale is the smallest number of digits that is enough, or the largest there is.
LEMMA ScaleIs ==
    ASSUME NEW n \in Nat, NEW d \in Nat
    PROVE  /\ Scale(n, d) \in 0 .. (2 * Precision)
           /\ n * 2^Scale(n, d) >= d * 2^(Precision - 1) \/ Scale(n, d) = 2 * Precision
           /\ \A f \in 0 .. (Scale(n, d) - 1) : n * 2^f < d * 2^(Precision - 1)
  <1> DEFINE Fits(e) == n * 2^e >= d * 2^(Precision - 1)
             enough == {e \in 0 .. (2 * Precision) : Fits(e) \/ e = 2 * Precision}
  <1>1. 2 * Precision \in Nat /\ Precision - 1 \in Nat /\ 2 * Precision \in enough
    BY PricingAssumption
  <1>2. enough \subseteq Nat /\ enough # {}
    BY <1>1
  <1>3. PICK e \in enough : \A f \in enough : e <= f
    BY <1>2, SmallestOf
  <1>4. \A f \in Nat : n * 2^f \in Nat /\ d * 2^(Precision - 1) \in Nat
    BY <1>1, PowerType, ProductType
  <1>5. ASSUME NEW f \in 0 .. (e - 1) PROVE n * 2^f < d * 2^(Precision - 1)
    <2>1. f \in 0 .. (2 * Precision) /\ f # 2 * Precision /\ ~(e <= f) /\ f \in Nat
      BY <1>1, <1>3
    <2>2. ~Fits(f)
      BY <1>3, <2>1
    <2> DEFINE x == n * 2^f
               y == d * 2^(Precision - 1)
    <2>3. x \in Nat /\ y \in Nat /\ ~(x >= y)
      BY <1>4, <2>1, <2>2
    <2> HIDE DEF x, y
    <2>4. x < y
      BY <2>3
    <2> QED
      BY <2>4 DEF x, y
  <1> DEFINE Right(x) == /\ n * 2^x >= d * 2^(Precision - 1) \/ x = 2 * Precision
                         /\ \A f \in 0 .. (x - 1) : n * 2^f < d * 2^(Precision - 1)
  <1>6. e \in 0 .. (2 * Precision) /\ Right(e)
    BY <1>3, <1>5
  <1>7. Scale(n, d) = CHOOSE x \in 0 .. (2 * Precision) : Right(x)
    BY DEF Scale
  <1> HIDE DEF Right
  <1>8. Scale(n, d) \in 0 .. (2 * Precision) /\ Right(Scale(n, d))
    BY <1>6, <1>7
  <1> QED
    BY <1>8 DEF Right

LEMMA ScaleType == ASSUME NEW n \in Nat, NEW d \in Nat PROVE Scale(n, d) \in Nat
  BY ScaleIs, PricingAssumption

LEMMA WholeType == ASSUME NEW n \in Nat PROVE Whole(n) \in Floats
  <1>1. 1 \in Powers
    BY PowerOfZero DEF Powers
  <1> QED
    BY <1>1 DEF Whole, Floats

LEMMA NearestType == ASSUME NEW n \in Nat, NEW d \in Nat \ {0} PROVE Nearest(n, d) \in Floats
  <1>1. CASE n = 0
    BY <1>1, WholeType DEF Nearest
  <1>2. CASE n # 0
    <2> DEFINE p == 2^Scale(n, d)
               scaled == n * p
               q == scaled \div d
               r == scaled % d
               up == 2 * r > d \/ (2 * r = d /\ q % 2 = 1)
    <2>1. p \in Powers /\ p \in Nat \ {0}
      <3>1. Scale(n, d) \in Nat
        BY ScaleType
      <3>2. p \in Powers
        BY <3>1 DEF Powers
      <3> HIDE DEF p
      <3> QED
        BY <3>2, PowersArePositive
    <2>2. Nearest(n, d) = <<IF up THEN q + 1 ELSE q, p>>
      BY <1>2 DEF Nearest, NearestTo
    <2> HIDE DEF p
    <2>3. scaled \in Nat
      BY <2>1, ProductType
    <2> HIDE DEF scaled
    <2>4. q \in Nat
      BY <2>3, QuotientType
    <2> HIDE DEF q, up
    <2> QED
      BY <2>1, <2>2, <2>4 DEF Floats
  <1> QED
    BY <1>1, <1>2

LEMMA TimesType == ASSUME NEW x \in Fractions, NEW y \in Fractions PROVE Times(x, y) \in Floats
  <1>1. x[1] \in Nat /\ x[2] \in Nat \ {0} /\ y[1] \in Nat /\ y[2] \in Nat \ {0}
    BY DEF Fractions
  <1>2. x[1] * y[1] \in Nat
    BY <1>1, ProductType
  <1>3. x[2] * y[2] \in Nat \ {0}
    BY <1>1
  <1> QED
    BY <1>2, <1>3, NearestType DEF Times

LEMMA LargerOf == ASSUME NEW x \in Nat, NEW y \in Nat PROVE Max({x, y}) = IF x >= y THEN x ELSE y
  BY DEF Max

LEMMA SmallerOf == ASSUME NEW x \in Nat, NEW y \in Nat PROVE Min({x, y}) = IF x <= y THEN x ELSE y
  BY DEF Min

LEMMA PlusType == ASSUME NEW x \in Fractions, NEW y \in Fractions PROVE Plus(x, y) \in Floats
  <1> DEFINE d == Max({x[2], y[2]})
             n == x[1] * (d \div x[2]) + y[1] * (d \div y[2])
  <1>1. x[1] \in Nat /\ x[2] \in Nat \ {0} /\ y[1] \in Nat /\ y[2] \in Nat \ {0}
    BY DEF Fractions
  <1>2. d \in Nat \ {0}
    BY <1>1, LargerOf
  <1> HIDE DEF d
  <1>3. x[1] * (d \div x[2]) \in Nat /\ y[1] * (d \div y[2]) \in Nat
    BY <1>1, <1>2, QuotientType, ProductType
  <1>4. n \in Nat
    BY <1>3
  <1>5. Plus(x, y) = Nearest(n, d)
    BY DEF Plus, d
  <1> HIDE DEF n
  <1> QED
    BY <1>2, <1>4, <1>5, NearestType

LEMMA CeilType == ASSUME NEW x \in Fractions PROVE Ceil(x) \in Nat
  BY QuotientType DEF Ceil, Fractions

-----------------------------------------------------------------------------
(***************************************************************************)
(* The order of fractions, which rounding keeps.                           *)
(***************************************************************************)
AtMost(x, y) == x[1] * y[2] <= y[1] * x[2]

LEMMA Products ==
    /\ \A a, b, c \in Nat : a <= b => a * c <= b * c
    /\ \A a, b, c \in Nat : c > 0 /\ a < b => a * c < b * c
    /\ \A a, b, c \in Nat : c > 0 /\ a * c <= b * c => a <= b
  <1>1. \A a, b, c \in Nat : a <= b => a * c <= b * c
    OBVIOUS
  <1>2. \A a, b, c \in Nat : c > 0 /\ a < b => a * c < b * c
    OBVIOUS
  <1>3. ASSUME NEW a \in Nat, NEW b \in Nat, NEW c \in Nat, c > 0, a * c <= b * c PROVE a <= b
    <2>1. b < a => b * c < a * c
      BY <1>2, <1>3
    <2>2. a * c \in Nat /\ b * c \in Nat
      BY ProductType
    <2> QED
      BY <1>3, <2>1, <2>2
  <1> QED
    BY <1>1, <1>2, <1>3

LEMMA Division ==
    \A a \in Nat, d \in Nat \ {0} :
       /\ a \div d \in Nat /\ a % d \in Nat /\ a % d < d
       /\ a = (a \div d) * d + (a % d)
  OBVIOUS

LEMMA DivisionBounds ==
    ASSUME NEW a \in Nat, NEW d \in Nat \ {0}
    PROVE  (a \div d) * d <= a /\ a < (a \div d + 1) * d
  <1> DEFINE q == a \div d
             r == a % d
  <1>1. q \in Nat /\ r \in Nat /\ r < d /\ a = q * d + r
    BY Division
  <1> HIDE DEF q, r
  <1>2. (q + 1) * d = q * d + d /\ q * d \in Nat
    BY <1>1, ProductType
  <1>3. q * d <= a /\ a < (q + 1) * d
    BY <1>1, <1>2
  <1> QED
    BY <1>3 DEF q

LEMMA QuotientsGrow ==
    ASSUME NEW a \in Nat, NEW b \in Nat, NEW c \in Nat \ {0}, NEW d \in Nat \ {0}, a * d <= b * c
    PROVE  a \div c <= b \div d
  <1> DEFINE q == a \div c
             p == b \div d
  <1>1. q \in Nat /\ p \in Nat /\ q * c <= a /\ b < (p + 1) * d
    BY Division, DivisionBounds
  <1> HIDE DEF q, p
  <1>2. ASSUME p + 1 <= q PROVE FALSE
    <2>1. (q * c) * d <= a * d /\ b * c < ((p + 1) * d) * c
      <3>1. q * c \in Nat /\ (p + 1) * d \in Nat
        BY <1>1, ProductType
      <3> QED
        BY <1>1, <3>1, Products
    <2>2. (p + 1) * (c * d) <= q * (c * d)
      <3>1. c * d \in Nat /\ p + 1 \in Nat
        BY <1>1, ProductType
      <3> QED
        BY <1>1, <1>2, <3>1, Products
    <2>3. (q * c) * d = q * (c * d) /\ ((p + 1) * d) * c = (p + 1) * (c * d)
      BY <1>1
    <2>4. a * d \in Nat /\ b * c \in Nat /\ q * (c * d) \in Nat /\ (p + 1) * (c * d) \in Nat
      BY <1>1, ProductType
    <2> QED
      BY <2>1, <2>2, <2>3, <2>4
  <1>3. q <= p
    BY <1>1, <1>2
  <1> QED
    BY <1>3 DEF q, p

\* a / d to the nearest integer, a tie to the even one.
RoundsUp(a, d) == 2 * (a % d) > d \/ (2 * (a % d) = d /\ (a \div d) % 2 = 1)
Rounded(a, d) == IF RoundsUp(a, d) THEN a \div d + 1 ELSE a \div d

LEMMA RoundedBounds ==
    ASSUME NEW a \in Nat, NEW d \in Nat \ {0}
    PROVE  /\ Rounded(a, d) \in Nat
           /\ \A h \in Nat : /\ h * d <= a => h <= Rounded(a, d)
                             /\ a < h * d => Rounded(a, d) <= h
  <1> DEFINE q == a \div d
  <1>1. q \in Nat /\ q * d <= a /\ a < (q + 1) * d
    BY Division, DivisionBounds
  <1>2. Rounded(a, d) = q \/ Rounded(a, d) = q + 1
    BY DEF Rounded
  <1> HIDE DEF q
  <1>3. ASSUME NEW h \in Nat, h * d <= a PROVE h <= q
    <2>1. h * d < (q + 1) * d
      <3>1. h * d \in Nat /\ (q + 1) * d \in Nat
        BY <1>1, ProductType
      <3> QED
        BY <1>1, <1>3, <3>1
    <2>2. ~(q + 1 <= h)
      <3>1. q + 1 <= h => (q + 1) * d <= h * d
        BY <1>1, Products
      <3>2. h * d \in Nat /\ (q + 1) * d \in Nat
        BY <1>1, ProductType
      <3> QED
        BY <2>1, <3>1, <3>2
    <2> QED
      BY <1>1, <2>2
  <1>4. ASSUME NEW h \in Nat, a < h * d PROVE q + 1 <= h
    <2>1. q * d < h * d
      <3>1. h * d \in Nat /\ q * d \in Nat
        BY <1>1, ProductType
      <3> QED
        BY <1>1, <1>4, <3>1
    <2>2. ~(h <= q)
      <3>1. h <= q => h * d <= q * d
        BY <1>1, Products
      <3>2. h * d \in Nat /\ q * d \in Nat
        BY <1>1, ProductType
      <3> QED
        BY <2>1, <3>1, <3>2
    <2> QED
      BY <1>1, <2>2
  <1> QED
    BY <1>1, <1>2, <1>3, <1>4

LEMMA RoundedExactly ==
    ASSUME NEW h \in Nat, NEW d \in Nat \ {0}
    PROVE  Rounded(h * d, d) = h
  <1> DEFINE a == h * d
             q == a \div d
             r == a % d
  <1>1. a \in Nat
    BY ProductType
  <1>2. a = h * d
    OBVIOUS
  <1> HIDE DEF a
  <1>3. q \in Nat /\ r \in Nat /\ a = q * d + r /\ q * d <= a /\ a < (q + 1) * d
    BY <1>1, Division, DivisionBounds
  <1> HIDE DEF q, r
  <1>4. q <= h
    BY <1>2, <1>3, Products
  <1>5. h < q + 1
    <2>1. q + 1 <= h => (q + 1) * d <= h * d
      BY <1>3, Products
    <2>2. (q + 1) * d \in Nat
      BY <1>3, ProductType
    <2> QED
      BY <1>1, <1>2, <1>3, <2>1, <2>2
  <1>6. q = h
    BY <1>3, <1>4, <1>5
  <1>7. r = 0
    <2>1. q * d \in Nat
      BY <1>3, ProductType
    <2> QED
      BY <1>2, <1>3, <1>6, <2>1
  <1> QED
    BY <1>6, <1>7 DEF Rounded, RoundsUp, a, q, r

LEMMA RoundingGrows ==
    ASSUME NEW a \in Nat, NEW b \in Nat, NEW c \in Nat \ {0}, NEW d \in Nat \ {0}, a * d <= b * c
    PROVE  Rounded(a, c) <= Rounded(b, d)
  <1> DEFINE q == a \div c
             p == b \div d
             r == a % c
             s == b % d
  <1>1. /\ q \in Nat /\ r \in Nat /\ r < c /\ a = q * c + r
        /\ p \in Nat /\ s \in Nat /\ s < d /\ b = p * d + s
    BY Division
  <1>2. q <= p
    BY QuotientsGrow
  <1>3. /\ Rounded(a, c) = IF 2 * r > c \/ (2 * r = c /\ q % 2 = 1) THEN q + 1 ELSE q
        /\ Rounded(b, d) = IF 2 * s > d \/ (2 * s = d /\ p % 2 = 1) THEN p + 1 ELSE p
    BY DEF Rounded, RoundsUp
  <1> HIDE DEF q, p, r, s
  <1>4. CASE q < p
    BY <1>1, <1>3, <1>4
  <1>5. CASE q = p
    <2>1. r * d <= s * c
      <3>1. (q * c + r) * d = (q * c) * d + r * d /\ (q * d + s) * c = (q * d) * c + s * c
        BY <1>1
      <3>2. (q * c) * d = (q * d) * c
        BY <1>1
      <3>3. r * d \in Nat /\ s * c \in Nat /\ (q * d) * c \in Nat
        BY <1>1, ProductType
      <3> QED
        BY <1>1, <1>5, <3>1, <3>2, <3>3
    <2>2. 2 * r > c => 2 * s > d
      <3> SUFFICES ASSUME 2 * r > c, 2 * s <= d PROVE FALSE
        BY <1>1
      <3>1. (2 * s) * c <= d * c /\ c * d < (2 * r) * d
        BY <1>1, Products
      <3>2. (2 * s) * c = 2 * (s * c) /\ (2 * r) * d = 2 * (r * d) /\ c * d = d * c
        BY <1>1
      <3>3. r * d \in Nat /\ s * c \in Nat /\ d * c \in Nat
        BY <1>1, ProductType
      <3> QED
        BY <2>1, <3>1, <3>2, <3>3
    <2>3. 2 * r = c => 2 * s >= d
      <3> SUFFICES ASSUME 2 * r = c, 2 * s < d PROVE FALSE
        BY <1>1
      <3>1. (2 * s) * c < d * c
        BY <1>1, Products
      <3>2. (2 * s) * c = 2 * (s * c) /\ (2 * r) * d = 2 * (r * d) /\ (2 * r) * d = d * c
        BY <1>1
      <3>3. r * d \in Nat /\ s * c \in Nat /\ d * c \in Nat
        BY <1>1, ProductType
      <3> QED
        BY <2>1, <3>1, <3>2, <3>3
    <2> QED
      BY <1>1, <1>3, <1>5, <2>2, <2>3
  <1> QED
    BY <1>1, <1>2, <1>4, <1>5

LEMMA NearestIs ==
    ASSUME NEW n \in Nat, n # 0, NEW d \in Nat
    PROVE  Nearest(n, d) = <<Rounded(n * 2^Scale(n, d), d), 2^Scale(n, d)>>
  BY DEF Nearest, NearestTo, Rounded, RoundsUp

LEMMA NearestGrows ==
    ASSUME NEW m \in Nat, NEW n \in Nat, NEW c \in Nat \ {0}, NEW d \in Nat \ {0}, m * d <= n * c
    PROVE  AtMost(Nearest(m, c), Nearest(n, d))
  <1>1. Nearest(m, c) \in Fractions /\ Nearest(n, d) \in Fractions
    BY NearestType, FloatsAreFractions
  <1>2. CASE m = 0
    <2>1. Nearest(m, c)[1] = 0
      BY <1>2 DEF Nearest, Whole
    <2>2. Nearest(n, d)[1] \in Nat /\ Nearest(n, d)[2] \in Nat /\ Nearest(m, c)[2] \in Nat
      BY <1>1 DEF Fractions
    <2>3. 0 * Nearest(n, d)[2] = 0 /\ Nearest(n, d)[1] * Nearest(m, c)[2] \in Nat
      BY <2>2, ProductType
    <2> QED
      BY <2>1, <2>3 DEF AtMost
  <1>3. CASE m # 0
    <2>1. n # 0
      <3> SUFFICES ASSUME n = 0 PROVE FALSE
        OBVIOUS
      <3>1. m * d > 0 /\ n * c = 0
        <4>1. 0 * d < m * d
          BY <1>3, Products
        <4> QED
          BY <4>1
      <3> QED
        BY <3>1
    <2> DEFINE e == Scale(m, c)
               f == Scale(n, d)
               p == 2^e
               q == 2^f
               H == 2^(Precision - 1)
               M == Rounded(m * p, c)
               N == Rounded(n * q, d)
    <2>2. Nearest(m, c) = <<M, p>> /\ Nearest(n, d) = <<N, q>>
      BY <1>3, <2>1, NearestIs
    <2>3. /\ e \in 0 .. (2 * Precision) /\ f \in 0 .. (2 * Precision)
          /\ m * p >= c * H \/ e = 2 * Precision
          /\ n * q >= d * H \/ f = 2 * Precision
          /\ \A x \in 0 .. (e - 1) : m * 2^x < c * H
          /\ \A x \in 0 .. (f - 1) : n * 2^x < d * H
      BY ScaleIs
    <2>4. e \in Nat /\ f \in Nat /\ Precision - 1 \in Nat /\ Precision \in Nat
      BY <2>3, PricingAssumption
    <2>5. p \in Nat \ {0} /\ q \in Nat \ {0} /\ H \in Nat \ {0}
      BY <2>4, PowerType
    <2>6. f < e => n * q >= d * H /\ m * q < c * H
      <3> SUFFICES ASSUME f < e PROVE n * q >= d * H /\ m * q < c * H
        OBVIOUS
      <3>1. f # 2 * Precision /\ f \in 0 .. (e - 1)
        BY <2>3, <2>4
      <3> QED
        BY <2>3, <3>1
    <2>7. e < f => m * p >= c * H /\ n * p < d * H
      <3> SUFFICES ASSUME e < f PROVE m * p >= c * H /\ n * p < d * H
        OBVIOUS
      <3>1. e # 2 * Precision /\ e \in 0 .. (f - 1)
        BY <2>3, <2>4
      <3> QED
        BY <2>3, <3>1
    <2>8. f < e => \E k \in Nat \ {0} : p = k * q
      <3> HIDE DEF e, f
      <3> SUFFICES ASSUME f < e PROVE \E k \in Nat \ {0} : 2^e = k * 2^f
        OBVIOUS
      <3>1. f <= e
        BY <2>4
      <3> QED
        BY <2>4, <3>1, PowersDivide
    <2>9. e = f => p = q
      OBVIOUS
    <2> HIDE DEF e, f, p, q, H
    <2>10. m * p \in Nat /\ n * q \in Nat /\ m * q \in Nat /\ n * p \in Nat /\ c * H \in Nat /\ d * H \in Nat
      BY <2>5, ProductType
    <2>11. M \in Nat /\ N \in Nat
      BY <2>10, RoundedBounds
    <2>12. ~(e < f)
      <3> SUFFICES ASSUME m * p >= c * H, n * p < d * H PROVE FALSE
        BY <2>7
      <3>1. (c * H) * d <= (m * p) * d /\ (n * p) * c < (d * H) * c /\ (m * d) * p <= (n * c) * p
        <4>1. m * d \in Nat /\ n * c \in Nat
          BY ProductType
        <4> QED
          BY <2>5, <2>10, <4>1, Products
      <3>2. (c * H) * d = (d * H) * c /\ (m * p) * d = (m * d) * p /\ (n * p) * c = (n * c) * p
        BY <2>5
      <3>3. (c * H) * d \in Nat /\ (m * p) * d \in Nat /\ (n * p) * c \in Nat
        BY <2>10, ProductType
      <3> QED
        BY <3>1, <3>2, <3>3
    <2>13. CASE e = f
      <3>1. (m * p) * d <= (n * q) * c
        <4>1. (m * d) * p <= (n * c) * p
          <5>1. m * d \in Nat /\ n * c \in Nat
            BY ProductType
          <5> QED
            BY <2>5, <5>1, Products
        <4>2. (m * d) * p = (m * p) * d /\ (n * c) * p = (n * p) * c
          BY <2>5
        <4> QED
          BY <2>9, <2>13, <4>1, <4>2
      <3>2. M <= N
        BY <2>10, <3>1, RoundingGrows
      <3> HIDE DEF M, N
      <3>3. M * q <= N * p
        BY <2>5, <2>9, <2>11, <2>13, <3>2, Products
      <3> QED
        BY <2>2, <3>3 DEF AtMost
    <2>14. CASE f < e
      <3>1. PICK k \in Nat \ {0} : p = k * q
        BY <2>8, <2>14
      <3>2. H <= N
        BY <2>5, <2>6, <2>10, <2>14, RoundedBounds
      <3>3. H * k \in Nat /\ m * p < (H * k) * c
        <4>1. (m * q) * k < (c * H) * k
          BY <2>6, <2>10, <2>14, Products
        <4>2. (m * q) * k = m * (k * q) /\ (c * H) * k = (H * k) * c /\ H * k \in Nat
          BY <2>5
        <4> QED
          BY <3>1, <4>1, <4>2
      <3>4. M <= H * k
        BY <2>10, <3>3, RoundedBounds
      <3> HIDE DEF M, N
      <3>5. M * q <= (H * k) * q /\ H * p <= N * p
        BY <2>5, <2>11, <3>2, <3>3, <3>4, Products
      <3>6. (H * k) * q = H * p
        BY <2>5, <3>1
      <3>7. M * q \in Nat /\ H * p \in Nat /\ N * p \in Nat
        BY <2>5, <2>11, ProductType
      <3>8. M * q <= N * p
        BY <3>5, <3>6, <3>7
      <3> QED
        BY <2>2, <3>8 DEF AtMost
    <2> QED
      BY <2>4, <2>12, <2>13, <2>14
  <1> QED
    BY <1>2, <1>3

LEMMA TimesGrows ==
    ASSUME NEW x \in Fractions, NEW y \in Fractions, NEW z \in Fractions, AtMost(x, y)
    PROVE  AtMost(Times(x, z), Times(y, z))
  <1> DEFINE m == x[1] * z[1]
             n == y[1] * z[1]
             c == x[2] * z[2]
             d == y[2] * z[2]
  <1>1. /\ x[1] \in Nat /\ y[1] \in Nat /\ z[1] \in Nat
        /\ x[2] \in Nat \ {0} /\ y[2] \in Nat \ {0} /\ z[2] \in Nat \ {0}
    BY DEF Fractions
  <1>2. m \in Nat /\ n \in Nat /\ c \in Nat \ {0} /\ d \in Nat \ {0}
    <2>1. m \in Nat /\ n \in Nat
      BY <1>1, ProductType
    <2>2. c \in Nat \ {0} /\ d \in Nat \ {0}
      BY <1>1
    <2> QED
      BY <2>1, <2>2
  <1>3. m * d <= n * c
    <2>1. (x[1] * y[2]) * (z[1] * z[2]) <= (y[1] * x[2]) * (z[1] * z[2])
      <3>1. x[1] * y[2] \in Nat /\ y[1] * x[2] \in Nat /\ z[1] * z[2] \in Nat
        BY <1>1, ProductType
      <3> QED
        BY <3>1, Products DEF AtMost
    <2>2. m * d = (x[1] * y[2]) * (z[1] * z[2]) /\ n * c = (y[1] * x[2]) * (z[1] * z[2])
      BY <1>1
    <2> QED
      BY <2>1, <2>2
  <1>4. Times(x, z) = Nearest(m, c) /\ Times(y, z) = Nearest(n, d)
    BY DEF Times
  <1> HIDE DEF m, n, c, d
  <1> QED
    BY <1>2, <1>3, <1>4, NearestGrows

\* The common denominator of two floats is a multiple of both.
LEMMA CommonDenominator ==
    ASSUME NEW x \in Floats, NEW y \in Floats
    PROVE  \E i, j \in Nat \ {0} :
              /\ Max({x[2], y[2]}) = i * x[2] /\ Max({x[2], y[2]}) = j * y[2]
              /\ Plus(x, y) = Nearest(x[1] * i + y[1] * j, i * x[2])
  <1>1. PICK a \in Nat, b \in Nat : x[2] = 2^a /\ y[2] = 2^b
    BY DEF Floats, Powers
  <1>2. x[2] \in Nat \ {0} /\ y[2] \in Nat \ {0} /\ x[1] \in Nat /\ y[1] \in Nat
    BY PowersArePositive DEF Floats
  <1> DEFINE d == Max({x[2], y[2]})
  <1>3. d = IF x[2] >= y[2] THEN x[2] ELSE y[2]
    BY <1>2, LargerOf
  <1> HIDE DEF d
  <1>4. (\E k \in Nat \ {0} : x[2] = k * y[2]) \/ (\E k \in Nat \ {0} : y[2] = k * x[2])
    <2>1. a <= b \/ b <= a
      OBVIOUS
    <2> QED
      BY <1>1, <2>1, PowersDivide
  <1>5. \A k \in Nat \ {0}, q \in Nat \ {0} : q <= k * q
    <2> SUFFICES ASSUME NEW k \in Nat \ {0}, NEW q \in Nat \ {0} PROVE q <= k * q
      OBVIOUS
    <2>1. 1 * q <= k * q
      BY Products
    <2> QED
      BY <2>1
  <1>6. \E i, j \in Nat \ {0} : d = i * x[2] /\ d = j * y[2]
    <2>1. 1 \in Nat \ {0} /\ x[2] = 1 * x[2] /\ y[2] = 1 * y[2]
      BY <1>2
    <2>2. CASE x[2] >= y[2]
      <3>1. \E k \in Nat \ {0} : x[2] = k * y[2]
        <4>1. ASSUME NEW k \in Nat \ {0}, y[2] = k * x[2] PROVE x[2] = 1 * y[2]
          BY <1>2, <1>5, <2>2, <4>1
        <4> QED
          BY <1>4, <2>1, <4>1
      <3> QED
        BY <1>3, <2>1, <2>2, <3>1
    <2>3. CASE ~(x[2] >= y[2])
      <3>1. \E k \in Nat \ {0} : y[2] = k * x[2]
        <4>1. ASSUME NEW k \in Nat \ {0}, x[2] = k * y[2] PROVE FALSE
          BY <1>2, <1>5, <2>3, <4>1
        <4> QED
          BY <1>4, <4>1
      <3> QED
        BY <1>3, <2>1, <2>3, <3>1
    <2> QED
      BY <2>2, <2>3
  <1>7. PICK i \in Nat \ {0}, j \in Nat \ {0} : d = i * x[2] /\ d = j * y[2]
    BY <1>6
  <1>8. \A k, q \in Nat \ {0} : (k * q) \div q = k
    <2> SUFFICES ASSUME NEW k \in Nat \ {0}, NEW q \in Nat \ {0} PROVE (k * q) \div q = k
      OBVIOUS
    <2> DEFINE m == k * q
               z == m \div q
    <2>1. m \in Nat
      BY ProductType
    <2>2. z \in Nat /\ z * q <= m /\ m < (z + 1) * q
      BY <2>1, Division, DivisionBounds
    <2> HIDE DEF z
    <2>3. z <= k
      BY <2>2, Products
    <2>4. ~(z + 1 <= k)
      <3> SUFFICES ASSUME z + 1 <= k PROVE FALSE
        OBVIOUS
      <3>1. (z + 1) * q <= k * q
        BY <2>2, Products
      <3>2. (z + 1) * q \in Nat /\ k * q \in Nat
        BY <2>2, ProductType
      <3> QED
        BY <2>2, <3>1, <3>2
    <2> QED
      BY <2>2, <2>3, <2>4 DEF z
  <1>9. d \div x[2] = i /\ d \div y[2] = j
    <2>1. (i * x[2]) \div x[2] = i /\ (j * y[2]) \div y[2] = j
      BY <1>2, <1>8
    <2> QED
      BY <1>7, <2>1
  <1>10. Plus(x, y) = Nearest(x[1] * i + y[1] * j, d)
    BY <1>9 DEF Plus, d
  <1> QED
    BY <1>7, <1>10 DEF d

LEMMA PlusGrows ==
    ASSUME NEW x \in Floats, NEW y \in Floats, NEW v \in Floats, NEW w \in Floats,
           AtMost(x, v), AtMost(y, w)
    PROVE  AtMost(Plus(x, y), Plus(v, w))
  <1>1. PICK i \in Nat \ {0}, j \in Nat \ {0} :
           i * x[2] = j * y[2] /\ Plus(x, y) = Nearest(x[1] * i + y[1] * j, i * x[2])
    <2>1. PICK i \in Nat \ {0}, j \in Nat \ {0} :
             /\ Max({x[2], y[2]}) = i * x[2] /\ Max({x[2], y[2]}) = j * y[2]
             /\ Plus(x, y) = Nearest(x[1] * i + y[1] * j, i * x[2])
      BY CommonDenominator
    <2>2. i * x[2] = j * y[2]
      BY <2>1
    <2> QED
      BY <2>1, <2>2
  <1>2. PICK k \in Nat \ {0}, l \in Nat \ {0} :
           k * v[2] = l * w[2] /\ Plus(v, w) = Nearest(v[1] * k + w[1] * l, k * v[2])
    <2>1. PICK k \in Nat \ {0}, l \in Nat \ {0} :
             /\ Max({v[2], w[2]}) = k * v[2] /\ Max({v[2], w[2]}) = l * w[2]
             /\ Plus(v, w) = Nearest(v[1] * k + w[1] * l, k * v[2])
      BY CommonDenominator
    <2>2. k * v[2] = l * w[2]
      BY <2>1
    <2> QED
      BY <2>1, <2>2
  <1>3. /\ x[1] \in Nat /\ y[1] \in Nat /\ v[1] \in Nat /\ w[1] \in Nat
        /\ x[2] \in Nat \ {0} /\ y[2] \in Nat \ {0} /\ v[2] \in Nat \ {0} /\ w[2] \in Nat \ {0}
    BY PowersArePositive DEF Floats
  <1> DEFINE m == x[1] * i + y[1] * j
             n == v[1] * k + w[1] * l
             c == i * x[2]
             d == k * v[2]
  <1>4. /\ x[1] * i \in Nat /\ y[1] * j \in Nat /\ v[1] * k \in Nat /\ w[1] * l \in Nat
        /\ c \in Nat \ {0} /\ d \in Nat \ {0}
    <2>1. x[1] * i \in Nat /\ y[1] * j \in Nat /\ v[1] * k \in Nat /\ w[1] * l \in Nat
      BY <1>3, ProductType
    <2>2. c \in Nat \ {0} /\ d \in Nat \ {0}
      BY <1>3
    <2> QED
      BY <2>1, <2>2
  <1>5. (x[1] * i) * d <= (v[1] * k) * c
    <2>1. (x[1] * v[2]) * (i * k) <= (v[1] * x[2]) * (i * k)
      <3>1. x[1] * v[2] \in Nat /\ v[1] * x[2] \in Nat /\ i * k \in Nat
        BY <1>3, ProductType
      <3> QED
        BY <3>1, Products DEF AtMost
    <2>2. (x[1] * i) * d = (x[1] * v[2]) * (i * k) /\ (v[1] * k) * c = (v[1] * x[2]) * (i * k)
      BY <1>3
    <2> QED
      BY <2>1, <2>2
  <1>6. (y[1] * j) * d <= (w[1] * l) * c
    <2>1. (y[1] * w[2]) * (j * l) <= (w[1] * y[2]) * (j * l)
      <3>1. y[1] * w[2] \in Nat /\ w[1] * y[2] \in Nat /\ j * l \in Nat
        BY <1>3, ProductType
      <3> QED
        BY <3>1, Products DEF AtMost
    <2>2. (y[1] * j) * (l * w[2]) = (y[1] * w[2]) * (j * l) /\ (w[1] * l) * (j * y[2]) = (w[1] * y[2]) * (j * l)
      BY <1>3
    <2> QED
      BY <1>1, <1>2, <2>1, <2>2
  <1>7. m * d <= n * c /\ m \in Nat /\ n \in Nat
    <2> HIDE DEF c, d
    <2>1. m * d = (x[1] * i) * d + (y[1] * j) * d /\ n * c = (v[1] * k) * c + (w[1] * l) * c
      BY <1>3, <1>4
    <2>2. (x[1] * i) * d \in Nat /\ (y[1] * j) * d \in Nat /\ (v[1] * k) * c \in Nat /\ (w[1] * l) * c \in Nat
      BY <1>4, ProductType
    <2> QED
      BY <1>4, <1>5, <1>6, <2>1, <2>2
  <1>8. Plus(x, y) = Nearest(m, c) /\ Plus(v, w) = Nearest(n, d)
    BY <1>1, <1>2
  <1> HIDE DEF m, n, c, d
  <1> QED
    BY <1>4, <1>7, <1>8, NearestGrows

LEMMA CeilBounds ==
    ASSUME NEW x \in Fractions
    PROVE  /\ Ceil(x) \in Nat
           /\ x[1] <= Ceil(x) * x[2]
           /\ \A c \in Nat : x[1] <= c * x[2] => Ceil(x) <= c
  <1> DEFINE n == x[1]
             d == x[2]
             c == -((-n) \div d)
  <1>1. n \in Nat /\ d \in Nat \ {0}
    BY DEF Fractions
  <1>2. Ceil(x) = c
    BY DEF Ceil
  <1> HIDE DEF n, d
  <1>3. c \in Nat
    BY <1>1, QuotientType
  <1>4. n <= c * d /\ c * d < n + d
    BY <1>1
  <1> HIDE DEF c
  <1>5. ASSUME NEW b \in Nat, n <= b * d PROVE c <= b
    <2> SUFFICES ASSUME b + 1 <= c PROVE FALSE
      BY <1>3
    <2>1. (b + 1) * d <= c * d
      BY <1>1, <1>3, Products
    <2>2. (b + 1) * d = b * d + d /\ b * d \in Nat /\ c * d \in Nat
      BY <1>1, <1>3, ProductType
    <2> QED
      BY <1>1, <1>4, <1>5, <2>1, <2>2
  <1> QED
    BY <1>2, <1>3, <1>4, <1>5 DEF n, d

LEMMA CeilGrows ==
    ASSUME NEW x \in Fractions, NEW y \in Fractions, AtMost(x, y)
    PROVE  Ceil(x) <= Ceil(y)
  <1> DEFINE c == Ceil(y)
  <1>1. /\ x[1] \in Nat /\ y[1] \in Nat /\ x[2] \in Nat \ {0} /\ y[2] \in Nat \ {0}
        /\ c \in Nat /\ y[1] <= c * y[2]
    BY CeilBounds DEF Fractions
  <1> HIDE DEF c
  <1>2. y[1] * x[2] <= (c * y[2]) * x[2]
    <2>1. c * y[2] \in Nat
      BY <1>1, ProductType
    <2> QED
      BY <1>1, <2>1, Products
  <1>3. (c * y[2]) * x[2] = (c * x[2]) * y[2] /\ c * x[2] \in Nat
    BY <1>1, ProductType
  <1>4. x[1] * y[2] <= (c * x[2]) * y[2]
    <2>1. x[1] * y[2] \in Nat /\ y[1] * x[2] \in Nat /\ (c * x[2]) * y[2] \in Nat
      BY <1>1, <1>3, ProductType
    <2> QED
      BY <1>2, <1>3, <2>1 DEF AtMost
  <1>5. x[1] <= c * x[2]
    BY <1>1, <1>3, <1>4, Products
  <1> QED
    BY <1>1, <1>5, CeilBounds DEF c

-----------------------------------------------------------------------------
(***************************************************************************)
(* Costs.                                                                  *)
(***************************************************************************)
\* Who uses as many tokens or less pays as much or less.
LEMMA CostGrows ==
    ASSUME NEW p \in Nat, NEW q \in Nat, p <= q, NEW c \in Nat, NEW d \in Nat, c <= d, NEW price \in Prices
    PROVE  /\ Cost(p, c, price) <= Cost(q, d, price)
           /\ EmbeddingCost(p, price) <= EmbeddingCost(q, price)
  <1> DEFINE Part(n, cents) == Times(Nearest(n, Thousand), Whole(cents))
  <1>1. \A n, cents \in Nat : Part(n, cents) \in Floats
    BY NearestType, WholeType, TimesType, FloatsAreFractions, PricingAssumption
  <1>2. ASSUME NEW m \in Nat, NEW n \in Nat, m <= n, NEW cents \in Nat
        PROVE  AtMost(Part(m, cents), Part(n, cents))
    <2>1. m * Thousand <= n * Thousand
      BY <1>2, Products, PricingAssumption
    <2>2. AtMost(Nearest(m, Thousand), Nearest(n, Thousand))
      BY <2>1, NearestGrows, PricingAssumption
    <2>3. Nearest(m, Thousand) \in Fractions /\ Nearest(n, Thousand) \in Fractions /\ Whole(cents) \in Fractions
      BY NearestType, WholeType, FloatsAreFractions, PricingAssumption
    <2> QED
      BY <2>2, <2>3, TimesGrows
  <1>3. price.input \in Nat /\ price.output \in Nat
    BY DEF Prices
  <1>4. /\ Cost(p, c, price) = Ceil(Plus(Part(p, price.input), Part(c, price.output)))
        /\ Cost(q, d, price) = Ceil(Plus(Part(q, price.input), Part(d, price.output)))
        /\ EmbeddingCost(p, price) = Ceil(Part(p, price.input))
        /\ EmbeddingCost(q, price) = Ceil(Part(q, price.input))
    BY DEF Cost, EmbeddingCost
  <1> HIDE DEF Part
  <1>5. AtMost(Part(p, price.input), Part(q, price.input)) /\ AtMost(Part(c, price.output), Part(d, price.output))
    BY <1>2, <1>3
  <1>6. AtMost(Plus(Part(p, price.input), Part(c, price.output)), Plus(Part(q, price.input), Part(d, price.output)))
    BY <1>1, <1>3, <1>5, PlusGrows
  <1>7. /\ Plus(Part(p, price.input), Part(c, price.output)) \in Fractions
        /\ Plus(Part(q, price.input), Part(d, price.output)) \in Fractions
        /\ Part(p, price.input) \in Fractions /\ Part(q, price.input) \in Fractions
    BY <1>1, <1>3, PlusType, FloatsAreFractions
  <1> QED
    BY <1>4, <1>5, <1>6, <1>7, CeilGrows

-----------------------------------------------------------------------------
(***************************************************************************)
(* The error of rounding.  Each operation rounds once, and takes what it   *)
(* computes off by no more than one part in Mantissas.                     *)
(***************************************************************************)
\* Numbers that Precision digits make.
Mantissas == 2^Precision

\* x is n / d but for a factor between low / unit and high / unit.
Near(x, n, d, low, unit, high) ==
    /\ low * (n * x[2]) <= unit * (x[1] * d)
    /\ unit * (x[1] * d) <= high * (n * x[2])

LEMMA Halves ==
    /\ Precision - 1 \in Nat /\ 2^(Precision - 1) \in Nat \ {0}
    /\ Mantissas \in Nat /\ Mantissas >= 2 /\ Mantissas = 2 * 2^(Precision - 1)
    /\ 2^(2 * Precision) = Mantissas * Mantissas
  <1>1. Precision \in Nat /\ Precision - 1 \in Nat /\ (Precision - 1) + 1 = Precision
        /\ 2 * Precision = Precision + Precision
    BY PricingAssumption
  <1>2. 2^(Precision - 1) \in Nat \ {0}
    BY <1>1, PowerType
  <1>3. Mantissas = 2 * 2^(Precision - 1)
    BY <1>1, Doubling DEF Mantissas
  <1>4. 2^(2 * Precision) = Mantissas * Mantissas
    BY <1>1, PowersAdd DEF Mantissas
  <1> QED
    BY <1>1, <1>2, <1>3, <1>4

LEMMA RoundedError ==
    ASSUME NEW a \in Nat, NEW d \in Nat \ {0}
    PROVE  /\ Rounded(a, d) \in Nat
           /\ 2 * (Rounded(a, d) * d) <= 2 * a + d
           /\ 2 * a <= 2 * (Rounded(a, d) * d) + d
  <1> DEFINE q == a \div d
             r == a % d
  <1>1. q \in Nat /\ r \in Nat /\ r < d /\ a = q * d + r
    BY Division
  <1>2. \/ Rounded(a, d) = q + 1 /\ 2 * r >= d
        \/ Rounded(a, d) = q /\ 2 * r <= d
    <2>1. Rounded(a, d) = IF 2 * r > d \/ (2 * r = d /\ q % 2 = 1) THEN q + 1 ELSE q
      BY DEF Rounded, RoundsUp
    <2> HIDE DEF q, r
    <2> QED
      BY <1>1, <2>1
  <1> HIDE DEF q, r
  <1>3. (q + 1) * d = q * d + d /\ q * d \in Nat
    BY <1>1, ProductType
  <1>4. CASE Rounded(a, d) = q + 1 /\ 2 * r >= d
    BY <1>1, <1>3, <1>4
  <1>5. CASE Rounded(a, d) = q /\ 2 * r <= d
    BY <1>1, <1>3, <1>5
  <1> QED
    BY <1>2, <1>4, <1>5

\* Unless n / d is too small for that many digits behind the point.
LEMMA NearestIsNear ==
    ASSUME NEW n \in Nat, NEW d \in Nat \ {0}, n = 0 \/ d <= 2 * (Mantissas * n)
    PROVE  Near(Nearest(n, d), n, d, Mantissas - 1, Mantissas, Mantissas + 1)
  <1> DEFINE U == Mantissas
             H == 2^(Precision - 1)
  <1>1. U \in Nat /\ U >= 2 /\ U = 2 * H /\ H \in Nat \ {0} /\ 2^(2 * Precision) = U * U
    BY Halves
  <1>2. CASE n = 0
    <2>1. Nearest(n, d)[1] = 0 /\ Nearest(n, d)[2] = 1
      BY <1>2 DEF Nearest, Whole
    <2>2. 0 * d = 0 /\ 0 * 1 = 0 /\ U * 0 = 0 /\ (U - 1) * 0 = 0 /\ (U + 1) * 0 = 0
      BY <1>1
    <2> HIDE DEF U
    <2> QED
      BY <1>2, <2>1, <2>2 DEF Near, U
  <1>3. CASE n # 0
    <2> DEFINE e == Scale(n, d)
               p == 2^e
               a == n * p
               M == Rounded(a, d)
    <2>1. Nearest(n, d) = <<M, p>>
      BY <1>3, NearestIs
    <2>2. e \in Nat /\ p \in Nat \ {0}
      <3>1. e \in Nat
        BY ScaleType
      <3> HIDE DEF e
      <3> QED
        BY <3>1, PowerType
    <2>3. a \in Nat
      BY <2>2, ProductType
    <2>4. a >= d * H
      <3>1. a >= d * H \/ e = 2 * Precision
        BY ScaleIs
      <3>2. ASSUME e = 2 * Precision PROVE a >= d * H
        <4>1. p = U * U
          BY <1>1, <3>2
        <4>2. U * n \in Nat /\ d * H \in Nat
          BY <1>1, ProductType
        <4>3. d * H <= (2 * (U * n)) * H
          BY <1>1, <1>3, <4>2, Products
        <4>4. (2 * (U * n)) * H = n * (U * (2 * H))
          BY <1>1
        <4> QED
          BY <1>1, <4>1, <4>3, <4>4
      <3> QED
        BY <3>1, <3>2
    <2> HIDE DEF p, e
    <2>5. n * p = a
      OBVIOUS
    <2> HIDE DEF a
    <2>6. M \in Nat /\ 2 * (M * d) <= 2 * a + d /\ 2 * a <= 2 * (M * d) + d
      BY <2>3, RoundedError
    <2> HIDE DEF U, H, M
    <2>7. M * d \in Nat /\ d * H \in Nat /\ H * d = d * H /\ U * a \in Nat /\ U * (M * d) \in Nat
      BY <1>1, <2>3, <2>6, ProductType
    <2>8. H * (2 * (M * d)) <= H * (2 * a + d) /\ H * (2 * a) <= H * (2 * (M * d) + d)
      <3>1. 2 * (M * d) \in Nat /\ 2 * a + d \in Nat /\ 2 * a \in Nat /\ 2 * (M * d) + d \in Nat
        BY <2>3, <2>7
      <3>2. \A x, y \in Nat : x <= y => H * x <= H * y
        BY <1>1, Products
      <3> QED
        BY <2>6, <3>1, <3>2
    <2>9. /\ H * (2 * (M * d)) = U * (M * d) /\ H * (2 * a) = U * a
          /\ H * (2 * a + d) = U * a + d * H /\ H * (2 * (M * d) + d) = U * (M * d) + d * H
      BY <1>1, <2>3, <2>7
    <2>10. (U - 1) * a = U * a - a /\ (U + 1) * a = U * a + a
      BY <1>1, <2>3
    <2>11. (U - 1) * a <= U * (M * d) /\ U * (M * d) <= (U + 1) * a
      BY <2>3, <2>4, <2>7, <2>8, <2>9, <2>10
    <2>12. Nearest(n, d)[1] = M /\ Nearest(n, d)[2] = p
      BY <2>1
    <2> QED
      BY <2>5, <2>11, <2>12 DEF Near, U
  <1> QED
    BY <1>2, <1>3

\* Fractions n / d, a / b and c / e in a row, up to factors.
LEMMA Chains ==
    ASSUME NEW n \in Nat, NEW d \in Nat \ {0}, NEW a \in Nat, NEW b \in Nat \ {0}, NEW c \in Nat, NEW e \in Nat \ {0},
           NEW i \in Nat, NEW j \in Nat, NEW k \in Nat, NEW l \in Nat,
           i * (n * b) <= j * (a * d), k * (a * e) <= l * (c * b)
    PROVE  (i * k) * (n * e) <= (j * l) * (c * d)
  <1>1. (i * (n * b)) * (k * e) <= (j * (a * d)) * (k * e)
    <2>1. i * (n * b) \in Nat /\ j * (a * d) \in Nat /\ k * e \in Nat
      BY ProductType
    <2> QED
      BY <2>1, Products
  <1>2. (k * (a * e)) * (j * d) <= (l * (c * b)) * (j * d)
    <2>1. k * (a * e) \in Nat /\ l * (c * b) \in Nat /\ j * d \in Nat
      BY ProductType
    <2> QED
      BY <2>1, Products
  <1>3. /\ (i * (n * b)) * (k * e) = ((i * k) * (n * e)) * b
        /\ (j * (a * d)) * (k * e) = (k * (a * e)) * (j * d)
        /\ (l * (c * b)) * (j * d) = ((j * l) * (c * d)) * b
    OBVIOUS
  <1>4. /\ (i * k) * (n * e) \in Nat /\ (j * l) * (c * d) \in Nat
        /\ ((i * k) * (n * e)) * b \in Nat /\ ((j * l) * (c * d)) * b \in Nat /\ (k * (a * e)) * (j * d) \in Nat
    <2>1. /\ i * k \in Nat /\ n * e \in Nat /\ j * l \in Nat /\ c * d \in Nat
          /\ k * (a * e) \in Nat /\ j * d \in Nat
      BY ProductType
    <2> QED
      BY <2>1, ProductType
  <1>5. ((i * k) * (n * e)) * b <= ((j * l) * (c * d)) * b
    BY <1>1, <1>2, <1>3, <1>4
  <1> QED
    BY <1>4, <1>5, Products

\* One more rounding.
LEMMA RoundedAgain ==
    ASSUME NEW x \in Fractions, NEW n \in Nat, NEW d \in Nat \ {0}, d <= Mantissas,
           NEW low \in Nat, NEW unit \in Nat \ {0}, NEW high \in Nat, n = 0 \/ unit <= 2 * low,
           Near(x, n, d, low, unit, high)
    PROVE  Near(Nearest(x[1], x[2]), n, d, low * (Mantissas - 1), unit * Mantissas, high * (Mantissas + 1))
  <1> DEFINE U == Mantissas
             a == x[1]
             b == x[2]
             y == Nearest(a, b)
             c == y[1]
             e == y[2]
  <1>1. U \in Nat /\ U >= 2 /\ U - 1 \in Nat /\ U + 1 \in Nat
    BY Halves
  <1>2. a \in Nat /\ b \in Nat \ {0}
    BY DEF Fractions
  <1>3. c \in Nat /\ e \in Nat \ {0}
    BY <1>2, NearestType, FloatsAreFractions DEF Fractions
  <1>4. low * (n * b) <= unit * (a * d) /\ unit * (a * d) <= high * (n * b)
    BY DEF Near
  <1> HIDE DEF U, a, b, c, e
  <1>5. a = 0 \/ b <= 2 * (U * a)
    <2>1. CASE n = 0
      <3>1. unit * (a * d) <= 0
        BY <1>2, <1>4, <2>1
      <3>2. ASSUME a # 0 PROVE FALSE
        <4>1. 0 * d < a * d
          BY <1>2, <3>2, Products
        <4>2. a * d \in Nat /\ a * d > 0
          BY <1>2, <4>1, ProductType
        <4>3. 0 * unit < (a * d) * unit
          BY <4>2, Products
        <4> QED
          BY <3>1, <4>2, <4>3
      <3> QED
        BY <3>2
    <2>2. CASE n # 0
      <3>1. 1 * b <= n * b /\ n * b \in Nat /\ a * d \in Nat /\ a * U \in Nat
        BY <1>1, <1>2, <2>2, Products, ProductType
      <3>2. b * low <= (n * b) * low
        BY <1>2, <3>1, Products
      <3>3. a * d <= a * U
        <4>1. d * a <= U * a
          BY <1>1, <1>2, Products DEF U
        <4> QED
          BY <1>1, <1>2, <4>1
      <3>4. (a * d) * unit <= (a * U) * unit
        BY <3>1, <3>3, Products
      <3>5. b * unit <= b * (2 * low)
        <4>1. unit * b <= (2 * low) * b
          BY <1>2, <2>2, Products
        <4> QED
          BY <1>2, <4>1
      <3>6. /\ b * low \in Nat /\ (n * b) * low = low * (n * b) /\ low * (n * b) \in Nat
            /\ (a * d) * unit = unit * (a * d) /\ (a * U) * unit \in Nat /\ unit * (a * d) \in Nat
            /\ b * (2 * low) = 2 * (b * low) /\ b * unit \in Nat
            /\ (2 * (U * a)) * unit = 2 * ((a * U) * unit) /\ 2 * (U * a) \in Nat
        BY <1>1, <1>2, <3>1, ProductType
      <3>7. b * unit <= (2 * (U * a)) * unit
        BY <1>4, <3>2, <3>4, <3>5, <3>6
      <3> QED
        BY <1>2, <3>6, <3>7, Products
    <2> QED
      BY <2>1, <2>2
  <1>6. Near(y, a, b, U - 1, U, U + 1)
    BY <1>2, <1>5, NearestIsNear DEF U
  <1>7. (U - 1) * (a * e) <= U * (c * b) /\ U * (c * b) <= (U + 1) * (a * e)
    BY <1>6 DEF Near, c, e
  <1> HIDE DEF y
  <1>8. (low * (U - 1)) * (n * e) <= (unit * U) * (c * d)
    BY <1>1, <1>2, <1>3, <1>4, <1>7, Chains
  <1>9. (U * unit) * (c * d) <= ((U + 1) * high) * (n * e)
    BY <1>1, <1>2, <1>3, <1>4, <1>7, Chains
  <1>10. U * unit = unit * U /\ (U + 1) * high = high * (U + 1)
    BY <1>1
  <1>11. Near(y, n, d, low * (U - 1), unit * U, high * (U + 1))
    BY <1>8, <1>9, <1>10 DEF Near, c, e
  <1> QED
    BY <1>11 DEF y, U, a, b

\* A factor that is whole, and a sum, are off by no more than what they are made of.
LEMMA NearTimes ==
    ASSUME NEW x \in Fractions, NEW n \in Nat, NEW d \in Nat \ {0}, NEW w \in Nat,
           NEW low \in Nat, NEW unit \in Nat, NEW high \in Nat, Near(x, n, d, low, unit, high)
    PROVE  Near(<<x[1] * w, x[2]>>, n * w, d, low, unit, high)
  <1> DEFINE a == x[1]
             b == x[2]
  <1>1. a \in Nat /\ b \in Nat \ {0}
    BY DEF Fractions
  <1>2. low * (n * b) <= unit * (a * d) /\ unit * (a * d) <= high * (n * b)
    BY DEF Near
  <1> HIDE DEF a, b
  <1>3. /\ (low * (n * b)) * w <= (unit * (a * d)) * w
        /\ (unit * (a * d)) * w <= (high * (n * b)) * w
    <2>1. low * (n * b) \in Nat /\ unit * (a * d) \in Nat /\ high * (n * b) \in Nat
      BY <1>1, ProductType
    <2> QED
      BY <1>2, <2>1, Products
  <1>4. /\ (low * (n * b)) * w = low * ((n * w) * b) /\ (high * (n * b)) * w = high * ((n * w) * b)
        /\ (unit * (a * d)) * w = unit * ((a * w) * d)
    BY <1>1
  <1>5. /\ low * ((n * w) * b) <= unit * ((a * w) * d)
        /\ unit * ((a * w) * d) <= high * ((n * w) * b)
    BY <1>3, <1>4
  <1> QED
    BY <1>5 DEF Near, a, b

LEMMA NearPlus ==
    ASSUME NEW x \in Fractions, NEW y \in Fractions, NEW m \in Nat, NEW n \in Nat, NEW d \in Nat \ {0},
           NEW low \in Nat, NEW unit \in Nat, NEW high \in Nat,
           Near(x, m, d, low, unit, high), Near(y, n, d, low, unit, high),
           NEW i \in Nat \ {0}, NEW j \in Nat \ {0}, i * x[2] = j * y[2]
    PROVE  Near(<<x[1] * i + y[1] * j, i * x[2]>>, m + n, d, low, unit, high)
  <1> DEFINE a == x[1]
             b == x[2]
             c == y[1]
             e == y[2]
  <1>1. a \in Nat /\ b \in Nat \ {0} /\ c \in Nat /\ e \in Nat \ {0} /\ i * b = j * e
    BY DEF Fractions
  <1>2. /\ low * (m * b) <= unit * (a * d) /\ unit * (a * d) <= high * (m * b)
        /\ low * (n * e) <= unit * (c * d) /\ unit * (c * d) <= high * (n * e)
    BY DEF Near
  <1> HIDE DEF a, b, c, e
  <1>3. /\ low * (m * b) \in Nat /\ unit * (a * d) \in Nat /\ high * (m * b) \in Nat
        /\ low * (n * e) \in Nat /\ unit * (c * d) \in Nat /\ high * (n * e) \in Nat
    BY <1>1, ProductType
  <1>4. /\ (low * (m * b)) * i <= (unit * (a * d)) * i /\ (unit * (a * d)) * i <= (high * (m * b)) * i
        /\ (low * (n * e)) * j <= (unit * (c * d)) * j /\ (unit * (c * d)) * j <= (high * (n * e)) * j
    BY <1>2, <1>3, Products
  <1>5. /\ (low * (m * b)) * i = (low * m) * (i * b) /\ (high * (m * b)) * i = (high * m) * (i * b)
        /\ (low * (n * e)) * j = (low * n) * (j * e) /\ (high * (n * e)) * j = (high * n) * (j * e)
        /\ (unit * (a * d)) * i + (unit * (c * d)) * j = unit * ((a * i + c * j) * d)
    BY <1>1
  <1>6. /\ (low * m) * (i * b) + (low * n) * (i * b) = low * ((m + n) * (i * b))
        /\ (high * m) * (i * b) + (high * n) * (i * b) = high * ((m + n) * (i * b))
    BY <1>1
  <1>7. /\ (low * m) * (i * b) \in Nat /\ (low * n) * (i * b) \in Nat
        /\ (high * m) * (i * b) \in Nat /\ (high * n) * (i * b) \in Nat
        /\ (unit * (a * d)) * i \in Nat /\ (unit * (c * d)) * j \in Nat
    <2>1. low * m \in Nat /\ low * n \in Nat /\ high * m \in Nat /\ high * n \in Nat /\ i * b \in Nat
      BY <1>1, ProductType
    <2> QED
      BY <1>3, <2>1, ProductType
  <1>8. /\ (low * m) * (i * b) + (low * n) * (i * b) <= (unit * (a * d)) * i + (unit * (c * d)) * j
        /\ (unit * (a * d)) * i + (unit * (c * d)) * j <= (high * m) * (i * b) + (high * n) * (i * b)
    BY <1>1, <1>4, <1>5, <1>7
  <1>9. /\ low * ((m + n) * (i * b)) <= unit * ((a * i + c * j) * d)
        /\ unit * ((a * i + c * j) * d) <= high * ((m + n) * (i * b))
    BY <1>5, <1>6, <1>8
  <1> QED
    BY <1>9 DEF Near, a, b, c

\* Where n / d is off by less than 1 / d, it is rounded up to where it should be or to the
\* number after that.
LEMMA CeilNear ==
    ASSUME NEW x \in Fractions, NEW n \in Nat, NEW d \in Nat \ {0},
           NEW low \in Nat, NEW unit \in Nat, NEW high \in Nat, Near(x, n, d, low, unit, high),
           unit * n < low * n + unit, high * n < unit * n + unit
    PROVE  Ceil(x) * d >= n /\ (Ceil(x) - 1) * d <= n
  <1> DEFINE a == x[1]
             b == x[2]
             c == Ceil(x)
  <1>1. a \in Nat /\ b \in Nat \ {0} /\ c \in Nat
    BY CeilBounds DEF Fractions
  <1>2. a <= c * b /\ \A k \in Nat : a <= k * b => c <= k
    BY CeilBounds
  <1>3. low * (n * b) <= unit * (a * d) /\ unit * (a * d) <= high * (n * b)
    BY DEF Near
  <1> HIDE DEF a, b, c
  <1>4. /\ low * n \in Nat /\ unit * n \in Nat /\ high * n \in Nat /\ a * d \in Nat /\ c * d \in Nat
        /\ (low * n) * b \in Nat /\ (unit * n) * b \in Nat /\ (high * n) * b \in Nat
        /\ unit * b \in Nat /\ unit * (a * d) \in Nat
    <2>1. low * n \in Nat /\ unit * n \in Nat /\ high * n \in Nat /\ a * d \in Nat /\ c * d \in Nat
      BY <1>1, ProductType
    <2> QED
      BY <1>1, <2>1, ProductType
  <1>5. low * (n * b) = (low * n) * b /\ high * (n * b) = (high * n) * b
    BY <1>1
  <1>6. ASSUME c * d + 1 <= n PROVE FALSE
    <2>1. a * d <= (c * b) * d /\ (c * d + 1) * b <= n * b
      BY <1>1, <1>2, <1>4, <1>6, ProductType, Products
    <2>2. (c * b) * d = (c * d) * b /\ (c * d + 1) * b = (c * d) * b + b
      BY <1>1
    <2>3. (c * d) * b \in Nat /\ n * b \in Nat
      BY <1>1, <1>4, ProductType
    <2>4. a * d + b <= n * b
      BY <1>1, <1>4, <2>1, <2>2, <2>3
    <2>5. (a * d + b) * unit <= (n * b) * unit
      BY <1>1, <1>4, <2>3, <2>4, Products
    <2>6. (a * d + b) * unit = unit * (a * d) + unit * b /\ (n * b) * unit = (unit * n) * b
      BY <1>1
    <2>7. (low * n) * b + unit * b <= (unit * n) * b
      BY <1>3, <1>4, <1>5, <2>5, <2>6
    <2>8. (unit * n) * b < (low * n + unit) * b
      BY <1>1, <1>4, Products
    <2>9. (low * n + unit) * b = (low * n) * b + unit * b
      BY <1>1
    <2> QED
      BY <1>4, <2>7, <2>8, <2>9
  <1>7. ASSUME (c - 1) * d > n PROVE FALSE
    <2>1. c # 0
      BY <1>7
    <2>2. c - 1 \in Nat /\ ~(c <= c - 1)
      BY <1>1, <2>1
    <2>3. (c - 1) * b \in Nat /\ (c - 1) * d \in Nat
      BY <1>1, <2>2, ProductType
    <2>4. (c - 1) * b < a /\ n + 1 <= (c - 1) * d
      BY <1>1, <1>2, <1>7, <2>2, <2>3
    <2>5. ((c - 1) * b) * d < a * d /\ (n + 1) * b <= ((c - 1) * d) * b
      BY <1>1, <2>3, <2>4, Products
    <2>6. ((c - 1) * b) * d = ((c - 1) * d) * b /\ (n + 1) * b = n * b + b
      BY <1>1
    <2>7. n * b \in Nat /\ ((c - 1) * d) * b \in Nat
      BY <1>1, <2>3, ProductType
    <2>8. n * b + b <= a * d
      BY <1>1, <1>4, <2>5, <2>6, <2>7
    <2>9. (n * b + b) * unit <= (a * d) * unit
      BY <1>1, <1>4, <2>7, <2>8, Products
    <2>10. (n * b + b) * unit = (unit * n) * b + unit * b /\ (a * d) * unit = unit * (a * d)
      BY <1>1
    <2>11. (high * n) * b < (unit * n + unit) * b
      BY <1>1, <1>4, Products
    <2>12. (unit * n + unit) * b = (unit * n) * b + unit * b
      BY <1>1
    <2> QED
      BY <1>3, <1>4, <1>5, <2>9, <2>10, <2>11, <2>12
  <1>8. (c - 1) * d \in Int
    BY <1>1
  <1> QED
    BY <1>4, <1>6, <1>7, <1>8 DEF c

\* Three roundings are that good where n is no more than a quarter of Mantissas, and so are two.
LEMMA SmallErrors ==
    ASSUME NEW n \in Nat, 4 * n <= Mantissas
    PROVE  LET U == Mantissas
               two == U * U
               three == (U * U) * U
               low2 == (U - 1) * (U - 1)
               low3 == ((U - 1) * (U - 1)) * (U - 1)
               high2 == (U + 1) * (U + 1)
               high3 == ((U + 1) * (U + 1)) * (U + 1)
           IN /\ two * n < low2 * n + two /\ high2 * n < two * n + two
              /\ three * n < low3 * n + three /\ high3 * n < three * n + three
              /\ n = 0 \/ two <= 2 * low2
  <1> DEFINE U == Mantissas
             Q == U * U
             C == Q * U
             v == U * n
             w == Q * n
  <1>1. U \in Nat /\ U >= 2
    BY Halves
  <1> HIDE DEF U
  <1>2. Q \in Nat
    BY <1>1, ProductType
  <1>3. C \in Nat /\ v \in Nat /\ w \in Nat /\ C * n \in Nat
    BY <1>1, <1>2, ProductType
  <1>4. /\ (U - 1) * (U - 1) = Q - 2 * U + 1 /\ (U + 1) * (U + 1) = Q + 2 * U + 1
        /\ ((U - 1) * (U - 1)) * (U - 1) = C - 3 * Q + 3 * U - 1
        /\ ((U + 1) * (U + 1)) * (U + 1) = C + 3 * Q + 3 * U + 1
    BY <1>1
  <1>5. /\ (Q - 2 * U + 1) * n = Q * n - 2 * v + n /\ (Q + 2 * U + 1) * n = Q * n + 2 * v + n
        /\ (C - 3 * Q + 3 * U - 1) * n = C * n - 3 * w + 3 * v - n
        /\ (C + 3 * Q + 3 * U + 1) * n = C * n + 3 * w + 3 * v + n
    BY <1>1, <1>2, <1>3
  <1>6. CASE n = 0
    <2>1. Q * n = 0 /\ C * n = 0 /\ v = 0 /\ w = 0
      BY <1>1, <1>2, <1>3, <1>6
    <2>2. Q > 0 /\ C > 0
      <3>1. 0 * U < U * U
        BY <1>1, Products
      <3>2. 0 * U < Q * U
        BY <1>1, <1>2, <3>1, Products
      <3> QED
        BY <1>1, <1>2, <1>3, <3>1, <3>2
    <2> HIDE DEF Q, C, v, w
    <2> QED
      BY <1>1, <1>2, <1>3, <1>4, <1>5, <1>6, <2>1, <2>2 DEF U, Q, C
  <1>7. CASE n # 0
    <2>1. U >= 4
      BY <1>1, <1>7 DEF U
    <2>2. 4 * U <= Q /\ 4 * Q <= C
      <3>1. 4 * U <= U * U /\ 4 * Q <= U * Q
        BY <1>1, <1>2, <2>1, Products
      <3>2. U * Q = C
        BY <1>1
      <3> QED
        BY <3>1, <3>2
    <2>3. 4 * v <= Q /\ 4 * w <= C
      <3>1. (4 * n) * U <= U * U /\ (4 * n) * Q <= U * Q
        BY <1>1, <1>2, Products DEF U
      <3>2. (4 * n) * U = 4 * v /\ (4 * n) * Q = 4 * w /\ U * Q = C
        BY <1>1, <1>2
      <3> QED
        BY <3>1, <3>2
    <2>4. Q * n = w /\ n <= v
      <3>1. 1 * n <= U * n
        BY <1>1, Products
      <3> QED
        BY <3>1
    <2>5. 4 * n <= U
      BY DEF U
    <2> HIDE DEF Q, C, v, w
    <2> QED
      BY <1>1, <1>2, <1>3, <1>4, <1>5, <2>1, <2>2, <2>3, <2>4, <2>5 DEF U
  <1> QED
    BY <1>6, <1>7

\* A quotient times a whole number, in floats.
LEMMA PartsAreNear ==
    ASSUME Thousand <= Mantissas, NEW n \in Nat, NEW cents \in Nat
    PROVE  /\ Times(Nearest(n, Thousand), Whole(cents)) \in Floats
           /\ Near(Times(Nearest(n, Thousand), Whole(cents)), n * cents, Thousand,
                   (Mantissas - 1) * (Mantissas - 1), Mantissas * Mantissas, (Mantissas + 1) * (Mantissas + 1))
  <1> DEFINE U == Mantissas
             T == Thousand
             q == Nearest(n, T)
             y == <<q[1] * cents, q[2]>>
  <1>1. U \in Nat /\ U >= 2 /\ U - 1 \in Nat /\ U + 1 \in Nat /\ T \in Nat \ {0} /\ T <= U
    BY Halves, PricingAssumption
  <1>2. q \in Floats /\ q \in Fractions /\ Whole(cents) \in Fractions
    BY <1>1, NearestType, WholeType, FloatsAreFractions
  <1> HIDE DEF U, T
  <1>3. Near(<<n, T>>, n, T, 1, 1, 1)
    <2>1. n * T \in Nat /\ 1 * (n * T) = n * T
      BY <1>1, ProductType
    <2> QED
      BY <2>1 DEF Near
  <1>4. <<n, T>> \in Fractions /\ 1 \in Nat \ {0} /\ 1 <= 2 * 1
    BY <1>1 DEF Fractions
  <1>5. Near(Nearest(<<n, T>>[1], <<n, T>>[2]), n, T, 1 * (U - 1), 1 * U, 1 * (U + 1))
    BY <1>1, <1>3, <1>4, RoundedAgain DEF U
  <1>6. Near(q, n, T, U - 1, U, U + 1)
    BY <1>1, <1>5
  <1> HIDE DEF q
  <1>7. Near(y, n * cents, T, U - 1, U, U + 1)
    BY <1>1, <1>2, <1>6, NearTimes
  <1>8. y \in Fractions /\ n * cents \in Nat
    BY <1>2, ProductType DEF Fractions
  <1>9. U \in Nat \ {0} /\ U <= 2 * (U - 1)
    BY <1>1
  <1>10. Near(Nearest(y[1], y[2]), n * cents, T, (U - 1) * (U - 1), U * U, (U + 1) * (U + 1))
    <2> HIDE DEF y
    <2> QED
      BY <1>1, <1>7, <1>8, <1>9, RoundedAgain DEF U
  <1>11. Times(q, Whole(cents)) = Nearest(y[1], y[2])
    <2>1. q[2] * 1 = q[2]
      BY <1>2 DEF Fractions
    <2> QED
      BY <2>1 DEF Times, Whole
  <1>12. Times(q, Whole(cents)) \in Floats
    BY <1>2, TimesType
  <1> QED
    BY <1>10, <1>11, <1>12 DEF q, T, U

\* A cost is the exact cost rounded up, or one cent more, although three operations and the
\* quotients round it (proxy_service.py:36, embeddings.py:41): as long as the exact cost
\* has two binary digits less, in thousandths, than a float.
THEOREM CostsAreNearlyExact ==
    ASSUME NEW prompt \in Nat, NEW completion \in Nat, NEW price \in Prices, Thousand <= 2^Precision,
           4 * ExactThousandths(prompt, completion, price) <= 2^Precision
    PROVE  /\ Cost(prompt, completion, price) * Thousand >= ExactThousandths(prompt, completion, price)
           /\ (Cost(prompt, completion, price) - 1) * Thousand <= ExactThousandths(prompt, completion, price)
           /\ completion = 0 =>
                 /\ EmbeddingCost(prompt, price) * Thousand >= ExactThousandths(prompt, completion, price)
                 /\ (EmbeddingCost(prompt, price) - 1) * Thousand <= ExactThousandths(prompt, completion, price)
  <1> DEFINE U == Mantissas
             T == Thousand
             x == Times(Nearest(prompt, T), Whole(price.input))
             y == Times(Nearest(completion, T), Whole(price.output))
             m == prompt * price.input
             n == completion * price.output
             low == (U - 1) * (U - 1)
             unit == U * U
             high == (U + 1) * (U + 1)
  <1>1. price.input \in Nat /\ price.output \in Nat /\ T \in Nat \ {0} /\ T <= U
    BY PricingAssumption DEF Prices, Mantissas
  <1>2. U \in Nat /\ U >= 2 /\ U - 1 \in Nat /\ U + 1 \in Nat
    BY Halves
  <1>3. /\ x \in Floats /\ Near(x, m, T, low, unit, high)
        /\ y \in Floats /\ Near(y, n, T, low, unit, high)
    BY <1>1, PartsAreNear
  <1>4. m \in Nat /\ n \in Nat /\ m + n \in Nat /\ m + n = ExactThousandths(prompt, completion, price)
    BY <1>1, ProductType DEF ExactThousandths
  <1>5. 4 * (m + n) <= U
    BY <1>4 DEF Mantissas
  <1>6. low \in Nat /\ unit \in Nat \ {0} /\ high \in Nat
    <2>1. 0 * U < U * U
      BY <1>2, Products
    <2> QED
      BY <1>2, <2>1, ProductType
  <1>7. /\ unit * (m + n) < low * (m + n) + unit /\ high * (m + n) < unit * (m + n) + unit
        /\ (unit * U) * (m + n) < (low * (U - 1)) * (m + n) + unit * U
        /\ (high * (U + 1)) * (m + n) < (unit * U) * (m + n) + unit * U
        /\ m + n = 0 \/ unit <= 2 * low
    BY <1>4, <1>5, SmallErrors
  <1> HIDE DEF x, y, m, n, low, unit, high, U, T
  <1>8. x \in Fractions /\ y \in Fractions
    BY <1>3, FloatsAreFractions
  <1>9. Ceil(Plus(x, y)) * T >= m + n /\ (Ceil(Plus(x, y)) - 1) * T <= m + n
    <2>1. PICK i \in Nat \ {0}, j \in Nat \ {0} :
             i * x[2] = j * y[2] /\ Plus(x, y) = Nearest(x[1] * i + y[1] * j, i * x[2])
      <3>1. PICK i \in Nat \ {0}, j \in Nat \ {0} :
               /\ Max({x[2], y[2]}) = i * x[2] /\ Max({x[2], y[2]}) = j * y[2]
               /\ Plus(x, y) = Nearest(x[1] * i + y[1] * j, i * x[2])
        BY <1>3, CommonDenominator
      <3>2. i * x[2] = j * y[2]
        BY <3>1
      <3> QED
        BY <3>1, <3>2
    <2> DEFINE z == <<x[1] * i + y[1] * j, i * x[2]>>
    <2>2. Near(z, m + n, T, low, unit, high)
      BY <1>1, <1>3, <1>4, <1>6, <1>8, <2>1, NearPlus
    <2>3. z \in Fractions
      <3>1. x[1] \in Nat /\ x[2] \in Nat \ {0} /\ y[1] \in Nat
        BY <1>8 DEF Fractions
      <3>2. x[1] * i \in Nat /\ y[1] * j \in Nat /\ i * x[2] \in Nat \ {0}
        BY <3>1, ProductType
      <3>3. x[1] * i + y[1] * j \in Nat
        BY <3>2
      <3> QED
        BY <3>2, <3>3 DEF Fractions
    <2>4. Plus(x, y) = Nearest(z[1], z[2])
      BY <2>1
    <2> HIDE DEF z
    <2>5. Near(Plus(x, y), m + n, T, low * (U - 1), unit * U, high * (U + 1))
      BY <1>1, <1>4, <1>6, <1>7, <2>2, <2>3, <2>4, RoundedAgain DEF U
    <2>6. low * (U - 1) \in Nat /\ unit * U \in Nat /\ high * (U + 1) \in Nat
      BY <1>2, <1>6, ProductType
    <2>7. Plus(x, y) \in Fractions
      BY <1>8, PlusType, FloatsAreFractions
    <2> QED
      BY <1>1, <1>4, <1>7, <2>5, <2>6, <2>7, CeilNear
  <1>10. ASSUME n = 0 PROVE Ceil(x) * T >= m + n /\ (Ceil(x) - 1) * T <= m + n
    <2>1. Near(x, m + n, T, low, unit, high)
      BY <1>3, <1>4, <1>10
    <2> QED
      BY <1>1, <1>4, <1>6, <1>7, <1>8, <2>1, CeilNear
  <1>11. completion = 0 => n = 0
    BY <1>1 DEF n
  <1>12. Cost(prompt, completion, price) = Ceil(Plus(x, y)) /\ EmbeddingCost(prompt, price) = Ceil(x)
    BY DEF Cost, EmbeddingCost, x, y, T
  <1> QED
    BY <1>4, <1>9, <1>10, <1>11, <1>12 DEF T

-----------------------------------------------------------------------------
(***************************************************************************)
(* Rounding leaves floats alone, so that a price, which is a cost that     *)
(* grows, is no less than the cost.                                        *)
(***************************************************************************)
LEMMA RepresentableType == Representable \subseteq Floats
  <1>1. \A e \in 0 .. (2 * Precision) : e \in Nat
    OBVIOUS
  <1>2. 2^Precision - 1 \in Int
    BY PowerType, PricingAssumption
  <1> QED
    BY <1>1, <1>2 DEF Representable, Floats, Powers

LEMMA OneIsRepresentable == Whole(1) \in Representable
  <1>1. 2 <= 2^Precision /\ 2^Precision \in Nat
    BY Halves DEF Mantissas
  <1>2. 1 \in 0 .. (2^Precision - 1)
    BY <1>1
  <1>3. 0 \in 0 .. (2 * Precision)
    BY PricingAssumption
  <1> QED
    BY <1>2, <1>3, PowerOfZero DEF Representable, Whole

LEMMA FloatsAreKept ==
    ASSUME NEW x \in Representable
    PROVE  AtMost(x, Nearest(x[1], x[2])) /\ AtMost(Nearest(x[1], x[2]), x)
  <1>1. PICK k \in 0 .. (2 * Precision) : x[2] = 2^k
    BY DEF Representable
  <1> DEFINE n == x[1]
             d == x[2]
             H == 2^(Precision - 1)
             U == Mantissas
  <1>2. n \in Nat /\ n < U /\ U \in Nat /\ U = 2 * H /\ H \in Nat \ {0} /\ Precision \in Nat
    <2>1. n \in 0 .. (2^Precision - 1)
      BY DEF Representable
    <2> QED
      BY <2>1, Halves, PricingAssumption DEF Mantissas
  <1>3. k \in Nat /\ d \in Nat \ {0}
    BY <1>1, <1>2, PowerType
  <1>4. CASE n = 0
    <2>1. Nearest(n, d)[1] = 0 /\ Nearest(n, d)[2] = 1
      BY <1>4 DEF Nearest, Whole
    <2>2. 0 * 1 = 0 /\ 0 * d = 0
      <3> HIDE DEF d
      <3> QED
        BY <1>3
    <2>3. x[1] = 0 /\ 0 * x[2] = 0 /\ 0 * 1 = 0
      BY <1>4, <2>2
    <2> QED
      BY <2>1, <2>3 DEF AtMost
  <1>5. CASE n # 0
    <2> DEFINE e == Scale(n, d)
               p == 2^e
               M == Rounded(n * p, d)
    <2>1. Nearest(n, d) = <<M, p>>
      BY <1>2, <1>3, <1>5, NearestIs
    <2>2. e \in Nat /\ (n * p >= d * H \/ e = 2 * Precision)
      BY <1>2, <1>3, ScaleIs, ScaleType
    <2> HIDE DEF e, n, d
    <2>3. p \in Nat \ {0}
      BY <2>2, PowerType
    <2>4. ASSUME e < k PROVE FALSE
      <3>1. n * p >= d * H
        BY <1>1, <1>2, <2>2, <2>4
      <3> DEFINE i == k - e - 1
      <3>2. i \in Nat /\ k = (i + e) + 1
        BY <1>3, <2>2, <2>4
      <3>3. d = 2 * (2^i * p)
        <4>1. 2^k = 2 * 2^(i + e)
          BY <2>2, <3>2, Doubling
        <4>2. 2^(i + e) = 2^i * 2^e
          BY <2>2, <3>2, PowersAdd
        <4> QED
          BY <1>1, <4>1, <4>2 DEF d
      <3> DEFINE j == 2^i
      <3>4. j \in Nat \ {0}
        BY <3>2, PowerType
      <3> HIDE DEF i, j, p, H, U
      <3>5. d * H = (j * p) * U
        BY <1>2, <2>3, <3>3, <3>4 DEF j
      <3>6. p * U <= (j * p) * U
        <4>1. 1 * p <= j * p /\ j * p \in Nat
          BY <2>3, <3>4, Products, ProductType
        <4> QED
          BY <1>2, <2>3, <4>1, Products
      <3>7. n * p < U * p
        BY <1>2, <2>3, Products
      <3>8. U * p = p * U /\ n * p \in Nat /\ p * U \in Nat /\ (j * p) * U \in Nat
        <4>1. j * p \in Nat
          BY <2>3, <3>4, ProductType
        <4> QED
          BY <1>2, <2>3, <4>1, ProductType
      <3> QED
        BY <3>1, <3>5, <3>6, <3>7, <3>8
    <2>5. PICK j \in Nat \ {0} : p = j * d
      <3>1. k <= e
        BY <1>3, <2>2, <2>4
      <3> QED
        BY <1>1, <1>3, <2>2, <3>1, PowersDivide DEF d
    <2> HIDE DEF p
    <2>6. n * j \in Nat /\ n * p \in Nat /\ (n * j) * d = n * p
      BY <1>2, <1>3, <2>3, <2>5, ProductType
    <2>7. M = n * j
      BY <1>3, <2>6, RoundedExactly
    <2> HIDE DEF M
    <2>8. n * p = M * d
      BY <2>6, <2>7
    <2>9. n * p <= M * d /\ M * d <= n * p
      BY <2>6, <2>8
    <2>10. Nearest(n, d)[1] = M /\ Nearest(n, d)[2] = p
      BY <2>1
    <2> QED
      BY <2>9, <2>10 DEF AtMost, n, d
  <1> QED
    BY <1>4, <1>5

LEMMA AtMostTransitive ==
    ASSUME NEW x \in Fractions, NEW y \in Fractions, NEW z \in Fractions, AtMost(x, y), AtMost(y, z)
    PROVE  AtMost(x, z)
  <1> DEFINE a == x[1]
             b == x[2]
             c == y[1]
             d == y[2]
             e == z[1]
             f == z[2]
  <1>1. /\ a \in Nat /\ b \in Nat \ {0} /\ c \in Nat /\ d \in Nat \ {0} /\ e \in Nat /\ f \in Nat \ {0}
        /\ a * d <= c * b /\ c * f <= e * d
    BY DEF Fractions, AtMost
  <1> HIDE DEF a, b, c, d, e, f
  <1>2. a * d \in Nat /\ c * b \in Nat /\ c * f \in Nat /\ e * d \in Nat /\ a * f \in Nat /\ e * b \in Nat
    BY <1>1, ProductType
  <1>3. (a * d) * f <= (c * b) * f /\ (c * f) * b <= (e * d) * b
    BY <1>1, <1>2, Products
  <1>4. (c * b) * f = (c * f) * b /\ (a * d) * f = (a * f) * d /\ (e * d) * b = (e * b) * d
    BY <1>1
  <1>5. (a * f) * d <= (e * b) * d
    <2>1. (a * f) * d \in Nat /\ (e * b) * d \in Nat /\ (c * f) * b \in Nat
      BY <1>1, <1>2, ProductType
    <2> QED
      BY <1>3, <1>4, <2>1
  <1>6. a * f <= e * b
    BY <1>1, <1>2, <1>5, Products
  <1> QED
    BY <1>6 DEF AtMost, a, b, e, f

(***************************************************************************)
(* Markups.  One and a percentage, of either sign, are between one and it. *)
(***************************************************************************)
LEMMA OneIsKept ==
    /\ Whole(1) \in Representable /\ Whole(1) \in Fractions /\ Nearest(1, 1) \in Fractions
    /\ AtMost(Whole(1), Nearest(1, 1)) /\ AtMost(Nearest(1, 1), Whole(1))
  <1>1. Whole(1)[1] = 1 /\ Whole(1)[2] = 1
    BY DEF Whole
  <1>2. Nearest(1, 1) \in Fractions /\ Whole(1) \in Fractions
    BY NearestType, WholeType, FloatsAreFractions
  <1> QED
    BY <1>1, <1>2, OneIsRepresentable, FloatsAreKept

LEMMA NearestNegative ==
    ASSUME NEW n \in Nat \ {0}, NEW d \in Nat \ {0}
    PROVE  Nearest(-n, d) = <<-Nearest(n, d)[1], Nearest(n, d)[2]>>
  <1>1. -n # 0 /\ ~(-n > 0) /\ -(-n) = n /\ n > 0 /\ n # 0
    OBVIOUS
  <1>2. Nearest(n, d) = NearestTo(n, d)
    BY <1>1 DEF Nearest
  <1>3. Nearest(-n, d) = <<-NearestTo(n, d)[1], NearestTo(n, d)[2]>>
    BY <1>1 DEF Nearest
  <1> QED
    BY <1>2, <1>3

LEMMA PlusOne ==
    ASSUME NEW m \in Int, NEW d \in Nat \ {0}
    PROVE  Plus(Whole(1), <<m, d>>) = Nearest(d + m, d)
  <1>1. Max({1, d}) = d
    BY LargerOf
  <1>2. d \div 1 = d /\ d \div d = 1 /\ 1 * d + m * 1 = d + m
    <2>1. d = 1 * d + 0
      OBVIOUS
    <2> QED
      BY <2>1
  <1>3. Whole(1)[1] = 1 /\ Whole(1)[2] = 1 /\ <<m, d>>[1] = m /\ <<m, d>>[2] = d
    BY DEF Whole
  <1>4. Plus(Whole(1), <<m, d>>) = Nearest(1 * (d \div 1) + m * (d \div d), d)
    BY <1>1, <1>3 DEF Plus
  <1> QED
    BY <1>2, <1>4

\* What a cost price is multiplied with.
Factor(markup) == Plus(Whole(1), Nearest(markup[1], Hundred * markup[2]))

LEMMA SignedParts ==
    ASSUME NEW markup \in Signed
    PROVE  markup[1] \in Int /\ markup[2] \in Nat \ {0} /\ Hundred * markup[2] \in Nat \ {0}
  <1>1. markup[1] \in -(2^Precision - 1) .. (2^Precision - 1)
    BY DEF Signed
  <1>2. PICK e \in 0 .. (2 * Precision) : markup[2] = 2^e
    BY DEF Signed
  <1>3. markup[2] \in Nat \ {0}
    <2>1. e \in Nat
      OBVIOUS
    <2> QED
      BY <1>2, <2>1, PowerType
  <1>4. Hundred * markup[2] \in Nat \ {0}
    BY <1>3, PricingAssumption
  <1> QED
    BY <1>1, <1>3, <1>4

\* The percentage itself: its sign, and that -100 % is -1.
LEMMA PercentageIs ==
    ASSUME NEW markup \in Signed
    PROVE  \E m \in Int, d \in Nat \ {0} :
              /\ Nearest(markup[1], Hundred * markup[2]) = <<m, d>>
              /\ markup[1] >= 0 => m >= 0
              /\ markup[1] <= 0 => m <= 0
              /\ markup[1] >= -(Hundred * markup[2]) => d + m >= 0
  <1> DEFINE D == Hundred * markup[2]
             n == markup[1]
  <1>1. n \in Int /\ D \in Nat \ {0}
    BY SignedParts
  <1> HIDE DEF n, D
  <1>2. CASE n >= 0
    <2>1. n \in Nat
      BY <1>1, <1>2
    <2>2. Nearest(n, D) \in Fractions
      BY <1>1, <2>1, NearestType, FloatsAreFractions
    <2>3. PICK m \in Nat, d \in Nat \ {0} : Nearest(n, D) = <<m, d>>
      BY <2>2 DEF Fractions
    <2>4. n = 0 => m = 0
      <3>1. n = 0 => Nearest(n, D) = <<0, 1>>
        BY DEF Nearest, Whole
      <3> QED
        BY <2>3, <3>1
    <2>5. (n >= 0 => m >= 0) /\ (n <= 0 => m <= 0) /\ d + m >= 0
      BY <2>1, <2>4
    <2> QED
      BY <2>3, <2>5 DEF n, D
  <1>3. CASE n < 0
    <2> DEFINE a == -n
    <2>1. a \in Nat \ {0} /\ n = -a
      BY <1>1, <1>3
    <2> HIDE DEF a
    <2>2. Nearest(a, D) \in Fractions
      BY <1>1, <2>1, NearestType, FloatsAreFractions
    <2>3. PICK m \in Nat, d \in Nat \ {0} : Nearest(a, D) = <<m, d>>
      BY <2>2 DEF Fractions
    <2>4. Nearest(n, D) = <<-m, d>>
      BY <1>1, <2>1, <2>3, NearestNegative
    <2>5. a <= D => m <= d
      <3> SUFFICES ASSUME a <= D PROVE m <= d
        OBVIOUS
      <3>1. AtMost(Nearest(a, D), Nearest(1, 1))
        <4>1. a * 1 <= 1 * D
          BY <1>1, <2>1
        <4> QED
          BY <1>1, <2>1, <4>1, NearestGrows
      <3>2. AtMost(Nearest(a, D), Whole(1))
        BY <2>2, <3>1, OneIsKept, AtMostTransitive
      <3>3. m * 1 <= 1 * d
        BY <2>3, <3>2 DEF AtMost, Whole
      <3> QED
        BY <3>3
    <2>6. n >= -D => a <= D
      BY <1>1, <2>1
    <2>7. n >= -D => d + (-m) >= 0
      BY <2>5, <2>6
    <2>8. -m \in Int /\ -m <= 0 /\ ~(n >= 0)
      BY <1>3, <1>1
    <2> QED
      BY <2>3, <2>4, <2>7, <2>8 DEF n, D
  <1> QED
    BY <1>1, <1>2, <1>3

LEMMA FactorIs ==
    ASSUME NEW markup \in Signed
    PROVE  /\ markup[1] >= 0 => Factor(markup) \in Floats /\ AtMost(Whole(1), Factor(markup))
           /\ markup[1] <= 0 => \/ Factor(markup) \in Floats /\ AtMost(Factor(markup), Whole(1))
                                \/ \E m \in Nat \ {0}, d \in Nat \ {0} : Factor(markup) = Nearest(-m, d)
           /\ markup[1] >= -(Hundred * markup[2]) => Factor(markup) \in Floats
  <1>1. PICK m \in Int, d \in Nat \ {0} :
           /\ Nearest(markup[1], Hundred * markup[2]) = <<m, d>>
           /\ markup[1] >= 0 => m >= 0
           /\ markup[1] <= 0 => m <= 0
           /\ markup[1] >= -(Hundred * markup[2]) => d + m >= 0
    BY PercentageIs
  <1>2. Factor(markup) = Nearest(d + m, d)
    BY <1>1, PlusOne DEF Factor
  <1>3. d + m >= 0 => d + m \in Nat /\ Nearest(d + m, d) \in Floats
    BY NearestType
  <1>4. ASSUME m >= 0 PROVE AtMost(Whole(1), Nearest(d + m, d)) /\ d + m >= 0
    <2>1. d + m \in Nat /\ 1 * d <= (d + m) * 1
      BY <1>4
    <2>2. AtMost(Nearest(1, 1), Nearest(d + m, d))
      BY <2>1, NearestGrows
    <2> QED
      BY <1>3, <2>1, <2>2, OneIsKept, AtMostTransitive, FloatsAreFractions
  <1>5. ASSUME m <= 0, d + m >= 0 PROVE AtMost(Nearest(d + m, d), Whole(1))
    <2>1. d + m \in Nat /\ (d + m) * 1 <= 1 * d
      BY <1>5
    <2>2. AtMost(Nearest(d + m, d), Nearest(1, 1))
      BY <2>1, NearestGrows
    <2> QED
      BY <1>3, <1>5, <2>2, OneIsKept, AtMostTransitive, FloatsAreFractions
  <1>6. ASSUME ~(d + m >= 0) PROVE \E k \in Nat \ {0}, e \in Nat \ {0} : Nearest(d + m, d) = Nearest(-k, e)
    <2>1. -(d + m) \in Nat \ {0} /\ d + m = -(-(d + m))
      BY <1>6
    <2> QED
      BY <2>1
  <1> QED
    BY <1>1, <1>2, <1>3, <1>4, <1>5, <1>6

\* A price is a number of cents, unless a markup takes off more than there is.
LEMMA MarkedUpType ==
    ASSUME NEW cost \in Fractions, NEW markup \in Signed, markup[1] >= -(Hundred * markup[2])
    PROVE  MarkedUp(cost, markup) \in Nat
  <1>1. Factor(markup) \in Fractions
    BY FactorIs, FloatsAreFractions
  <1>2. Times(cost, Factor(markup)) \in Fractions
    BY <1>1, TimesType, FloatsAreFractions
  <1> QED
    BY <1>2, CeilType DEF MarkedUp, Factor

\* Multiplied with one or more, a cost price grows; with one or less, it shrinks.
LEMMA CostTimes ==
    ASSUME NEW cost \in Representable, NEW y \in Fractions
    PROVE  /\ AtMost(Whole(1), y) => AtMost(cost, Times(cost, y))
           /\ AtMost(y, Whole(1)) => AtMost(Times(cost, y), cost)
  <1> DEFINE a == cost[1]
             b == cost[2]
             c == y[1]
             d == y[2]
             near == Nearest(cost[1], cost[2])
             t == Times(cost, y)
  <1>1. /\ cost \in Fractions
        /\ a \in Nat /\ b \in Nat \ {0} /\ c \in Nat /\ d \in Nat \ {0}
    BY RepresentableType, FloatsAreFractions DEF Fractions
  <1>2. near \in Fractions /\ t \in Fractions
    BY <1>1, NearestType, TimesType, FloatsAreFractions
  <1>3. AtMost(cost, near) /\ AtMost(near, cost)
    BY FloatsAreKept
  <1>4. a * c \in Nat /\ b * d \in Nat \ {0} /\ a * b \in Nat
    BY <1>1, ProductType
  <1>5. t = Nearest(a * c, b * d)
    BY DEF Times
  <1> HIDE DEF t, near
  <1>6. d * (a * b) = a * (b * d) /\ c * (a * b) = (a * c) * b
    <2> HIDE DEF a, b, c, d
    <2> QED
      BY <1>1
  <1>7. ASSUME AtMost(Whole(1), y) PROVE AtMost(cost, t)
    <2>1. 1 * d <= c * 1
      BY <1>7 DEF AtMost, Whole
    <2>2. d * (a * b) <= c * (a * b)
      BY <1>1, <1>4, <2>1, Products
    <2>3. AtMost(near, t)
      BY <1>1, <1>4, <1>5, <1>6, <2>2, NearestGrows DEF near
    <2> QED
      BY <1>1, <1>2, <1>3, <2>3, AtMostTransitive
  <1>8. ASSUME AtMost(y, Whole(1)) PROVE AtMost(t, cost)
    <2>1. c * 1 <= 1 * d
      BY <1>8 DEF AtMost, Whole
    <2>2. c * (a * b) <= d * (a * b)
      BY <1>1, <1>4, <2>1, Products
    <2>3. AtMost(t, near)
      BY <1>1, <1>4, <1>5, <1>6, <2>2, NearestGrows DEF near
    <2> QED
      BY <1>1, <1>2, <1>3, <2>3, AtMostTransitive
  <1> QED
    BY <1>7, <1>8 DEF t

LEMMA NearestToNegative ==
    ASSUME NEW n \in Nat, NEW f \in Nat \ {0}
    PROVE  \E i \in Nat, j \in Nat \ {0} : Nearest(-n, f) = <<-i, j>>
  <1>1. CASE n = 0
    <2>1. n <= 0
      BY <1>1
    <2>2. -n = 0
      BY <2>1
    <2>3. Nearest(-n, f) = <<-n, 1>>
      BY <2>2 DEF Nearest, Whole
    <2> QED
      BY <2>3
  <1>2. CASE n # 0
    <2>1. n \in Nat \ {0}
      BY <1>2
    <2>2. Nearest(n, f) \in Fractions
      BY NearestType, FloatsAreFractions
    <2>3. PICK i \in Nat, j \in Nat \ {0} : Nearest(n, f) = <<i, j>>
      BY <2>2 DEF Fractions
    <2>4. Nearest(-n, f) = <<-i, j>>
      BY <2>1, <2>3, NearestNegative
    <2> QED
      BY <2>4
  <1> QED
    BY <1>1, <1>2

\* A negative price is no number of cents that is owed.
LEMMA NegativeCeil ==
    ASSUME NEW cost \in Fractions, NEW m \in Nat \ {0}, NEW d \in Nat \ {0}
    PROVE  Ceil(Times(cost, Nearest(-m, d))) \in Int /\ Ceil(Times(cost, Nearest(-m, d))) <= 0
  <1>1. PICK k \in Nat, e \in Nat \ {0} : Nearest(m, d) = <<k, e>>
    BY NearestType, FloatsAreFractions DEF Fractions
  <1>2. Nearest(-m, d) = <<-k, e>>
    BY <1>1, NearestNegative
  <1> DEFINE a == cost[1]
             b == cost[2]
             n == a * k
             f == b * e
  <1>3. a \in Nat /\ b \in Nat \ {0}
    BY DEF Fractions
  <1>4. n \in Nat /\ f \in Nat \ {0} /\ a * (-k) = -n
    BY <1>1, <1>3, ProductType
  <1>5. Times(cost, Nearest(-m, d)) = Nearest(-n, f)
    BY <1>2, <1>4 DEF Times
  <1> HIDE DEF n, f
  <1>6. PICK i \in Nat, j \in Nat \ {0} : Nearest(-n, f) = <<-i, j>>
    <2> SUFFICES n \in Nat /\ f \in Nat \ {0}
      BY NearestToNegative
    <2> QED
      BY <1>4
  <1>7. Ceil(<<-i, j>>) = -((-(-i)) \div j)
    BY DEF Ceil
  <1>8. -(-i) = i /\ i \div j \in Nat
    BY QuotientType
  <1> QED
    BY <1>5, <1>6, <1>7, <1>8

\* A price with a markup is no less than the cost price, which is a float, and with a discount
\* it is no more than the cost price rounded up (proxy_service.py:89-91).
THEOREM MarkupsCoverCosts ==
    ASSUME NEW cost \in Representable, NEW markup \in Signed
    PROVE  /\ markup[1] >= 0 => cost[1] <= MarkedUp(cost, markup) * cost[2]
           /\ markup[1] <= 0 => MarkedUp(cost, markup) <= Ceil(cost)
  <1> DEFINE y == Factor(markup)
             t == Times(cost, y)
  <1>1. cost \in Fractions
    BY RepresentableType, FloatsAreFractions
  <1>2. MarkedUp(cost, markup) = Ceil(t)
    BY DEF MarkedUp, Factor
  <1>3. ASSUME markup[1] >= 0 PROVE cost[1] <= Ceil(t) * cost[2]
    <2>1. y \in Fractions /\ AtMost(Whole(1), y)
      BY <1>3, FactorIs, FloatsAreFractions
    <2>2. AtMost(cost, t) /\ t \in Fractions
      BY <1>1, <2>1, CostTimes, TimesType, FloatsAreFractions
    <2> DEFINE c == Ceil(t)
    <2> HIDE DEF t
    <2>3. c \in Nat /\ t[1] <= c * t[2]
      BY <2>2, CeilBounds
    <2> HIDE DEF c
    <2>4. /\ cost[1] \in Nat /\ cost[2] \in Nat \ {0} /\ t[1] \in Nat /\ t[2] \in Nat \ {0}
          /\ cost[1] * t[2] <= t[1] * cost[2]
      BY <1>1, <2>2 DEF Fractions, AtMost
    <2>5. t[1] * cost[2] <= (c * t[2]) * cost[2]
      BY <2>3, <2>4, ProductType, Products
    <2>6. (c * t[2]) * cost[2] = (c * cost[2]) * t[2] /\ c * cost[2] \in Nat
      BY <2>3, <2>4, ProductType
    <2>7. cost[1] * t[2] <= (c * cost[2]) * t[2]
      <3>1. cost[1] * t[2] \in Nat /\ t[1] * cost[2] \in Nat /\ (c * cost[2]) * t[2] \in Nat
        BY <2>4, <2>6, ProductType
      <3> QED
        BY <2>4, <2>5, <2>6, <3>1
    <2>8. cost[1] <= c * cost[2]
      BY <2>4, <2>6, <2>7, Products
    <2> QED
      BY <2>8 DEF c
  <1>4. ASSUME markup[1] <= 0 PROVE Ceil(t) <= Ceil(cost)
    <2>1. CASE y \in Floats /\ AtMost(y, Whole(1))
      <3>1. AtMost(t, cost) /\ t \in Fractions
        BY <1>1, <2>1, CostTimes, TimesType, FloatsAreFractions
      <3> QED
        BY <1>1, <3>1, CeilGrows
    <2>2. ASSUME NEW m \in Nat \ {0}, NEW d \in Nat \ {0}, y = Nearest(-m, d) PROVE Ceil(t) <= Ceil(cost)
      <3>1. Ceil(t) \in Int /\ Ceil(t) <= 0
        BY <1>1, <2>2, NegativeCeil
      <3>2. Ceil(cost) \in Nat
        BY <1>1, CeilType
      <3> HIDE DEF t
      <3> QED
        BY <3>1, <3>2
    <2> QED
      BY <1>4, <2>1, <2>2, FactorIs
  <1> QED
    BY <1>2, <1>3, <1>4
=============================================================================
