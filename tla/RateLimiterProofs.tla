------------------------- MODULE RateLimiterProofs -------------------------
(***************************************************************************)
(* Theorems about RateLimiter, for any limits, windows and users.          *)
(*                                                                         *)
(* Tokens and requests are compared without counting: that the c newest    *)
(* tokens of a bucket are at most a ticks old (AtLeast), and that no other *)
(* one is (AtMost), survives every filter, every tick and every new token. *)
(***************************************************************************)
EXTENDS RateLimiter, SequenceTheorems, Sums, TLAPS

Ages == 0 .. Horizon

\* A bucket is ordered by age, oldest first.
OldestFirst(b) == \A i, j \in 1 .. Len(b) : i < j => b[i] >= b[j]

\* The c newest tokens are at most a ticks old; and only they are.
AtLeast(b, a, c) == c <= Len(b) /\ \A i \in 1 .. Len(b) : i > Len(b) - c => b[i] <= a
AtMost(b, a, c) == \A i \in 1 .. Len(b) : b[i] <= a => i > Len(b) - c

-----------------------------------------------------------------------------
(***************************************************************************)
(* Filters.                                                                *)
(***************************************************************************)

\* The tokens of an age or older come first.
LEMMA OldTokensFirst ==
    ASSUME NEW b \in Seq(Ages), OldestFirst(b), NEW limit \in Nat,
           NEW m, m = Cardinality({i \in DOMAIN b : b[i] >= limit})
    PROVE  m \in 0 .. Len(b) /\ \A i \in 1 .. Len(b) : i <= m <=> b[i] >= limit
  <1> DEFINE n == Len(b)
             old == {i \in 1 .. n : b[i] >= limit}
             rest == {j \in 1 .. n + 1 : j \notin old}
  <1>1. n \in Nat /\ DOMAIN b = 1 .. n /\ \A i \in 1 .. n : b[i] \in Nat
    BY RateLimiterAssumption DEF Ages
  <1>2. PICK j \in rest : \A k \in rest : j <= k
    <2>1. n + 1 \in rest
      BY <1>1
    <2>2. rest \subseteq Nat
      BY <1>1
    <2> HIDE DEF rest
    <2> QED
      BY <2>1, <2>2, SmallestOf
  <1>3. j \in 1 .. n + 1 /\ j \notin old /\ \A i \in 1 .. n : i < j => i \in old
    BY <1>1, <1>2
  <1>4. \A i \in 1 .. n : i >= j => i \notin old
    BY <1>1, <1>3 DEF OldestFirst
  <1>5. old = 1 .. j - 1
    BY <1>1, <1>3, <1>4
  <1>6. m = j - 1
    <2>1. Cardinality(1 .. j - 1) = j - 1
      BY <1>1, <1>3, FS_Interval
    <2> QED
      BY <1>1, <1>5, <2>1
  <1>7. \A i \in 1 .. n : i \in old <=> b[i] >= limit
    OBVIOUS
  <1> HIDE DEF old, rest
  <1>8. \A i \in 1 .. n : i <= m <=> i \in old
    BY <1>1, <1>3, <1>5, <1>6
  <1> QED
    BY <1>1, <1>3, <1>6, <1>7, <1>8

\* What is younger than a limit is the end of a bucket.
LEMMA YoungerTokens ==
    ASSUME NEW b \in Seq(Ages), OldestFirst(b), NEW limit \in Nat
    PROVE  \E m \in 0 .. Len(b) :
              /\ \A i \in 1 .. Len(b) : i <= m <=> b[i] >= limit
              /\ Younger(b, limit) \in Seq(Ages)
              /\ Len(Younger(b, limit)) = Len(b) - m
              /\ \A i \in 1 .. Len(b) - m : Younger(b, limit)[i] = b[m + i]
  <1> DEFINE m == Cardinality({i \in DOMAIN b : b[i] >= limit})
             n == Len(b)
  <1>1. m \in 0 .. n /\ \A i \in 1 .. n : i <= m <=> b[i] >= limit
    BY OldTokensFirst
  <1>2. Younger(b, limit) = SubSeq(b, m + 1, n)
    BY DEF Younger
  <1> HIDE DEF m
  <1>3. n \in Nat /\ m + 1 \in Int /\ n \in Int /\ \A i \in m + 1 .. n : b[i] \in Ages
    BY <1>1
  <1>4. /\ SubSeq(b, m + 1, n) \in Seq(Ages)
        /\ Len(SubSeq(b, m + 1, n)) = IF m + 1 <= n THEN n - (m + 1) + 1 ELSE 0
        /\ \A i \in 1 .. n - (m + 1) + 1 : SubSeq(b, m + 1, n)[i] = b[(m + 1) + i - 1]
    BY <1>3, SubSeqProperties
  <1>5. n - (m + 1) + 1 = n - m /\ \A i \in 1 .. n - m : (m + 1) + i - 1 = m + i
    BY <1>1, <1>3
  <1>6. Len(SubSeq(b, m + 1, n)) = n - m
    BY <1>1, <1>3, <1>4
  <1> DEFINE y == Younger(b, limit)
  <1>7. y \in Seq(Ages) /\ Len(y) = n - m /\ \A i \in 1 .. n - m : y[i] = b[m + i]
    BY <1>2, <1>4, <1>5, <1>6
  <1> HIDE DEF y
  <1> QED
    BY <1>1, <1>7 DEF y

\* A filter leaves a bucket in order, and what is younger than its limit where it was.
LEMMA FilteredBucket ==
    ASSUME NEW b \in Seq(Ages), OldestFirst(b), NEW limit \in Nat
    PROVE  LET y == Younger(b, limit)
           IN  /\ y \in Seq(Ages) /\ OldestFirst(y)
               /\ Len(y) <= Len(b)
               /\ \A i \in 1 .. Len(y) : y[i] < limit
               /\ Len(y) = Len(b) => y = b
               /\ Len(b) > 0 /\ b[1] >= limit => Len(y) < Len(b)
               /\ \A a \in Nat, c \in Nat : a < limit /\ AtLeast(b, a, c) => AtLeast(y, a, c)
               /\ \A a \in Nat, c \in Nat : AtMost(b, a, c) => AtMost(y, a, c)
  <1> DEFINE y == Younger(b, limit)
             n == Len(b)
  <1>1. PICK m \in 0 .. n :
              /\ \A i \in 1 .. n : i <= m <=> b[i] >= limit
              /\ y \in Seq(Ages) /\ Len(y) = n - m
              /\ \A i \in 1 .. n - m : y[i] = b[m + i]
    BY YoungerTokens
  <1> HIDE DEF y
  <1>2. n \in Nat /\ m \in Nat /\ \A i \in 1 .. n : b[i] \in Nat
    BY RateLimiterAssumption DEF Ages
  <1>3. \A i \in 1 .. Len(y) : m + i \in 1 .. n /\ y[i] = b[m + i] /\ m + i > m
    BY <1>1, <1>2
  <1>4. OldestFirst(y)
    <2> SUFFICES ASSUME NEW i \in 1 .. Len(y), NEW j \in 1 .. Len(y), i < j PROVE y[i] >= y[j]
      BY DEF OldestFirst
    <2>1. m + i < m + j
      BY <1>2
    <2> QED
      BY <1>3, <2>1 DEF OldestFirst
  <1>5. \A i \in 1 .. Len(y) : y[i] < limit
    BY <1>1, <1>2, <1>3
  <1>6. Len(y) = n => y = b
    <2> SUFFICES ASSUME Len(y) = n PROVE y = b
      OBVIOUS
    <2>1. m = 0
      BY <1>1, <1>2
    <2>2. \A i \in 1 .. n : y[i] = b[i]
      BY <1>1, <1>2, <2>1
    <2> QED
      BY <1>1, <2>2, SeqEqual
  <1>7. n > 0 /\ b[1] >= limit => Len(y) < n
    BY <1>1, <1>2
  <1>8. ASSUME NEW a \in Nat, NEW c \in Nat, a < limit, AtLeast(b, a, c) PROVE AtLeast(y, a, c)
    <2>1. c <= n /\ \A i \in 1 .. n : i > n - c => b[i] <= a
      BY <1>8 DEF AtLeast
    <2>2. m <= n - c
      <3> SUFFICES ASSUME m > n - c PROVE FALSE
        BY <1>2
      <3>1. m \in 1 .. n /\ b[m] >= limit /\ b[m] <= a
        BY <1>1, <1>2, <2>1
      <3> QED
        BY <1>2, <1>8, <3>1
    <2>3. c <= Len(y)
      BY <1>1, <1>2, <2>2
    <2>4. \A i \in 1 .. Len(y) : i > Len(y) - c => m + i > n - c
      BY <1>1, <1>2
    <2> QED
      BY <1>3, <2>1, <2>3, <2>4 DEF AtLeast
  <1>9. ASSUME NEW a \in Nat, NEW c \in Nat, AtMost(b, a, c) PROVE AtMost(y, a, c)
    <2>1. \A i \in 1 .. Len(y) : m + i > n - c => i > Len(y) - c
      BY <1>1, <1>2
    <2> QED
      BY <1>3, <1>9, <2>1 DEF AtMost
  <1>10. Len(y) <= n
    BY <1>1, <1>2
  <1> QED
    BY <1>1, <1>4, <1>5, <1>6, <1>7, <1>8, <1>9, <1>10 DEF y

\* A new token is the youngest, whatever the age that is asked for.
LEMMA NewToken ==
    ASSUME NEW b \in Seq(Ages), OldestFirst(b)
    PROVE  LET y == Append(b, 0)
           IN  /\ y \in Seq(Ages) /\ OldestFirst(y)
               /\ Len(y) = Len(b) + 1
               /\ \A a \in Nat, c \in Nat : AtLeast(b, a, c) => AtLeast(y, a, c) /\ AtLeast(y, a, c + 1)
               /\ \A a \in Nat, c \in Nat : AtMost(b, a, c) => AtMost(y, a, c + 1)
  <1> DEFINE y == Append(b, 0)
             n == Len(b)
  <1>1. /\ n \in Nat /\ 0 \in Ages
        /\ \A i \in 1 .. n : b[i] \in Nat
    BY RateLimiterAssumption DEF Ages
  <1>2. y \in Seq(Ages) /\ Len(y) = n + 1 /\ y[n + 1] = 0 /\ \A i \in 1 .. n : y[i] = b[i]
    BY <1>1, AppendProperties
  <1> HIDE DEF y
  <1>3. \A i \in 1 .. n + 1 : i \in 1 .. n \/ i = n + 1
    BY <1>1
  <1>4. OldestFirst(y)
    BY <1>1, <1>2, <1>3 DEF OldestFirst
  <1>5. ASSUME NEW a \in Nat, NEW c \in Nat, AtLeast(b, a, c) PROVE AtLeast(y, a, c) /\ AtLeast(y, a, c + 1)
    <2>1. \A i \in 1 .. n : i > n - c => b[i] <= a
      BY <1>5 DEF AtLeast
    <2>2. \A i \in 1 .. n + 1 : i > n - c => y[i] <= a
      BY <1>1, <1>2, <1>3, <2>1
    <2> QED
      BY <1>1, <1>2, <1>5, <2>2 DEF AtLeast
  <1>6. ASSUME NEW a \in Nat, NEW c \in Nat, AtMost(b, a, c) PROVE AtMost(y, a, c + 1)
    <2>1. \A i \in 1 .. n : b[i] <= a => i > n - c
      BY <1>6 DEF AtMost
    <2>2. \A i \in 1 .. n + 1 : y[i] <= a => i > n + 1 - (c + 1)
      BY <1>1, <1>2, <1>3, <2>1
    <2> QED
      BY <1>1, <1>2, <2>2 DEF AtMost
  <1> QED
    BY <1>1, <1>2, <1>4, <1>5, <1>6 DEF y

\* A tick makes every token a tick older and leaves their order.
LEMMA OlderTokens ==
    ASSUME NEW b \in Seq(Ages), OldestFirst(b)
    PROVE  LET y == [i \in DOMAIN b |-> Older(b[i])]
           IN  /\ y \in Seq(Ages) /\ OldestFirst(y)
               /\ Len(y) = Len(b)
               /\ \A i \in 1 .. Len(b) : y[i] = Older(b[i])
               /\ \A a \in 1 .. Window - 1, c \in Nat : AtLeast(b, a - 1, c) => AtLeast(y, a, c)
               /\ \A a \in 1 .. Window - 1, c \in Nat : AtMost(b, a - 1, c) => AtMost(y, a, c)
               /\ AtLeast(y, 0, 0) /\ AtMost(y, 0, 0)
  <1> DEFINE y == [i \in DOMAIN b |-> Older(b[i])]
             n == Len(b)
  <1>1. n \in Nat /\ DOMAIN b = 1 .. n /\ Horizon \in Nat /\ Window \in Nat /\ Window < Horizon
    BY RateLimiterAssumption
  <1>2. \A i \in 1 .. n : b[i] \in Ages
    BY <1>1, ElementOfSeq
  <1>3. \A i \in 1 .. n : y[i] = Older(b[i]) /\ Older(b[i]) \in Ages
    BY <1>1, <1>2 DEF Older, Ages
  <1>4. y \in Seq(Ages) /\ Len(y) = n
    BY <1>1, <1>3
  <1> HIDE DEF y
  <1>5. \A s, t \in Ages : s >= t => Older(s) >= Older(t)
    BY <1>1 DEF Older, Ages
  <1>6. \A s \in Ages, a \in 1 .. Window - 1 : Older(s) <= a <=> s <= a - 1
    BY <1>1 DEF Older, Ages
  <1>7. OldestFirst(y)
    BY <1>2, <1>3, <1>4, <1>5 DEF OldestFirst
  <1>8. ASSUME NEW a \in 1 .. Window - 1, NEW c \in Nat, AtLeast(b, a - 1, c) PROVE AtLeast(y, a, c)
    BY <1>2, <1>3, <1>4, <1>8, <1>6 DEF AtLeast
  <1>9. ASSUME NEW a \in 1 .. Window - 1, NEW c \in Nat, AtMost(b, a - 1, c) PROVE AtMost(y, a, c)
    BY <1>2, <1>3, <1>4, <1>9, <1>6 DEF AtMost
  <1>10. AtLeast(y, 0, 0) /\ AtMost(y, 0, 0)
    BY <1>1, <1>2, <1>3, <1>4 DEF AtLeast, AtMost, Older, Ages
  <1> QED
    BY <1>3, <1>4, <1>7, <1>8, <1>9, <1>10 DEF y

-----------------------------------------------------------------------------
(***************************************************************************)
(* The invariant.                                                          *)
(***************************************************************************)
\* A bucket in order, that holds no more tokens than its limit, live or not.
Filled(b, limit) ==
    /\ b \in Seq(Ages) /\ OldestFirst(b)
    /\ limit > 0 => Len(b) <= limit

\* A bucket holds a token of each of these requests, and at most n.
Holds(b, requests, n) ==
    \A a \in 0 .. Window - 1 : AtLeast(b, a, requests[a]) /\ AtMost(b, a, n * requests[a])

\* After wait ticks without a new token there is room in the bucket.
Frees(b, limit, wait) == Len(b) < limit \/ b[1] + wait >= Window

ByAge == [0 .. Window - 1 -> Nat]
Promises == [key : BucketKeys, wait : Nat]

PromiseInv(u) ==
    promise[u] # NoPromise =>
        /\ promise[u].key \in {u, GlobalKey}
        /\ LimitOf(promise[u].key) > 0
        /\ Frees(buckets[promise[u].key], LimitOf(promise[u].key), promise[u].wait)

\* A request that is admitted takes one token of all users' bucket and at most two of its
\* user's, of which one that all refuse takes one.
IInv ==
    /\ buckets = [k \in BucketKeys |-> buckets[k]]
    /\ \A k \in BucketKeys : Filled(buckets[k], LimitOf(k))
    /\ passed \in [Users -> ByAge] /\ admitted \in ByAge
    /\ promise \in [Users -> Promises \cup {NoPromise}]
    /\ PerUser > 0 => \A u \in Users : Holds(buckets[u], passed[u], 2)
    /\ Global > 0 => Holds(buckets[GlobalKey], admitted, 1)
    /\ \A u \in Users : PromiseInv(u)

-----------------------------------------------------------------------------
(***************************************************************************)
(* is_allowed, cleanup and a tick.                                         *)
(***************************************************************************)
\* A bucket that refuses is full of live tokens, and is left as it is.
LEMMA RefusingBucket ==
    ASSUME NEW limit \in Nat \ {0}, NEW b, Filled(b, limit), ~Allowed(b, limit)
    PROVE  /\ Asked(b, limit) = b /\ Live(b) = b
           /\ Len(b) = limit /\ b[1] \in 0 .. Window - 1
           /\ \A i \in 1 .. Len(b) : b[i] \in Nat /\ b[i] <= b[1]
  <1> DEFINE y == Live(b)
  <1>1. b \in Seq(Ages) /\ OldestFirst(b) /\ Len(b) <= limit /\ Len(b) \in Nat /\ Window \in Nat
    BY RateLimiterAssumption DEF Filled
  <1>2. /\ y \in Seq(Ages) /\ Len(y) <= Len(b) /\ \A i \in 1 .. Len(y) : y[i] < Window
        /\ Len(y) = Len(b) => y = b
    BY <1>1, FilteredBucket DEF Live
  <1>3. Asked(b, limit) = y /\ ~(Len(y) < limit)
    BY DEF Asked, Allowed
  <1> HIDE DEF y
  <1>4. Len(y) = Len(b) /\ Len(b) = limit /\ y = b
    BY <1>1, <1>2, <1>3
  <1>5. \A i \in 1 .. Len(b) : b[i] \in Nat /\ b[i] < Window
    BY <1>1, <1>2, <1>4, RateLimiterAssumption DEF Ages
  <1>6. 1 \in 1 .. Len(b) /\ \A i \in 1 .. Len(b) : i = 1 \/ 1 < i
    BY <1>1, <1>4
  <1>7. \A i \in 1 .. Len(b) : b[i] <= b[1]
    BY <1>1, <1>5, <1>6 DEF OldestFirst
  <1> QED
    BY <1>1, <1>3, <1>4, <1>5, <1>6, <1>7 DEF y

\* A bucket that allows has a new token, and every live one it had.
LEMMA AllowingBucket ==
    ASSUME NEW limit \in Nat \ {0}, NEW b, Filled(b, limit), Allowed(b, limit)
    PROVE  LET y == Asked(b, limit)
           IN  /\ Filled(y, limit)
               /\ \A a \in 0 .. Window - 1, c \in Nat : AtLeast(b, a, c) =>
                     AtLeast(y, a, c) /\ AtLeast(y, a, c + 1)
               /\ \A a \in 0 .. Window - 1, c \in Nat : AtMost(b, a, c) => AtMost(y, a, c + 1)
  <1> DEFINE l == Live(b)
             y == Append(l, 0)
  <1>1. b \in Seq(Ages) /\ OldestFirst(b) /\ Window \in Nat
    BY RateLimiterAssumption DEF Filled
  <1>2. /\ l \in Seq(Ages) /\ OldestFirst(l)
        /\ \A a \in Nat, c \in Nat : a < Window /\ AtLeast(b, a, c) => AtLeast(l, a, c)
        /\ \A a \in Nat, c \in Nat : AtMost(b, a, c) => AtMost(l, a, c)
    BY <1>1, FilteredBucket DEF Live
  <1>3. Asked(b, limit) = y /\ Len(l) < limit
    BY DEF Asked, Allowed
  <1> HIDE DEF l
  <1>4. /\ y \in Seq(Ages) /\ OldestFirst(y) /\ Len(y) = Len(l) + 1
        /\ \A a \in Nat, c \in Nat : AtLeast(l, a, c) => AtLeast(y, a, c) /\ AtLeast(y, a, c + 1)
        /\ \A a \in Nat, c \in Nat : AtMost(l, a, c) => AtMost(y, a, c + 1)
    BY <1>2, NewToken
  <1> HIDE DEF y
  <1>5. Filled(y, limit)
    BY <1>2, <1>3, <1>4 DEF Filled
  <1>6. \A a \in 0 .. Window - 1 : a \in Nat /\ a < Window
    BY <1>1
  <1> QED
    BY <1>2, <1>3, <1>4, <1>5, <1>6

\* The cleanup drops no live token.
LEMMA CleanedBucket ==
    ASSUME NEW limit \in Nat, NEW b, Filled(b, limit)
    PROVE  LET y == Kept(b)
           IN  /\ Filled(y, limit)
               /\ \A requests \in ByAge, n \in Nat : Holds(b, requests, n) => Holds(y, requests, n)
               /\ \A wait \in Nat : limit > 0 /\ Frees(b, limit, wait) => Frees(y, limit, wait)
  <1> DEFINE y == Kept(b)
  <1>1. /\ b \in Seq(Ages) /\ OldestFirst(b) /\ (limit > 0 => Len(b) <= limit) /\ Len(b) \in Nat
        /\ Window \in Nat /\ Horizon \in Nat /\ Window < Horizon
    BY RateLimiterAssumption DEF Filled
  <1>2. /\ y \in Seq(Ages) /\ OldestFirst(y) /\ Len(y) <= Len(b)
        /\ Len(y) = Len(b) => y = b
        /\ \A a \in Nat, c \in Nat : a < Horizon /\ AtLeast(b, a, c) => AtLeast(y, a, c)
        /\ \A a \in Nat, c \in Nat : AtMost(b, a, c) => AtMost(y, a, c)
    BY <1>1, FilteredBucket DEF Kept
  <1> HIDE DEF y
  <1>3. Filled(y, limit)
    BY <1>1, <1>2 DEF Filled
  <1>4. ASSUME NEW requests \in ByAge, NEW n \in Nat, Holds(b, requests, n) PROVE Holds(y, requests, n)
    <2> SUFFICES ASSUME NEW a \in 0 .. Window - 1
                 PROVE  AtLeast(y, a, requests[a]) /\ AtMost(y, a, n * requests[a])
      BY DEF Holds
    <2>1. a \in Nat /\ a < Horizon /\ requests[a] \in Nat
      BY <1>1 DEF ByAge
    <2>2. n * requests[a] \in Nat
      BY <2>1
    <2>3. AtLeast(b, a, requests[a]) /\ AtMost(b, a, n * requests[a])
      BY <1>4 DEF Holds
    <2> QED
      BY <1>2, <2>1, <2>2, <2>3
  <1>5. ASSUME NEW wait \in Nat, limit > 0, Frees(b, limit, wait) PROVE Frees(y, limit, wait)
    BY <1>1, <1>2, <1>5 DEF Frees
  <1> QED
    BY <1>3, <1>4, <1>5 DEF y

\* A tick leaves a bucket with its tokens.
LEMMA TickedBucket ==
    ASSUME NEW limit \in Nat, NEW b, Filled(b, limit)
    PROVE  LET y == [i \in DOMAIN b |-> Older(b[i])]
           IN  /\ Filled(y, limit)
               /\ \A requests \in ByAge, n \in Nat : Holds(b, requests, n) => Holds(y, Aged(requests), n)
               /\ \A wait \in Nat : limit > 0 /\ Frees(b, limit, wait) =>
                     Frees(y, limit, IF wait > 0 THEN wait - 1 ELSE 0)
  <1> DEFINE y == [i \in DOMAIN b |-> Older(b[i])]
  <1>1. /\ b \in Seq(Ages) /\ OldestFirst(b) /\ (limit > 0 => Len(b) <= limit) /\ Len(b) \in Nat
        /\ Window \in Nat \ {0} /\ Horizon \in Nat /\ Window < Horizon
    BY RateLimiterAssumption DEF Filled
  <1>2. /\ y \in Seq(Ages) /\ OldestFirst(y) /\ Len(y) = Len(b)
        /\ \A i \in 1 .. Len(b) : y[i] = Older(b[i])
        /\ \A a \in 1 .. Window - 1, c \in Nat : AtLeast(b, a - 1, c) => AtLeast(y, a, c)
        /\ \A a \in 1 .. Window - 1, c \in Nat : AtMost(b, a - 1, c) => AtMost(y, a, c)
        /\ AtLeast(y, 0, 0) /\ AtMost(y, 0, 0)
    BY <1>1, OlderTokens
  <1> HIDE DEF y
  <1>3. Filled(y, limit)
    BY <1>1, <1>2 DEF Filled
  <1>4. ASSUME NEW requests \in ByAge, NEW n \in Nat, Holds(b, requests, n) PROVE Holds(y, Aged(requests), n)
    <2> SUFFICES ASSUME NEW a \in 0 .. Window - 1
                 PROVE  AtLeast(y, a, Aged(requests)[a]) /\ AtMost(y, a, n * Aged(requests)[a])
      BY DEF Holds
    <2>1. CASE a = 0
      <3>1. Aged(requests)[a] = 0 /\ n * 0 = 0
        BY <2>1 DEF Aged
      <3> QED
        BY <1>2, <2>1, <3>1
    <2>2. CASE a # 0
      <3>1. a \in 1 .. Window - 1 /\ a - 1 \in 0 .. Window - 1 /\ Aged(requests)[a] = requests[a - 1]
        BY <1>1, <2>2 DEF Aged
      <3>2. requests[a - 1] \in Nat
        BY <3>1 DEF ByAge
      <3>3. n * requests[a - 1] \in Nat
        BY <3>2
      <3>4. AtLeast(b, a - 1, requests[a - 1]) /\ AtMost(b, a - 1, n * requests[a - 1])
        BY <1>4, <3>1 DEF Holds
      <3> QED
        BY <1>2, <3>1, <3>2, <3>3, <3>4
    <2> QED
      BY <2>1, <2>2
  <1>5. ASSUME NEW wait \in Nat, limit > 0, Frees(b, limit, wait)
        PROVE  Frees(y, limit, IF wait > 0 THEN wait - 1 ELSE 0)
    <2>1. CASE Len(b) < limit
      BY <1>2, <2>1 DEF Frees
    <2>2. CASE ~(Len(b) < limit)
      <3>1. 1 \in 1 .. Len(b) /\ b[1] + wait >= Window /\ y[1] = Older(b[1]) /\ b[1] \in Ages
        BY <1>1, <1>2, <1>5, <2>2 DEF Frees
      <3> QED
        BY <1>1, <3>1 DEF Frees, Older, Ages
    <2> QED
      BY <2>1, <2>2
  <1> QED
    BY <1>3, <1>4, <1>5 DEF y

\* A token counted twice is at least counted once.
LEMMA AtMostOfMore ==
    ASSUME NEW b \in Seq(Ages), NEW a \in Nat, NEW c \in Nat, NEW d \in Nat, c <= d, AtMost(b, a, c)
    PROVE  AtMost(b, a, d)
  <1>1. Len(b) \in Nat
    OBVIOUS
  <1>2. \A i \in 1 .. Len(b) : i > Len(b) - c => i > Len(b) - d
    BY <1>1
  <1> QED
    BY <1>2 DEF AtMost

\* Seconds rounded up, in ticks, are more than what was rounded.
LEMMA RoundedUp ==
    ASSUME NEW ticks \in Int
    PROVE  (ticks \div Second + 1) * Second \in Int /\ (ticks \div Second + 1) * Second > ticks
  <1>1. Second \in Nat /\ Second > 0
    BY RateLimiterAssumption
  <1>2. ticks \div Second \in Int
    BY <1>1
  <1>3. (ticks \div Second) * Second + Second > ticks
    BY <1>1
  <1>4. (ticks \div Second + 1) * Second = (ticks \div Second) * Second + Second
    BY <1>1, <1>2
  <1>5. (ticks \div Second + 1) * Second \in Int
    BY <1>1, <1>2
  <1> QED
    BY <1>3, <1>4, <1>5

\* What a bucket that refuses promises.
LEMMA RefusingPromise ==
    ASSUME NEW k \in BucketKeys, LimitOf(k) \in Nat \ {0}, Filled(buckets[k], LimitOf(k)),
           ~Allowed(buckets[k], LimitOf(k))
    PROVE  LET wait == ResetSeconds(buckets[k]) * Second
           IN  wait \in Nat /\ Frees(buckets[k], LimitOf(k), wait)
  <1> DEFINE b == buckets[k]
             live == {Live(b)[i] : i \in DOMAIN Live(b)}
             wait == ResetSeconds(b) * Second
  <1>1. /\ Live(b) = b /\ Len(b) = LimitOf(k) /\ b[1] \in 0 .. Window - 1
        /\ \A i \in 1 .. Len(b) : b[i] \in Nat /\ b[i] <= b[1]
    BY RefusingBucket
  <1>2. b \in Seq(Ages) /\ DOMAIN b = 1 .. Len(b) /\ 1 \in 1 .. Len(b)
    BY <1>1 DEF Filled
  <1> HIDE DEF b
  <1>3. live = {b[i] : i \in 1 .. Len(b)}
    BY <1>1, <1>2
  <1>4. b[1] \in live /\ \A x \in live : x \in Nat /\ b[1] >= x
    BY <1>1, <1>2, <1>3
  <1> HIDE DEF live
  <1>5. Max(live) = b[1]
    <2>1. Max(live) = CHOOSE x \in live : \A y \in live : x >= y
      BY DEF Max
    <2>2. \A x \in live : (\A y \in live : x >= y) => x = b[1]
      BY <1>4
    <2> QED
      BY <1>4, <2>1, <2>2
  <1>6. ResetSeconds(b) = (Window - b[1]) \div Second + 1
    BY <1>5 DEF ResetSeconds, live
  <1>7. Window - b[1] \in Nat /\ b[1] \in Int /\ Window \in Int
    BY <1>1, RateLimiterAssumption
  <1>8. wait \in Int /\ wait > Window - b[1]
    BY <1>6, <1>7, RoundedUp
  <1> HIDE DEF wait
  <1>9. wait \in Nat /\ b[1] + wait >= Window
    BY <1>7, <1>8
  <1>10. wait \in Nat /\ Frees(b, LimitOf(k), wait)
    BY <1>9 DEF Frees
  <1> QED
    BY <1>10 DEF wait, b

-----------------------------------------------------------------------------
(***************************************************************************)
(* The invariant is inductive.                                             *)
(***************************************************************************)
LEMMA Limits ==
    /\ \A k \in BucketKeys : LimitOf(k) \in Nat
    /\ \A u \in Users : u \in BucketKeys /\ u # GlobalKey /\ LimitOf(u) = PerUser
    /\ GlobalKey \in BucketKeys /\ LimitOf(GlobalKey) = Global
  BY RateLimiterAssumption DEF LimitOf, BucketKeys

\* A bucket that a request passes: untouched without a limit, one token more with one.
LEMMA PassedBucket ==
    ASSUME IInv, NEW k \in BucketKeys, Passes(k)
    PROVE  /\ Filled(After(k), LimitOf(k))
           /\ LimitOf(k) > 0 =>
                 /\ \A a \in 0 .. Window - 1, c \in Nat : AtLeast(buckets[k], a, c) => AtLeast(After(k), a, c + 1)
                 /\ \A a \in 0 .. Window - 1, c \in Nat : AtMost(buckets[k], a, c) => AtMost(After(k), a, c + 1)
  <1>1. Filled(buckets[k], LimitOf(k)) /\ LimitOf(k) \in Nat
    BY Limits DEF IInv
  <1>2. CASE LimitOf(k) = 0
    BY <1>1, <1>2 DEF After
  <1>3. CASE LimitOf(k) # 0
    <2>1. LimitOf(k) \in Nat \ {0} /\ Allowed(buckets[k], LimitOf(k)) /\ After(k) = Asked(buckets[k], LimitOf(k))
      BY <1>1, <1>3 DEF Passes, After
    <2> QED
      BY <1>1, <2>1, AllowingBucket
  <1> QED
    BY <1>2, <1>3

\* A bucket that refuses a request: it stays, and can be promised to have room.
LEMMA RefusedBucket ==
    ASSUME IInv, NEW k \in BucketKeys, ~Passes(k)
    PROVE  /\ After(k) = buckets[k] /\ LimitOf(k) > 0
           /\ ResetSeconds(buckets[k]) * Second \in Nat
           /\ Frees(buckets[k], LimitOf(k), ResetSeconds(buckets[k]) * Second)
  <1>1. LimitOf(k) \in Nat \ {0} /\ ~Allowed(buckets[k], LimitOf(k)) /\ After(k) = Asked(buckets[k], LimitOf(k))
    BY Limits DEF Passes, After
  <1>2. Filled(buckets[k], LimitOf(k))
    BY DEF IInv
  <1> QED
    BY <1>1, <1>2, RefusingBucket, RefusingPromise

\* The user's bucket after a request is admitted: one token more, or two.
LEMMA AdmittedBucket ==
    ASSUME IInv, NEW u \in Users, Passes(u)
    PROVE  /\ Filled(AfterAdmission(u), LimitOf(u))
           /\ PerUser > 0 =>
                 /\ \A a \in 0 .. Window - 1, c \in Nat :
                       AtLeast(buckets[u], a, c) => AtLeast(AfterAdmission(u), a, c + 1)
                 /\ \A a \in 0 .. Window - 1, c \in Nat :
                       AtMost(buckets[u], a, c) => AtMost(AfterAdmission(u), a, c + 2)
  <1>1. u \in BucketKeys /\ LimitOf(u) = PerUser /\ PerUser \in Nat /\ Window \in Nat
    BY Limits, RateLimiterAssumption
  <1>2. CASE PerUser = 0
    BY <1>1, <1>2 DEF AfterAdmission, IInv
  <1>3. CASE PerUser # 0
    <2> DEFINE b == After(u)
               y == Asked(b, PerUser)
    <2>1. AfterAdmission(u) = y /\ PerUser \in Nat \ {0}
      BY <1>1, <1>3 DEF AfterAdmission
    <2>2. /\ Filled(b, PerUser) /\ b \in Seq(Ages)
          /\ \A a \in 0 .. Window - 1, c \in Nat : AtLeast(buckets[u], a, c) => AtLeast(b, a, c + 1)
          /\ \A a \in 0 .. Window - 1, c \in Nat : AtMost(buckets[u], a, c) => AtMost(b, a, c + 1)
      BY <1>1, <1>3, PassedBucket DEF Filled
    <2> HIDE DEF b
    <2>3. /\ Filled(y, PerUser) /\ y \in Seq(Ages)
          /\ \A a \in 0 .. Window - 1, c \in Nat : AtLeast(b, a, c) => AtLeast(y, a, c)
          /\ \A a \in 0 .. Window - 1, c \in Nat : AtMost(b, a, c) => AtMost(y, a, c + 1)
      <3>1. CASE Allowed(b, PerUser)
        <4>1. /\ Filled(y, PerUser)
              /\ \A a \in 0 .. Window - 1, c \in Nat : AtLeast(b, a, c) => AtLeast(y, a, c)
              /\ \A a \in 0 .. Window - 1, c \in Nat : AtMost(b, a, c) => AtMost(y, a, c + 1)
          BY <2>1, <2>2, <3>1, AllowingBucket
        <4> QED
          BY <4>1 DEF Filled
      <3>2. CASE ~Allowed(b, PerUser)
        <4>1. y = b
          BY <2>1, <2>2, <3>2, RefusingBucket
        <4>2. ASSUME NEW a \in 0 .. Window - 1, NEW c \in Nat, AtMost(b, a, c) PROVE AtMost(b, a, c + 1)
          <5>1. a \in Nat /\ c + 1 \in Nat /\ c <= c + 1
            BY <1>1
          <5> QED
            BY <2>2, <4>2, <5>1, AtMostOfMore
        <4> QED
          BY <2>2, <4>1, <4>2
      <3> QED
        BY <3>1, <3>2
    <2> HIDE DEF y
    <2>4. \A c \in Nat : c + 1 \in Nat /\ (c + 1) + 1 = c + 2
      OBVIOUS
    <2>5. \A a \in 0 .. Window - 1, c \in Nat : AtMost(buckets[u], a, c) => AtMost(y, a, c + 2)
      <3> SUFFICES ASSUME NEW a \in 0 .. Window - 1, NEW c \in Nat, AtMost(buckets[u], a, c)
                   PROVE  AtMost(y, a, c + 2)
        OBVIOUS
      <3>1. AtMost(b, a, c + 1)
        BY <2>2
      <3>2. AtMost(y, a, (c + 1) + 1)
        BY <2>3, <2>4, <3>1
      <3> QED
        BY <2>4, <3>2
    <2> QED
      BY <1>1, <2>1, <2>2, <2>3, <2>4, <2>5
  <1> QED
    BY <1>2, <1>3

\* One request more, for which at most n tokens were taken.
LEMMA OneMore ==
    ASSUME NEW b, NEW y \in Seq(Ages), NEW requests \in ByAge, NEW n \in 1 .. 2, NEW taken \in 1 .. n,
           Holds(b, requests, n),
           \A a \in 0 .. Window - 1, c \in Nat : AtLeast(b, a, c) => AtLeast(y, a, c + 1),
           \A a \in 0 .. Window - 1, c \in Nat : AtMost(b, a, c) => AtMost(y, a, c + taken)
    PROVE  Holds(y, Counted(requests), n)
  <1> SUFFICES ASSUME NEW a \in 0 .. Window - 1
               PROVE  AtLeast(y, a, Counted(requests)[a]) /\ AtMost(y, a, n * Counted(requests)[a])
    BY DEF Holds
  <1> DEFINE c == requests[a]
  <1>1. c \in Nat /\ Counted(requests)[a] = c + 1 /\ a \in Nat
    BY RateLimiterAssumption DEF ByAge, Counted
  <1>2. AtLeast(b, a, c) /\ AtMost(b, a, n * c)
    BY DEF Holds
  <1> HIDE DEF c
  <1>3. /\ n * c \in Nat /\ n * c + taken \in Nat
        /\ n * (c + 1) \in Nat /\ n * c + taken <= n * (c + 1)
    <2>1. n = 1 \/ n = 2
      OBVIOUS
    <2>2. CASE n = 1
      BY <1>1, <2>2
    <2>3. CASE n = 2
      <3>1. 2 * c \in Nat /\ 2 * (c + 1) = 2 * c + 2 /\ taken <= 2 /\ taken \in Nat
        BY <1>1, <2>3
      <3> QED
        BY <1>1, <2>3, <3>1
    <2> QED
      BY <2>1, <2>2, <2>3
  <1>4. AtLeast(y, a, c + 1) /\ AtMost(y, a, n * c + taken)
    BY <1>1, <1>2, <1>3
  <1>5. AtMost(y, a, n * (c + 1))
    BY <1>1, <1>3, <1>4, AtMostOfMore
  <1> QED
    BY <1>1, <1>4, <1>5

LEMMA CountedType == ASSUME NEW requests \in ByAge PROVE Counted(requests) \in ByAge
  <1>1. \A a \in 0 .. Window - 1 : requests[a] \in Nat
    BY DEF ByAge
  <1>2. \A a \in 0 .. Window - 1 : requests[a] + 1 \in Nat
    BY <1>1
  <1> QED
    BY <1>2 DEF Counted, ByAge

\* A request is counted for its user and for nobody else.
LEMMA CountedFor ==
    ASSUME IInv, NEW u \in Users, passed' = [passed EXCEPT ![u] = Counted(@)]
    PROVE  /\ passed' \in [Users -> ByAge]
           /\ passed'[u] = Counted(passed[u])
           /\ \A v \in Users : v # u => passed'[v] = passed[v]
  <1>1. passed \in [Users -> ByAge] /\ Counted(passed[u]) \in ByAge
    BY CountedType DEF IInv
  <1> QED
    BY <1>1

\* A promise that was not touched, of a bucket that was not touched.
LEMMA SamePromise ==
    ASSUME IInv, NEW u \in Users, promise'[u] = promise[u],
           promise[u] # NoPromise => buckets'[promise[u].key] = buckets[promise[u].key]
    PROVE  PromiseInv(u)'
  <1>1. PromiseInv(u)
    BY DEF IInv
  <1> QED
    BY <1>1 DEF PromiseInv, LimitOf

\* A new promise, of a bucket that refused and stayed as it is.
LEMMA NewPromise ==
    ASSUME IInv, NEW u \in Users, NEW k \in {u, GlobalKey}, ~Passes(k),
           promise' = Promised(u, k), buckets'[k] = buckets[k]
    PROVE  /\ promise' \in [Users -> Promises \cup {NoPromise}]
           /\ PromiseInv(u)'
           /\ \A v \in Users : v # u => promise'[v] = promise[v]
  <1> DEFINE wait == ResetSeconds(buckets[k]) * Second
             new == [key |-> k, wait |-> wait]
  <1>1. k \in BucketKeys
    BY Limits
  <1>2. LimitOf(k) > 0 /\ wait \in Nat /\ Frees(buckets[k], LimitOf(k), wait)
    BY <1>1, RefusedBucket
  <1>3. promise' = [promise EXCEPT ![u] = new]
    BY DEF Promised
  <1> HIDE DEF wait
  <1>4. new \in Promises /\ new.key = k /\ new.wait = wait
    BY <1>1, <1>2 DEF Promises
  <1> HIDE DEF new
  <1>5. /\ promise' \in [Users -> Promises \cup {NoPromise}] /\ promise'[u] = new
        /\ \A v \in Users : v # u => promise'[v] = promise[v]
    BY <1>3, <1>4 DEF IInv
  <1>6. PromiseInv(u)'
    BY <1>2, <1>4, <1>5 DEF PromiseInv, LimitOf
  <1> QED
    BY <1>5, <1>6

LEMMA InitInv == Init => IInv
  <1> SUFFICES ASSUME Init PROVE IInv
    OBVIOUS
  <1>1. NoRequests \in ByAge
    BY DEF NoRequests, ByAge
  <1>2. \A k \in BucketKeys : buckets[k] = <<>>
    BY DEF Init
  <1>3. <<>> \in Seq(Ages) /\ Len(<<>>) = 0
    OBVIOUS
  <1>4. \A limit \in Nat : Filled(<<>>, limit)
    BY <1>3 DEF Filled, OldestFirst
  <1>5. \A n \in {1, 2} : Holds(<<>>, NoRequests, n)
    BY <1>3 DEF Holds, NoRequests, AtLeast, AtMost
  <1>6. \A u \in Users : PromiseInv(u)
    BY DEF Init, PromiseInv
  <1> QED
    BY <1>1, <1>2, <1>4, <1>5, <1>6, Limits DEF Init, IInv

LEMMA RefuseUserInv == ASSUME IInv, NEW u \in Users, RefuseUser(u) PROVE IInv'
  <1>1. u \in BucketKeys /\ ~Passes(u)
    BY Limits DEF RefuseUser
  <1>2. buckets' = [buckets EXCEPT ![u] = buckets[u]]
    BY <1>1, RefusedBucket DEF RefuseUser
  <1>3. buckets' = [k \in BucketKeys |-> buckets'[k]] /\ \A k \in BucketKeys : buckets'[k] = buckets[k]
    BY <1>2 DEF IInv
  <1>4. /\ promise' \in [Users -> Promises \cup {NoPromise}]
        /\ PromiseInv(u)'
        /\ \A v \in Users : v # u => promise'[v] = promise[v]
    BY <1>1, <1>3, NewPromise DEF RefuseUser
  <1>5. ASSUME NEW v \in Users, v # u PROVE PromiseInv(v)'
    <2>1. promise[v] # NoPromise => promise[v].key \in BucketKeys
      BY DEF IInv, Promises
    <2> QED
      BY <1>3, <1>4, <1>5, <2>1, SamePromise
  <1>6. passed' = passed /\ admitted' = admitted
    BY DEF RefuseUser
  <1> QED
    BY <1>3, <1>4, <1>5, <1>6, Limits DEF IInv, LimitOf

LEMMA RefuseAllInv == ASSUME IInv, NEW u \in Users, RefuseAll(u) PROVE IInv'
  <1>1. u \in BucketKeys /\ GlobalKey \in BucketKeys /\ u # GlobalKey /\ Passes(u) /\ ~Passes(GlobalKey)
    BY Limits DEF RefuseAll
  <1>2. buckets' = [buckets EXCEPT ![u] = After(u), ![GlobalKey] = buckets[GlobalKey]]
    BY <1>1, RefusedBucket DEF RefuseAll
  <1>3. /\ buckets' = [k \in BucketKeys |-> buckets'[k]] /\ buckets'[u] = After(u)
        /\ \A k \in BucketKeys : k # u => buckets'[k] = buckets[k]
    BY <1>1, <1>2 DEF IInv
  <1>4. /\ promise' \in [Users -> Promises \cup {NoPromise}]
        /\ PromiseInv(u)'
        /\ \A v \in Users : v # u => promise'[v] = promise[v]
    BY <1>1, <1>3, NewPromise DEF RefuseAll
  <1>5. ASSUME NEW v \in Users, v # u PROVE PromiseInv(v)'
    <2>1. promise[v] # NoPromise => promise[v].key \in BucketKeys /\ promise[v].key # u
      BY <1>1, <1>5 DEF IInv, Promises, PromiseInv
    <2> QED
      BY <1>3, <1>4, <1>5, <2>1, SamePromise
  <1>6. /\ passed' \in [Users -> ByAge] /\ passed'[u] = Counted(passed[u])
        /\ \A v \in Users : v # u => passed'[v] = passed[v]
    BY CountedFor DEF RefuseAll
  <1>7. Filled(After(u), PerUser)
    BY <1>1, Limits, PassedBucket
  <1>8. PerUser > 0 => Holds(After(u), Counted(passed[u]), 2)
    <2> SUFFICES ASSUME PerUser > 0 PROVE Holds(After(u), Counted(passed[u]), 2)
      OBVIOUS
    <2>1. After(u) \in Seq(Ages) /\ passed[u] \in ByAge /\ Holds(buckets[u], passed[u], 2)
      BY <1>7 DEF Filled, IInv
    <2>2. /\ \A a \in 0 .. Window - 1, c \in Nat : AtLeast(buckets[u], a, c) => AtLeast(After(u), a, c + 1)
          /\ \A a \in 0 .. Window - 1, c \in Nat : AtMost(buckets[u], a, c) => AtMost(After(u), a, c + 1)
      BY <1>1, Limits, PassedBucket
    <2>3. 2 \in 1 .. 2 /\ 1 \in 1 .. 2
      OBVIOUS
    <2> QED
      BY <2>1, <2>2, <2>3, OneMore
  <1>9. admitted' = admitted
    BY DEF RefuseAll
  <1>10. \A k \in BucketKeys : Filled(buckets'[k], LimitOf(k))
    BY <1>3, <1>7, Limits DEF IInv
  <1>11. PerUser > 0 => \A v \in Users : Holds(buckets'[v], passed'[v], 2)
    BY <1>3, <1>6, <1>8, Limits DEF IInv
  <1>12. Global > 0 => Holds(buckets'[GlobalKey], admitted', 1)
    BY <1>1, <1>3, <1>9 DEF IInv
  <1>13. \A v \in Users : PromiseInv(v)'
    BY <1>4, <1>5
  <1> QED
    BY <1>3, <1>4, <1>6, <1>9, <1>10, <1>11, <1>12, <1>13 DEF IInv, LimitOf, Filled, OldestFirst, Holds, AtLeast, AtMost

LEMMA AdmitInv == ASSUME IInv, NEW u \in Users, Admit(u) PROVE IInv'
  <1>1. u \in BucketKeys /\ GlobalKey \in BucketKeys /\ u # GlobalKey /\ Passes(u) /\ Passes(GlobalKey)
    BY Limits DEF Admit
  <1>2. buckets' = [buckets EXCEPT ![u] = AfterAdmission(u), ![GlobalKey] = After(GlobalKey)]
    BY DEF Admit
  <1>3. /\ buckets' = [k \in BucketKeys |-> buckets'[k]]
        /\ buckets'[u] = AfterAdmission(u) /\ buckets'[GlobalKey] = After(GlobalKey)
        /\ \A k \in BucketKeys : k # u /\ k # GlobalKey => buckets'[k] = buckets[k]
    BY <1>1, <1>2 DEF IInv
  <1>4. /\ passed' \in [Users -> ByAge] /\ passed'[u] = Counted(passed[u])
        /\ \A v \in Users : v # u => passed'[v] = passed[v]
    BY CountedFor DEF Admit
  <1>5. admitted \in ByAge /\ admitted' = Counted(admitted) /\ admitted' \in ByAge
    BY CountedType DEF Admit, IInv
  <1>6. Filled(AfterAdmission(u), PerUser) /\ Filled(After(GlobalKey), Global)
    BY <1>1, Limits, AdmittedBucket, PassedBucket
  <1>7. PerUser > 0 => Holds(AfterAdmission(u), Counted(passed[u]), 2)
    <2> SUFFICES ASSUME PerUser > 0 PROVE Holds(AfterAdmission(u), Counted(passed[u]), 2)
      OBVIOUS
    <2>1. AfterAdmission(u) \in Seq(Ages) /\ passed[u] \in ByAge /\ Holds(buckets[u], passed[u], 2)
      BY <1>6 DEF Filled, IInv
    <2>2. /\ \A a \in 0 .. Window - 1, c \in Nat : AtLeast(buckets[u], a, c) => AtLeast(AfterAdmission(u), a, c + 1)
          /\ \A a \in 0 .. Window - 1, c \in Nat : AtMost(buckets[u], a, c) => AtMost(AfterAdmission(u), a, c + 2)
      BY <1>1, AdmittedBucket
    <2>3. 2 \in 1 .. 2
      OBVIOUS
    <2> QED
      BY <2>1, <2>2, <2>3, OneMore
  <1>8. Global > 0 => Holds(After(GlobalKey), Counted(admitted), 1)
    <2> SUFFICES ASSUME Global > 0 PROVE Holds(After(GlobalKey), Counted(admitted), 1)
      OBVIOUS
    <2>1. After(GlobalKey) \in Seq(Ages) /\ Holds(buckets[GlobalKey], admitted, 1)
      BY <1>6 DEF Filled, IInv
    <2>2. /\ \A a \in 0 .. Window - 1, c \in Nat : AtLeast(buckets[GlobalKey], a, c) => AtLeast(After(GlobalKey), a, c + 1)
          /\ \A a \in 0 .. Window - 1, c \in Nat : AtMost(buckets[GlobalKey], a, c) => AtMost(After(GlobalKey), a, c + 1)
      BY <1>1, Limits, PassedBucket
    <2>3. 1 \in 1 .. 2 /\ 1 \in 1 .. 1
      OBVIOUS
    <2> QED
      BY <1>5, <2>1, <2>2, <2>3, OneMore
  <1>9. promise' = [v \in Users |-> IF v = u \/ (promise[v] # NoPromise /\ promise[v].key = GlobalKey)
                                    THEN NoPromise ELSE promise[v]]
    BY DEF Admit, Withdrawn
  <1>10. promise' \in [Users -> Promises \cup {NoPromise}]
    BY <1>9 DEF IInv
  <1>11. ASSUME NEW v \in Users PROVE PromiseInv(v)'
    <2>1. CASE promise'[v] = NoPromise
      BY <2>1 DEF PromiseInv
    <2>2. CASE promise'[v] # NoPromise
      <3>1. v # u /\ promise'[v] = promise[v] /\ promise[v].key # GlobalKey /\ promise[v] # NoPromise
        BY <1>9, <2>2
      <3>2. promise[v].key = v /\ v \in BucketKeys /\ v # GlobalKey
        BY <3>1, Limits DEF IInv, PromiseInv
      <3>3. buckets'[promise[v].key] = buckets[promise[v].key]
        BY <1>3, <3>1, <3>2
      <3> QED
        BY <3>1, <3>3, SamePromise
    <2> QED
      BY <2>1, <2>2
  <1>12. \A k \in BucketKeys : Filled(buckets'[k], LimitOf(k))
    BY <1>1, <1>3, <1>6, Limits DEF IInv
  <1>13. PerUser > 0 => \A v \in Users : Holds(buckets'[v], passed'[v], 2)
    BY <1>3, <1>4, <1>7, Limits DEF IInv
  <1>14. Global > 0 => Holds(buckets'[GlobalKey], admitted', 1)
    BY <1>3, <1>5, <1>8
  <1> QED
    BY <1>3, <1>4, <1>5, <1>10, <1>11, <1>12, <1>13, <1>14
    DEF IInv, LimitOf, Filled, OldestFirst, Holds, AtLeast, AtMost

LEMMA CleanupInv == ASSUME IInv, Cleanup PROVE IInv'
  <1>1. /\ buckets' = [k \in BucketKeys |-> Kept(buckets[k])]
        /\ passed' = passed /\ admitted' = admitted /\ promise' = promise
    BY DEF Cleanup
  <1>2. buckets' = [k \in BucketKeys |-> buckets'[k]] /\ \A k \in BucketKeys : buckets'[k] = Kept(buckets[k])
    BY <1>1
  <1>3. \A k \in BucketKeys : Filled(buckets[k], LimitOf(k)) /\ LimitOf(k) \in Nat
    BY Limits DEF IInv
  <1>4. \A k \in BucketKeys : Filled(buckets'[k], LimitOf(k))
    BY <1>2, <1>3, CleanedBucket
  <1>5. PerUser > 0 => \A v \in Users : Holds(buckets'[v], passed'[v], 2)
    <2> SUFFICES ASSUME PerUser > 0, NEW v \in Users PROVE Holds(buckets'[v], passed'[v], 2)
      OBVIOUS
    <2>1. passed[v] \in ByAge /\ 2 \in Nat /\ Holds(buckets[v], passed[v], 2) /\ v \in BucketKeys
      BY Limits DEF IInv
    <2> QED
      BY <1>1, <1>2, <1>3, <2>1, CleanedBucket
  <1>6. Global > 0 => Holds(buckets'[GlobalKey], admitted', 1)
    <2> SUFFICES ASSUME Global > 0 PROVE Holds(buckets'[GlobalKey], admitted', 1)
      OBVIOUS
    <2>1. admitted \in ByAge /\ 1 \in Nat /\ Holds(buckets[GlobalKey], admitted, 1) /\ GlobalKey \in BucketKeys
      BY Limits DEF IInv
    <2> QED
      BY <1>1, <1>2, <1>3, <2>1, CleanedBucket
  <1>7. ASSUME NEW u \in Users PROVE PromiseInv(u)'
    <2> SUFFICES ASSUME promise[u] # NoPromise
                 PROVE  /\ promise[u].key \in {u, GlobalKey} /\ LimitOf(promise[u].key) > 0
                        /\ Frees(buckets'[promise[u].key], LimitOf(promise[u].key), promise[u].wait)
      BY <1>1 DEF PromiseInv, LimitOf, Frees
    <2> DEFINE k == promise[u].key
    <2>1. k \in BucketKeys /\ promise[u].wait \in Nat
      BY DEF IInv, Promises
    <2>2. k \in {u, GlobalKey} /\ LimitOf(k) > 0 /\ Frees(buckets[k], LimitOf(k), promise[u].wait)
      BY DEF IInv, PromiseInv
    <2> HIDE DEF k
    <2>3. Frees(buckets'[k], LimitOf(k), promise[u].wait)
      BY <1>2, <1>3, <2>1, <2>2, CleanedBucket
    <2> QED
      BY <2>2, <2>3 DEF k
  <1> QED
    BY <1>1, <1>2, <1>4, <1>5, <1>6, <1>7 DEF IInv, LimitOf, Filled, OldestFirst, Holds, AtLeast, AtMost

LEMMA AgedType == ASSUME NEW requests \in ByAge PROVE Aged(requests) \in ByAge
  <1>1. \A a \in 0 .. Window - 1 : a # 0 => requests[a - 1] \in Nat
    BY RateLimiterAssumption DEF ByAge
  <1> QED
    BY <1>1 DEF Aged, ByAge

LEMMA TickInv == ASSUME IInv, Tick PROVE IInv'
  <1>1. /\ buckets' = [k \in BucketKeys |-> [i \in DOMAIN buckets[k] |-> Older(buckets[k][i])]]
        /\ passed' = [u \in Users |-> Aged(passed[u])]
        /\ admitted' = Aged(admitted)
        /\ promise' = [u \in Users |-> IF promise[u] = NoPromise THEN NoPromise
                                       ELSE [promise[u] EXCEPT !.wait = IF @ > 0 THEN @ - 1 ELSE 0]]
    BY DEF Tick
  <1>2. /\ buckets' = [k \in BucketKeys |-> buckets'[k]]
        /\ \A k \in BucketKeys : buckets'[k] = [i \in DOMAIN buckets[k] |-> Older(buckets[k][i])]
    BY <1>1
  <1>3. \A k \in BucketKeys : Filled(buckets[k], LimitOf(k)) /\ LimitOf(k) \in Nat
    BY Limits DEF IInv
  <1>4. \A k \in BucketKeys : Filled(buckets'[k], LimitOf(k))
    BY <1>2, <1>3, TickedBucket
  <1>5. \A v \in Users : passed[v] \in ByAge /\ passed'[v] = Aged(passed[v]) /\ passed'[v] \in ByAge
    BY <1>1, AgedType DEF IInv
  <1>6. passed' \in [Users -> ByAge]
    BY <1>1, <1>5
  <1>7. admitted \in ByAge /\ admitted' = Aged(admitted) /\ admitted' \in ByAge
    BY <1>1, AgedType DEF IInv
  <1>8. PerUser > 0 => \A v \in Users : Holds(buckets'[v], passed'[v], 2)
    <2> SUFFICES ASSUME PerUser > 0, NEW v \in Users PROVE Holds(buckets'[v], passed'[v], 2)
      OBVIOUS
    <2>1. 2 \in Nat /\ Holds(buckets[v], passed[v], 2) /\ v \in BucketKeys
      BY Limits DEF IInv
    <2> QED
      BY <1>2, <1>3, <1>5, <2>1, TickedBucket
  <1>9. Global > 0 => Holds(buckets'[GlobalKey], admitted', 1)
    <2> SUFFICES ASSUME Global > 0 PROVE Holds(buckets'[GlobalKey], admitted', 1)
      OBVIOUS
    <2>1. 1 \in Nat /\ Holds(buckets[GlobalKey], admitted, 1) /\ GlobalKey \in BucketKeys
      BY Limits DEF IInv
    <2> QED
      BY <1>2, <1>3, <1>7, <2>1, TickedBucket
  <1>10. ASSUME NEW u \in Users, promise[u] # NoPromise
         PROVE  /\ promise'[u] \in Promises /\ promise'[u].key = promise[u].key
                /\ promise'[u].wait = IF promise[u].wait > 0 THEN promise[u].wait - 1 ELSE 0
    <2>1. promise[u] \in Promises
      BY <1>10 DEF IInv
    <2>2. promise'[u] = [promise[u] EXCEPT !.wait = IF @ > 0 THEN @ - 1 ELSE 0]
      BY <1>1, <1>10
    <2> QED
      BY <2>1, <2>2 DEF Promises
  <1>11. promise' \in [Users -> Promises \cup {NoPromise}]
    <2>1. DOMAIN promise' = Users /\ promise' = [u \in Users |-> promise'[u]]
      BY <1>1
    <2>2. \A u \in Users : promise'[u] \in Promises \cup {NoPromise}
      BY <1>1, <1>10
    <2> QED
      BY <2>1, <2>2
  <1>12. ASSUME NEW u \in Users PROVE PromiseInv(u)'
    <2>1. CASE promise[u] = NoPromise
      <3>1. promise'[u] = NoPromise
        BY <1>1, <2>1
      <3> QED
        BY <3>1 DEF PromiseInv
    <2>2. CASE promise[u] # NoPromise
      <3> DEFINE k == promise[u].key
      <3>1. k \in BucketKeys /\ promise[u].wait \in Nat
        BY <2>2 DEF IInv, Promises
      <3>2. k \in {u, GlobalKey} /\ LimitOf(k) > 0 /\ Frees(buckets[k], LimitOf(k), promise[u].wait)
        BY <2>2 DEF IInv, PromiseInv
      <3>3. promise'[u].key = k /\ promise'[u].wait = IF promise[u].wait > 0 THEN promise[u].wait - 1 ELSE 0
        BY <1>10, <2>2
      <3> HIDE DEF k
      <3>4. Frees(buckets'[k], LimitOf(k), promise'[u].wait)
        BY <1>2, <1>3, <3>1, <3>2, <3>3, TickedBucket
      <3> QED
        BY <3>2, <3>3, <3>4 DEF PromiseInv, LimitOf, Frees
    <2> QED
      BY <2>1, <2>2
  <1> QED
    BY <1>2, <1>4, <1>6, <1>7, <1>8, <1>9, <1>11, <1>12
    DEF IInv, LimitOf, Filled, OldestFirst, Holds, AtLeast, AtMost

LEMMA RestartInv == ASSUME Restart PROVE IInv'
  <1>1. Init'
    BY DEF Restart, Init, NoRequests
  <1>2. Init' => IInv'
    BY InitInv, PTL
  <1> QED
    BY <1>1, <1>2

THEOREM Inductive == Spec => []IInv
  <1>1. Init => IInv
    BY InitInv
  <1>2. ASSUME IInv, [Next]_vars PROVE IInv'
    <2>1. CASE \E u \in Users : RefuseUser(u) \/ RefuseAll(u) \/ Admit(u)
      BY <1>2, <2>1, RefuseUserInv, RefuseAllInv, AdmitInv
    <2>2. CASE Cleanup
      BY <1>2, <2>2, CleanupInv
    <2>3. CASE Tick
      BY <1>2, <2>3, TickInv
    <2>4. CASE Restart
      BY <2>4, RestartInv
    <2>5. CASE UNCHANGED vars
      BY <1>2, <2>5 DEF vars, IInv, Filled, OldestFirst, Holds, AtLeast, AtMost, PromiseInv, Frees, LimitOf
    <2> QED
      BY <1>2, <2>1, <2>2, <2>3, <2>4, <2>5 DEF Next
  <1> QED
    BY <1>1, <1>2, PTL DEF Spec

-----------------------------------------------------------------------------
(***************************************************************************)
(* Theorems.                                                               *)
(***************************************************************************)
\* Buckets stay in the order of age, which the filters of is_allowed and of cleanup keep.
THEOREM TypeCorrect == Spec => []TypeOK
  <1>1. IInv => TypeOK
    <2> SUFFICES ASSUME IInv PROVE TypeOK
      OBVIOUS
    <2>1. \A k \in BucketKeys : buckets[k] \in Seq(0 .. Horizon) /\ OldestFirst(buckets[k])
      BY DEF IInv, Filled, Ages
    <2>2. buckets \in [BucketKeys -> Seq(0 .. Horizon)]
      <3>1. buckets = [k \in BucketKeys |-> buckets[k]]
        BY DEF IInv
      <3> QED
        BY <2>1, <3>1
    <2>3. \A k \in BucketKeys : \A i, j \in DOMAIN buckets[k] : i < j => buckets[k][i] >= buckets[k][j]
      BY <2>1 DEF OldestFirst
    <2> QED
      BY <2>2, <2>3 DEF TypeOK, IInv, ByAge, Promises
  <1> QED
    BY <1>1, Inductive, PTL

\* Live tokens are at least, and at most, the requests of the last window.
LEMMA LiveTokens ==
    ASSUME NEW limit, NEW b, Filled(b, limit), NEW c \in Nat
    PROVE  /\ AtLeast(b, Window - 1, c) => Len(Live(b)) >= c
           /\ AtMost(b, Window - 1, c) => Len(Live(b)) <= c
  <1> DEFINE y == Live(b)
  <1>1. b \in Seq(Ages) /\ OldestFirst(b) /\ Window \in Nat /\ Window - 1 \in Nat /\ Window - 1 < Window
    BY RateLimiterAssumption DEF Filled
  <1>2. /\ y \in Seq(Ages) /\ \A i \in 1 .. Len(y) : y[i] < Window
        /\ AtLeast(b, Window - 1, c) => AtLeast(y, Window - 1, c)
        /\ AtMost(b, Window - 1, c) => AtMost(y, Window - 1, c)
    BY <1>1, FilteredBucket DEF Live
  <1> HIDE DEF y
  <1>3. Len(y) \in Nat /\ \A i \in 1 .. Len(y) : y[i] \in Nat /\ y[i] <= Window - 1
    BY <1>1, <1>2, RateLimiterAssumption DEF Ages
  <1>4. AtLeast(y, Window - 1, c) => Len(y) >= c
    BY <1>3 DEF AtLeast
  <1>5. AtMost(y, Window - 1, c) => Len(y) <= c
    <2>1. CASE Len(y) = 0
      BY <2>1
    <2>2. CASE Len(y) # 0
      <3>1. 1 \in 1 .. Len(y)
        BY <1>3, <2>2
      <3> QED
        BY <1>3, <3>1 DEF AtMost
    <2> QED
      BY <2>1, <2>2
  <1> QED
    BY <1>2, <1>4, <1>5 DEF y

\* No window holds more requests than the limits allow.
THEOREM WindowsAreCapped == Spec => []WindowCap
  <1>1. IInv => WindowCap
    <2> SUFFICES ASSUME IInv PROVE WindowCap
      OBVIOUS
    <2>1. Window - 1 \in 0 .. Window - 1
      BY RateLimiterAssumption
    <2>2. ASSUME PerUser > 0, NEW u \in Users PROVE Passed(u) <= PerUser
      <3>1. AtLeast(buckets[u], Window - 1, Passed(u))
        BY <2>1, <2>2 DEF IInv, Holds, Passed
      <3>2. Len(buckets[u]) <= PerUser /\ Len(buckets[u]) \in Nat
        BY <2>2, Limits DEF IInv, Filled
      <3>3. Passed(u) \in Nat
        BY <2>1 DEF IInv, ByAge, Passed
      <3> QED
        BY <3>1, <3>2, <3>3, RateLimiterAssumption DEF AtLeast
    <2>3. ASSUME Global > 0 PROVE Admitted <= Global
      <3>1. AtLeast(buckets[GlobalKey], Window - 1, Admitted)
        BY <2>1, <2>3 DEF IInv, Holds, Admitted
      <3>2. Len(buckets[GlobalKey]) <= Global /\ Len(buckets[GlobalKey]) \in Nat
        BY <2>3, Limits DEF IInv, Filled
      <3>3. Admitted \in Nat
        BY <2>1 DEF IInv, ByAge, Admitted
      <3> QED
        BY <3>1, <3>2, <3>3, RateLimiterAssumption DEF AtLeast
    <2> QED
      BY <2>2, <2>3 DEF WindowCap
  <1> QED
    BY <1>1, Inductive, PTL

\* The bucket of all users counts admitted requests and no others.
THEOREM OnlyAdmittedCount == Spec => []GlobalCountsAdmitted
  <1>1. IInv => GlobalCountsAdmitted
    <2> SUFFICES ASSUME IInv, Global > 0 PROVE Len(Live(buckets[GlobalKey])) = Admitted
      BY DEF GlobalCountsAdmitted
    <2>1. Window - 1 \in 0 .. Window - 1
      BY RateLimiterAssumption
    <2>2. Admitted \in Nat
      BY <2>1 DEF IInv, ByAge, Admitted
    <2>3. AtLeast(buckets[GlobalKey], Window - 1, Admitted) /\ AtMost(buckets[GlobalKey], Window - 1, 1 * Admitted)
      BY <2>1 DEF IInv, Holds, Admitted
    <2>4. 1 * Admitted = Admitted
      BY <2>2
    <2>5. Filled(buckets[GlobalKey], Global)
      BY Limits DEF IInv
    <2>6. Len(Live(buckets[GlobalKey])) \in Nat
      BY <2>5, FilteredBucket, RateLimiterAssumption DEF Filled, Live
    <2>7. Len(Live(buckets[GlobalKey])) >= Admitted /\ Len(Live(buckets[GlobalKey])) <= Admitted
      BY <2>2, <2>3, <2>4, <2>5, LiveTokens
    <2> QED
      BY <2>2, <2>6, <2>7
  <1> QED
    BY <1>1, Inductive, PTL

\* A wait that was promised is long enough.
THEOREM ResetsAreHonest == Spec => []HonestReset
  <1>1. IInv => HonestReset
    <2> SUFFICES ASSUME IInv, NEW u \in Users, promise[u] # NoPromise, promise[u].wait = 0
                 PROVE  Passes(promise[u].key)
      BY DEF HonestReset
    <2> DEFINE k == promise[u].key
               b == buckets[k]
               y == Live(b)
    <2>1. k \in BucketKeys /\ LimitOf(k) > 0 /\ Frees(b, LimitOf(k), 0)
      BY DEF IInv, PromiseInv, Promises
    <2>2. LimitOf(k) \in Nat /\ Filled(b, LimitOf(k)) /\ Window \in Nat
      BY <2>1, Limits, RateLimiterAssumption DEF IInv
    <2> HIDE DEF k, b
    <2>3. b \in Seq(Ages) /\ OldestFirst(b) /\ Len(b) <= LimitOf(k) /\ Len(b) \in Nat
      BY <2>1, <2>2 DEF Filled
    <2>4. /\ y \in Seq(Ages) /\ Len(y) <= Len(b)
          /\ Len(b) > 0 /\ b[1] >= Window => Len(y) < Len(b)
      BY <2>2, <2>3, FilteredBucket DEF Live
    <2> HIDE DEF y
    <2>5. Len(y) < LimitOf(k)
      <3>1. CASE Len(b) < LimitOf(k)
        BY <2>2, <2>3, <2>4, <3>1
      <3>2. CASE ~(Len(b) < LimitOf(k))
        <4>1. 1 \in 1 .. Len(b) /\ b[1] + 0 >= Window
          BY <2>1, <2>2, <2>3, <3>2 DEF Frees
        <4>2. b[1] \in Nat
          BY <2>3, <4>1, RateLimiterAssumption DEF Ages
        <4> QED
          BY <2>2, <2>3, <2>4, <4>1, <4>2
      <3> QED
        BY <3>1, <3>2
    <2> QED
      BY <2>5 DEF Passes, Allowed, y, b, k
  <1> QED
    BY <1>1, Inductive, PTL

\* A refused user has had at least half of what its limit names.
THEOREM HalfOfTheQuota == Spec => HalfQuota
  <1>1. IInv /\ [Next]_vars => [\A u \in Users : RefuseUser(u) => 2 * Passed(u) >= PerUser]_vars
    <2> SUFFICES ASSUME IInv, NEW u \in Users, RefuseUser(u) PROVE 2 * Passed(u) >= PerUser
      OBVIOUS
    <2>1. u \in BucketKeys /\ LimitOf(u) = PerUser /\ PerUser \in Nat /\ Window - 1 \in 0 .. Window - 1
      BY Limits, RateLimiterAssumption
    <2>2. PerUser \in Nat \ {0} /\ ~Allowed(buckets[u], PerUser) /\ Filled(buckets[u], PerUser)
      BY <2>1 DEF RefuseUser, Passes, IInv
    <2>3. Live(buckets[u]) = buckets[u] /\ Len(buckets[u]) = PerUser
      BY <2>2, RefusingBucket
    <2>4. Passed(u) \in Nat /\ AtMost(buckets[u], Window - 1, 2 * Passed(u))
      BY <2>1, <2>2 DEF IInv, ByAge, Holds, Passed
    <2>5. 2 * Passed(u) \in Nat
      BY <2>4
    <2>6. Len(Live(buckets[u])) <= 2 * Passed(u)
      BY <2>2, <2>4, <2>5, LiveTokens
    <2> QED
      BY <2>1, <2>3, <2>5, <2>6
  <1> QED
    BY <1>1, Inductive, PTL DEF Spec, HalfQuota
=============================================================================
