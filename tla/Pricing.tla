------------------------------ MODULE Pricing ------------------------------
(***************************************************************************)
(* What a request costs: prices, costs, estimates and the usage that is    *)
(* found in an answer.  Prices are integers (cents for a thousand tokens)  *)
(* but are computed, as costs are, in binary floating point and rounded up *)
(* last; a float is a pair <<m, d>>, m / d with d a power of two and at    *)
(* most Precision digits in m, which is negative for a discount.           *)
(***************************************************************************)
EXTENDS Integers, FiniteSetsExt

CONSTANTS
    Thousand,     \* tokens that a price is for, 1000 in the code
    Hundred,      \* what a markup is a fraction of, 100 in the code
    Precision,    \* binary digits of a float, 53 in the code
    NoReport      \* what stands for the usage of a line that holds none

ASSUME PricingAssumption == Thousand \in Nat \ {0} /\ Hundred \in Nat \ {0} /\ Precision \in Nat \ {0}

-----------------------------------------------------------------------------
(***************************************************************************)
(* Floats.                                                                 *)
(***************************************************************************)
Whole(n) == <<n, 1>>

\* The floats that there are, and those that are not negative.
Signed == (-(2^Precision - 1)..(2^Precision - 1)) \X {2^e : e \in 0..(2 * Precision)}
Representable == (0..(2^Precision - 1)) \X {2^e : e \in 0..(2 * Precision)}

\* The digits of n / d behind the point in base two: as few as make Precision digits
\* (n / d < 2^Precision), but no more than there are.
Scale(n, d) ==
    CHOOSE e \in 0..(2 * Precision) :
        /\ n * 2^e >= d * 2^(Precision - 1) \/ e = 2 * Precision
        /\ \A f \in 0..(e - 1) : n * 2^f < d * 2^(Precision - 1)

\* n / d to the nearest float, a tie to the even one; first for a positive n.
NearestTo(n, d) ==
    LET scaled == n * 2^Scale(n, d)
        q == scaled \div d
        r == scaled % d
        up == 2 * r > d \/ (2 * r = d /\ q % 2 = 1)
    IN <<IF up THEN q + 1 ELSE q, 2^Scale(n, d)>>

Nearest(n, d) ==
    IF n = 0 THEN Whole(0)
    ELSE IF n > 0 THEN NearestTo(n, d)
    ELSE <<-NearestTo(-n, d)[1], NearestTo(-n, d)[2]>>

Times(x, y) == Nearest(x[1] * y[1], x[2] * y[2])

Plus(x, y) ==
    LET d == Max({x[2], y[2]})
    IN Nearest(x[1] * (d \div x[2]) + y[1] * (d \div y[2]), d)

\* math.ceil
Ceil(x) == -((-x[1]) \div x[2])

-----------------------------------------------------------------------------
(***************************************************************************)
(* Prices and costs.                                                       *)
(***************************************************************************)
\* The price of a thousand tokens that cost the float cost, with a markup in percent,
\* any float.
MarkedUp(cost, markup) ==
    Ceil(Times(cost, Plus(Whole(1), Nearest(markup[1], Hundred * markup[2]))))

\* Mutant: tokens // 1000.
CostOfThousands(prompt, completion, price) ==
    (prompt \div Thousand) * price.input + (completion \div Thousand) * price.output

\* Mutant: int() instead of math.ceil().
CostRoundedDown(prompt, completion, price) ==
    LET x == Plus(Times(Nearest(prompt, Thousand), Whole(price.input)),
                  Times(Nearest(completion, Thousand), Whole(price.output)))
    IN x[1] \div x[2]

Cost(prompt, completion, price) ==
    Ceil(Plus(Times(Nearest(prompt, Thousand), Whole(price.input)),
              Times(Nearest(completion, Thousand), Whole(price.output))))

EmbeddingCost(tokens, price) == Ceil(Times(Nearest(tokens, Thousand), Whole(price.input)))

\* About four characters are a token.
EstimatedTokens(chars) == Max({1, -((-chars) \div 4)})

\* What the same price and cost would be without floats.
ExactlyMarkedUp(cost, markup) ==
    -((-(cost[1] * (Hundred * markup[2] + markup[1]))) \div (cost[2] * Hundred * markup[2]))

ExactThousandths(prompt, completion, price) == prompt * price.input + completion * price.output

-----------------------------------------------------------------------------
(***************************************************************************)
(* Usage.  An answer is a sequence of lines; a line is the usage it        *)
(* reports, of zeros too, or NoReport.  A body that is not streamed is one *)
(* line.  A stream arrives in chunks, cut anywhere, and is parsed chunk by *)
(* chunk: a line with a cut inside is two pieces, and neither is read as   *)
(* usage.  What reports nothing used nothing.                              *)
(***************************************************************************)
NoUsage == [prompt |-> 0, completion |-> 0]

WithUsage(lines, cut) == {i \in DOMAIN lines : lines[i] # NoReport /\ i \notin cut}

\* Mutant: the first usage of a stream, not the last.
FirstUsage(lines, cut) ==
    IF WithUsage(lines, cut) = {} THEN NoUsage ELSE lines[Min(WithUsage(lines, cut))]

ParsedUsage(lines, cut) ==
    IF WithUsage(lines, cut) = {} THEN NoUsage ELSE lines[Max(WithUsage(lines, cut))]
=============================================================================
