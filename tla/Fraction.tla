------------------------------ MODULE Fraction ------------------------------
(***************************************************************************)
(* math::Fraction (src/math/fraction.cpp): exact fractions of machine      *)
(* integers.  value_type has Bits bits, 64 in the code.  An operation that *)
(* throws std::overflow_error yields Overflow, which is no value_type.     *)
(***************************************************************************)
EXTENDS Integers

CONSTANT Bits

VARIABLES x,      \* the object: num_ and den_
          exact,  \* history: the rational number it should be, in lowest terms
          torn    \* history: an operation threw after its first assignment

vars == <<x, exact, torn>>

Lowest  == -(2 ^ (Bits - 1))
Highest == 2 ^ (Bits - 1) - 1
Value    == Lowest..Highest
Overflow == 2 ^ Bits
Wrap(v) == ((v - Lowest) % (2 ^ Bits)) + Lowest

\* C++ division rounds towards 0.
Abs(a) == IF a < 0 THEN -a ELSE a
Quot(a, b) == IF (a < 0) = (b < 0) THEN Abs(a) \div Abs(b) ELSE -(Abs(a) \div Abs(b))

gcdU64[a \in 0..Overflow, b \in 0..Overflow] == IF b = 0 THEN a ELSE gcdU64[b, a % b]
\* safeCastU64ToI64(gcdU64(...)).
Gcd(a, b) == LET g == gcdU64[Abs(a), Abs(b)] IN IF g > Highest THEN Overflow ELSE g

safeNegate(a) == IF a = Lowest THEN Overflow ELSE -a

safeAdd(a, b) ==
    IF \/ Overflow \in {a, b}
       \/ b > 0 /\ a > Highest - b
       \/ b < 0 /\ a < Lowest - b
    THEN Overflow ELSE Wrap(a + b)

safeSub(a, b) == IF b \in {Lowest, Overflow} THEN Overflow ELSE safeAdd(a, -b)

\* Mutant: the product of two negative factors is not tested.
safeMulUnchecked(a, b) ==
    CASE a > 1 /\ b > 1 /\ a > Quot(Highest, b)  -> Overflow
      [] a > 1 /\ b < -1 /\ b < Quot(Lowest, a)  -> Overflow
      [] a < -1 /\ b > 1 /\ a < Quot(Lowest, b)  -> Overflow
      [] OTHER -> Wrap(a * b)

safeMul(a, b) ==
    CASE a = 0 \/ b = 0 -> 0
      [] a = 1  -> b
      [] b = 1  -> a
      [] a = -1 -> safeNegate(b)
      [] b = -1 -> safeNegate(a)
      [] a > 1 /\ b > 1 /\ a > Quot(Highest, b)   -> Overflow
      [] a > 1 /\ b < -1 /\ b < Quot(Lowest, a)   -> Overflow
      [] a < -1 /\ b > 1 /\ a < Quot(Lowest, b)   -> Overflow
      [] a < -1 /\ b < -1 /\ a < Quot(Highest, b) -> Overflow
      [] OTHER -> Wrap(a * b)

-----------------------------------------------------------------------------
\* An operation returns the object after it, and whether it threw.
Ok(n, d) == [num |-> n, den |-> d, threw |-> FALSE]
Threw(n, d) == [num |-> n, den |-> d, threw |-> TRUE]

normalize(n, d) ==
    LET g == Gcd(n, d)
        num == Quot(n, g)
        den == Quot(d, g)
    IN CASE d = 0 -> Threw(n, d)
         [] n = 0 -> Ok(0, 1)
         [] n # 0 /\ d # 0 /\ g = Overflow -> Threw(n, d)
         [] n # 0 /\ d # 0 /\ g # Overflow ->
              IF den > 0 THEN Ok(num, den)
              ELSE IF den = Lowest \/ num = Lowest THEN Threw(num, den)
              ELSE Ok(-num, -den)

\* operator+= and operator-=: both results are computed before the assignments.
Sum(a, b, minus) ==
    LET g     == Gcd(a.den, b.den)
        left  == safeMul(a.num, Quot(b.den, g))
        right == safeMul(b.num, Quot(a.den, g))
        num   == IF minus THEN safeSub(left, right) ELSE safeAdd(left, right)
        den   == safeMul(a.den, Quot(b.den, g))
    IN IF Overflow \in {num, den} THEN Threw(a.num, a.den) ELSE normalize(num, den)

\* The end of operator*= and operator/=: num_ is assigned before the product for
\* den_ can throw.
Product(a, n1, n2, d1, d2) ==
    LET num == safeMul(n1, n2)
        den == safeMul(d1, d2)
    IN CASE num = Overflow -> Threw(a.num, a.den)
         [] num # Overflow /\ den = Overflow -> Threw(num, a.den)
         [] OTHER -> normalize(num, den)

Times(a, b) ==
    LET g1 == Gcd(a.num, b.den)
        g2 == Gcd(b.num, a.den)
    IN IF a.num = 0 \/ b.num = 0 THEN Ok(0, 1)
       ELSE Product(a, Quot(a.num, g1), Quot(b.num, g2), Quot(a.den, g2), Quot(b.den, g1))

Over(a, b) ==
    LET g1 == Gcd(a.num, b.num)
        g2 == Gcd(b.den, a.den)
    IN CASE b.num = 0 -> Threw(a.num, a.den)
         [] a.num = 0 /\ b.num # 0 -> Ok(0, 1)
         [] a.num # 0 /\ b.num # 0 /\ g1 = Overflow -> Threw(a.num, a.den)
         [] OTHER -> Product(a, Quot(a.num, g1), Quot(b.den, g2), Quot(a.den, g2), Quot(b.num, g1))

\* compareUnsignedFractions() of a/b and c/d: -1, 0 or 1.  Continued fractions, so
\* that nothing is multiplied; each step swaps numerators and denominators.
RECURSIVE compareUnsignedFractions(_, _, _, _)
compareUnsignedFractions(a, b, c, d) ==
    LET q1 == a \div b
        q2 == c \div d
        r1 == a % b
        r2 == c % d
    IN CASE q1 # q2 -> IF q1 < q2 THEN -1 ELSE 1
         [] q1 = q2 /\ r1 = 0 /\ r2 = 0 -> 0
         [] q1 = q2 /\ r1 = 0 /\ r2 # 0 -> -1
         [] q1 = q2 /\ r1 # 0 /\ r2 = 0 -> 1
         [] OTHER -> -compareUnsignedFractions(b, r1, d, r2)

\* operator<=>.
Compare(a, b) ==
    CASE a.num < 0 /\ b.num >= 0 -> -1
      [] a.num >= 0 /\ b.num < 0 -> 1
      [] OTHER -> LET ord == compareUnsignedFractions(Abs(a.num), a.den, Abs(b.num), b.den)
                  IN IF a.num < 0 THEN -ord ELSE ord

-----------------------------------------------------------------------------
\* Rational arithmetic without bounds: p/q in lowest terms, q positive.
Divides(g, p) == p % g = 0
LowestTerms(p, q) ==
    LET g == CHOOSE k \in 1..Abs(q) :
                /\ Divides(k, p) /\ Divides(k, q)
                /\ \A j \in (k + 1)..Abs(q) : ~(Divides(j, p) /\ Divides(j, q))
    IN IF q > 0 THEN [num |-> p \div g, den |-> q \div g]
                ELSE [num |-> (-p) \div g, den |-> (-q) \div g]

\* The fractions there are.
Fractions == {f \in [num : Value, den : 1..Highest] : LowestTerms(f.num, f.den) = f}

Plain(r) == [num |-> r.num, den |-> r.den]

\* Fraction(n, d), assigned to the object.
Assign(n, d) ==
    /\ ~normalize(n, d).threw
    /\ x' = Plain(normalize(n, d))
    /\ exact' = LowestTerms(n, d)
    /\ torn' = FALSE

Init ==
    \E n \in Value :
        /\ x = [num |-> n, den |-> 1] /\ exact = x
        /\ torn = FALSE

\* An operation that returns sets the object to what it computed; one that throws
\* leaves it as it is, or torn, and then the next thing to happen is an assignment.
Apply(r, p, q, tears) ==
    /\ ~torn
    /\ x' = Plain(r)
    /\ exact' = IF r.threw THEN exact ELSE LowestTerms(p, q)
    /\ torn' = (tears /\ r.threw /\ Plain(r) # x)

Add(b) == Apply(Sum(x, b, FALSE), x.num * b.den + b.num * x.den, x.den * b.den, FALSE)
Subtract(b) == Apply(Sum(x, b, TRUE), x.num * b.den - b.num * x.den, x.den * b.den, FALSE)
Multiply(b) == Apply(Times(x, b), x.num * b.num, x.den * b.den, TRUE)
Divide(b) == Apply(Over(x, b), x.num * b.den, x.den * b.num, TRUE)

\* x = -x.
Negate == /\ safeNegate(x.num) # Overflow
          /\ Apply(normalize(safeNegate(x.num), x.den), -x.num, x.den, FALSE)

Next ==
    \/ \E n, d \in Value : Assign(n, d)
    \/ \E b \in Fractions : Add(b) \/ Subtract(b) \/ Multiply(b) \/ Divide(b)
    \/ Negate

Spec == Init /\ [][Next]_vars

-----------------------------------------------------------------------------
TypeOK ==
    /\ x \in [num : Value, den : Value]
    /\ exact \in Fractions /\ torn \in BOOLEAN

\* A fraction is exactly the rational number its operations make it, in lowest terms
\* and with a positive denominator: whatever does not fit throws and leaves it as it
\* was.  The exception is an operator*= or operator/= that throws half way (torn).
\* And operator<=> orders it as the rational numbers are ordered.
FractionExact ==
    ~torn => /\ x = exact
             /\ \A b \in Fractions :
                   LET diff == x.num * b.den - b.num * x.den
                   IN Compare(x, b) = IF diff < 0 THEN -1 ELSE IF diff > 0 THEN 1 ELSE 0
=============================================================================
