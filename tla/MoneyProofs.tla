----------------------------- MODULE MoneyProofs -----------------------------
(***************************************************************************)
(* pkg/money for amounts of any width, any number of parts and any         *)
(* sequence of calls: Split neither creates nor loses a unit, and wrapping *)
(* on the way does no harm to a result that fits.                          *)
(***************************************************************************)
EXTENDS Money, NaturalsInduction, WellFoundedInduction, TLAPS

(* Amounts that differ by multiples of Size, as wrapped ones do.           *)
Congruent(a, b) == \E q \in Int : a = b + q * Size

PartsOK == parts # <<>> => \E n \in Nat \ {0} : parts = Split(m, n)

MoneyInv ==
    /\ MoneyTypeOK
    /\ m # <<>> => Congruent(m.amount, exact)
    /\ m = <<>> => parts = <<>>
    /\ PartsOK

-----------------------------------------------------------------------------
(* Wrapping.                                                               *)

LEMMA Int64Facts ==
    /\ Size \in Nat \ {0} /\ MinInt \in Int /\ MaxInt \in Nat
    /\ MinInt < 0
    /\ Size = MaxInt - MinInt + 1
    /\ \A x : x \in Int64 <=> x \in Int /\ MinInt <= x /\ x <= MaxInt
BY MoneyAssumption DEF Size, MinInt, Int64

LEMMA DivisionFacts ==
    ASSUME NEW n \in Nat \ {0}, NEW a \in Int
    PROVE  /\ a \div n \in Int /\ a % n \in 0 .. (n - 1)
           /\ a = n * (a \div n) + (a % n)
OBVIOUS

(* Two amounts that fit and are congruent are equal.                       *)
LEMMA CongruentFits ==
    ASSUME NEW a \in Int64, NEW b \in Int64, Congruent(a, b)
    PROVE  a = b
<1>1. PICK q \in Int : a = b + q * Size
  BY DEF Congruent
<1>2. a \in Int /\ b \in Int /\ a - b < Size /\ b - a < Size
  BY Int64Facts
<1>3. Size \in Nat \ {0}
  BY Int64Facts
<1>4. q >= 1 => q * Size >= Size
  BY <1>3
<1>5. q <= -1 => q * Size <= -Size
  BY <1>3
<1>6. q * Size \in Int
  BY <1>3
<1>7. q = 0
  BY <1>1, <1>2, <1>3, <1>4, <1>5, <1>6
<1>8. q * Size = 0
  BY <1>3, <1>7
<1> QED BY <1>1, <1>2, <1>8

LEMMA WrapFacts ==
    ASSUME NEW x \in Int
    PROVE  Wrap(x) \in Int64 /\ Congruent(Wrap(x), x)
<1>1. Size \in Nat \ {0} /\ x - MinInt \in Int /\ MinInt \in Int
  BY Int64Facts
<1>2. PICK d \in Int, r \in 0 .. (Size - 1) :
          r = (x - MinInt) % Size /\ x - MinInt = Size * d + r
  BY <1>1, DivisionFacts
<1>3. Wrap(x) = r + MinInt
  BY <1>2 DEF Wrap
<1>4. Wrap(x) \in Int64
  BY <1>1, <1>2, <1>3, Int64Facts
<1>5. -d \in Int /\ Wrap(x) = x + (-d) * Size
  BY <1>1, <1>2, <1>3
<1> QED BY <1>4, <1>5 DEF Congruent

LEMMA WrapFits ==
    ASSUME NEW x \in Int64
    PROVE  Wrap(x) = x
BY Int64Facts, WrapFacts, CongruentFits

LEMMA CongruentTrans ==
    ASSUME NEW a \in Int, NEW b \in Int, NEW c \in Int,
           Congruent(a, b), Congruent(b, c)
    PROVE  Congruent(a, c)
<1>1. PICK q \in Int : a = b + q * Size
  BY DEF Congruent
<1>2. PICK r \in Int : b = c + r * Size
  BY DEF Congruent
<1>3. q + r \in Int /\ a = c + (q + r) * Size
  BY <1>1, <1>2, Int64Facts
<1> QED BY <1>3 DEF Congruent

(* Sums, differences and negations of congruent amounts are congruent.     *)
LEMMA CongruentOps ==
    ASSUME NEW a \in Int, NEW b \in Int, NEW y \in Int, Congruent(a, b)
    PROVE  /\ Congruent(a + y, b + y) /\ Congruent(a - y, b - y)
           /\ Congruent(-a, -b)
<1>1. PICK q \in Int : a = b + q * Size
  BY DEF Congruent
<1>2. a + y = (b + y) + q * Size /\ a - y = (b - y) + q * Size
  BY <1>1, Int64Facts
<1>3. -q \in Int /\ -a = (-b) + (-q) * Size
  BY <1>1, Int64Facts
<1> QED BY <1>2, <1>3 DEF Congruent

-----------------------------------------------------------------------------
(* Split.                                                                  *)

(* Go's division: the remainder has the sign of the dividend.              *)
LEMMA TruncatedDivision ==
    ASSUME NEW a \in Int, NEW n \in Nat \ {0}
    PROVE  /\ Quotient(a, n) \in Int /\ Remainder(a, n) \in Int
           /\ a = n * Quotient(a, n) + Remainder(a, n)
           /\ a >= 0 => /\ 0 <= Quotient(a, n) /\ Quotient(a, n) <= a
                        /\ 0 <= Remainder(a, n) /\ Remainder(a, n) < n
           /\ a < 0 => /\ Quotient(a, n) <= 0 /\ a <= Quotient(a, n)
                       /\ -n < Remainder(a, n) /\ Remainder(a, n) <= 0
<1>1. ASSUME NEW b \in Nat
      PROVE  /\ b \div n \in Nat /\ b \div n <= b
             /\ b - n * (b \div n) \in 0 .. (n - 1)
             /\ b = n * (b \div n) + (b - n * (b \div n))
  <2>1. PICK d \in Int, r \in 0 .. (n - 1) :
            d = b \div n /\ b = n * d + r
    BY DivisionFacts
  <2>2. d >= 0
    <3>1. d <= -1 => n * d <= -n
      OBVIOUS
    <3> QED BY <2>1, <3>1
  <2>3. n * d >= d
    BY <2>2
  <2> QED BY <2>1, <2>2, <2>3
<1>2. CASE a >= 0
  BY <1>1, <1>2 DEF Quotient, Remainder
<1>3. CASE a < 0
  <2>1. PICK d \in Nat : /\ d = (-a) \div n /\ d <= -a
                         /\ (-a) - n * d \in 0 .. (n - 1)
    BY <1>1, <1>3
  <2>2. Quotient(a, n) = -d
    BY <1>3, <2>1 DEF Quotient
  <2>3. Remainder(a, n) = a + n * d
    BY <2>2 DEF Remainder
  <2> QED BY <1>3, <2>1, <2>2, <2>3
<1> QED BY <1>2, <1>3

(* The parts of a split: rem of them have one unit more (or, of a negative *)
(* amount, less) than the others, they come first, and none wraps.         *)
Shape(x, n, ps, base, rem, sign) ==
    /\ rem < n /\ x.amount = n * base + sign * rem
    /\ x.amount >= 0 => sign = 1
    /\ x.amount < 0 => sign = -1 \/ rem = 0
    /\ ps \in [1 .. n -> Value]
    /\ \A i \in 1 .. n :
          /\ ps[i].currency = x.currency
          /\ ps[i].amount = IF i - 1 < rem THEN base + sign ELSE base

LEMMA SplitShape ==
    ASSUME NEW x \in Value, NEW n \in Nat \ {0}
    PROVE  \E base \in Int, rem \in Nat, sign \in {-1, 1} :
              Shape(x, n, Split(x, n), base, rem, sign)
<1> DEFINE a == x.amount
           base == Quotient(a, n)
           r == Remainder(a, n)
           sign == IF r < 0 THEN -1 ELSE 1
           rem == sign * r
<1>1. a \in Int64 /\ a \in Int /\ x.currency \in Currency
  BY Int64Facts DEF Value
<1>2. /\ base \in Int /\ r \in Int /\ a = n * base + r
      /\ a >= 0 => 0 <= base /\ base <= a /\ 0 <= r /\ r < n
      /\ a < 0 => base <= 0 /\ a <= base /\ -n < r /\ r <= 0
  BY <1>1, TruncatedDivision
<1>3. \A i \in 1 .. n : Split(x, n)[i] =
          [x EXCEPT !.amount =
              IF i - 1 < rem THEN Wrap(base + sign) ELSE base]
  BY DEF Split
<1>4. Split(x, n) = [i \in 1 .. n |->
          [x EXCEPT !.amount =
              IF i - 1 < rem THEN Wrap(base + sign) ELSE base]]
  BY DEF Split
<1> HIDE DEF a, base, r
<1>5. sign \in {-1, 1} /\ sign \in Int /\ rem \in Nat /\ rem < n
      /\ sign * rem = r
  BY <1>1, <1>2
<1>6. base \in Int64
  BY <1>1, <1>2, Int64Facts
<1>7. rem # 0 => base + sign \in Int64
  <2> SUFFICES ASSUME rem # 0 PROVE base + sign \in Int64
    OBVIOUS
  <2>1. n >= 2
    BY <1>5
  <2>2. CASE a >= 0
    <3>1. sign = 1 /\ r >= 1
      BY <1>2, <2>2
    <3>2. n * base >= base + base
      BY <1>2, <2>1, <2>2
    <3>3. base + 1 <= a
      BY <1>1, <1>2, <2>2, <3>1, <3>2
    <3> QED BY <1>1, <1>2, <2>2, <3>1, <3>3, Int64Facts
  <2>3. CASE a < 0
    <3>1. sign = -1 /\ r <= -1
      BY <1>2, <2>3
    <3>2. n * base <= base + base
      BY <1>2, <2>1, <2>3
    <3>3. a <= base - 1
      BY <1>1, <1>2, <2>3, <3>1, <3>2
    <3> QED BY <1>1, <1>2, <2>3, <3>1, <3>3, Int64Facts
  <2> QED BY <1>1, <2>2, <2>3
<1>8. (a >= 0 => sign = 1) /\ (a < 0 => sign = -1 \/ rem = 0)
  BY <1>1, <1>2
<1> HIDE DEF sign, rem
<1>9. ASSUME NEW i \in 1 .. n
      PROVE  /\ Split(x, n)[i] \in Value
             /\ Split(x, n)[i].currency = x.currency
             /\ Split(x, n)[i].amount =
                    IF i - 1 < rem THEN base + sign ELSE base
  <2>1. PICK b \in Int64 : b = IF i - 1 < rem THEN base + sign ELSE base
    BY <1>5, <1>6, <1>7
  <2>2. (IF i - 1 < rem THEN Wrap(base + sign) ELSE base) = b
    BY <2>1, WrapFits
  <2>3. Split(x, n)[i] = [x EXCEPT !.amount = b]
    BY <1>3, <2>2
  <2> QED BY <2>1, <2>3 DEF Value
<1>10. Split(x, n) \in [1 .. n -> Value]
  BY <1>4, <1>9
<1>11. a = n * base + sign * rem
  BY <1>2, <1>5
<1>12. Shape(x, n, Split(x, n), base, rem, sign)
  BY <1>5, <1>8, <1>9, <1>10, <1>11 DEF Shape, a
<1> QED BY <1>2, <1>5, <1>12

(* A set of natural numbers that is not empty has a least member.          *)
LEMMA LeastMember ==
    ASSUME NEW S, S \subseteq Nat, S # {}
    PROVE  \E x \in S : \A y \in S : x <= y
<1>1. PICK R : /\ IsWellFoundedOn(R, Nat)
               /\ \A x, y \in Nat : y < x => <<y, x>> \in R
  <2>1. \A x, y \in Nat : y < x => <<y, x>> \in OpToRel(<, Nat)
    BY DEF OpToRel
  <2> QED BY <2>1, NatLessThanWellFounded
<1>2. PICK x \in S : \A y \in S : ~ (<<y, x>> \in R)
  <2>1. \E x \in S : \A y \in S : ~ (<<y, x>> \in R)
    BY <1>1, WFMin
  <2> QED BY <2>1
<1>3. ASSUME NEW y \in S PROVE x <= y
  <2>1. x \in Nat /\ y \in Nat /\ ~ (<<y, x>> \in R)
    BY <1>2
  <2>2. ~ (y < x)
    BY <1>1, <2>1
  <2> QED BY <2>1, <2>2
<1> QED BY <1>3

(* Split's parts add up to the amount: the sum of the first i of them is   *)
(* i times the base and one unit for each of the first rem.                *)
LEMMA SplitTotal ==
    ASSUME NEW x \in Value, NEW n \in Nat \ {0}
    PROVE  Total(Split(x, n)) = x.amount
<1> DEFINE ps == Split(x, n)
<1>1. PICK base \in Int, rem \in Nat, sign \in {-1, 1} :
          Shape(x, n, ps, base, rem, sign)
  BY SplitShape
<1> USE DEF Shape
<1>2. Len(ps) = n
  BY <1>1
<1> DEFINE Step(f) == [i \in 0 .. Len(ps) |->
                          IF i = 0 THEN 0 ELSE f[i - 1] + ps[i].amount]
           sum == CHOOSE f : f = Step(f)
           closed(i) == i * base + sign * (IF i < rem THEN i ELSE rem)
           g == [i \in 0 .. Len(ps) |-> closed(i)]
<1>3. Total(ps) = sum[Len(ps)]
  BY DEF Total
<1> HIDE DEF ps
<1>4. ASSUME NEW i \in 1 .. n
      PROVE  closed(i) = closed(i - 1) + ps[i].amount
  <2>1. i * base = (i - 1) * base + base
    OBVIOUS
  <2>2. CASE i - 1 < rem
    <3>1. ps[i].amount = base + sign
      BY <1>1, <2>2
    <3>2. (IF i < rem THEN i ELSE rem) = i
          /\ (IF i - 1 < rem THEN i - 1 ELSE rem) = i - 1
      BY <2>2
    <3> QED BY <2>1, <3>1, <3>2
  <2>3. CASE ~ (i - 1 < rem)
    <3>1. ps[i].amount = base
      BY <1>1, <2>3
    <3>2. (IF i < rem THEN i ELSE rem) = rem
          /\ (IF i - 1 < rem THEN i - 1 ELSE rem) = rem
      BY <2>3
    <3> QED BY <2>1, <3>1, <3>2
  <2> QED BY <2>2, <2>3
<1>5. closed(0) = 0 /\ closed(n) = x.amount
  BY <1>1
<1> HIDE DEF closed
<1>6. g = Step(g)
  BY <1>2, <1>4, <1>5
<1>7. sum = Step(sum)
  BY <1>6
<1> HIDE DEF sum
<1>8. ASSUME NEW i \in 0 .. n
      PROVE  sum[i] = IF i = 0 THEN 0 ELSE sum[i - 1] + ps[i].amount
  BY <1>2, <1>7
<1> DEFINE Wrong == {i \in 0 .. n : sum[i] # closed(i)}
<1>9. Wrong = {}
  <2> SUFFICES ASSUME Wrong # {} PROVE FALSE
    OBVIOUS
  <2>1. PICK i \in Wrong : \A j \in Wrong : i <= j
    <3>1. Wrong \subseteq Nat
      OBVIOUS
    <3> HIDE DEF Wrong
    <3> QED BY <3>1, LeastMember
  <2>2. i \in 0 .. n /\ sum[i] # closed(i) /\ i # 0
    BY <1>5, <1>8, <2>1
  <2>3. i - 1 \in 0 .. n /\ i - 1 \notin Wrong /\ i \in 1 .. n
    BY <2>1, <2>2
  <2>4. sum[i - 1] = closed(i - 1)
    BY <2>3
  <2> QED BY <1>4, <1>8, <2>2, <2>3, <2>4
<1>10. sum[n] = closed(n)
  BY <1>9
<1> QED BY <1>2, <1>3, <1>5, <1>10 DEF ps

-----------------------------------------------------------------------------
(* The calls.                                                              *)

LEMMA SplitIsSeq ==
    ASSUME NEW x \in Value, NEW n \in Nat \ {0}
    PROVE  Split(x, n) \in Seq(Value)
BY SplitShape DEF Shape

(* Every operation wraps a number congruent to the exact one.              *)
LEMMA Arithmetic ==
    ASSUME NEW x \in Value, NEW y \in Value, NEW e \in Int,
           Congruent(x.amount, e)
    PROVE  /\ Add(x, y) \in Value /\ Congruent(Add(x, y).amount, e + y.amount)
           /\ Sub(x, y) \in Value /\ Congruent(Sub(x, y).amount, e - y.amount)
           /\ Neg(x) \in Value /\ Congruent(Neg(x).amount, -e)
<1>1. x.amount \in Int /\ y.amount \in Int
  BY Int64Facts DEF Value
<1>2. ASSUME NEW s \in Int
      PROVE  /\ [x EXCEPT !.amount = Wrap(s)] \in Value
             /\ [x EXCEPT !.amount = Wrap(s)].amount = Wrap(s)
             /\ Wrap(s) \in Int
  BY WrapFacts, Int64Facts DEF Value
<1>3. ASSUME NEW s \in Int, NEW d \in Int, Congruent(s, d)
      PROVE  Congruent(Wrap(s), d)
  BY <1>2, <1>3, WrapFacts, CongruentTrans
<1>4. /\ Congruent(x.amount + y.amount, e + y.amount)
      /\ Congruent(x.amount - y.amount, e - y.amount)
      /\ Congruent(-x.amount, -e)
  BY <1>1, CongruentOps
<1>5. Add(x, y) \in Value /\ Congruent(Add(x, y).amount, e + y.amount)
  <2>1. x.amount + y.amount \in Int /\ e + y.amount \in Int
    BY <1>1
  <2> QED BY <1>2, <1>3, <1>4, <2>1 DEF Add
<1>6. Sub(x, y) \in Value /\ Congruent(Sub(x, y).amount, e - y.amount)
  <2>1. x.amount - y.amount \in Int /\ e - y.amount \in Int
    BY <1>1
  <2> QED BY <1>2, <1>3, <1>4, <2>1 DEF Sub
<1>7. Neg(x) \in Value /\ Congruent(Neg(x).amount, -e)
  <2>1. -x.amount \in Int /\ -e \in Int
    BY <1>1
  <2> QED BY <1>2, <1>3, <1>4, <2>1 DEF Neg
<1> QED BY <1>5, <1>6, <1>7

LEMMA CallPreserves ==
    ASSUME MoneyInv, NEW value \in Value, NEW amount \in Int,
           Congruent(value.amount, amount), Succeed(value, amount)
    PROVE  MoneyInv'
BY DEF MoneyInv, MoneyTypeOK, PartsOK, Succeed, Congruent

LEMMA FailPreserves ==
    ASSUME MoneyInv,
           NEW e \in {"ErrUnknownCurrency", "ErrCurrencyMismatch",
                      "ErrInvalidSplit"},
           Fail(e)
    PROVE  MoneyInv'
BY DEF MoneyInv, MoneyTypeOK, PartsOK, Fail, Congruent

LEMMA MoneyStep == MoneyInv /\ [MoneyNext]_moneyVars => MoneyInv'
<1> SUFFICES ASSUME MoneyInv, [MoneyNext]_moneyVars PROVE MoneyInv'
  OBVIOUS
<1>1. m # <<>> => m \in Value /\ exact \in Int /\ Congruent(m.amount, exact)
  BY DEF MoneyInv, MoneyTypeOK
<1>2. ASSUME NEW amount \in Int64, NEW code \in Codes, New(amount, code)
      PROVE  MoneyInv'
  <2>1. CASE code \notin Currency /\ Fail("ErrUnknownCurrency")
    BY <2>1, FailPreserves
  <2>2. CASE /\ code \in Currency
             /\ Succeed([amount |-> amount, currency |-> code], amount)
    <3>1. [amount |-> amount, currency |-> code] \in Value /\ amount \in Int
      BY <2>2, Int64Facts DEF Value
    <3>2. Congruent(amount, amount)
      <4>1. 0 \in Int /\ amount = amount + 0 * Size
        BY <3>1, Int64Facts
      <4> QED BY <4>1 DEF Congruent
    <3> QED BY <2>2, <3>1, <3>2, CallPreserves
  <2> QED BY <1>2, <2>1, <2>2 DEF New
<1>3. ASSUME NEW y \in Value, CallAdd(y) \/ CallSub(y)
      PROVE  MoneyInv'
  <2>1. m \in Value /\ exact \in Int /\ Congruent(m.amount, exact)
        /\ y.amount \in Int
    BY <1>1, <1>3, Int64Facts DEF CallAdd, CallSub, Value
  <2>2. CASE AddError(m, y) # "nil"
    <3>1. Fail("ErrCurrencyMismatch")
      BY <1>3, <2>2 DEF CallAdd, CallSub, AddError
    <3> QED BY <3>1, FailPreserves
  <2>3. CASE AddError(m, y) = "nil"
    <3>1. CASE Succeed(Add(m, y), exact + y.amount)
      <4>1. /\ Add(m, y) \in Value
            /\ Congruent(Add(m, y).amount, exact + y.amount)
        BY <2>1, Arithmetic
      <4>2. exact + y.amount \in Int
        BY <2>1
      <4> QED BY <3>1, <4>1, <4>2, CallPreserves
    <3>2. CASE Succeed(Sub(m, y), exact - y.amount)
      <4>1. /\ Sub(m, y) \in Value
            /\ Congruent(Sub(m, y).amount, exact - y.amount)
        BY <2>1, Arithmetic
      <4>2. exact - y.amount \in Int
        BY <2>1
      <4> QED BY <3>2, <4>1, <4>2, CallPreserves
    <3> QED BY <1>3, <2>3, <3>1, <3>2 DEF CallAdd, CallSub
  <2> QED BY <2>2, <2>3
<1>4. CASE CallNeg
  <2>1. m \in Value /\ exact \in Int /\ Congruent(m.amount, exact)
        /\ Succeed(Neg(m), -exact)
    BY <1>1, <1>4 DEF CallNeg
  <2>2. Neg(m) \in Value /\ Congruent(Neg(m).amount, -exact)
    BY <2>1, Arithmetic
  <2>3. -exact \in Int
    BY <2>1
  <2> QED BY <2>1, <2>2, <2>3, CallPreserves
<1>5. ASSUME NEW n \in -1 .. MaxParts, CallSplit(n)
      PROVE  MoneyInv'
  <2>1. CASE n <= 0 /\ Fail("ErrInvalidSplit")
    BY <2>1, FailPreserves
  <2>2. CASE n > 0 /\ parts' = Split(m, n) /\ err' = "nil"
             /\ UNCHANGED <<m, exact>>
    <3>1. m # <<>> /\ m \in Value /\ n \in Nat \ {0}
      BY <1>1, <1>5, <2>2, MoneyAssumption DEF CallSplit
    <3>2. Split(m, n) \in Seq(Value)
      BY <3>1, SplitIsSeq
    <3> QED BY <2>2, <3>1, <3>2 DEF MoneyInv, MoneyTypeOK, PartsOK, Congruent
  <2> QED BY <1>5, <2>1, <2>2 DEF CallSplit
<1>6. CASE UNCHANGED moneyVars
  BY <1>6 DEF moneyVars, MoneyInv, MoneyTypeOK, PartsOK, Congruent
<1> QED BY <1>2, <1>3, <1>4, <1>5, <1>6 DEF MoneyNext

-----------------------------------------------------------------------------
(* The theorems.                                                           *)

(* The invariant of a caller of pkg/money, for amounts of any width.       *)
THEOREM MoneyInvariance == MoneySpec => []MoneyInv
<1>1. MoneyInit => MoneyInv
  BY DEF MoneyInit, MoneyInv, MoneyTypeOK, PartsOK
<1> QED BY <1>1, MoneyStep, PTL DEF MoneySpec

(* Amounts fit an int64 and currencies are known, after every call.        *)
THEOREM MoneyTypeCorrectness == MoneySpec => []MoneyTypeOK
<1>1. MoneyInv => MoneyTypeOK
  BY DEF MoneyInv
<1> QED BY <1>1, MoneyInvariance, PTL

(* Add, Sub and Neg are exact whenever the exact result fits an int64,     *)
(* wherever the calls before it overflowed.                                *)
THEOREM OverflowHeals == MoneySpec => []ExactWhenItFits
<1>1. MoneyInv => ExactWhenItFits
  BY CongruentFits DEF MoneyInv, MoneyTypeOK, ExactWhenItFits, Value
<1> QED BY <1>1, MoneyInvariance, PTL

(* Split conserves the amount for every sign and every number of parts,    *)
(* and its parts are fair.                                                 *)
THEOREM SplitConserves == MoneySpec => []SplitExactAndFair
<1>1. MoneyInv => SplitExactAndFair
  <2> SUFFICES ASSUME MoneyInv, parts # <<>>
               PROVE  /\ Total(parts) = m.amount
                      /\ \A i, j \in DOMAIN parts :
                            LET d == parts[i].amount - parts[j].amount
                            IN  /\ parts[i].currency = m.currency
                                /\ d \in {-1, 0, 1}
                                /\ i < j => (IF m.amount < 0 THEN d <= 0
                                             ELSE d >= 0)
    BY DEF SplitExactAndFair
  <2>1. m \in Value
    BY DEF MoneyInv, MoneyTypeOK
  <2>2. PICK n \in Nat \ {0} : parts = Split(m, n)
    BY DEF MoneyInv, PartsOK
  <2>3. Total(parts) = m.amount
    BY <2>1, <2>2, SplitTotal
  <2>4. PICK base \in Int, rem \in Nat, sign \in {-1, 1} :
            Shape(m, n, parts, base, rem, sign)
    BY <2>1, <2>2, SplitShape
  <2>5. m.amount \in Int
    BY <2>1, Int64Facts DEF Value
  <2>6. ASSUME NEW i \in 1 .. n, NEW j \in 1 .. n
        PROVE  LET d == parts[i].amount - parts[j].amount
               IN  /\ parts[i].currency = m.currency
                   /\ d \in {-1, 0, 1}
                   /\ i < j => (IF m.amount < 0 THEN d <= 0 ELSE d >= 0)
    <3> DEFINE a(k) == parts[k].amount
    <3>1. \A k \in 1 .. n : /\ parts[k].currency = m.currency
                            /\ a(k) = IF k - 1 < rem THEN base + sign ELSE base
      BY <2>4 DEF Shape
    <3>2. \/ sign = 1 /\ m.amount >= 0
          \/ sign = 1 /\ rem = 0
          \/ sign = -1 /\ m.amount < 0
      BY <2>4, <2>5 DEF Shape
    <3>3. /\ a(i) = IF i - 1 < rem THEN base + sign ELSE base
          /\ a(j) = IF j - 1 < rem THEN base + sign ELSE base
      BY <3>1
    <3> HIDE DEF a
    <3>4. a(i) - a(j) \in {-1, 0, 1}
      BY <3>3
    <3>5. i < j => (IF m.amount < 0 THEN a(i) - a(j) <= 0
                    ELSE a(i) - a(j) >= 0)
      BY <2>5, <3>2, <3>3
    <3> QED BY <3>1, <3>4, <3>5 DEF a
  <2>7. DOMAIN parts = 1 .. n
    BY <2>4 DEF Shape
  <2> QED BY <2>3, <2>6, <2>7
<1> QED BY <1>1, MoneyInvariance, PTL

=============================================================================
