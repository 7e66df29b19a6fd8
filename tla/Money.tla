-------------------------------- MODULE Money --------------------------------
(***************************************************************************)
(* pkg/money: amounts in integer minor units of a currency.  An amount is  *)
(* an int64; here the largest amount is a parameter and arithmetic wraps   *)
(* around at it, as Go's does.  The state is the value a caller carries    *)
(* through a sequence of calls; exact is the amount that the same calls    *)
(* yield in unbounded arithmetic.                                          *)
(***************************************************************************)
EXTENDS Integers, Sequences

CONSTANTS
    MaxInt,      \* math.MaxInt64 in the code, 2^63 - 1
    Codes,       \* the currency codes callers use
    MaxParts,    \* bound on the n of Split
    MaxExact     \* bound on exact

ASSUME MoneyAssumption ==
    /\ MaxInt \in Nat
    /\ MaxParts \in Nat /\ MaxExact \in Nat

MinInt == -MaxInt - 1
Int64  == MinInt .. MaxInt
Size   == 2 * (MaxInt + 1)   \* how many they are: 2^64

Wrap(x) == ((x - MinInt) % Size) + MinInt

(* Go's / and %: the quotient is truncated towards zero.                   *)
Quotient(a, n)  == IF a < 0 THEN -((-a) \div n) ELSE a \div n
Remainder(a, n) == a - n * Quotient(a, n)

(* The number of minor-unit decimal places of each known currency.         *)
exponents == [EUR |-> 2, USD |-> 2, GBP |-> 2, JPY |-> 0, BHD |-> 3]

Currency == Codes \cap DOMAIN exponents
Value    == [amount : Int64, currency : Currency]

-----------------------------------------------------------------------------

AddError(x, y) ==
    IF x.currency = y.currency THEN "nil" ELSE "ErrCurrencyMismatch"

(* Mutant: amounts that saturate.                                          *)
AddSaturating(x, y) ==
    LET s == x.amount + y.amount
    IN  [x EXCEPT !.amount =
            IF s > MaxInt THEN MaxInt ELSE IF s < MinInt THEN MinInt ELSE s]

Add(x, y) == [x EXCEPT !.amount = Wrap(@ + y.amount)]
Sub(x, y) == [x EXCEPT !.amount = Wrap(@ - y.amount)]
Neg(x)    == [x EXCEPT !.amount = Wrap(-@)]

(* Mutant: the remainder of a negative amount is not handed out.           *)
SplitPositive(x, n) ==
    LET base == Quotient(x.amount, n)
        rem  == Remainder(x.amount, n)
    IN  [i \in 1 .. n |->
            [x EXCEPT !.amount = IF i - 1 < rem THEN base + 1 ELSE base]]

(* The n parts of x: the remainder goes to the first parts, one minor unit *)
(* each, with the sign of x.                                               *)
Split(x, n) ==
    LET base == Quotient(x.amount, n)
        rem  == Remainder(x.amount, n)
        sign == IF rem < 0 THEN -1 ELSE 1
    IN  [i \in 1 .. n |->
            [x EXCEPT !.amount =
                IF i - 1 < sign * rem THEN Wrap(base + sign) ELSE base]]

-----------------------------------------------------------------------------

VARIABLES
    m,      \* the value carried, <<>> before the first New
    err,    \* the error of the last call
    parts,  \* what the last call returned, if it was a Split
    exact   \* the amount of m in exact arithmetic

moneyVars == <<m, err, parts, exact>>

(* Amounts fit their width, and only known currencies are ever carried.    *)
MoneyTypeOK ==
    /\ m = <<>> \/ m \in Value
    /\ err \in {"nil", "ErrUnknownCurrency", "ErrCurrencyMismatch",
                "ErrInvalidSplit"}
    /\ parts \in Seq(Value)
    /\ exact \in Int

MoneyInit == m = <<>> /\ err = "nil" /\ parts = <<>> /\ exact = 0

(* A call that fails returns no value; the caller keeps the one it has.    *)
Fail(e) ==
    /\ err' = e /\ parts' = <<>>
    /\ UNCHANGED <<m, exact>>

Succeed(value, amount) ==
    /\ amount \in -MaxExact .. MaxExact
    /\ m' = value /\ exact' = amount
    /\ err' = "nil" /\ parts' = <<>>

(* Mutant: the currency is taken as it comes.                              *)
NewUnchecked(amount, code) ==
    Succeed([amount |-> amount, currency |-> code], amount)

New(amount, code) ==
    \/ code \notin Currency /\ Fail("ErrUnknownCurrency")
    \/ /\ code \in Currency
       /\ Succeed([amount |-> amount, currency |-> code], amount)

CallAdd(y) ==
    /\ m # <<>>
    /\ \/ AddError(m, y) # "nil" /\ Fail(AddError(m, y))
       \/ AddError(m, y) = "nil" /\ Succeed(Add(m, y), exact + y.amount)

CallSub(y) ==
    /\ m # <<>>
    /\ \/ AddError(m, y) # "nil" /\ Fail(AddError(m, y))
       \/ AddError(m, y) = "nil" /\ Succeed(Sub(m, y), exact - y.amount)

CallNeg ==
    /\ m # <<>>
    /\ Succeed(Neg(m), -exact)

CallSplit(n) ==
    /\ m # <<>>
    /\ \/ n <= 0 /\ Fail("ErrInvalidSplit")
       \/ /\ n > 0
          /\ parts' = Split(m, n)
          /\ err' = "nil"
          /\ UNCHANGED <<m, exact>>

MoneyNext ==
    \/ \E amount \in Int64, code \in Codes : New(amount, code)
    \/ \E y \in Value : CallAdd(y) \/ CallSub(y)
    \/ CallNeg
    \/ \E n \in -1 .. MaxParts : CallSplit(n)

MoneySpec == MoneyInit /\ [][MoneyNext]_moneyVars

-----------------------------------------------------------------------------

Total(ps) ==
    LET sum[i \in 0 .. Len(ps)] ==
            IF i = 0 THEN 0 ELSE sum[i - 1] + ps[i].amount
    IN  sum[Len(ps)]

(* "parts of the same currency whose amounts sum exactly back to           *)
(* m.Amount()": no unit is created or lost for any sign and any n, the     *)
(* parts differ by at most one unit, and the larger ones come first.       *)
SplitExactAndFair ==
    parts # <<>> =>
        /\ Total(parts) = m.amount
        /\ \A i, j \in DOMAIN parts :
              LET d == parts[i].amount - parts[j].amount
              IN  /\ parts[i].currency = m.currency
                  /\ d \in {-1, 0, 1}
                  /\ i < j => (IF m.amount < 0 THEN d <= 0 ELSE d >= 0)

(* A sequence of calls may overflow on the way and is exact all the same   *)
(* whenever its exact result fits an int64.                                *)
ExactWhenItFits ==
    m # <<>> /\ exact \in Int64 => m.amount = exact

(* "ledger arithmetic never drifts"; Add "returns m + other".              *)
NeverDrifts ==
    m # <<>> => m.amount = exact

=============================================================================
