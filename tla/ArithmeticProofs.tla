-------------------------- MODULE ArithmeticProofs --------------------------
(***************************************************************************)
(* The guards of the generated arithmetic are exactly as strict as C asks, *)
(* for every width of an int.                                              *)
(***************************************************************************)
EXTENDS Arithmetic, TLAPS

-----------------------------------------------------------------------------
(* Division of naturals                                                    *)

LEMMA SmallModulus ==
    ASSUME NEW n \in Int, NEW v \in Int, n > 0
    PROVE  /\ 0 <= v /\ v < n => v % n = v
           /\ -n <= v /\ v < 0 => v % n = v + n
<1>1. ASSUME 0 <= v, v < n PROVE v % n = v
  BY <1>1
<1>2. ASSUME -n <= v, v < 0 PROVE v % n = v + n
  BY <1>2
<1>3. QED
  BY <1>1, <1>2

LEMMA QuotientBounds ==
    ASSUME NEW a \in Int, NEW b \in Int, a >= 0, b > 0
    PROVE  /\ a \div b \in Int
           /\ 0 <= a \div b /\ a \div b <= a
           /\ b > 1 /\ a > 0 => a \div b < a
           /\ 0 <= a - b * (a \div b) /\ a - b * (a \div b) < b
<1>1. a \div b \in Int /\ 0 <= a \div b /\ a \div b <= a
  OBVIOUS
<1>2. ASSUME b > 1, a > 0 PROVE a \div b < a
  BY <1>2
<1>3. 0 <= a - b * (a \div b) /\ a - b * (a \div b) < b
  OBVIOUS
<1>4. QED
  BY <1>1, <1>2, <1>3

-----------------------------------------------------------------------------
(* Quotients and remainders of C                                           *)

LEMMA Ranges ==
    /\ MaxInt \in Int /\ MaxInt > 0
    /\ MinInt = -MaxInt - 1 /\ MaxUInt = 2 * MaxInt + 1
    /\ IntRange(TRUE) = {v \in Int : -MaxInt - 1 <= v /\ v <= MaxInt}
    /\ IntRange(FALSE) = {v \in Int : 0 <= v /\ v <= 2 * MaxInt + 1}
BY ArithmeticAssumption DEF MinInt, MaxUInt, IntRange

\* A value of a type is that of its own low bits.
LEMMA WrapInRange ==
    ASSUME NEW signed \in BOOLEAN, NEW v \in IntRange(signed)
    PROVE  Wrap(signed, v) = v
<1> DEFINE n == MaxUInt + 1
<1>a. /\ v \in Int
      /\ signed => -MaxInt - 1 <= v /\ v <= MaxInt
      /\ ~signed => 0 <= v /\ v <= 2 * MaxInt + 1
  BY Ranges DEF IntRange
<1>1. n \in Int /\ n > 0 /\ n = 2 * MaxInt + 2 /\ v \in Int /\ MaxInt \in Int /\ MaxInt > 0
  BY <1>a, Ranges
<1>2. CASE signed
  <2>1. -MaxInt - 1 <= v /\ v <= MaxInt
    BY <1>a, <1>2
  <2>2. CASE 0 <= v
    <3>1. v % n = v
      BY <1>1, <2>1, <2>2, SmallModulus
    <3>2. QED
      BY <1>1, <1>2, <2>1, <2>2, <3>1 DEF Wrap
  <2>3. CASE v < 0
    <3>1. v % n = v + n
      BY <1>1, <2>1, <2>3, SmallModulus
    <3>2. QED
      BY <1>1, <1>2, <2>1, <2>3, <3>1 DEF Wrap
  <2>4. QED
    BY <1>1, <2>2, <2>3
<1>3. CASE ~signed
  <2>1. 0 <= v /\ v < n
    BY <1>a, <1>1, <1>3
  <2>2. v % n = v
    BY <1>1, <2>1, SmallModulus
  <2>3. QED
    BY <1>3, <2>2 DEF Wrap
<1>4. QED
  BY <1>2, <1>3

\* C's quotient is no further from 0 than the dividend, and as far only for 1 and -1.
LEMMA QuotBounds ==
    ASSUME NEW a \in Int, NEW b \in Int, b # 0
    PROVE  /\ Quot(a, b) \in Int
           /\ -Abs(a) <= Quot(a, b) /\ Quot(a, b) <= Abs(a)
           /\ b # 1 /\ b # -1 /\ a # 0 => -Abs(a) < Quot(a, b) /\ Quot(a, b) < Abs(a)
           /\ b = 1 => Quot(a, b) = a
           /\ b = -1 => Quot(a, b) = -a
<1> DEFINE q == Abs(a) \div Abs(b)
<1>1. /\ Abs(a) \in Int /\ Abs(a) >= 0 /\ (a # 0 => Abs(a) > 0)
      /\ Abs(b) \in Int /\ Abs(b) > 0 /\ (b # 1 /\ b # -1 => Abs(b) > 1)
  BY DEF Abs
<1>2. /\ q \in Int /\ 0 <= q /\ q <= Abs(a)
      /\ Abs(b) > 1 /\ Abs(a) > 0 => q < Abs(a)
  BY <1>1, QuotientBounds
<1>3. Quot(a, b) = IF (a < 0) <=> (b < 0) THEN q ELSE -q
  BY DEF Quot
<1>4. Abs(b) = 1 => q = Abs(a)
  BY <1>1
<1> HIDE DEF q
<1>5. Quot(a, b) \in Int /\ -Abs(a) <= Quot(a, b) /\ Quot(a, b) <= Abs(a)
  BY <1>1, <1>2, <1>3
<1>6. b # 1 /\ b # -1 /\ a # 0 => -Abs(a) < Quot(a, b) /\ Quot(a, b) < Abs(a)
  BY <1>1, <1>2, <1>3
<1>7. b = 1 => Quot(a, b) = a
  BY <1>3, <1>4 DEF Abs
<1>8. b = -1 => Quot(a, b) = -a
  <2>1. SUFFICES ASSUME b = -1 PROVE Quot(a, b) = -a
    OBVIOUS
  <2>a. b + 1 = 0
    BY <2>1
  <2>2. b < 0 /\ Abs(b) = 1
    BY <2>a DEF Abs
  <2>3. q = Abs(a)
    BY <2>2, <1>4
  <2>4. Quot(a, b) = IF a < 0 THEN q ELSE -q
    BY <2>2, <1>3
  <2>5. QED
    BY <2>3, <2>4 DEF Abs
<1>9. QED
  BY <1>5, <1>6, <1>7, <1>8

\* C's remainder is nearer to 0 than the divisor and has the dividend's sign.
LEMMA RemBounds ==
    ASSUME NEW a \in Int, NEW b \in Int, b # 0
    PROVE  /\ Rem(a, b) \in Int
           /\ -Abs(b) < Rem(a, b) /\ Rem(a, b) < Abs(b)
           /\ a >= 0 => Rem(a, b) >= 0
<1> DEFINE q == Abs(a) \div Abs(b)
           r == Abs(a) - Abs(b) * q
<1>1. Abs(a) \in Int /\ Abs(a) >= 0 /\ Abs(b) \in Int /\ Abs(b) > 0
  BY DEF Abs
<1>2. q \in Int /\ r \in Int /\ 0 <= r /\ r < Abs(b)
  BY <1>1, QuotientBounds
<1>3. Quot(a, b) = IF (a < 0) <=> (b < 0) THEN q ELSE -q
  BY DEF Quot
<1>4. Rem(a, b) = IF a < 0 THEN -r ELSE r
  <2> HIDE DEF q
  <2>1. r = Abs(a) - Abs(b) * q /\ q \in Int
    BY <1>2
  <2>2. CASE a < 0 /\ b < 0
    BY <2>1, <2>2, <1>3 DEF Rem, Abs
  <2>3. CASE a < 0 /\ b > 0
    BY <2>1, <2>3, <1>3 DEF Rem, Abs
  <2>4. CASE a >= 0 /\ b < 0
    BY <2>1, <2>4, <1>3 DEF Rem, Abs
  <2>5. CASE a >= 0 /\ b > 0
    BY <2>1, <2>5, <1>3 DEF Rem, Abs
  <2>6. QED
    BY <2>2, <2>3, <2>4, <2>5
<1> HIDE DEF r
<1>5. QED
  BY <1>1, <1>2, <1>4

-----------------------------------------------------------------------------
(* The operators                                                           *)

LEMMA SumsAgree ==
    ASSUME NEW op \in {"add", "sub", "mul"}, NEW signed \in BOOLEAN,
           NEW a \in IntRange(signed), NEW b \in IntRange(signed)
    PROVE  Computed(op, signed, a, b) = InC(op, signed, a, b)
<1>1. op \notin {"div", "mod"} /\ op \notin Comparisons
  BY DEF Comparisons
<1>2. Computed(op, signed, a, b) = AddSubMul(op, signed, a, b)
  BY <1>1 DEF Computed
<1>3. InC(op, signed, a, b) =
        IF ~signed THEN Ok(Exact(op, a, b) % (MaxUInt + 1))
        ELSE IF Exact(op, a, b) \notin IntRange(TRUE) THEN Abort
        ELSE Ok(Exact(op, a, b))
  BY <1>1 DEF InC
<1>4. Wrap(FALSE, Exact(op, a, b)) = Exact(op, a, b) % (MaxUInt + 1)
  BY DEF Wrap
<1>5. CASE signed
  BY <1>2, <1>3, <1>5 DEF AddSubMul, Checked
<1>6. CASE ~signed
  BY <1>2, <1>3, <1>4, <1>6 DEF AddSubMul
<1>7. QED
  BY <1>5, <1>6

\* What the guard of a signed division lets through has a quotient and a remainder that fit.
LEMMA GuardSuffices ==
    ASSUME NEW a \in IntRange(TRUE), NEW b \in IntRange(TRUE), b # 0
    PROVE  /\ Rem(a, b) \in IntRange(TRUE)
           /\ Quot(a, b) \in IntRange(TRUE) <=> ~(a = MinInt /\ b = -1)
<1>1. /\ a \in Int /\ -MaxInt - 1 <= a /\ a <= MaxInt
      /\ b \in Int /\ -MaxInt - 1 <= b /\ b <= MaxInt
      /\ MaxInt \in Int /\ MaxInt > 0 /\ MinInt = -MaxInt - 1
  BY Ranges
<1>2. Rem(a, b) \in IntRange(TRUE)
  <2>1. /\ Rem(a, b) \in Int /\ -Abs(b) < Rem(a, b) /\ Rem(a, b) < Abs(b)
    BY <1>1, RemBounds
  <2>2. Abs(b) \in Int /\ Abs(b) <= MaxInt + 1
    BY <1>1 DEF Abs
  <2>3. -MaxInt - 1 <= Rem(a, b) /\ Rem(a, b) <= MaxInt
    BY <1>1, <2>1, <2>2
  <2>4. QED
    BY <2>1, <2>3, Ranges
<1>3. Quot(a, b) \in IntRange(TRUE) <=> -MaxInt - 1 <= Quot(a, b) /\ Quot(a, b) <= MaxInt
  BY <1>1, Ranges, QuotBounds
<1>4. Abs(a) \in Int /\ Abs(a) <= MaxInt + 1 /\ (a = 0 => Abs(a) = 0)
  BY <1>1 DEF Abs
<1>5. CASE b = -1
  <2>1. Quot(a, b) = -a
    BY <1>1, <1>5, QuotBounds
  <2>2. -MaxInt - 1 <= -a /\ -a <= MaxInt <=> a # MinInt
    BY <1>1
  <2>3. Quot(a, b) \in IntRange(TRUE) <=> a # MinInt
    BY <1>3, <2>1, <2>2
  <2>4. QED
    BY <1>2, <1>5, <2>3
<1>6. CASE b = 1
  <2>1. Quot(a, b) = a
    BY <1>1, <1>6, QuotBounds
  <2>2. Quot(a, b) \in IntRange(TRUE)
    BY <1>1, <2>1, Zenon
  <2>3. 1 # -1
    OBVIOUS
  <2>4. QED
    BY <1>2, <1>6, <2>2, <2>3, Zenon
<1>7. CASE b # 1 /\ b # -1
  <2>1. /\ Quot(a, b) \in Int /\ -Abs(a) <= Quot(a, b) /\ Quot(a, b) <= Abs(a)
        /\ a # 0 => -Abs(a) < Quot(a, b) /\ Quot(a, b) < Abs(a)
    BY <1>1, <1>7, QuotBounds
  <2>2. -MaxInt - 1 <= Quot(a, b) /\ Quot(a, b) <= MaxInt
    BY <1>1, <1>4, <2>1
  <2>3. QED
    BY <1>2, <1>3, <1>7, <2>2
<1>8. QED
  BY <1>5, <1>6, <1>7

LEMMA QuotientsAgree ==
    ASSUME NEW op \in {"div", "mod"}, NEW signed \in BOOLEAN,
           NEW a \in IntRange(signed), NEW b \in IntRange(signed)
    PROVE  Computed(op, signed, a, b) = InC(op, signed, a, b)
<1>1. op \notin Comparisons
  BY DEF Comparisons
<1>2. Computed(op, signed, a, b) =
        IF DivisionGuard(signed, a, b) THEN Ok(Wrap(signed, Exact(op, a, b))) ELSE Abort
  BY DEF Computed, DivMod
<1>3. CASE b = 0
  BY <1>1, <1>2, <1>3 DEF DivisionGuard, InC
<1>4. CASE b # 0 /\ ~signed
  <2>1. DivisionGuard(signed, a, b)
    BY <1>4 DEF DivisionGuard
  <2>2. Wrap(signed, Exact(op, a, b)) = Exact(op, a, b) % (MaxUInt + 1)
    BY <1>4 DEF Wrap
  <2>3. InC(op, signed, a, b) = Ok(Exact(op, a, b) % (MaxUInt + 1))
    BY <1>1, <1>4 DEF InC
  <2>4. QED
    BY <1>2, <2>1, <2>2, <2>3
<1>5. CASE b # 0 /\ signed
  <2>1. /\ a \in IntRange(TRUE) /\ b \in IntRange(TRUE)
        /\ Rem(a, b) \in IntRange(TRUE)
        /\ Quot(a, b) \in IntRange(TRUE) <=> ~(a = MinInt /\ b = -1)
    BY <1>5, GuardSuffices
  <2>2. DivisionGuard(signed, a, b) <=> Quot(a, b) \in IntRange(TRUE)
    BY <1>5, <2>1 DEF DivisionGuard
  <2>3. Exact(op, a, b) = IF op = "div" THEN Quot(a, b) ELSE Rem(a, b)
    BY DEF Exact
  <2>4. InC(op, signed, a, b) =
          IF Quot(a, b) \in IntRange(TRUE) THEN Ok(Exact(op, a, b)) ELSE Abort
    BY <1>1, <1>5, <2>1, <2>3 DEF InC
  <2>5. ASSUME Quot(a, b) \in IntRange(TRUE)
        PROVE  Wrap(signed, Exact(op, a, b)) = Exact(op, a, b)
    <3>1. Exact(op, a, b) \in IntRange(signed)
      BY <1>5, <2>1, <2>3, <2>5
    <3>2. QED
      BY <3>1, WrapInRange
  <2>6. QED
    BY <1>2, <2>2, <2>4, <2>5
<1>6. QED
  BY <1>3, <1>4, <1>5

\* The code aborts on exactly the operands for which C leaves +, -, *, / or % undefined, and
\* otherwise computes C's result, for ints of any width (emit_checked_arithmetic and
\* emit_division_guard).
THEOREM GuardsAreExact == OperatorsAgree
<1>1. SUFFICES ASSUME NEW signed \in BOOLEAN, NEW op \in ArithmeticOps,
                      NEW a \in IntRange(signed), NEW b \in IntRange(signed)
               PROVE  Computed(op, signed, a, b) = InC(op, signed, a, b)
  BY DEF OperatorsAgree
<1>2. op \in {"add", "sub", "mul"} \/ op \in {"div", "mod"}
  BY DEF ArithmeticOps
<1>3. QED
  BY <1>2, SumsAgree, QuotientsAgree
=============================================================================
