----------------------------- MODULE Arithmetic -----------------------------
(***************************************************************************)
(* The operators of C on two values of type int, or of type unsigned int:  *)
(* the code generated for them, with the guards that abort instead of      *)
(* computing what C leaves undefined, and what C says they give.           *)
(***************************************************************************)
EXTENDS Integers

CONSTANT MaxInt   \* greatest int: 2 ^ 31 - 1 in the generated code

ASSUME ArithmeticAssumption == MaxInt \in Nat /\ MaxInt > 0

MinInt  == -MaxInt - 1
MaxUInt == 2 * MaxInt + 1

IntRange(signed) == IF signed THEN MinInt .. MaxInt ELSE 0 .. MaxUInt

\* The value of the bits an int has.
Wrap(signed, v) ==
    LET low == v % (MaxUInt + 1)
    IN  IF signed /\ low > MaxInt THEN low - (MaxUInt + 1) ELSE low

Abs(v) == IF v < 0 THEN -v ELSE v

\* Quotient and remainder of C, which round towards zero.
Quot(a, b) == IF (a < 0) = (b < 0) THEN Abs(a) \div Abs(b) ELSE -(Abs(a) \div Abs(b))
Rem(a, b)  == a - b * Quot(a, b)

ArithmeticOps == {"add", "sub", "mul", "div", "mod"}
Comparisons   == {"equal", "unequal", "less", "atmost", "greater", "atleast"}

-----------------------------------------------------------------------------
(* codegen.rs                                                              *)

Ok(v)   == [ok |-> TRUE, val |-> v]
Abort   == [ok |-> FALSE, val |-> 0]

\* emit_checked_arithmetic.
Checked(v) == IF v \in IntRange(TRUE) THEN Ok(v) ELSE Abort

\* Mutant of DivisionGuard: the quotient is taken to be smaller than the dividend.
ZeroGuard(signed, a, b) == b # 0

\* emit_division_guard.
DivisionGuard(signed, a, b) == b # 0 /\ ~(signed /\ a = MinInt /\ b = -1)

Exact(op, a, b) == CASE op = "add" -> a + b
                     [] op = "sub" -> a - b
                     [] op = "mul" -> a * b
                     [] op = "div" -> Quot(a, b)
                     [] op = "mod" -> Rem(a, b)

Truth(p) == IF p THEN 1 ELSE 0

AddSubMul(op, signed, a, b) ==
    IF signed THEN Checked(Exact(op, a, b)) ELSE Ok(Wrap(FALSE, Exact(op, a, b)))

DivMod(op, signed, a, b) ==
    IF DivisionGuard(signed, a, b) THEN Ok(Wrap(signed, Exact(op, a, b))) ELSE Abort

Compared(op, a, b) ==
    Truth(CASE op = "equal"   -> a = b
            [] op = "unequal" -> a # b
            [] op = "less"    -> a < b
            [] op = "atmost"  -> a <= b
            [] op = "greater" -> a > b
            [] op = "atleast" -> a >= b)

\* Arithmetic in gen_expr.
Computed(op, signed, a, b) ==
    IF op \in {"div", "mod"} THEN DivMod(op, signed, a, b) ELSE AddSubMul(op, signed, a, b)

Stepped(signed, v, by) == IF signed THEN Checked(v + by) ELSE Ok(Wrap(FALSE, v + by))

-----------------------------------------------------------------------------
(* C                                                                       *)

\* Whether the result is defined, and what it is.
InC(op, signed, a, b) ==
    LET zero == b = 0 /\ op \in {"div", "mod"}
        inexact == op = "mod" /\ Quot(a, b) \notin IntRange(TRUE)
    IN  IF op \in Comparisons THEN Ok(Compared(op, a, b))
        ELSE IF zero THEN Abort
        ELSE IF ~signed THEN Ok(Exact(op, a, b) % (MaxUInt + 1))
        ELSE IF inexact \/ Exact(op, a, b) \notin IntRange(TRUE) THEN Abort
        ELSE Ok(Exact(op, a, b))

-----------------------------------------------------------------------------
(* Property *)

\* For all operands the guards abort in the cases C leaves undefined and in no others, and
\* in the others the bits the machine computes are C's result: none of the cases the guards
\* let through wraps, the least int divided by -1 included, whose remainder would fit.
OperatorsAgree ==
    \A signed \in BOOLEAN, op \in ArithmeticOps :
        \A a, b \in IntRange(signed) : Computed(op, signed, a, b) = InC(op, signed, a, b)
=============================================================================
