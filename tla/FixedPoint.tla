----------------------------- MODULE FixedPoint -----------------------------
(***************************************************************************)
(* The fixed-point library of the scheduler,                               *)
(* src/priority-scheduler/lib/kernel/fixed-point.c.  A fixed_point is an   *)
(* int whose low q bits are the fraction: x stands for x / 2^q.  Every     *)
(* function is an operator computing what the compiled code computes:      *)
(* ints are W bits wide, int64_t 2W bits; a signed result that does not    *)
(* fit wraps around (the two's-complement code gcc emits for the           *)
(* overflowing int arithmetic and for the narrowing conversion back to     *)
(* int); / and % truncate toward zero.  Division by zero and INT_MIN / -1  *)
(* trap on the hardware and are left out of the inputs.                    *)
(*                                                                         *)
(* The inputs are the state: x and y range over a set of fixed-point      *)
(* values and the properties quantify over small ints n, so TLC checks    *)
(* every property for every combination.  TLC's own integers are 32-bit,  *)
(* so W is scaled down (2W at most 30); the operators are written for any *)
(* W, and the boundaries that matter (products that overflow int but not  *)
(* int64_t, results at the ends of the int range) scale with it.          *)
(***************************************************************************)
EXTENDS Integers

CONSTANTS
    W,        \* width of int in bits
    Q,        \* fraction bits used by the callers
    Q2,       \* a second format for fxp_reformat
    Fixeds,   \* fixed-point inputs
    Ints      \* int inputs

VARIABLES x, y
vars == <<x, y>>

IntMin == -(2^(W - 1))
IntMax == 2^(W - 1) - 1
InInt(v) == IntMin <= v /\ v <= IntMax

\* Two's-complement wrap of a mathematical integer to w bits.
WrapTo(v, w) == LET m == v % (2^w) IN IF m >= 2^(w - 1) THEN m - 2^w ELSE m
Int32(v) == WrapTo(v, W)
Int64(v) == WrapTo(v, 2 * W)

Abs(v) == IF v < 0 THEN -v ELSE v

\* C's / on signed operands: the quotient truncated toward zero.
CDiv(a, b) == IF (a < 0) = (b < 0) THEN Abs(a) \div Abs(b) ELSE -(Abs(a) \div Abs(b))

\* #define f(q) (1 << (q))
F(q) == 2^q

FxpOfInt(q, n) == Int32(n * F(q))

FxpTrunc(q, v) == CDiv(v, F(q))

\* Mutant: fxp_round adding half a unit whatever the sign.
FxpRoundUnsigned(q, v) == CDiv(Int32(v + CDiv(F(q), 2)), F(q))

FxpRound(q, v) ==
    LET sgn == IF v >= 0 THEN 1 ELSE -1
    IN  CDiv(Int32(v + CDiv(sgn * F(q), 2)), F(q))

\* Mutant: fxp_reformat without the cast to int64_t.
FxpReformatNarrow(oq, nq, v) == Int32(CDiv(Int32(v * F(nq)), F(oq)))

FxpReformat(oq, nq, v) == Int32(CDiv(Int64(v * F(nq)), F(oq)))

FxpAdd(a, b) == Int32(a + b)
FxpSub(a, b) == Int32(a - b)
FxpNeg(a) == Int32(-a)

\* Mutant: fxp_mul without the cast to int64_t.
FxpMulNarrow(q, a, b) == Int32(CDiv(Int32(a * b), F(q)))

FxpMul(q, a, b) == Int32(CDiv(Int64(a * b), F(q)))

FxpDiv(q, a, b) == Int32(CDiv(Int64(a * F(q)), b))
FxpInv(q, a) == Int32(CDiv(Int64(F(q) * F(q)), a))
FxpAddi(q, a, n) == Int32(a + Int32(n * F(q)))
FxpSubi(q, a, n) == Int32(a - Int32(n * F(q)))
FxpMuli(a, n) == Int32(a * n)
FxpDivi(a, n) == CDiv(a, n)
FxpInvi(q, n) == CDiv(F(q), n)

FxpIsub(q, n, a) == Int32(Int32(n * F(q)) - a)
FxpIdiv(q, n, a) == Int32(CDiv(Int64(Int64(n * F(q)) * F(q)), a))
FxpIdivi(q, n, d) == Int32(CDiv(Int64(n * F(q)), d))

Init == x \in Fixeds /\ y \in Fixeds
Next == UNCHANGED vars
Spec == Init /\ [][Next]_vars

-----------------------------------------------------------------------------
(***************************************************************************)
(* Reference definitions: exact rational arithmetic.                       *)
(***************************************************************************)
\* r is num / den truncated toward zero, stated without division:
\* |r * den| <= |num| < (|r| + 1) * |den|, and r has the sign of num / den.
TruncOf(r, num, den) ==
    /\ Abs(r * den) <= Abs(num)
    /\ Abs(num) < (Abs(r) + 1) * Abs(den)
    /\ r = 0 \/ (r > 0) = ((num > 0) = (den > 0))

\* The exact value num / den, truncated, is an int: the case the C code is
\* meant for.
Fits(num, den) == den # 0 /\ InInt(CDiv(num, den))

-----------------------------------------------------------------------------
\* fxp_mul, fxp_div, fxp_inv, fxp_idiv, fxp_idivi, fxp_trunc, fxp_divi and
\* fxp_invi return the exact quotient truncated toward zero whenever it is
\* an int: the int64_t casts keep the intermediate products from
\* overflowing.
QuotientsTruncate ==
    /\ Fits(x * y, F(Q)) => TruncOf(FxpMul(Q, x, y), x * y, F(Q))
    /\ Fits(x * F(Q), y) => TruncOf(FxpDiv(Q, x, y), x * F(Q), y)
    /\ Fits(F(Q) * F(Q), x) => TruncOf(FxpInv(Q, x), F(Q) * F(Q), x)
    /\ TruncOf(FxpTrunc(Q, x), x, F(Q))
    /\ \A n \in Ints :
        /\ Fits(n * F(Q) * F(Q), x) => TruncOf(FxpIdiv(Q, n, x), n * F(Q) * F(Q), x)
        /\ Fits(n * F(Q), x) => TruncOf(FxpIdivi(Q, n, x), n * F(Q), x)
        /\ Fits(x, n) => TruncOf(FxpDivi(x, n), x, n)
        /\ n # 0 => TruncOf(FxpInvi(Q, n), F(Q), n)

\* fxp_reformat converts between formats exactly when widening and by
\* truncation toward zero when narrowing, in both directions between Q
\* and Q2.
ReformatTruncates ==
    /\ Fits(x * F(Q2), F(Q)) => TruncOf(FxpReformat(Q, Q2, x), x * F(Q2), F(Q))
    /\ Fits(x * F(Q), F(Q2)) => TruncOf(FxpReformat(Q2, Q, x), x * F(Q), F(Q2))

\* fxp_round returns the nearest int, ties away from zero, whenever
\* x + sgn * f(q) / 2 does not overflow.
RoundIsNearest ==
    LET r == FxpRound(Q, x)
        sgn == IF x >= 0 THEN 1 ELSE -1
    IN  InInt(x + sgn * (F(Q) \div 2)) =>
            /\ 2 * Abs(r * F(Q) - x) <= F(Q)
            /\ 2 * Abs(r * F(Q) - x) = F(Q) => Abs(r * F(Q)) > Abs(x)

=============================================================================
