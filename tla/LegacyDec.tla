----------------------------- MODULE LegacyDec -----------------------------
(***************************************************************************)
(* The fixed-point decimals of cosmossdk.io/math (LegacyDec), as far as    *)
(* the modules of this repository use them.  A decimal is represented by   *)
(* its raw integer, the value times Prec; the library has Prec = 10^18,    *)
(* the model checker uses a small even Prec so that the rounding cases,    *)
(* ties included, occur on small inputs.                                   *)
(***************************************************************************)
EXTENDS Integers

CONSTANT Prec      \* the number of raw units in 1

ASSUME PrecAssumption == Prec \in Nat \ {0}

Abs(x) == IF x < 0 THEN -x ELSE x

(* big.Int.Quo: division that truncates towards zero, b # 0 *)
TruncDiv(a, b) ==
    LET q == Abs(a) \div Abs(b)
    IN  IF (a < 0) = (b < 0) THEN q ELSE -q

(* chopPrecisionAndRound: x / Prec, ties to the even neighbour.  (\div and  *)
(* % round down, so that r is the same distance for both signs.)           *)
ChopRound(x) ==
    LET q == x \div Prec
        r == x % Prec
    IN  IF 2 * r > Prec \/ (2 * r = Prec /\ q % 2 = 1) THEN q + 1 ELSE q

DecFromInt(i) == i * Prec

Mul(a, b) == ChopRound(a * b)

(* Quo carries Prec further digits, truncates them, and rounds; b # 0 *)
Quo(a, b) == ChopRound(TruncDiv(a * Prec * Prec, b))

TruncateInt(a) == TruncDiv(a, Prec)

RoundInt(a) == ChopRound(a)
=============================================================================
