----------------------------- MODULE FixedPoint -----------------------------
(***************************************************************************)
(* The fixed-point numbers of pintos/src/threads/fixedpoint.h: the number  *)
(* x is kept as the integer x * 2^Q.                                       *)
(***************************************************************************)
EXTENDS Integers

CONSTANT Q    \* bits after the point, 12 in the code

\* C's integer division rounds towards zero.
Quot(a, b) ==
  LET q == (IF a < 0 THEN -a ELSE a) \div (IF b < 0 THEN -b ELSE b)
  IN  IF (a < 0) = (b < 0) THEN q ELSE -q

F == 2^Q

HF == F \div 2

Float(i) == i * F

Round0(f) == Quot(f, F)

Round(f) == IF f > 0 THEN Round0(f + HF) ELSE Round0(f - HF)

AddF(f1, f2) == f1 + f2

SubF(f1, f2) == f1 - f2

MulF(f1, f2) == Quot(f1 * f2, F)

DivF(f1, f2) == Quot(f1 * F, f2)

AddI(f, i) == AddF(f, Float(i))

MulI(f, i) == f * i

DivI(f, i) == Quot(f, i)

Abs(x) == IF x < 0 THEN -x ELSE x

(* Rounding goes to the nearest integer on both sides of zero, and the      *)
(* arithmetic loses less than one unit in the last place: dividing and      *)
(* multiplying back, and going through an int or a float, agree.            *)
FixedPointNear(f, g) ==
  /\ 2 * Abs(Float(Round(f)) - f) <= F
  /\ Round(-f) = -Round(f)
  /\ g # 0 => /\ Abs(MulF(DivF(f, g), g) - f) <= 1 + Abs(g) \div F
              /\ MulI(DivI(f, g), g) + (f - g * Quot(f, g)) = f
  /\ MulF(f, Float(g)) = MulI(f, g)
  /\ g # 0 => DivF(f, Float(g)) = DivI(f, g)
=============================================================================
