------------------------------ MODULE DecLemmas ------------------------------
(***************************************************************************)
(* Lemmas about the decimals of LegacyDec, for every precision: types, and *)
(* by how much a result may be off.                                        *)
(***************************************************************************)
EXTENDS LegacyDec, TLAPS

(* TruncDiv on integers with a non-zero divisor is an integer. *)
LEMMA TruncDivInt ==
    ASSUME NEW a \in Int, NEW b \in Int \ {0}
    PROVE  TruncDiv(a, b) \in Int
<1>1. Abs(a) \in Int /\ Abs(b) \in Nat \ {0}  BY DEF Abs
<1>2. Abs(a) \div Abs(b) \in Int  BY <1>1
<1>. QED  BY <1>2 DEF TruncDiv

(* On naturals it is the quotient, rounded down. *)
LEMMA TruncDivNat ==
    ASSUME NEW a \in Nat, NEW b \in Nat \ {0}
    PROVE  /\ TruncDiv(a, b) \in Nat
           /\ TruncDiv(a, b) = a \div b
           /\ b * TruncDiv(a, b) <= a /\ a < b * TruncDiv(a, b) + b
<1>1. TruncDiv(a, b) = a \div b
  BY DEF TruncDiv, Abs
<1>2. a \div b \in Int /\ a % b \in 0 .. b - 1 /\ a = b * (a \div b) + (a % b)
  OBVIOUS
<1>3. a \div b >= 0
  <2> DEFINE q == a \div b
             r == a % b
  <2>1. q \in Int /\ r \in 0 .. b - 1 /\ a = b * q + r
    BY <1>2
  <2> HIDE DEF q, r
  <2>2. SUFFICES ASSUME q <= -1
                 PROVE  FALSE
    BY <2>1 DEF q
  <2>3. PICK k \in Nat : q = -1 - k
    <3>1. -1 - q \in Nat /\ q = -1 - (-1 - q)
      BY <2>1, <2>2
    <3> QED  BY <3>1
  <2>4. b * q = -b - b * k /\ b * k >= 0
    BY <2>3
  <2> QED  BY <2>1, <2>4
<1> DEFINE p == b * (a \div b)
<1>4. p \in Int /\ a = p + (a % b)
  BY <1>2
<1>5. p <= a /\ a < p + b
  <2> HIDE DEF p
  <2> QED  BY <1>2, <1>4
<1> QED  BY <1>1, <1>2, <1>3, <1>5

(* Rounding an integer to the precision gives an integer. *)
LEMMA ChopRoundInt ==
    ASSUME NEW x \in Int
    PROVE  ChopRound(x) \in Int
<1>1. x \div Prec \in Int /\ x % Prec \in Int
  BY PrecAssumption
<1>. QED  BY <1>1 DEF ChopRound

(* Rounding a natural gives a natural, off by at most half a unit. *)
LEMMA ChopRoundNat ==
    ASSUME NEW x \in Nat
    PROVE  /\ ChopRound(x) \in Nat
           /\ 2 * (Prec * ChopRound(x)) <= 2 * x + Prec
           /\ 2 * x <= 2 * (Prec * ChopRound(x)) + Prec
<1> DEFINE q == x \div Prec
           r == x % Prec
           c == ChopRound(x)
<1>1. Prec \in Nat \ {0}
  BY PrecAssumption
<1>2. r \in 0 .. Prec - 1 /\ q \in Nat /\ x = Prec * q + r
  <2>1. TruncDiv(x, Prec) = q /\ TruncDiv(x, Prec) \in Nat
    BY <1>1, TruncDivNat
  <2> QED  BY <1>1, <2>1
<1>3. \/ c = q /\ 2 * r <= Prec
      \/ c = q + 1 /\ 2 * r >= Prec
  <2>1. c = IF 2 * r > Prec \/ (2 * r = Prec /\ q % 2 = 1) THEN q + 1 ELSE q
    BY DEF ChopRound
  <2> HIDE DEF c, q, r
  <2> QED  BY <1>1, <1>2, <2>1
<1> HIDE DEF q, r, c
<1> DEFINE y == Prec * q
<1>4. y \in Nat /\ x = y + r
  BY <1>1, <1>2
<1>5. Prec * (q + 1) = y + Prec
  BY <1>1, <1>2
<1> HIDE DEF y
<1>6. CASE c = q /\ 2 * r <= Prec
  BY <1>1, <1>2, <1>4, <1>6 DEF c, y
<1>7. CASE c = q + 1 /\ 2 * r >= Prec
  <2>1. Prec * c = y + Prec
    BY <1>5, <1>7
  <2> QED  BY <1>1, <1>2, <1>4, <1>7, <2>1 DEF c
<1> QED  BY <1>3, <1>6, <1>7

(* A non-zero integer is a non-zero decimal. *)
LEMMA DecFromIntNonZero ==
    ASSUME NEW i \in Int \ {0}
    PROVE  DecFromInt(i) \in Int \ {0}
BY PrecAssumption DEF DecFromInt

(* products and quotients of naturals *)
LEMMA MulNat ==
    ASSUME NEW a \in Nat, NEW b \in Nat
    PROVE  Mul(a, b) \in Nat
BY ChopRoundNat, a * b \in Nat DEF Mul

LEMMA QuoNat ==
    ASSUME NEW a \in Nat, NEW b \in Nat \ {0}
    PROVE  Quo(a, b) \in Nat
<1>1. a * Prec * Prec \in Nat
  BY PrecAssumption
<1>2. TruncDiv(a * Prec * Prec, b) \in Nat
  BY <1>1, TruncDivNat
<1> QED  BY <1>2, ChopRoundNat DEF Quo

-----------------------------------------------------------------------------
(* inequalities between products *)
LEMMA MulMonotone ==
    ASSUME NEW a \in Nat, NEW b \in Int, NEW c \in Int, b <= c
    PROVE  a * b <= a * c
<1>1. PICK k \in Nat : c = b + k
  <2>1. c - b \in Nat /\ c = b + (c - b)
    OBVIOUS
  <2> QED  BY <2>1
<1>2. a * c = a * b + a * k /\ a * k \in Nat /\ a * b \in Int
  BY <1>1
<1> QED  BY <1>2

LEMMA MulCancel ==
    ASSUME NEW a \in Nat \ {0}, NEW b \in Int, NEW c \in Int, a * b <= a * c
    PROVE  b <= c
<1>1. SUFFICES ASSUME c + 1 <= b
               PROVE  FALSE
  OBVIOUS
<1>2. a * (c + 1) <= a * b
  BY <1>1, MulMonotone, c + 1 \in Int
<1>3. a * (c + 1) = a * c + a /\ a * c \in Int /\ a * b \in Int
  OBVIOUS
<1> QED  BY <1>2, <1>3

(* The part of a that a fraction of at most 1 makes is at most a. *)
LEMMA FractionNat ==
    ASSUME NEW a \in Nat, NEW fraction \in 0 .. Prec
    PROVE  TruncateInt(a * fraction) \in 0 .. a
<1> DEFINE x == a * fraction
           t == TruncDiv(x, Prec)
<1>1. Prec \in Nat \ {0} /\ fraction \in Nat
  BY PrecAssumption
<1>2. x \in Nat /\ x <= a * Prec
  BY <1>1, MulMonotone
<1>3. t \in Nat /\ Prec * t <= x
  <2> HIDE DEF x
  <2> QED  BY <1>1, <1>2, TruncDivNat
<1> HIDE DEF x, t
<1>4. Prec * t <= Prec * a
  BY <1>1, <1>2, <1>3
<1>5. t <= a
  BY <1>1, <1>3, <1>4, MulCancel
<1> QED  BY <1>3, <1>5 DEF TruncateInt, t, x

(* a bound on a multiple is a bound on the quotient *)
LEMMA DivBound ==
    ASSUME NEW n \in Nat \ {0}, NEW a \in Nat, NEW b \in Nat, n * a <= b
    PROVE  a <= b \div n
<1> DEFINE d == b \div n
<1>1. d \in Nat /\ b < n * d + n
  BY TruncDivNat
<1> HIDE DEF d
<1>2. SUFFICES ASSUME d + 1 <= a
               PROVE  FALSE
  BY <1>1 DEF d
<1>3. n * (d + 1) <= n * a
  BY <1>1, <1>2, MulMonotone, d + 1 \in Int
<1>4. n * (d + 1) = n * d + n /\ n * d \in Int /\ n * a \in Int
  BY <1>1
<1> QED  BY <1>1, <1>3, <1>4

(* rounding a whole number *)
LEMMA ChopExact ==
    ASSUME NEW n \in Nat
    PROVE  ChopRound(n * Prec) = n
<1> DEFINE c == ChopRound(n * Prec)
           x == n * Prec
<1>1. Prec \in Nat \ {0}
  BY PrecAssumption
<1>2. x \in Nat
  BY <1>1
<1>3. c \in Nat /\ 2 * (Prec * c) <= 2 * x + Prec /\ 2 * x <= 2 * (Prec * c) + Prec
  <2> HIDE DEF x
  <2>1. ChopRound(x) \in Nat /\ 2 * (Prec * ChopRound(x)) <= 2 * x + Prec
          /\ 2 * x <= 2 * (Prec * ChopRound(x)) + Prec
    BY <1>2, ChopRoundNat
  <2> QED  BY <2>1 DEF x
<1> HIDE DEF c
<1>4. Prec * (2 * c) <= Prec * (2 * n + 1) /\ Prec * (2 * n) <= Prec * (2 * c + 1)
  BY <1>1, <1>3
<1>5. 2 * c <= 2 * n + 1
  BY <1>1, <1>3, <1>4, MulCancel, 2 * c \in Int, 2 * n + 1 \in Int
<1>6. 2 * n <= 2 * c + 1
  BY <1>1, <1>3, <1>4, MulCancel, 2 * n \in Int, 2 * c + 1 \in Int
<1> QED  BY <1>3, <1>5, <1>6 DEF c

(* on numbers that are not positive, neither result is *)
LEMMA TruncDivNeg ==
    ASSUME NEW a \in Int, a <= 0, NEW b \in Nat \ {0}
    PROVE  TruncDiv(a, b) \in Int /\ TruncDiv(a, b) <= 0
<1>1. CASE a = 0
  <2>1. TruncDiv(a, b) = 0 \div b /\ 0 \div b = 0
    BY <1>1 DEF TruncDiv, Abs
  <2> QED  BY <2>1
<1>2. CASE a < 0
  <2>1. PICK k \in Nat : k = -a
    BY <1>2
  <2>2. TruncDiv(a, b) = -(k \div b)
    BY <1>2, <2>1 DEF TruncDiv, Abs
  <2>3. k \div b \in Nat
    BY TruncDivNat
  <2> QED  BY <2>2, <2>3
<1> QED  BY <1>1, <1>2

LEMMA ChopRoundNeg ==
    ASSUME NEW x \in Int, x <= 0
    PROVE  ChopRound(x) \in Int /\ ChopRound(x) <= 0
<1>1. CASE x = 0
  <2>1. ChopRound(0 * Prec) = 0 /\ 0 * Prec = 0
    BY ChopExact, PrecAssumption
  <2> QED  BY <1>1, <2>1
<1>2. CASE x < 0
  <2> DEFINE q == x \div Prec
             r == x % Prec
  <2>1. q \in Int /\ r \in 0 .. Prec - 1 /\ x = Prec * q + r
    BY PrecAssumption
  <2>2. ChopRound(x) = q \/ ChopRound(x) = q + 1
    BY DEF ChopRound
  <2> HIDE DEF q, r
  <2>3. q < 0
    <3>1. q \in Nat => Prec * q \in Nat
      BY PrecAssumption
    <3>2. q \notin Nat
      BY <1>2, <2>1, <3>1
    <3> QED  BY <2>1, <3>2
  <2> QED  BY <2>1, <2>2, <2>3
<1> QED  BY <1>1, <1>2

LEMMA MulNeg ==
    ASSUME NEW a \in Nat, NEW b \in Int, b <= 0
    PROVE  a * b \in Int /\ a * b <= 0
<1>1. a * b <= a * 0
  BY MulMonotone
<1> QED  BY <1>1
=============================================================================
