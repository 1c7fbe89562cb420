----------------------------- MODULE GaloisField ------------------------------
(***************************************************************************)
(* Arithmetic of jsQR's error correction: a field of Size elements, Size a *)
(* power of two, and polynomials over it (GenericGF, GenericGFPoly).  The  *)
(* code builds one field only, of 256 elements; here it is a parameter, so *)
(* that TLC can go through every word of a small one.                      *)
(*                                                                         *)
(* A polynomial is the sequence of its coefficients, the highest first and *)
(* not zero unless it is the only one.                                     *)
(***************************************************************************)
EXTENDS Integers, Sequences

CONSTANTS
  Primitive,      \* primitive polynomial, 285 in the code
  Size,           \* 256
  GeneratorBase   \* 0

ASSUME FieldAssumption ==
  /\ Size \in {4, 8, 16, 32, 64, 128, 256}
  /\ Primitive \in Size..(2 * Size)
  /\ GeneratorBase \in {0, 1}

Element == 0..(Size - 1)

XorNibble ==
  LET bit(n, i) == (n \div 2^i) % 2
  IN  [a \in 0..15 |-> [b \in 0..15 |->
        LET d(i) == 2^i * ((bit(a, i) + bit(b, i)) % 2)
        IN  d(3) + d(2) + d(1) + d(0)]]

\* a ^ b, a nibble at a time.
Xor ==
  [a \in Element |-> [b \in Element |->
    16 * XorNibble[a \div 16][b \div 16] + XorNibble[a % 16][b % 16]]]

Plus(a, b) == Xor[a][b]

\* Twice an element, reduced.
Doubled ==
  [a \in Element |->
    IF 2 * a >= Size THEN Xor[(2 * a) % Size][Primitive % Size] ELSE 2 * a]

\* 1 doubled i times: first half as often, then the rest.
ExpTable ==
  LET doubled[a \in Element, n \in 0..(Size - 1)] ==
        IF n = 0 THEN a
        ELSE IF n = 1 THEN Doubled[a]
        ELSE doubled[doubled[a, n \div 2], n - n \div 2]
  IN  [i \in 0..(Size - 1) |-> doubled[1, i]]

LogTable ==
  [a \in Element \ {0} |-> CHOOSE i \in 0..(Size - 2) : ExpTable[i] = a]

Product ==
  [a \in Element |-> [b \in Element |->
    IF a = 0 \/ b = 0 THEN 0
    ELSE ExpTable[(LogTable[a] + LogTable[b]) % (Size - 1)]]]

Times(a, b) == Product[a][b]

inverse(a) == ExpTable[Size - LogTable[a] - 1]

-----------------------------------------------------------------------------
Zero == <<0>>
One == <<1>>

\* The constructor drops leading zeros.
Poly(coefficients) ==
  LET nonZero == {i \in DOMAIN coefficients : coefficients[i] # 0}
      first   == CHOOSE i \in nonZero : \A j \in nonZero : i <= j
  IN  IF nonZero = {} THEN Zero
                      ELSE SubSeq(coefficients, first, Len(coefficients))

Degree(p) == Len(p) - 1

IsZero(p) == p[1] = 0

Coefficient(p, degree) == p[Len(p) - degree]

Monomial(degree, coefficient) ==
  Poly([i \in 1..(degree + 1) |-> IF i = 1 THEN coefficient ELSE 0])

Longer(p, other) == IF Len(p) < Len(other) THEN Len(other) ELSE Len(p)

\* p with zeros in front, n coefficients in all.
Padded(p, n) ==
  [i \in 1..n |-> IF i <= n - Len(p) THEN 0 ELSE p[i - (n - Len(p))]]

AddPoly(p, other) ==
  LET n == Longer(p, other)
  IN  Poly([i \in 1..n |-> Plus(Padded(p, n)[i], Padded(other, n)[i])])

ScalePoly(p, scalar) == Poly([i \in DOMAIN p |-> Times(p[i], scalar)])

TimesMonomial(p, degree, coefficient) ==
  Poly([i \in 1..(Len(p) + degree) |->
          IF i <= Len(p) THEN Times(p[i], coefficient) ELSE 0])

\* The sum of a sequence of elements: of one half and the other.
PlusAll(seq) ==
  LET sum[i \in 1..(Len(seq) + 1), n \in 0..Len(seq)] ==
        IF n = 0 THEN 0
        ELSE IF n = 1 THEN seq[i]
        ELSE Plus(sum[i, n \div 2], sum[i + n \div 2, n - n \div 2])
  IN  sum[1, Len(seq)]

TimesPoly(p, other) ==
  Poly([k \in 1..(Len(p) + Len(other) - 1) |->
          PlusAll([i \in DOMAIN p |-> IF k - i + 1 \in DOMAIN other
                                        THEN Times(p[i], other[k - i + 1])
                                        ELSE 0])])

Power(a, n) ==
  IF n = 0 THEN 1
  ELSE IF a = 0 THEN 0
  ELSE ExpTable[(LogTable[a] * n) % (Size - 1)]

\* The code sums by Horner's rule.
EvaluateAt(p, a) ==
  PlusAll([i \in DOMAIN p |-> Times(p[i], Power(a, Len(p) - i))])
=============================================================================
