----------------------------- MODULE ReedSolomon ------------------------------
(***************************************************************************)
(* The Reed-Solomon decoder of jsQR: syndromes, the extended Euclidean     *)
(* algorithm, Chien's search and Forney's formula.  A word of data and     *)
(* check symbols is corrected in place; the result is null when the word   *)
(* is found to have more errors than the check symbols can tell.           *)
(*                                                                         *)
(* rsPc                                                                    *)
(*   "syndrome"  reedsolomon.decode, before the syndromes                  *)
(*   "euclid"    head of the outer loop of runEuclideanAlgorithm           *)
(*   "divide"    head of its inner loop                                    *)
(*   "locate"    findErrorLocations                                        *)
(*   "correct"   findErrorMagnitudes and the correction, symbol by symbol  *)
(*   "ok"        returned the word                                         *)
(*   "null"      returned null                                             *)
(***************************************************************************)
EXTENDS GaloisField, FiniteSets

VARIABLES
  rsPc,
  word,        \* outputBytes
  twoS,        \* number of check symbols
  syndrome,    \* polynomial
  rLast, r,    \* remainders
  tLast, t,    \* factors of the syndrome
  q,           \* quotient of the division that is going on
  locations,   \* errorLocations
  fixed        \* number of locations whose symbol was corrected

euclidVars == <<rLast, r, tLast, t, q>>
rsVars == <<rsPc, word, twoS, syndrome, euclidVars, locations, fixed>>

\* Inside a call of decode(bytes, checks).
Called(bytes, checks) ==
  /\ word = bytes
  /\ twoS = checks
  /\ rsPc = "syndrome"
  /\ syndrome = Zero
  /\ rLast = Zero /\ r = Zero /\ tLast = Zero /\ t = One /\ q = Zero
  /\ locations = <<>>
  /\ fixed = 0

\* decode(bytes, checks) is called.
Call(bytes, checks) ==
  /\ word' = bytes
  /\ twoS' = checks
  /\ rsPc' = "syndrome"
  /\ syndrome' = Zero
  /\ rLast' = Zero /\ r' = Zero /\ tLast' = Zero /\ t' = One /\ q' = Zero
  /\ locations' = <<>>
  /\ fixed' = 0

Root(s) == ExpTable[s + GeneratorBase]

\* The last coefficient is the word's value at the first root.
Syndromes(bytes, checks) ==
  LET poly == Poly(bytes)
  IN  [i \in 1..checks |-> EvaluateAt(poly, Root(checks - i))]

Syndrome ==
  LET s == Poly(Syndromes(word, twoS))
  IN  /\ rsPc = "syndrome"
      /\ syndrome' = s
      /\ \/ IsZero(s) /\ rsPc' = "ok" /\ UNCHANGED euclidVars
         \/ /\ ~IsZero(s)
            /\ rsPc' = "euclid"
            /\ rLast' = Monomial(twoS, 1)
            /\ r' = s
            /\ UNCHANGED <<tLast, t, q>>
      /\ UNCHANGED <<word, twoS, locations, fixed>>

\* r is not zero here, its degree is at least twoS / 2.
BeginDivision ==
  /\ rsPc = "euclid"
  /\ 2 * Degree(r) >= twoS
  /\ rLast' = r
  /\ r' = rLast
  /\ tLast' = t
  /\ t' = tLast
  /\ q' = Zero
  /\ rsPc' = "divide"
  /\ UNCHANGED <<word, twoS, syndrome, locations, fixed>>

Divisible == Degree(r) >= Degree(rLast) /\ ~IsZero(r)

DivisionStep ==
  LET diff  == Degree(r) - Degree(rLast)
      scale == Times(r[1], inverse(rLast[1]))
  IN  /\ rsPc = "divide"
      /\ Divisible
      /\ q' = AddPoly(q, Monomial(diff, scale))
      /\ r' = AddPoly(r, TimesMonomial(rLast, diff, scale))
      /\ UNCHANGED <<rsPc, word, twoS, syndrome, rLast, tLast, t, locations,
                     fixed>>

\* Slip: the two factors are mixed up.
FactorSwapped(quotient, last, beforeLast) ==
  AddPoly(TimesPoly(quotient, beforeLast), last)

Factor(quotient, last, beforeLast) == AddPoly(TimesPoly(quotient, last), beforeLast)

\* While dividing, t still holds the factor before the last.
EndDivision ==
  /\ rsPc = "divide"
  /\ ~Divisible
  /\ t' = Factor(q, tLast, t)
  /\ rsPc' = IF Degree(r) >= Degree(rLast) THEN "null" ELSE "euclid"
  /\ UNCHANGED <<word, twoS, syndrome, rLast, r, tLast, q, locations, fixed>>

\* t is scaled to 1 at zero, which makes it the error locator and r the
\* evaluator.
EndEuclid ==
  LET atZero == Coefficient(t, 0)
  IN  /\ rsPc = "euclid"
      /\ 2 * Degree(r) < twoS
      /\ \/ atZero = 0 /\ rsPc' = "null" /\ UNCHANGED <<r, t>>
         \/ /\ atZero # 0
            /\ t' = ScalePoly(t, inverse(atZero))
            /\ r' = ScalePoly(r, inverse(atZero))
            /\ rsPc' = "locate"
      /\ UNCHANGED <<word, twoS, syndrome, rLast, tLast, q, locations, fixed>>

\* Slip: the roots themselves, instead of their inverses.
RootsKept(a) == a

LocationOf(a) == inverse(a)

\* Chien's search goes through 1, 2, ... Size - 1, and stops when it has found as
\* many roots as the degree allows; a locator of degree 1 needs no search.
Roots(locator) == {a \in Element \ {0} : EvaluateAt(locator, a) = 0}

InOrder(S) ==
  [i \in 1..Cardinality(S) |->
     CHOOSE a \in S : Cardinality({b \in S : b < a}) = i - 1]

Locate ==
  LET roots == InOrder(Roots(t))
  IN  /\ rsPc = "locate"
      /\ \/ /\ Degree(t) = 1
            /\ locations' = <<Coefficient(t, 1)>>
            /\ rsPc' = "correct"
         \/ /\ Degree(t) # 1
            /\ Len(roots) = Degree(t)
            /\ locations' = [i \in DOMAIN roots |-> LocationOf(roots[i])]
            /\ rsPc' = "correct"
         \/ /\ Degree(t) # 1
            /\ Len(roots) # Degree(t)
            /\ rsPc' = "null"
            /\ UNCHANGED locations
      /\ UNCHANGED <<word, twoS, syndrome, euclidVars, fixed>>

\* Forney's formula.
ProductAll(seq) ==
  LET product[i \in 0..Len(seq)] ==
        IF i = 0 THEN 1 ELSE Times(product[i - 1], seq[i])
  IN  product[Len(seq)]

Magnitude(i) ==
  LET inv == inverse(locations[i])
      denominator ==
        ProductAll([j \in DOMAIN locations |->
                      IF i = j THEN 1 ELSE Plus(1, Times(locations[j], inv))])
      value == Times(EvaluateAt(r, inv), inverse(denominator))
  IN  IF GeneratorBase = 0 THEN value ELSE Times(value, inv)

\* Position in the word, from 0; negative for a location outside of it.
Position(i) == Len(word) - 1 - LogTable[locations[i]]

Correct ==
  LET i == fixed + 1
  IN  /\ rsPc = "correct"
      /\ \/ fixed = Len(locations) /\ rsPc' = "ok" /\ UNCHANGED <<word, fixed>>
         \/ /\ fixed < Len(locations)
            /\ Position(i) < 0
            /\ rsPc' = "null"
            /\ UNCHANGED <<word, fixed>>
         \/ /\ fixed < Len(locations)
            /\ Position(i) >= 0
            /\ word' = [word EXCEPT ![Position(i) + 1] = Plus(@, Magnitude(i))]
            /\ fixed' = i
            /\ UNCHANGED rsPc
      /\ UNCHANGED <<twoS, syndrome, euclidVars, locations>>

RSNext ==
  \/ Syndrome \/ BeginDivision \/ DivisionStep \/ EndDivision \/ EndEuclid
  \/ Locate \/ Correct

-----------------------------------------------------------------------------
\* The last n coefficients.
Low(p, n) == IF Len(p) <= n THEN p ELSE Poly(SubSeq(p, Len(p) - n + 1, Len(p)))

\* At the head of the loop each remainder is its factor times the syndrome,
\* modulo x^twoS, and the degrees of a remainder's predecessor and of its factor
\* add up to twoS: so a remainder of low degree comes with the locator of as few
\* errors as explain the syndrome.
KeyEquation ==
  rsPc = "euclid" =>
    /\ Low(TimesPoly(t, syndrome), twoS) = r
    /\ Low(TimesPoly(tLast, syndrome), twoS) = Low(rLast, twoS)
    /\ Degree(t) + Degree(rLast) = twoS
=============================================================================
