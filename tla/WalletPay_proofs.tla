-------------------------- MODULE WalletPay_proofs --------------------------
(***************************************************************************)
(* Proofs about the loop of Wallet.pay, for an int of any width and for    *)
(* every wallet and bill.                                                  *)
(***************************************************************************)
EXTENDS WalletPay, TLAPS

-----------------------------------------------------------------------------
(* Arithmetic.                                                             *)

\* A sum of two amounts that is beyond the largest int wraps to a negative one, and
\* any other is what it should be.
LEMMA WrappedSum ==
  ASSUME NEW m \in Money, NEW n \in Money
  PROVE  /\ m + n <= MaxInt => Wrap(m + n) = m + n
         /\ m + n > MaxInt => Wrap(m + n) < 0
<1> DEFINE width == 2 * (MaxInt + 1)
           x == m + n + MaxInt + 1
<1>1. x \in Nat /\ width \in Nat \ {0} /\ x < 2 * width
  BY MaxIntAssumption DEF Money
<1>2. \A a \in Nat, w \in Nat \ {0} : a < w => a % w = a
  BY Z3
<1>3. \A a \in Nat, w \in Nat \ {0} : w <= a /\ a < 2 * w => a % w = a - w
  BY Z3
<1>4. m + n <= MaxInt => x < width
  BY MaxIntAssumption DEF Money
<1>5. m + n > MaxInt => width <= x
  BY MaxIntAssumption DEF Money
<1>6. Wrap(m + n) = (x % width) - (MaxInt + 1)
  BY DEF Wrap
<1> HIDE DEF width
<1>7. CASE m + n <= MaxInt
  <2>1. x % width = x
    BY <1>1, <1>2, <1>4, <1>7
  <2> QED
    BY <1>6, <1>7, <2>1, MaxIntAssumption DEF Money
<1>8. CASE m + n > MaxInt
  <2>1. x % width = x - width
    BY <1>1, <1>3, <1>5, <1>8
  <2> QED
    BY <1>6, <1>8, <2>1, MaxIntAssumption DEF Money, width
<1> QED
  BY <1>7, <1>8, MaxIntAssumption DEF Money

\* Multiples of a positive amount are ordered as their factors are.
LEMMA FactorOrder ==
  ASSUME NEW a \in Nat \ {0}, NEW x \in Int, NEW y \in Int
  PROVE  /\ x * a < y * a => x < y
         /\ x <= y => x * a <= y * a
<1>1. (y - x) * a = y * a - x * a
  BY Z3
<1>2. \A p \in Nat \ {0}, d \in Int : d <= 0 => d * p <= 0
  BY Z3
<1>3. \A p \in Nat \ {0}, d \in Int : d >= 0 => d * p >= 0
  BY Z3
<1>4. x * a \in Int /\ y * a \in Int /\ y - x \in Int
  BY Z3
<1> QED
  BY <1>1, <1>2, <1>3, <1>4

\* The quotient, rounded up, is the first factor that covers d.
LEMMA RoundedUp ==
  ASSUME NEW a \in Nat \ {0}, NEW d \in Nat \ {0}
  PROVE  LET q == (d + a - 1) \div a
         IN  q \in Nat \ {0} /\ (q - 1) * a < d /\ d <= q * a
<1> DEFINE n == d + a - 1
           q == n \div a
<1>1. n \in Nat /\ a <= n
  OBVIOUS
<1>2. \A m \in Nat, b \in Nat \ {0} :
        /\ m \div b \in Nat /\ (m \div b) * b <= m
        /\ m < (m \div b) * b + b
  BY Z3
<1>3. q \in Nat /\ q * a <= n /\ n < q * a + a
  BY <1>1, <1>2
<1> HIDE DEF q
<1>4. q # 0
  BY <1>1, <1>3
<1>5. (q - 1) * a = q * a - a /\ q * a \in Nat
  BY <1>3, Z3
<1> QED
  BY <1>3, <1>4, <1>5 DEF q

\* The number of automatic charges is the first that covers the bill.
LEMMA ChargesAreEnough ==
  ASSUME NEW m \in Money, NEW a \in Money, NEW b \in Money, m < b, a > 0
  PROVE  /\ Charges(m, a, b) \in Nat \ {0}
         /\ m + (Charges(m, a, b) - 1) * a < b
         /\ b <= m + Charges(m, a, b) * a
<1>1. a \in Nat \ {0} /\ b - m \in Nat \ {0} /\ m \in Nat /\ b \in Nat
  BY MaxIntAssumption DEF Money
<1> DEFINE q == (b - m + a - 1) \div a
<1>2. q \in Nat \ {0} /\ (q - 1) * a < b - m /\ b - m <= q * a
  BY <1>1, RoundedUp
<1>3. Charges(m, a, b) = q
  BY <1>1 DEF Charges, CanPay, AutoChargeable
<1>4. q * a \in Int /\ (q - 1) * a \in Int
  BY <1>1, <1>2
<1> HIDE DEF q
<1> QED
  BY <1>1, <1>2, <1>3, <1>4

-----------------------------------------------------------------------------
(* The loop.                                                               *)

\* What canPay and isPositive have said is still so where the loop acts on it; and
\* the last automatic charge was needed.
GuardsHold ==
  /\ pc = "debit" => charged >= bill
  /\ pc = "charge" => charged < bill /\ auto > 0
  /\ pc = "refused" => charged < bill /\ auto = 0
  /\ pc = "overflow" => charged < bill /\ auto > 0 /\ charged + auto > MaxInt
  /\ pc = "paid" => charged + bill <= MaxInt

LastWasNeeded == count > 0 => auto > 0 /\ start + (count - 1) * auto < bill

PayInv == TypeOK /\ MoneyConserved /\ GuardsHold /\ LastWasNeeded

\* The initial states satisfy the invariant.
LEMMA InitInv == Init => PayInv
BY MaxIntAssumption
   DEF Init, PayInv, TypeOK, MoneyConserved, GuardsHold, LastWasNeeded, Money

\* The guards of the loop write nothing.
LEMMA CheckFundsInv ==
  ASSUME PayInv, CheckFunds
  PROVE  PayInv'
BY MaxIntAssumption
   DEF PayInv, TypeOK, MoneyConserved, GuardsHold, LastWasNeeded, Money, CheckFunds,
       CanPay, AutoChargeable, Ended

\* A charge that wraps around is negative, which Money refuses.
LEMMA AutoChargeInv ==
  ASSUME PayInv, AutoCharge
  PROVE  PayInv'
<1> USE MaxIntAssumption DEF PayInv
<1>1. /\ charged \in Money /\ auto \in Money /\ bill \in Money /\ start \in Money
      /\ count \in Nat
  BY DEF TypeOK
<1>2. /\ charged < bill /\ auto > 0 /\ pc = "charge"
      /\ charged = start + count * auto
  BY <1>1 DEF AutoCharge, GuardsHold, MoneyConserved, Money
<1>3. UNCHANGED <<auto, bill, start>>
  BY DEF AutoCharge
<1>4. CASE charged + auto <= MaxInt
  <2>1. Wrap(charged + auto) = charged + auto /\ charged + auto \in Money
    BY <1>1, <1>4, WrappedSum DEF Money
  <2>2. charged' = charged + auto /\ count' = count + 1 /\ pc' = "check"
    BY <2>1, <1>1 DEF AutoCharge, Money
  <2>3. (count + 1) * auto = count * auto + auto /\ count * auto \in Int
    BY <1>1 DEF Money
  <2>4. TypeOK'
    BY <1>1, <1>3, <2>1, <2>2 DEF TypeOK
  <2>5. MoneyConserved'
    BY <1>1, <1>2, <1>3, <2>2, <2>3 DEF MoneyConserved, Money
  <2>6. GuardsHold'
    BY <2>2 DEF GuardsHold
  <2>7. LastWasNeeded'
    BY <1>1, <1>2, <1>3, <2>2 DEF LastWasNeeded, Money
  <2> QED
    BY <2>4, <2>5, <2>6, <2>7
<1>5. CASE charged + auto > MaxInt
  <2>1. Wrap(charged + auto) < 0 /\ Wrap(charged + auto) \in Int
    BY <1>1, <1>5, WrappedSum DEF Money, Wrap
  <2>2. UNCHANGED <<charged, count>> /\ pc' = "overflow"
    BY <2>1 DEF AutoCharge
  <2>3. TypeOK'
    BY <1>1, <1>3, <2>2 DEF TypeOK, Ended
  <2>4. MoneyConserved' /\ LastWasNeeded'
    BY <1>2, <1>3, <2>2 DEF MoneyConserved, LastWasNeeded
  <2>5. GuardsHold'
    BY <1>2, <1>3, <1>5, <2>2 DEF GuardsHold
  <2> QED
    BY <2>3, <2>4, <2>5
<1> QED
  BY <1>1, <1>4, <1>5 DEF Money

\* The debit leaves no negative amount.
LEMMA DebitInv ==
  ASSUME PayInv, Debit
  PROVE  PayInv'
<1>1. /\ charged \in Money /\ bill \in Money /\ charged >= bill
      /\ charged' = charged - bill /\ pc = "debit" /\ pc' = "paid"
      /\ UNCHANGED <<auto, bill, start, count>>
  BY DEF PayInv, TypeOK, GuardsHold, Debit
<1>2. charged' \in Money /\ charged' + bill = charged /\ charged <= MaxInt
  BY <1>1, MaxIntAssumption DEF Money
<1>3. TypeOK'
  BY <1>1, <1>2 DEF PayInv, TypeOK, Ended
<1>4. MoneyConserved' /\ LastWasNeeded'
  <2>1. charged = start + count * auto
    BY <1>1, MaxIntAssumption DEF PayInv, MoneyConserved, Money
  <2> QED
    BY <1>1, <1>2, <2>1 DEF PayInv, MoneyConserved, LastWasNeeded
<1>5. GuardsHold'
  BY <1>1, <1>2 DEF GuardsHold
<1> QED
  BY <1>3, <1>4, <1>5 DEF PayInv

\* What is needed of the loop is inductive.
THEOREM PayInvariant == Spec => []PayInv
<1>1. PayInv /\ [Next]_vars => PayInv'
  <2>1. CASE Next
    BY <2>1, CheckFundsInv, AutoChargeInv, DebitInv DEF Next
  <2>2. CASE UNCHANGED vars
    BY <2>2 DEF vars, PayInv, TypeOK, MoneyConserved, GuardsHold, LastWasNeeded
  <2> QED
    BY <2>1, <2>2
<1> QED
  BY InitInv, <1>1, PTL DEF Spec

\* A wallet is always an amount of money, never negative and never beyond an int,
\* although its sums are computed in wrapping arithmetic.
THEOREM TypeCorrect == Spec => []TypeOK
<1>1. PayInv => TypeOK
  BY DEF PayInv
<1> QED
  BY PayInvariant, <1>1, PTL

\* No call of Wallet.pay makes money appear or disappear.
THEOREM NoMoneyLost == Spec => []MoneyConserved
<1>1. PayInv => MoneyConserved
  BY DEF PayInv
<1> QED
  BY PayInvariant, <1>1, PTL

-----------------------------------------------------------------------------
(* The closed form.                                                        *)

\* A wallet that had enough after count charges, the last of which was needed, was
\* charged as often as the closed form says.
LEMMA CountIsCharges ==
  ASSUME TypeOK, LastWasNeeded, bill <= start + count * auto
  PROVE  count = Charges(start, auto, bill)
<1>1. /\ start \in Money /\ auto \in Money /\ bill \in Money /\ count \in Nat
      /\ start \in Nat /\ bill \in Nat /\ auto \in Nat
  BY MaxIntAssumption DEF TypeOK, Money
<1>2. CASE count = 0
  <2>1. start >= bill
    BY <1>1, <1>2
  <2> QED
    BY <1>2, <2>1 DEF Charges, CanPay
<1>3. CASE count > 0
  <2> DEFINE q == Charges(start, auto, bill)
  <2>1. auto \in Nat \ {0} /\ start + (count - 1) * auto < bill
    BY <1>1, <1>3 DEF LastWasNeeded
  <2>2. (count - 1) * auto >= 0 /\ (count - 1) * auto \in Int /\ count * auto \in Int
    BY <1>1, <1>3, FactorOrder, Z3
  <2>3. start < bill
    BY <1>1, <2>1, <2>2
  <2>4. /\ q \in Nat \ {0} /\ start + (q - 1) * auto < bill /\ bill <= start + q * auto
    BY <1>1, <2>1, <2>3, ChargesAreEnough
  <2> HIDE DEF q
  <2>5. (q - 1) * auto \in Int /\ q * auto \in Int
    BY <1>1, <2>4
  <2>6. (q - 1) * auto < count * auto /\ (count - 1) * auto < q * auto
    BY <1>1, <2>1, <2>2, <2>4, <2>5
  <2>7. q - 1 < count /\ count - 1 < q
    BY <1>1, <2>1, <2>4, <2>6, FactorOrder
  <2> QED
    BY <1>1, <2>4, <2>7 DEF q
<1> QED
  BY <1>1, <1>2, <1>3

\* A call of Wallet.pay that returns has done what the closed form says; one that
\* throws, because there is nothing to charge or because a sum overflowed, is one
\* that no number of charges could have saved.
THEOREM LoopIsClosedForm == Spec => []AgreesWithClosedForm
<1>1. PayInv => AgreesWithClosedForm
  <2> SUFFICES ASSUME PayInv PROVE AgreesWithClosedForm
    OBVIOUS
  <2> USE MaxIntAssumption DEF PayInv
  <2>1. /\ charged \in Money /\ auto \in Money /\ bill \in Money /\ start \in Money
        /\ count \in Nat /\ count * auto \in Int
        /\ charged \in Nat /\ auto \in Nat /\ bill \in Nat /\ start \in Nat
    BY DEF TypeOK, Money
  <2>2. ASSUME pc = "paid"
        PROVE  /\ Payable(start, auto, bill)
               /\ charged = Left(start, auto, bill)
               /\ count = Charges(start, auto, bill)
    <3>1. charged + bill = start + count * auto /\ charged + bill <= MaxInt
      BY <2>2 DEF MoneyConserved, GuardsHold
    <3>2. bill <= start + count * auto
      BY <2>1, <3>1
    <3>3. count = Charges(start, auto, bill)
      BY <3>2, CountIsCharges
    <3> QED
      BY <2>1, <3>1, <3>2, <3>3 DEF Payable, Left
  <2>3. ASSUME pc \in {"refused", "overflow"}
        PROVE  ~Payable(start, auto, bill)
    <3>1. charged = start + count * auto /\ charged < bill
      BY <2>1, <2>3 DEF MoneyConserved, GuardsHold
    <3>2. CASE auto = 0
      <4>1. Charges(start, auto, bill) = 0
        BY <3>2 DEF Charges, AutoChargeable
      <4>2. count * auto = 0 /\ 0 * auto = 0
        BY <2>1, <3>2
      <4> QED
        BY <2>1, <3>1, <4>1, <4>2 DEF Payable
    <3>3. CASE auto > 0
      <4> DEFINE q == Charges(start, auto, bill)
      <4>1. charged + auto > MaxInt
        BY <2>1, <2>3, <3>3 DEF GuardsHold
      <4>2. count * auto >= 0
        BY <2>1, Z3
      <4>3. start < bill
        BY <2>1, <3>1, <4>2
      <4>4. q \in Nat \ {0} /\ bill <= start + q * auto
        BY <2>1, <3>3, <4>3, ChargesAreEnough
      <4>5. Payable(start, auto, bill) <=>
              bill <= start + q * auto /\ start + q * auto <= MaxInt
        BY DEF Payable
      <4> HIDE DEF q
      <4>6. q * auto \in Int
        BY <2>1, <4>4
      <4>7. count * auto < q * auto
        BY <2>1, <3>1, <4>4, <4>6
      <4>8. count + 1 <= q
        BY <2>1, <3>3, <4>4, <4>7, FactorOrder
      <4>9. (count + 1) * auto <= q * auto /\ (count + 1) * auto = count * auto + auto
        BY <2>1, <3>3, <4>4, <4>8, FactorOrder
      <4> QED
        BY <2>1, <3>1, <4>1, <4>5, <4>6, <4>9
    <3> QED
      BY <2>1, <3>2, <3>3
  <2> QED
    BY <2>2, <2>3 DEF AgreesWithClosedForm
<1> QED
  BY PayInvariant, <1>1, PTL
=============================================================================
