---------------------------- MODULE Wallet_proofs ----------------------------
(***************************************************************************)
(* The arithmetic of a payment, for an int of any width: lemmas for the    *)
(* proofs about the editions, which all call Wallet.pay.                   *)
(***************************************************************************)
EXTENDS Wallet, TLAPS

\* Wallet.pay charges a whole number of times, and that much money.
LEMMA ChargesNat ==
  ASSUME NEW money \in Money, NEW auto \in Money, NEW bill \in Money
  PROVE  /\ Charges(money, auto, bill) \in Nat
         /\ Charges(money, auto, bill) * auto \in Nat
<1>1. CASE CanPay(money, bill) \/ ~AutoChargeable(auto)
  BY <1>1, MaxIntAssumption DEF Charges, Money
<1>2. CASE ~(CanPay(money, bill) \/ ~AutoChargeable(auto))
  <2>1. bill - money + auto - 1 \in Nat /\ auto \in Nat \ {0}
    BY <1>2, MaxIntAssumption DEF CanPay, AutoChargeable, Money
  <2>2. \A x \in Nat, y \in Nat \ {0} : x \div y \in Nat
    OBVIOUS
  <2>3. Charges(money, auto, bill) \in Nat
    BY <1>2, <2>1, <2>2 DEF Charges
  <2>4. \A x, y \in Nat : x * y \in Nat
    OBVIOUS
  <2> QED
    BY <2>1, <2>3, <2>4
<1> QED
  BY <1>1, <1>2

\* A payment that goes through leaves money in the wallet, never a negative
\* amount or one beyond the largest int, and takes exactly the bill.
LEMMA LeftIsMoney ==
  ASSUME NEW money \in Money, NEW auto \in Money, NEW bill \in Money,
         Payable(money, auto, bill)
  PROVE  /\ Left(money, auto, bill) \in Money
         /\ Left(money, auto, bill) + bill
              = money + Charges(money, auto, bill) * auto
<1>1. Charges(money, auto, bill) * auto \in Nat
  BY ChargesNat
<1> DEFINE added == Charges(money, auto, bill) * auto
<1>2. /\ Left(money, auto, bill) = money + added - bill
      /\ bill <= money + added
      /\ money + added <= MaxInt
  BY DEF Payable, Left
<1>3. added \in Nat
  BY <1>1
<1> HIDE DEF added
<1>4. Left(money, auto, bill) \in Money /\ Left(money, auto, bill) + bill = money + added
  BY <1>2, <1>3, MaxIntAssumption DEF Money
<1> QED
  BY <1>4 DEF added
=============================================================================
