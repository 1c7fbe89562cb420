------------------------------- MODULE Wallet -------------------------------
(***************************************************************************)
(* The arithmetic of a wallet: domain/.../Money.java and Wallet.java.      *)
(*                                                                         *)
(* Money is a Java int that may not be negative: its constructor throws    *)
(* for a negative value, and a sum beyond the largest int wraps around to  *)
(* a negative one, so an overflowing sum is an exception and never a       *)
(* silently wrong amount.                                                  *)
(*                                                                         *)
(* Charges, Payable and Left give Wallet.pay in closed form: how often the *)
(* loop charges automatically, whether the payment goes through, and what  *)
(* is left.  WalletPay runs the loop itself and shows that the two agree.  *)
(***************************************************************************)
EXTENDS Integers

CONSTANT MaxInt   \* the largest int, 2^31 - 1 in the code

ASSUME MaxIntAssumption == MaxInt \in Nat \ {0}

Money == 0..MaxInt

\* Slips: forms a bug could give to the definition that follows each of them.
Clamp(n) == IF n > MaxInt THEN MaxInt ELSE n
Unbounded(n) == n

\* The value of an int computation: two's complement wrap-around.
Wrap(n) == ((n + MaxInt + 1) % (2 * (MaxInt + 1))) - (MaxInt + 1)

\* Money.largerEqual, Money.isPositive
CanPay(charged, bill) == charged >= bill

AutoChargeable(auto) == auto > 0

\* How often pay() calls autoCharge() before the bill is covered.
Charges(charged, auto, bill) ==
  IF CanPay(charged, bill) \/ ~AutoChargeable(auto)
    THEN 0
    ELSE (bill - charged + auto - 1) \div auto

\* Slip: pay() without a look at the funds.
Unguarded(charged, auto, bill) == TRUE

\* pay() returns normally: the bill is covered and no sum overflowed.
Payable(charged, auto, bill) ==
  LET total == charged + Charges(charged, auto, bill) * auto
  IN  bill <= total /\ total <= MaxInt

LeftUncharged(charged, auto, bill) == charged - bill

\* The charged money after a pay() that returns normally.
Left(charged, auto, bill) ==
  charged + Charges(charged, auto, bill) * auto - bill
=============================================================================
