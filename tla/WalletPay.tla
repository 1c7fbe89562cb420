----------------------------- MODULE WalletPay ------------------------------
(***************************************************************************)
(* One call of Wallet.pay(bill), loop iteration by loop iteration.         *)
(*                                                                         *)
(* pc        "check"    evaluating canPay(bill)                            *)
(*           "charge"   in autoCharge()                                    *)
(*           "debit"    at chargedMoney.minus(bill)                        *)
(*           "paid"     returned a Payment                                 *)
(*           "refused"  threw FailedPaymentException                       *)
(*           "overflow" threw the RuntimeException of Money's constructor  *)
(* start     the charged money the call began with (history)               *)
(* count     how many times autoCharge() has returned (history)            *)
(***************************************************************************)
EXTENDS Wallet

VARIABLES charged, auto, bill, pc, start, count

vars == <<charged, auto, bill, pc, start, count>>

Init ==
  /\ charged \in Money
  /\ auto \in Money
  /\ bill \in Money
  /\ pc = "check"
  /\ start = charged
  /\ count = 0

CheckFunds ==
  /\ pc = "check"
  /\ pc' = IF CanPay(charged, bill) THEN "debit"
           ELSE IF AutoChargeable(auto) THEN "charge"
           ELSE "refused"
  /\ UNCHANGED <<charged, auto, bill, start, count>>

\* Slip: the new Money that add() returns is dropped.
SumDropped ==
  /\ pc = "charge"
  /\ pc' = "check"
  /\ UNCHANGED <<charged, auto, bill, start, count>>

\* chargedMoney.add(autoChargeMoney): the wrapped sum goes to Money's
\* constructor, which throws when it is negative.
AutoCharge ==
  /\ pc = "charge"
  /\ LET sum == Wrap(charged + auto)
     IN  \/ /\ sum >= 0
            /\ charged' = sum
            /\ count' = count + 1
            /\ pc' = "check"
         \/ /\ sum < 0
            /\ pc' = "overflow"
            /\ UNCHANGED <<charged, count>>
  /\ UNCHANGED <<auto, bill, start>>

Debit ==
  /\ pc = "debit"
  /\ charged' = charged - bill
  /\ pc' = "paid"
  /\ UNCHANGED <<auto, bill, start, count>>

Next == CheckFunds \/ AutoCharge \/ Debit

Spec == Init /\ [][Next]_vars

\* pay() is straight-line code of one thread: it keeps running.
FairSpec == Spec /\ WF_vars(Next)

-----------------------------------------------------------------------------
Ended == {"paid", "refused", "overflow"}

TypeOK ==
  /\ charged \in Money
  /\ auto \in Money
  /\ bill \in Money
  /\ start \in Money
  /\ count \in Nat
  /\ pc \in {"check", "charge", "debit"} \cup Ended

\* No money appears or disappears in a call: before the debit the wallet holds
\* what it started with and the automatic charges, after it the bill less, and
\* that is so although every sum is computed in wrapping arithmetic.
MoneyConserved ==
  charged + (IF pc = "paid" THEN bill ELSE 0) = start + count * auto

\* A call that returns leaves exactly what the closed form says, and a call
\* that throws is one the closed form calls unpayable.
AgreesWithClosedForm ==
  /\ pc = "paid" => /\ Payable(start, auto, bill)
                    /\ charged = Left(start, auto, bill)
                    /\ count = Charges(start, auto, bill)
  /\ pc \in {"refused", "overflow"} => ~Payable(start, auto, bill)

\* The while loop ends for every wallet and bill: the bill is covered, or the
\* sum overflows and the exception leaves the loop.
Terminates == <>(pc \in Ended)
=============================================================================
