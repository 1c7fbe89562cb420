--------------------------- MODULE PaymentLedger ----------------------------
(***************************************************************************)
(* What the payment system promises, with no requests, caches or locks: a  *)
(* ledger of shoppers' money in which a payment is one indivisible step.   *)
(* A token that is open can be paid with, which closes it, takes the money *)
(* from its owner's wallet and leaves a receipt, all at once.              *)
(*                                                                         *)
(* A token is named by its owner and its id, as the data grid's TokenKey.  *)
(***************************************************************************)
EXTENDS Wallet

CONSTANTS
  Shopper, TokenId,
  Request,      \* the payment requests
  NoRequest,
  Amount,       \* the billing amounts
  AutoCharge,   \* shopper |-> the auto-charge amount of the wallet
  InitBalance   \* shopper |-> the money the wallet starts with

Key == Shopper \X TokenId
Owner(k) == k[1]

VARIABLES
  balance,  \* shopper |-> charged money
  open,     \* key |-> the token can be paid with
  receipt   \* key |-> the request the token was last paid by

vars == <<balance, open, receipt>>

Init ==
  /\ balance = InitBalance
  /\ open = [k \in Key |-> FALSE]
  /\ receipt = [k \in Key |-> NoRequest]

Issue(k) ==
  /\ open' = [open EXCEPT ![k] = TRUE]
  /\ UNCHANGED <<balance, receipt>>

Pay(r, k, amount) ==
  LET s == Owner(k)
  IN  /\ open[k]
      /\ Payable(balance[s], AutoCharge[s], amount)
      /\ balance' = [balance EXCEPT ![s] = Left(@, AutoCharge[s], amount)]
      /\ open' = [open EXCEPT ![k] = FALSE]
      /\ receipt' = [receipt EXCEPT ![k] = r]

\* The token and payment caches hold a bounded number of entries and remove
\* the rest: a token can vanish before it is paid with, a receipt at any time.
Expire(k) ==
  /\ open' = [open EXCEPT ![k] = FALSE]
  /\ UNCHANGED <<balance, receipt>>

Forget(k) ==
  /\ receipt' = [receipt EXCEPT ![k] = NoRequest]
  /\ UNCHANGED <<balance, open>>

Next ==
  \E k \in Key :
    \/ Issue(k)
    \/ \E r \in Request, amount \in Amount : Pay(r, k, amount)
    \/ Expire(k)
    \/ Forget(k)

Spec == Init /\ [][Next]_vars
=============================================================================
