----------------------------- MODULE MCMonolith -----------------------------
(***************************************************************************)
(* Values of Monolith's constants for TLC.                                 *)
(***************************************************************************)
EXTENDS Monolith, TLC

\* A wallet that charges automatically, and starts with too little.
AutoTwo == [s \in Shopper |-> 2]
BalanceOne == [s \in Shopper |-> 1]

\* A wallet that does not charge automatically.
NoAutoCharge == [s \in Shopper |-> 0]
BalanceThree == [s \in Shopper |-> 3]
Balance300 == [s \in Shopper |-> 300]

\* Requests are interchangeable, and so are the requests for a new token: no
\* constant and no property tells them apart.
TxSymmetry == Permutations(Request) \cup Permutations(Creator)
=============================================================================
