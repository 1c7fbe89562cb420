--------------------------- MODULE MCGridPayment ----------------------------
(***************************************************************************)
(* Values of GridPayment's constants for TLC.                              *)
(***************************************************************************)
EXTENDS GridPayment, TLC

\* A wallet that charges automatically, and starts with too little.
AutoTwo == [s \in Shopper |-> 2]
BalanceOne == [s \in Shopper |-> 1]

\* Requests are interchangeable: no constant and no property tells them apart.
RequestSymmetry == Permutations(Request)
=============================================================================
