------------------------------ MODULE MCGridInit ------------------------------
(***************************************************************************)
(* Values of GridInit's constants for TLC.                                 *)
(***************************************************************************)
EXTENDS GridInit

AutoTwo == [s \in Shopper |-> 2]
BalanceOne == [s \in Shopper |-> 1]
=============================================================================
