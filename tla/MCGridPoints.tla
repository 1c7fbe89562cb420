---------------------------- MODULE MCGridPoints -----------------------------
(***************************************************************************)
(* Values of GridPoints' constants for TLC.                                *)
(***************************************************************************)
EXTENDS GridPoints

\* The first shopper's wallet charges automatically and is empty at first; that of the
\* others covers one bill of 250 and refuses the second.
FirstCharges == [s \in Shopper |-> IF s = First THEN 200 ELSE 0]
OthersHold == [s \in Shopper |-> IF s = First THEN 0 ELSE 300]

\* Nothing tells two requests apart but what they are for: when they are of two shoppers,
\* it does not matter which of them is the first shopper's.
OneRequest == CHOOSE r \in Request : TRUE

MCInit ==
  /\ InitP
  /\ (\E r \in Request : Payer(r) = First) => Payer(OneRequest) = First

MCSpec == MCInit /\ [][NextP]_systemVars /\ KeepsGoing
=============================================================================
