----------------------------- MODULE MCDecimals -----------------------------
(***************************************************************************)
(* Amounts around every threshold: negative, half of 1e-9, 1e-9, half a     *)
(* unit, and numbers of units with and without a fraction.                  *)
(***************************************************************************)
EXTENDS Decimals

MCAmounts == {-30, 1, 2, 10, 31, 60}
MCRates == {1, 5, 14}
=============================================================================
