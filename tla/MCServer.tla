------------------------------ MODULE MCServer ------------------------------
(***************************************************************************)
(* An old release and a new one with two migrations more, side by side.      *)
(***************************************************************************)
EXTENDS Server

CONSTANTS old, new, c1, c2

MCTarget == [i \in Instances |-> IF i = old THEN 1 ELSE 3]
MCProcedures == {"UpdateExpense", "UpdateAccount"}
=============================================================================
