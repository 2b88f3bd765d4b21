------------------------------ MODULE MCLedger ------------------------------
(* Model-checking instances of Ledger: one caller of each kind, amounts that *)
(* exceed the ceiling together but not alone.                               *)
EXTENDS Ledger
=============================================================================
