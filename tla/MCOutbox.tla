------------------------------ MODULE MCOutbox ------------------------------
(* Model-checking instances of Outbox: two replies, and delays of one, two *)
(* and three units, where the cap is no doubling, as 60 s is none of 1 s.  *)
EXTENDS Outbox
=============================================================================
