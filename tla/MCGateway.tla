----------------------------- MODULE MCGateway -----------------------------
(* Model-checking instances of Gateway: one bot with up to four updates,   *)
(* or two bots that share a few; a queue and a batch small enough to fill. *)
EXTENDS Gateway
=============================================================================
