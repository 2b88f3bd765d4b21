------------------------------ MODULE MCContext -----------------------------
(* Model-checking instances of Context: ids in the order of minting, and the *)
(* ids of the live runner, "msg-8", "msg-9", "msg-10" and so on, in theirs.  *)
EXTENDS Context

Minted == [id \in 1 .. MaxMessages |-> id]

\* Two-digit ids come before "msg-8" byte by byte.
Decimal == [id \in 1 .. MaxMessages |-> IF id <= 2 THEN MaxMessages + id ELSE id]
=============================================================================
