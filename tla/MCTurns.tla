------------------------------ MODULE MCTurns ------------------------------
(* Model-checking instances of Turns: two clients that have an agent each, *)
(* share a session, or share an agent through different sessions.          *)
EXTENDS Turns, TLC

CONSTANTS ann, bob

OwnAgents     == (ann :> 1) @@ (bob :> 2)
SharedSession == (ann :> 1) @@ (bob :> 1)
SharedAgent   == (ann :> 1) @@ (bob :> 3)
=============================================================================
