----------------------------- MODULE MCDispatch -----------------------------
(* Model-checking instance of Dispatch: two message values over a ring of   *)
(* three slots, with enough enqueues for head and tail to wrap twice.      *)
EXTENDS Dispatch
=============================================================================
