----------------------------- MODULE MCInstances -----------------------------
(* Model-checking instance of Instances: windows of one unit each, so that a *)
(* step may stall for as long as a window, and one id more than the clients  *)
(* can hold, so that a row may be left behind.                               *)
EXTENDS Instances
=============================================================================
