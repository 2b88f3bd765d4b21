----------------------------- MODULE Transcript -----------------------------
(***************************************************************************)
(* What the context engine promises of a session, without ids, markers and *)
(* ranges (src/context/default_engine.zig): its messages follow one        *)
(* another, and compaction folds them up from the oldest to all but the    *)
(* last Keep.  A message once folded stays so, and none is passed over.    *)
(***************************************************************************)
EXTENDS Naturals, FiniteSets

CONSTANTS
  Sessions,
  Positions,  \* where a message may stand in the list of all sessions
  Keep        \* messages of a session that compaction leaves alone

VARIABLES
  said,    \* the messages of each session, by position
  folded   \* those that only a summary tells

vars == <<said, folded>>

Init ==
  /\ said = [s \in Sessions |-> {}]
  /\ folded = [s \in Sessions |-> {}]

\* A message is new, and behind all others.
Say(s) ==
  /\ \E i \in Positions :
       /\ \A t \in Sessions : \A j \in said[t] : j < i
       /\ said' = [said EXCEPT ![s] = @ \cup {i}]
  /\ UNCHANGED folded

\* The latest messages stay as they are, and all others are folded up.
Fold(s) ==
  /\ \E latest \in SUBSET (said[s] \ folded[s]) :
       /\ Cardinality(latest) = Keep /\ latest # said[s] \ folded[s]
       /\ \A i \in said[s] \ latest, j \in latest : i < j
       /\ folded' = [folded EXCEPT ![s] = said[s] \ latest]
  /\ UNCHANGED said

Next == \E s \in Sessions : Say(s) \/ Fold(s)

Spec == Init /\ [][Next]_vars
=============================================================================
