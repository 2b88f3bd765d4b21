----------------------------- MODULE Snapshots -----------------------------
(***************************************************************************)
(* The capability registry (src/registry.zig): readers take a counted      *)
(* handle on the current snapshot without a lock, one writer at a time     *)
(* puts another snapshot in its place, and whoever drops the last handle   *)
(* of a replaced snapshot frees it.                                        *)
(*                                                                         *)
(* Steps are the atomic operations of the code.  acquire has two of them:  *)
(* it loads the pointer and then raises the count it finds there.  With    *)
(* Undisturbed no pointer is exchanged while a reader is between the two,  *)
(* which is what the comment in acquire takes for granted.  An id stands   *)
(* for one life of an allocation.                                          *)
(***************************************************************************)
EXTENDS Naturals, FiniteSets

CONSTANTS
  Readers,
  Writer,         \* the thread that installs snapshots
  MaxSnapshots,   \* bound of the model on snapshots ever built
  Undisturbed,
  NoSnapshot

ASSUME SnapshotsAssumption ==
  /\ IsFiniteSet(Readers) /\ Writer \notin Readers
  /\ MaxSnapshots \in Nat \ {0}
  /\ Undisturbed \in BOOLEAN
  /\ NoSnapshot \notin 1 .. MaxSnapshots

Threads == Readers \cup {Writer}
Ids == 1 .. MaxSnapshots

VARIABLES
  built,     \* snapshots built so far
  current,   \* the registry's pointer
  refcount,
  live,      \* built and not freed
  hand       \* what each thread is doing with which snapshot

regVars == <<built, current, refcount, live, hand>>

Free == [at |-> "none", snap |-> NoSnapshot]

RegistryTypeOK ==
  /\ built \in Ids
  /\ current \in 1 .. built
  /\ refcount \in [Ids -> Nat]
  /\ live \subseteq 1 .. built
  /\ hand \in [Threads -> {Free} \cup
               [at: {"loaded", "held", "dropped", "unused"}, snap: 1 .. built]]

\* The registry starts with an empty snapshot, which the installer holds.
RegistryInit ==
  /\ built = 1
  /\ current = 1
  /\ refcount = [s \in Ids |-> IF s = 1 THEN 1 ELSE 0]
  /\ live = {1}
  /\ hand = [t \in Threads |-> Free]

-----------------------------------------------------------------------------

\* acquire reads the pointer.
Load(r) ==
  /\ hand[r] = Free
  /\ hand' = [hand EXCEPT ![r] = [at |-> "loaded", snap |-> current]]
  /\ UNCHANGED <<built, current, refcount, live>>

\* acquire raises the count of what it read.
Count(r) ==
  /\ hand[r].at = "loaded"
  /\ refcount' = [refcount EXCEPT ![hand[r].snap] = @ + 1]
  /\ hand' = [hand EXCEPT ![r] = [at |-> "held", snap |-> hand[r].snap]]
  /\ UNCHANGED <<built, current, live>>

\* buildSnapshot and the exchange of the pointer in swap.  What swap then
\* releases is the handle the installer had on the old snapshot.
Swap ==
  /\ hand[Writer] = Free
  /\ Undisturbed => \A r \in Readers : hand[r].at # "loaded"
  /\ built < MaxSnapshots
  /\ built' = built + 1
  /\ current' = built + 1
  /\ refcount' = [refcount EXCEPT ![built + 1] = 1]
  /\ live' = live \cup {built + 1}
  /\ hand' = [hand EXCEPT ![Writer] = [at |-> "held", snap |-> current]]

\* Variant: release lets go when the count was two.
DropEarly(t) ==
  /\ hand[t].at = "held"
  /\ refcount' = [refcount EXCEPT ![hand[t].snap] = @ - 1]
  /\ hand' = [hand EXCEPT ![t] = IF refcount[hand[t].snap] > 2 THEN Free
                                 ELSE [at |-> "dropped", snap |-> hand[t].snap]]
  /\ UNCHANGED <<built, current, live>>

\* release lowers the count, and is done with it unless it was the last.
Drop(t) ==
  /\ hand[t].at = "held"
  /\ refcount' = [refcount EXCEPT ![hand[t].snap] = @ - 1]
  /\ hand' = [hand EXCEPT ![t] = IF refcount[hand[t].snap] # 1 THEN Free
                                 ELSE [at |-> "dropped", snap |-> hand[t].snap]]
  /\ UNCHANGED <<built, current, live>>

\* release, after the last handle, compares with the pointer.
Compare(t) ==
  /\ hand[t].at = "dropped"
  /\ hand' = [hand EXCEPT ![t] = IF hand[t].snap = current THEN Free
                                 ELSE [at |-> "unused", snap |-> hand[t].snap]]
  /\ UNCHANGED <<built, current, refcount, live>>

FreeSnapshot(t) ==
  /\ hand[t].at = "unused"
  /\ live' = live \ {hand[t].snap}
  /\ hand' = [hand EXCEPT ![t] = Free]
  /\ UNCHANGED <<built, current, refcount>>

\* What goes on whether or not the writer installs.
RegistryStep ==
  \/ \E r \in Readers : Load(r) \/ Count(r)
  \/ \E t \in Threads : Drop(t) \/ Compare(t) \/ FreeSnapshot(t)

-----------------------------------------------------------------------------

InUse == {hand[t].snap : t \in {u \in Threads : hand[u].at \in {"held", "dropped", "unused"}}}

\* A snapshot is in memory exactly as long as it is the current one or some
\* thread has a handle on it or is about to free it: no handle refers to freed
\* memory, nothing is freed twice, and nothing replaced is kept for ever.
\* "The old snapshot lives until every reader has released its handle, then
\* frees itself" (src/registry.zig:6).
LivesWhileUsed ==
  /\ live = {current} \cup InUse
  /\ \A t, u \in Threads :
       hand[t].at = "unused" /\ hand[u].at \in {"held", "dropped", "unused"}
       /\ hand[t].snap = hand[u].snap => t = u

\* What acquire reads is still in memory when acquire raises its count:
\* "refcount only hits zero AFTER the snapshot is no longer current, so the
\* load above guarantees > 0" (src/registry.zig:109).
LoadKeepsAlive ==
  \A r \in Readers : hand[r].at = "loaded" => hand[r].snap \in live

=============================================================================
