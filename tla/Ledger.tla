------------------------------- MODULE Ledger -------------------------------
(***************************************************************************)
(* The cost ledger (src/cost/ledger.zig) and its callers: provider wrappers *)
(* that settle with commitUsage, and code that takes a Held from           *)
(* src/harness/shared_ledger.zig and settles with commit or with deinit.   *)
(*                                                                         *)
(* Each call of the ledger runs under its spin lock and is one step.  The  *)
(* provider's answer comes between reserving and settling, and commitUsage *)
(* is two calls, so other callers and readers run in between.  Amounts are *)
(* unsigned and additions saturate at Top, the greatest of them.           *)
(***************************************************************************)
EXTENDS Naturals, FiniteSets

CONSTANTS
  Callers,
  Wrapped,    \* the callers that hold a Held, the others use commitUsage
  Ids,        \* reservation ids
  Amounts,    \* upper bounds and costs
  Ceiling,    \* ceiling_micros, 0 for none
  Top,        \* the greatest u64
  MaxBilled,  \* bound of the model on what providers charge in all
  None        \* not in the map of reservations

ASSUME LedgerAssumption ==
  /\ IsFiniteSet(Callers) /\ Wrapped \subseteq Callers
  /\ IsFiniteSet(Ids)
  /\ Amounts \subseteq 0 .. Top
  /\ Ceiling \in 0 .. Top
  /\ {Top, MaxBilled} \subseteq Nat
  /\ None \notin Nat /\ None \notin Ids

VARIABLES
  spent, pending,  \* spent_micros, pending_micros
  reservations,    \* the map from ids to amounts
  call,            \* what each caller is at, its handle, and a cost it has
                   \* still to report
  billed,          \* what providers charged
  direct,          \* what went through recordDirect
  refused          \* what commit refused to book

vars == <<spent, pending, reservations, call, billed, direct, refused>>

\* Variant: the sum does not saturate.
PlusPlain(a, b) == a + b

\* +| and -|
Plus(a, b) == IF a + b > Top THEN Top ELSE a + b

Minus(a, b) == IF a < b THEN 0 ELSE a - b

TypeOK ==
  /\ spent \in 0 .. Top /\ pending \in 0 .. Top
  /\ reservations \in [Ids -> 0 .. Top \cup {None}]
  /\ call \in [Callers -> [at: {"idle", "calling", "settling", "short", "dropping"},
                           id: Ids \cup {None}, cost: 0 .. Top]]
  /\ {billed, direct, refused} \subseteq Nat

Init ==
  /\ spent = 0 /\ pending = 0
  /\ reservations = [i \in Ids |-> None]
  /\ call = [c \in Callers |-> [at |-> "idle", id |-> None, cost |-> 0]]
  /\ billed = 0 /\ direct = 0 /\ refused = 0

-----------------------------------------------------------------------------
(* The ledger's calls, as they change spent, pending and the reservations.  *)

\* Variant: the ceiling is compared with what was spent alone.
FitsSpent(n) == Ceiling = 0 \/ Plus(spent, n) <= Ceiling

Fits(n) == Ceiling = 0 \/ Plus(Plus(spent, pending), n) <= Ceiling

Book(i, n) ==
  /\ Fits(n)
  /\ reservations' = [reservations EXCEPT ![i] = n]
  /\ pending' = Plus(pending, n)
  /\ UNCHANGED spent

Known(i) == i # None /\ reservations[i] # None

\* Variant: the reservation stays in the map.
SettleKeeping(i, actual) ==
  /\ pending' = Minus(pending, reservations[i])
  /\ spent' = Plus(spent, actual)
  /\ UNCHANGED reservations

\* commit of a reservation that holds `actual`, and release, which spends 0.
Settle(i, actual) ==
  /\ reservations' = [reservations EXCEPT ![i] = None]
  /\ pending' = Minus(pending, reservations[i])
  /\ spent' = Plus(spent, actual)

-----------------------------------------------------------------------------
(* The callers.                                                             *)

\* A caller gets to `at` with a cost still to report; it keeps its handle.
Becomes(c, at, cost) ==
  call' = [call EXCEPT ![c] = [at |-> at, id |-> @.id, cost |-> cost]]

Bill(cost) == billed + cost <= MaxBilled /\ billed' = billed + cost

\* next_id never comes back: no handle carries a fresh id.
Fresh(i) == ~Known(i) /\ \A c \in Callers : call[c].id # i

\* A refusal changes nothing.
Reserve(c) ==
  /\ call[c].at = "idle"
  /\ \E i \in Ids, n \in Amounts :
       /\ Fresh(i)
       /\ Book(i, n)
       /\ call' = [call EXCEPT ![c] = [at |-> "calling", id |-> i, cost |-> 0]]
  /\ UNCHANGED <<billed, direct, refused>>

\* The provider answers, with a cost that may exceed what was reserved.
Answer(c) ==
  /\ call[c].at = "calling"
  /\ \E cost \in Amounts :
       /\ Bill(cost)
       /\ Becomes(c, "settling", cost)
  /\ UNCHANGED <<spent, pending, reservations, direct, refused>>

CallFails(c) ==
  /\ call[c].at = "calling"
  /\ Becomes(c, "dropping", 0)
  /\ UNCHANGED <<spent, pending, reservations, billed, direct, refused>>

\* commitUsage up to its commit, which is clamped to the reservation.
CommitUsage(c) ==
  LET i == call[c].id
      excess == Minus(call[c].cost, reservations[i])
  IN
  /\ call[c].at = "settling" /\ c \notin Wrapped
  /\ Known(i)
  /\ Settle(i, call[c].cost - excess)
  /\ Becomes(c, IF excess > 0 THEN "short" ELSE "idle", excess)
  /\ UNCHANGED <<billed, direct, refused>>

\* Variant: the excess is dropped.
RecordNothing(c) ==
  /\ call[c].at = "short"
  /\ Becomes(c, "idle", 0)
  /\ UNCHANGED <<spent, pending, reservations, billed, direct, refused>>

\* Its recordDirect.
RecordExcess(c) ==
  /\ call[c].at = "short"
  /\ spent' = Plus(spent, call[c].cost)
  /\ direct' = direct + call[c].cost
  /\ Becomes(c, "idle", 0)
  /\ UNCHANGED <<pending, reservations, billed, refused>>

\* Held.commit; too much is OverCommit, which leaves the reservation to deinit.
CommitHeld(c) ==
  LET i == call[c].id IN
  /\ call[c].at = "settling" /\ c \in Wrapped
  /\ Known(i)
  /\ \/ /\ call[c].cost <= reservations[i]
        /\ Settle(i, call[c].cost)
        /\ Becomes(c, "idle", 0)
        /\ UNCHANGED refused
     \/ /\ call[c].cost > reservations[i]
        /\ refused' = refused + call[c].cost
        /\ Becomes(c, "dropping", 0)
        /\ UNCHANGED <<spent, pending, reservations>>
  /\ UNCHANGED <<billed, direct>>

\* release, by deinit or by hand.
Release(c) ==
  /\ call[c].at = "dropping"
  /\ Known(call[c].id)
  /\ Settle(call[c].id, 0)
  /\ Becomes(c, "idle", 0)
  /\ UNCHANGED <<billed, direct, refused>>

\* A handle settled once more: UnknownReservation unless the map has its id.
SettleAgain(c) ==
  /\ call[c].at = "idle" /\ call[c].id # None
  /\ IF Known(call[c].id) THEN Settle(call[c].id, 0)
     ELSE UNCHANGED <<spent, pending, reservations>>
  /\ UNCHANGED <<call, billed, direct, refused>>

\* A cost that was incurred without a reservation.
RecordDirect(c) ==
  /\ call[c].at = "idle"
  /\ \E cost \in Amounts :
       /\ Bill(cost)
       /\ spent' = Plus(spent, cost)
       /\ direct' = direct + cost
  /\ UNCHANGED <<pending, reservations, call, refused>>

Finish(c) ==
  \/ Answer(c) \/ CallFails(c)
  \/ CommitUsage(c) \/ RecordExcess(c) \/ CommitHeld(c) \/ Release(c)

Next == \E c \in Callers : Reserve(c) \/ Finish(c) \/ SettleAgain(c) \/ RecordDirect(c)

Spec == Init /\ [][Next]_vars

\* A provider call ends, and its caller settles.
FairSpec == Spec /\ \A c \in Callers : WF_vars(Finish(c))

-----------------------------------------------------------------------------
(* Properties.  Sums are cardinalities of sets of units.                    *)

Units(x, n) == {x} \X (1 .. n)

Live == {i \in Ids : reservations[i] # None}

HeldUnits == UNION {Units(i, reservations[i]) : i \in Live}

(* pending_micros is the sum of the live reservations at every lock          *)
(* release, through commits that are clamped or refused, releases and       *)
(* handles settled twice.                                                   *)
PendingIsHeld == pending = Cardinality(HeldUnits)

(* With a ceiling, concurrent callers never have more spent and reserved     *)
(* than the ceiling, apart from what recordDirect let past it.              *)
CeilingHolds == Ceiling # 0 => spent + pending <= Ceiling + direct

UnreportedUnits == UNION {Units(c, call[c].cost) : c \in Callers}

(* What providers charged is in spent, or its caller is between the answer   *)
(* and the end of commitUsage, or commit refused to book it; nothing is     *)
(* counted twice.                                                           *)
BilledIsCounted ==
  spent < Top => spent + Cardinality(UnreportedUnits) + refused = billed

(* A reservation does not stay in the way: it is settled or released.        *)
ReservationsEnd == \A i \in Ids : Known(i) ~> ~Known(i)

(* ledger.zig:164-166: "refusing the record would hide reality without       *)
(* preventing it".  commit refuses one: a Held whose call cost more than it  *)
(* reserved is released by deinit, and the call is booked nowhere.          *)
NothingRefused == refused = 0

=============================================================================
