---------------------------- MODULE LedgerProofs ----------------------------
(***************************************************************************)
(* Theorems about Ledger, for every set of callers and ids, all amounts,   *)
(* ceilings and word widths.                                               *)
(***************************************************************************)
EXTENDS Ledger, FiniteSetTheorems, TLAPS

-----------------------------------------------------------------------------
(* Sums as cardinalities of sets of units.                                  *)

Sum(S, f) == UNION {Units(x, f[x]) : x \in S}

LEMMA UnitsCounted ==
  ASSUME NEW x, NEW n \in Nat
  PROVE  IsFiniteSet(Units(x, n)) /\ Cardinality(Units(x, n)) = n
<1>1. IsFiniteSet({x}) /\ Cardinality({x}) = 1
  BY FS_Singleton
<1>2. IsFiniteSet(1 .. n) /\ Cardinality(1 .. n) = n
  BY FS_Interval
<1>3. /\ IsFiniteSet({x} \X (1 .. n))
      /\ Cardinality({x} \X (1 .. n)) = Cardinality({x}) * Cardinality(1 .. n)
  BY <1>1, <1>2, FS_Product
<1>4. 1 * n = n
  OBVIOUS
<1> QED
  BY <1>1, <1>2, <1>3, <1>4 DEF Units

LEMMA SumFinite ==
  ASSUME NEW S, IsFiniteSet(S), NEW f, \A x \in S : f[x] \in Nat
  PROVE  IsFiniteSet(Sum(S, f)) /\ Cardinality(Sum(S, f)) \in Nat
<1> DEFINE g == [x \in S |-> Units(x, f[x])]
<1>1. IsFiniteSet({g[x] : x \in S})
  <2>1. g \in Surjection(S, {g[x] : x \in S})
    BY DEF Surjection
  <2> QED
    BY <2>1, FS_Surjection
<1>2. {g[x] : x \in S} = {Units(x, f[x]) : x \in S}
  OBVIOUS
<1>3. \A T \in {Units(x, f[x]) : x \in S} : IsFiniteSet(T)
  BY UnitsCounted
<1>4. IsFiniteSet(Sum(S, f))
  BY <1>1, <1>2, <1>3, FS_UNION DEF Sum
<1> QED
  BY <1>4, FS_CardinalityType

\* A sum is one term and the sum of the others.
LEMMA SumSplit ==
  ASSUME NEW S, IsFiniteSet(S), NEW f, \A x \in S : f[x] \in Nat, NEW x \in S
  PROVE  Cardinality(Sum(S, f)) = f[x] + Cardinality(Sum(S \ {x}, f))
<1>1. Sum(S, f) = Units(x, f[x]) \cup Sum(S \ {x}, f)
  BY DEF Sum
<1>2. Units(x, f[x]) \cap Sum(S \ {x}, f) = {}
  BY DEF Sum, Units
<1>3. IsFiniteSet(S \ {x})
  BY FS_RemoveElement
<1>4. IsFiniteSet(Sum(S \ {x}, f)) /\ Cardinality(Sum(S \ {x}, f)) \in Nat
  BY <1>3, SumFinite
<1>5. IsFiniteSet(Units(x, f[x])) /\ Cardinality(Units(x, f[x])) = f[x]
  BY UnitsCounted
<1>6. Cardinality({}) = 0
  BY FS_EmptySet
<1>7. Cardinality(Units(x, f[x]) \cup Sum(S \ {x}, f)) =
        Cardinality(Units(x, f[x])) + Cardinality(Sum(S \ {x}, f))
          - Cardinality(Units(x, f[x]) \cap Sum(S \ {x}, f))
  BY <1>4, <1>5, FS_Union
<1>8. Cardinality(Sum(S, f)) = Cardinality(Units(x, f[x]) \cup Sum(S \ {x}, f))
  BY <1>1
<1>9. Cardinality(Units(x, f[x]) \cap Sum(S \ {x}, f)) = 0
  BY <1>2, <1>6
<1>10. f[x] \in Nat
  OBVIOUS
<1> QED
  BY <1>4, <1>5, <1>7, <1>8, <1>9, <1>10

\* Equal terms, equal sums.
LEMMA SumSame ==
  ASSUME NEW S, NEW f, NEW g, \A x \in S : f[x] = g[x]
  PROVE  Sum(S, f) = Sum(S, g)
BY DEF Sum

\* One term changes.
LEMMA SumChange ==
  ASSUME NEW S, IsFiniteSet(S), NEW f, NEW g, NEW x \in S,
         \A y \in S : f[y] \in Nat, \A y \in S : g[y] \in Nat,
         \A y \in S \ {x} : f[y] = g[y]
  PROVE  Cardinality(Sum(S, g)) + f[x] = Cardinality(Sum(S, f)) + g[x]
<1>1. Cardinality(Sum(S, f)) = f[x] + Cardinality(Sum(S \ {x}, f))
  BY SumSplit
<1>2. Cardinality(Sum(S, g)) = g[x] + Cardinality(Sum(S \ {x}, g))
  BY SumSplit
<1>3. Sum(S \ {x}, f) = Sum(S \ {x}, g)
  BY SumSame
<1>4. Cardinality(Sum(S \ {x}, f)) \in Nat
  BY FS_RemoveElement, SumFinite
<1> QED
  BY <1>1, <1>2, <1>3, <1>4

-----------------------------------------------------------------------------
(* The ledger's sums.                                                       *)

Amount(v) == IF v = None THEN 0 ELSE v

\* The two sums, of any map of reservations and any calls.
Held(r)      == [i \in Ids |-> Amount(r[i])]
UnitsHeld(r) == UNION {Units(i, r[i]) : i \in {j \in Ids : r[j] # None}}
Cost(k)      == [c \in Callers |-> k[c].cost]

LEMMA Types ==
  ASSUME TypeOK
  PROVE  /\ spent \in Nat /\ spent <= Top /\ pending \in Nat /\ pending <= Top
         /\ reservations \in [Ids -> 0 .. Top \cup {None}]
         /\ \A i \in Ids : Amount(reservations[i]) \in 0 .. Top
         /\ call \in [Callers -> [at: {"idle", "calling", "settling", "short", "dropping"},
                                  id: Ids \cup {None}, cost: 0 .. Top]]
         /\ \A c \in Callers : call[c].cost \in Nat /\ call[c].cost <= Top
                            /\ call[c].id \in Ids \cup {None}
         /\ billed \in Nat /\ direct \in Nat /\ refused \in Nat
         /\ Top \in Nat /\ Ceiling \in Nat /\ Ceiling <= Top /\ 0 \in 0 .. Top
         /\ Amounts \subseteq 0 .. Top /\ Amounts \subseteq Nat
         /\ None \notin Nat /\ None \notin Ids
         /\ IsFiniteSet(Callers) /\ IsFiniteSet(Ids)
BY LedgerAssumption DEF TypeOK, Amount

\* The live reservations sum over all ids what they hold.
LEMMA HeldIsSum ==
  ASSUME NEW r \in [Ids -> 0 .. Top \cup {None}]
  PROVE  /\ UnitsHeld(r) = Sum(Ids, Held(r))
         /\ Cardinality(UnitsHeld(r)) \in Nat
         /\ \A i \in Ids : /\ Held(r)[i] = Amount(r[i]) /\ Held(r)[i] \in Nat
                           /\ Held(r)[i] <= Cardinality(UnitsHeld(r))
<1>0. Top \in Nat /\ None \notin Nat /\ IsFiniteSet(Ids)
  BY LedgerAssumption
<1>1. \A i \in Ids : Held(r)[i] = Amount(r[i]) /\ Held(r)[i] \in Nat
  BY <1>0 DEF Held, Amount
<1>2. \A i \in Ids : r[i] = None => Units(i, Held(r)[i]) = {}
  BY <1>1 DEF Amount, Units
<1>3. \A i \in Ids : r[i] # None => Held(r)[i] = r[i]
  BY <1>1 DEF Amount
<1>4. UnitsHeld(r) = Sum(Ids, Held(r))
  BY <1>2, <1>3 DEF UnitsHeld, Sum
<1>5. Cardinality(Sum(Ids, Held(r))) \in Nat
  BY <1>1, <1>0, SumFinite
<1>6. ASSUME NEW i \in Ids PROVE Held(r)[i] <= Cardinality(Sum(Ids, Held(r)))
  <2>1. Cardinality(Sum(Ids, Held(r))) = Held(r)[i] + Cardinality(Sum(Ids \ {i}, Held(r)))
    BY <1>1, <1>0, SumSplit
  <2>2. Cardinality(Sum(Ids \ {i}, Held(r))) \in Nat
    BY <1>1, <1>0, FS_RemoveElement, SumFinite
  <2> QED
    BY <2>1, <2>2, <1>1
<1> QED
  BY <1>1, <1>4, <1>5, <1>6

\* The reservation of one id changes.
LEMMA HeldChange ==
  ASSUME NEW r \in [Ids -> 0 .. Top \cup {None}], NEW i \in Ids,
         NEW v \in 0 .. Top \cup {None}
  PROVE  Cardinality(UnitsHeld([r EXCEPT ![i] = v])) + Amount(r[i]) =
           Cardinality(UnitsHeld(r)) + Amount(v)
<1> DEFINE s == [r EXCEPT ![i] = v]
<1>1. s \in [Ids -> 0 .. Top \cup {None}] /\ s[i] = v /\ \A j \in Ids \ {i} : s[j] = r[j]
  OBVIOUS
<1> HIDE DEF s
<1>2. /\ \A j \in Ids : Held(r)[j] \in Nat /\ Held(s)[j] \in Nat
      /\ Held(r)[i] = Amount(r[i]) /\ Held(s)[i] = Amount(v)
      /\ \A j \in Ids \ {i} : Held(r)[j] = Held(s)[j]
  BY <1>1, HeldIsSum
<1>3. Cardinality(Sum(Ids, Held(s))) + Held(r)[i] = Cardinality(Sum(Ids, Held(r))) + Held(s)[i]
  BY <1>2, LedgerAssumption, SumChange
<1>4. UnitsHeld(r) = Sum(Ids, Held(r)) /\ UnitsHeld(s) = Sum(Ids, Held(s))
  BY <1>1, HeldIsSum
<1>5. Cardinality(UnitsHeld(s)) + Amount(r[i]) = Cardinality(UnitsHeld(r)) + Amount(v)
  BY <1>2, <1>3, <1>4
<1> QED
  BY <1>5 DEF s

\* The cost one caller has to report changes.
LEMMA CostChange ==
  ASSUME NEW k, NEW l, NEW c \in Callers,
         \A d \in Callers : k[d].cost \in Nat /\ l[d].cost \in Nat,
         \A d \in Callers \ {c} : k[d].cost = l[d].cost
  PROVE  /\ Cardinality(Sum(Callers, Cost(l))) + k[c].cost =
              Cardinality(Sum(Callers, Cost(k))) + l[c].cost
         /\ Cardinality(Sum(Callers, Cost(k))) \in Nat
         /\ Cardinality(Sum(Callers, Cost(l))) \in Nat
<1>1. \A d \in Callers : Cost(k)[d] = k[d].cost /\ Cost(l)[d] = l[d].cost
  BY DEF Cost
<1>2. IsFiniteSet(Callers)
  BY LedgerAssumption
<1>3. Cardinality(Sum(Callers, Cost(l))) + Cost(k)[c] =
        Cardinality(Sum(Callers, Cost(k))) + Cost(l)[c]
  BY <1>1, <1>2, SumChange
<1> QED
  BY <1>1, <1>2, <1>3, SumFinite

LEMMA SumsAre ==
  /\ HeldUnits = UnitsHeld(reservations) /\ HeldUnits' = UnitsHeld(reservations')
  /\ UnreportedUnits = Sum(Callers, Cost(call)) /\ UnreportedUnits' = Sum(Callers, Cost(call'))
BY DEF HeldUnits, Live, UnitsHeld, UnreportedUnits, Sum, Cost

-----------------------------------------------------------------------------
(* What the ledger's calls and their callers do to the state.               *)

\* A caller has a cost to report only once it was answered.
QuietCosts ==
  \A c \in Callers : call[c].at \in {"idle", "calling", "dropping"} => call[c].cost = 0

CallType == [at: {"idle", "calling", "settling", "short", "dropping"},
             id: Ids \cup {None}, cost: 0 .. Top]

LEMMA PlusMinus ==
  ASSUME NEW a \in Nat, NEW b \in Nat
  PROVE  /\ Plus(a, b) \in 0 .. Top
         /\ Plus(a, b) <= a + b
         /\ Plus(a, b) < Top => Plus(a, b) = a + b
         /\ Minus(a, b) \in Nat /\ Minus(a, b) <= a
         /\ b <= a => Minus(a, b) = a - b
         /\ a <= b => Minus(a, b) = 0
BY LedgerAssumption DEF Plus, Minus

LEMMA Becoming ==
  ASSUME TypeOK, NEW c \in Callers, NEW cost \in 0 .. Top,
         NEW at \in {"idle", "calling", "settling", "short", "dropping"},
         Becomes(c, at, cost)
  PROVE  /\ call' \in [Callers -> CallType]
         /\ call'[c].at = at /\ call'[c].id = call[c].id /\ call'[c].cost = cost
         /\ \A d \in Callers \ {c} : call'[d] = call[d]
         /\ Cardinality(UnreportedUnits) \in Nat /\ Cardinality(UnreportedUnits)' \in Nat
         /\ Cardinality(UnreportedUnits)' + call[c].cost = Cardinality(UnreportedUnits) + cost
<1>1. call \in [Callers -> CallType]
  BY Types DEF CallType
<1>2. [at |-> at, id |-> call[c].id, cost |-> cost] \in CallType
  BY <1>1 DEF CallType
<1>3. call' = [call EXCEPT ![c] = [at |-> at, id |-> call[c].id, cost |-> cost]]
  BY DEF Becomes
<1>4. /\ call' \in [Callers -> CallType]
      /\ call'[c] = [at |-> at, id |-> call[c].id, cost |-> cost]
      /\ \A d \in Callers \ {c} : call'[d] = call[d]
  BY <1>1, <1>2, <1>3
<1>5. \A d \in Callers : call[d].cost \in Nat /\ call'[d].cost \in Nat
  BY <1>1, <1>4, LedgerAssumption DEF CallType
<1>6. /\ Cardinality(Sum(Callers, Cost(call'))) + call[c].cost =
           Cardinality(Sum(Callers, Cost(call))) + call'[c].cost
      /\ Cardinality(Sum(Callers, Cost(call))) \in Nat
      /\ Cardinality(Sum(Callers, Cost(call'))) \in Nat
  BY <1>4, <1>5, CostChange
<1> QED
  BY <1>4, <1>6, SumsAre

LEMMA Settling ==
  ASSUME TypeOK, NEW i, Known(i), i \in Ids \cup {None},
         NEW actual \in 0 .. Top, Settle(i, actual)
  PROVE  /\ i \in Ids /\ reservations[i] \in 0 .. Top
         /\ reservations' \in [Ids -> 0 .. Top \cup {None}]
         /\ pending' \in 0 .. Top /\ spent' \in 0 .. Top
         /\ spent' <= spent + actual
         /\ spent' < Top => spent' = spent + actual
         /\ PendingIsHeld => /\ pending' = pending - reservations[i]
                             /\ reservations[i] <= pending
                             /\ PendingIsHeld'
<1>1. i \in Ids /\ reservations[i] \in 0 .. Top /\ reservations[i] # None
  BY Types DEF Known
<1>2. /\ reservations' = [reservations EXCEPT ![i] = None]
      /\ pending' = Minus(pending, reservations[i]) /\ spent' = Plus(spent, actual)
  BY DEF Settle
<1>3. /\ reservations' \in [Ids -> 0 .. Top \cup {None}]
      /\ pending' \in 0 .. Top /\ spent' \in 0 .. Top
      /\ spent' <= spent + actual /\ (spent' < Top => spent' = spent + actual)
  <2>1. reservations' \in [Ids -> 0 .. Top \cup {None}]
    BY <1>2, Types
  <2>2. reservations[i] \in Nat /\ actual \in Nat /\ Top \in Nat
    BY <1>1, Types
  <2>3. Minus(pending, reservations[i]) \in Nat /\ Minus(pending, reservations[i]) <= pending
    BY <2>2, Types, PlusMinus
  <2>4. pending' \in 0 .. Top
    BY <1>2, <2>3, Types
  <2>5. /\ spent' \in 0 .. Top
        /\ spent' <= spent + actual /\ (spent' < Top => spent' = spent + actual)
    BY <1>2, <2>2, Types, PlusMinus
  <2> QED
    BY <2>1, <2>4, <2>5
<1>4. ASSUME PendingIsHeld
      PROVE  /\ pending' = pending - reservations[i] /\ reservations[i] <= pending
             /\ PendingIsHeld'
  <2>1. /\ Cardinality(UnitsHeld(reservations)) \in Nat
        /\ reservations[i] <= Cardinality(UnitsHeld(reservations))
    BY <1>1, Types, HeldIsSum DEF Amount
  <2>2. Cardinality(UnitsHeld(reservations')) + reservations[i] =
          Cardinality(UnitsHeld(reservations))
    <3>1. reservations \in [Ids -> 0 .. Top \cup {None}]
      BY Types
    <3>2. Cardinality(UnitsHeld([reservations EXCEPT ![i] = None])) + Amount(reservations[i]) =
            Cardinality(UnitsHeld(reservations)) + Amount(None)
      BY <1>1, <3>1, HeldChange
    <3>3. Amount(None) = 0 /\ Amount(reservations[i]) = reservations[i]
      BY <1>1 DEF Amount
    <3> QED
      BY <1>2, <2>1, <3>2, <3>3
  <2>3. Cardinality(UnitsHeld(reservations')) \in Nat
    BY <1>3, HeldIsSum
  <2>4. pending = Cardinality(UnitsHeld(reservations))
    BY <1>4, SumsAre DEF PendingIsHeld
  <2>5. pending' = pending - reservations[i] /\ reservations[i] <= pending
    BY <1>1, <1>2, <2>1, <2>4, Types, PlusMinus
  <2>6. pending' = Cardinality(UnitsHeld(reservations'))
    BY <1>1, <2>1, <2>2, <2>3, <2>4, <2>5
  <2> QED
    BY <2>5, <2>6, SumsAre DEF PendingIsHeld
<1> QED
  BY <1>1, <1>3, <1>4

LEMMA Booking ==
  ASSUME TypeOK, NEW i \in Ids, ~Known(i), NEW n \in Amounts, Book(i, n)
  PROVE  /\ reservations' \in [Ids -> 0 .. Top \cup {None}]
         /\ pending' \in 0 .. Top /\ spent' = spent
         /\ Ceiling \in 1 .. Top - 1 /\ PendingIsHeld =>
              pending' = pending + n /\ spent + pending + n <= Ceiling /\ PendingIsHeld'
<1>1. n \in 0 .. Top /\ n \in Nat /\ reservations[i] = None
  BY Types DEF Known
<1>2. /\ reservations' = [reservations EXCEPT ![i] = n]
      /\ pending' = Plus(pending, n) /\ spent' = spent /\ Fits(n)
  BY DEF Book
<1>3. reservations' \in [Ids -> 0 .. Top \cup {None}] /\ pending' \in 0 .. Top
  BY <1>1, <1>2, Types, PlusMinus
<1>4. ASSUME Ceiling \in 1 .. Top - 1, PendingIsHeld
      PROVE  pending' = pending + n /\ spent + pending + n <= Ceiling /\ PendingIsHeld'
  <2>1. Plus(Plus(spent, pending), n) <= Ceiling /\ Ceiling < Top
    BY <1>2, <1>4, Types DEF Fits
  <2>2. spent + pending + n <= Ceiling
    BY <1>1, <2>1, Types DEF Plus
  <2>3. pending' = pending + n
    BY <1>1, <1>2, <2>1, <2>2, Types DEF Plus
  <2>4. Cardinality(UnitsHeld(reservations')) = Cardinality(UnitsHeld(reservations)) + n
    <3>1. Amount(reservations[i]) = 0 /\ Amount(n) = n
      BY <1>1, Types DEF Amount
    <3>2. reservations \in [Ids -> 0 .. Top \cup {None}]
      BY Types
    <3>3. Cardinality(UnitsHeld([reservations EXCEPT ![i] = n])) + Amount(reservations[i]) =
            Cardinality(UnitsHeld(reservations)) + Amount(n)
      BY <1>1, <3>2, HeldChange
    <3>4. Cardinality(UnitsHeld(reservations')) \in Nat
      BY <1>3, HeldIsSum
    <3> QED
      BY <1>1, <1>2, <3>1, <3>3, <3>4
  <2> QED
    BY <1>4, <2>2, <2>3, <2>4, SumsAre DEF PendingIsHeld
<1> QED
  BY <1>2, <1>3, <1>4

-----------------------------------------------------------------------------
(* The steps.                                                               *)

\* Nothing is lost between a provider's charge and the ledger.
CountInv == TypeOK /\ QuietCosts /\ BilledIsCounted

LEMMA CountStep == CountInv /\ [Next]_vars => CountInv'
<1> SUFFICES ASSUME CountInv, [Next]_vars PROVE CountInv'
  OBVIOUS
<1> USE DEF CallType
<1>i. TypeOK /\ QuietCosts /\ BilledIsCounted
  BY DEF CountInv
<1>t. /\ \A c \in Callers : call[c].id \in Ids \cup {None} /\ call[c].cost \in 0 .. Top
      /\ \A c \in Callers : call[c].cost \in Nat
      /\ Cardinality(UnreportedUnits) \in Nat
      /\ spent \in Nat /\ billed \in Nat /\ direct \in Nat /\ refused \in Nat /\ Top \in Nat
  <2>1. \A c \in Callers : call[c].cost \in Nat
    BY <1>i, Types
  <2>2. Cardinality(Sum(Callers, Cost(call))) \in Nat
    BY <2>1, LedgerAssumption, SumFinite DEF Cost
  <2> QED
    BY <2>1, <2>2, <1>i, Types, SumsAre
<1>b. spent < Top => spent + Cardinality(UnreportedUnits) + refused = billed
  BY <1>i DEF BilledIsCounted
<1>1. ASSUME NEW c \in Callers, Reserve(c) PROVE CountInv'
  <2>1. PICK i \in Ids, n \in Amounts :
          /\ Fresh(i) /\ Book(i, n)
          /\ call' = [call EXCEPT ![c] = [at |-> "calling", id |-> i, cost |-> 0]]
    BY <1>1 DEF Reserve
  <2>2. /\ reservations' \in [Ids -> 0 .. Top \cup {None}]
        /\ pending' \in 0 .. Top /\ spent' = spent
    BY <2>1, <1>i, Booking DEF Fresh
  <2>3. call[c].at = "idle" /\ billed' = billed /\ direct' = direct /\ refused' = refused
    BY <1>1 DEF Reserve
  <2>4. call' \in [Callers -> CallType]
    BY <2>1, <1>i, Types
  <2>5. \A d \in Callers : call'[d].cost = call[d].cost
    BY <2>1, <2>3, <1>i, Types DEF QuietCosts
  <2>6. UnreportedUnits' = UnreportedUnits
    BY <2>5 DEF UnreportedUnits
  <2>7. TypeOK'
    BY <2>2, <2>3, <2>4, <1>i DEF TypeOK
  <2>8. QuietCosts'
    BY <2>1, <2>5, <1>i, Types DEF QuietCosts
  <2>9. BilledIsCounted'
    BY <2>2, <2>3, <2>6, <1>b DEF BilledIsCounted
  <2> QED
    BY <2>7, <2>8, <2>9 DEF CountInv
<1>2. ASSUME NEW c \in Callers, Answer(c) PROVE CountInv'
  <2>1. PICK cost \in Amounts : Bill(cost) /\ Becomes(c, "settling", cost)
    BY <1>2 DEF Answer
  <2>2. cost \in 0 .. Top /\ cost \in Nat /\ call[c].cost = 0
    BY <1>2, <1>i, Types DEF Answer, QuietCosts
  <2>3. /\ spent' = spent /\ pending' = pending /\ reservations' = reservations
        /\ direct' = direct /\ refused' = refused /\ billed' = billed + cost
    BY <1>2, <2>1 DEF Answer, Bill
  <2>4. /\ call' \in [Callers -> CallType]
        /\ call'[c].at = "settling" /\ \A d \in Callers \ {c} : call'[d] = call[d]
        /\ Cardinality(UnreportedUnits)' \in Nat
        /\ Cardinality(UnreportedUnits)' + call[c].cost = Cardinality(UnreportedUnits) + cost
    BY <2>1, <2>2, <1>i, Becoming
  <2>5. TypeOK'
    BY <2>2, <2>3, <2>4, <1>i, <1>t DEF TypeOK
  <2>6. QuietCosts'
    BY <2>4, <1>i DEF QuietCosts
  <2>7. BilledIsCounted'
    BY <2>2, <2>3, <2>4, <1>b, <1>t DEF BilledIsCounted
  <2> QED
    BY <2>5, <2>6, <2>7 DEF CountInv
<1>3. ASSUME NEW c \in Callers, CallFails(c) PROVE CountInv'
  <2>1. /\ Becomes(c, "dropping", 0) /\ call[c].at = "calling"
        /\ spent' = spent /\ pending' = pending /\ reservations' = reservations
        /\ direct' = direct /\ refused' = refused /\ billed' = billed
    BY <1>3 DEF CallFails
  <2>2. call[c].cost = 0 /\ 0 \in 0 .. Top
    BY <2>1, <1>i, Types DEF QuietCosts
  <2>3. /\ call' \in [Callers -> CallType]
        /\ call'[c].cost = 0 /\ \A d \in Callers \ {c} : call'[d] = call[d]
        /\ Cardinality(UnreportedUnits)' \in Nat
        /\ Cardinality(UnreportedUnits)' + call[c].cost = Cardinality(UnreportedUnits) + 0
    BY <2>1, <2>2, <1>i, Becoming
  <2>4. TypeOK'
    BY <2>1, <2>3, <1>i DEF TypeOK
  <2>5. QuietCosts'
    BY <2>3, <1>i DEF QuietCosts
  <2>6. BilledIsCounted'
    BY <2>1, <2>2, <2>3, <1>b, <1>t DEF BilledIsCounted
  <2> QED
    BY <2>4, <2>5, <2>6 DEF CountInv
<1>4. ASSUME NEW c \in Callers, CommitUsage(c) PROVE CountInv'
  <2> DEFINE i == call[c].id
             excess == Minus(call[c].cost, reservations[i])
             at == IF excess > 0 THEN "short" ELSE "idle"
  <2>1. /\ call[c].at = "settling" /\ Known(i) /\ Settle(i, call[c].cost - excess)
        /\ Becomes(c, at, excess)
        /\ direct' = direct /\ refused' = refused /\ billed' = billed
    BY <1>4 DEF CommitUsage
  <2>2. reservations[i] \in Nat
    BY <2>1, <1>i, <1>t, Types DEF Known
  <2>3. excess \in 0 .. Top /\ excess \in Nat /\ call[c].cost - excess \in 0 .. Top
    <3>1. /\ Minus(call[c].cost, reservations[i]) \in Nat
          /\ Minus(call[c].cost, reservations[i]) <= call[c].cost
      BY <2>2, <1>t, PlusMinus
    <3> QED
      BY <3>1, <1>t
  <2> HIDE DEF i, excess
  <2>4. at \in {"idle", "calling", "settling", "short", "dropping"}
    OBVIOUS
  <2>5. /\ reservations' \in [Ids -> 0 .. Top \cup {None}]
        /\ pending' \in 0 .. Top /\ spent' \in 0 .. Top
        /\ spent' < Top => spent' = spent + (call[c].cost - excess)
    BY <2>1, <2>3, <1>i, <1>t, Settling DEF i
  <2>6. /\ call' \in [Callers -> CallType]
        /\ call'[c].at = at /\ call'[c].cost = excess
        /\ \A d \in Callers \ {c} : call'[d] = call[d]
        /\ Cardinality(UnreportedUnits)' \in Nat
        /\ Cardinality(UnreportedUnits)' + call[c].cost = Cardinality(UnreportedUnits) + excess
    BY <2>1, <2>3, <2>4, <1>i, Becoming
  <2>7. TypeOK'
    BY <2>1, <2>5, <2>6, <1>i DEF TypeOK
  <2>8. QuietCosts'
    BY <2>3, <2>6, <1>i DEF QuietCosts
  <2>9. BilledIsCounted'
    <3>1. ASSUME spent' < Top
          PROVE  spent' + Cardinality(UnreportedUnits)' + refused' = billed'
      BY <3>1, <2>1, <2>3, <2>5, <2>6, <1>b, <1>t
    <3> QED
      BY <3>1 DEF BilledIsCounted
  <2> QED
    BY <2>7, <2>8, <2>9 DEF CountInv
<1>5. ASSUME NEW c \in Callers, RecordExcess(c) PROVE CountInv'
  <2>1. /\ Becomes(c, "idle", 0)
        /\ spent' = Plus(spent, call[c].cost) /\ direct' = direct + call[c].cost
        /\ pending' = pending /\ reservations' = reservations
        /\ refused' = refused /\ billed' = billed
    BY <1>5 DEF RecordExcess
  <2>2. 0 \in 0 .. Top
    BY <1>t
  <2>3. /\ call' \in [Callers -> CallType]
        /\ call'[c].cost = 0 /\ \A d \in Callers \ {c} : call'[d] = call[d]
        /\ Cardinality(UnreportedUnits)' \in Nat
        /\ Cardinality(UnreportedUnits)' + call[c].cost = Cardinality(UnreportedUnits) + 0
    BY <2>1, <2>2, <1>i, Becoming
  <2>4. spent' \in 0 .. Top /\ (spent' < Top => spent' = spent + call[c].cost)
    BY <2>1, <1>t, PlusMinus
  <2>5. TypeOK'
    BY <2>1, <2>3, <2>4, <1>i, <1>t DEF TypeOK
  <2>6. QuietCosts'
    BY <2>3, <1>i DEF QuietCosts
  <2>7. BilledIsCounted'
    <3>1. ASSUME spent' < Top
          PROVE  spent' + Cardinality(UnreportedUnits)' + refused' = billed'
      BY <3>1, <2>1, <2>3, <2>4, <1>b, <1>t
    <3> QED
      BY <3>1 DEF BilledIsCounted
  <2> QED
    BY <2>5, <2>6, <2>7 DEF CountInv
<1>6. ASSUME NEW c \in Callers, CommitHeld(c) PROVE CountInv'
  <2> DEFINE i == call[c].id
  <2>1. Known(i) /\ direct' = direct /\ billed' = billed /\ 0 \in 0 .. Top
    BY <1>6, <1>t DEF CommitHeld
  <2>2. CASE Settle(i, call[c].cost) /\ Becomes(c, "idle", 0) /\ refused' = refused
    <3>1. /\ reservations' \in [Ids -> 0 .. Top \cup {None}]
          /\ pending' \in 0 .. Top /\ spent' \in 0 .. Top
          /\ spent' < Top => spent' = spent + call[c].cost
      BY <2>1, <2>2, <1>i, <1>t, Settling
    <3>2. /\ call' \in [Callers -> CallType]
          /\ call'[c].cost = 0 /\ \A d \in Callers \ {c} : call'[d] = call[d]
          /\ Cardinality(UnreportedUnits)' \in Nat
          /\ Cardinality(UnreportedUnits)' + call[c].cost = Cardinality(UnreportedUnits) + 0
      BY <2>1, <2>2, <1>i, Becoming
    <3>3. TypeOK'
      BY <2>1, <2>2, <3>1, <3>2, <1>i DEF TypeOK
    <3>4. QuietCosts'
      BY <3>2, <1>i DEF QuietCosts
    <3>5. BilledIsCounted'
      <4>1. ASSUME spent' < Top
            PROVE  spent' + Cardinality(UnreportedUnits)' + refused' = billed'
        BY <4>1, <2>1, <2>2, <3>1, <3>2, <1>b, <1>t
      <4> QED
        BY <4>1 DEF BilledIsCounted
    <3> QED
      BY <3>3, <3>4, <3>5 DEF CountInv
  <2>3. CASE /\ refused' = refused + call[c].cost /\ Becomes(c, "dropping", 0)
             /\ spent' = spent /\ pending' = pending /\ reservations' = reservations
    <3>1. /\ call' \in [Callers -> CallType]
          /\ call'[c].cost = 0 /\ \A d \in Callers \ {c} : call'[d] = call[d]
          /\ Cardinality(UnreportedUnits)' \in Nat
          /\ Cardinality(UnreportedUnits)' + call[c].cost = Cardinality(UnreportedUnits) + 0
      BY <2>1, <2>3, <1>i, Becoming
    <3>2. TypeOK'
      BY <2>1, <2>3, <3>1, <1>i, <1>t DEF TypeOK
    <3>3. QuietCosts'
      BY <3>1, <1>i DEF QuietCosts
    <3>4. BilledIsCounted'
      BY <2>1, <2>3, <3>1, <1>b, <1>t DEF BilledIsCounted
    <3> QED
      BY <3>2, <3>3, <3>4 DEF CountInv
  <2> QED
    BY <1>6, <2>2, <2>3 DEF CommitHeld
<1>7. ASSUME NEW c \in Callers, Release(c) PROVE CountInv'
  <2>1. /\ Known(call[c].id) /\ Settle(call[c].id, 0) /\ Becomes(c, "idle", 0)
        /\ call[c].at = "dropping" /\ 0 \in 0 .. Top
        /\ direct' = direct /\ refused' = refused /\ billed' = billed
    BY <1>7, <1>t DEF Release
  <2>2. call[c].cost = 0
    BY <2>1, <1>i DEF QuietCosts
  <2>3. /\ reservations' \in [Ids -> 0 .. Top \cup {None}]
        /\ pending' \in 0 .. Top /\ spent' \in 0 .. Top
        /\ spent' < Top => spent' = spent + 0
    BY <2>1, <1>i, <1>t, Settling
  <2>4. /\ call' \in [Callers -> CallType]
        /\ call'[c].cost = 0 /\ \A d \in Callers \ {c} : call'[d] = call[d]
        /\ Cardinality(UnreportedUnits)' \in Nat
        /\ Cardinality(UnreportedUnits)' + call[c].cost = Cardinality(UnreportedUnits) + 0
    BY <2>1, <1>i, Becoming
  <2>5. TypeOK'
    BY <2>1, <2>3, <2>4, <1>i DEF TypeOK
  <2>6. QuietCosts'
    BY <2>4, <1>i DEF QuietCosts
  <2>7. BilledIsCounted'
    BY <2>1, <2>2, <2>3, <2>4, <1>b, <1>t DEF BilledIsCounted
  <2> QED
    BY <2>5, <2>6, <2>7 DEF CountInv
<1>8. ASSUME NEW c \in Callers, SettleAgain(c) PROVE CountInv'
  <2>1. call' = call /\ direct' = direct /\ refused' = refused /\ billed' = billed
    BY <1>8 DEF SettleAgain
  <2>2. /\ reservations' \in [Ids -> 0 .. Top \cup {None}]
        /\ pending' \in 0 .. Top /\ spent' \in 0 .. Top
        /\ spent' < Top => spent' = spent
    <3>1. CASE Known(call[c].id)
      <4>1. Settle(call[c].id, 0) /\ 0 \in 0 .. Top
        BY <1>8, <3>1, <1>t DEF SettleAgain
      <4>2. spent' < Top => spent' = spent + 0
        BY <3>1, <4>1, <1>i, <1>t, Settling
      <4> QED
        BY <3>1, <4>1, <4>2, <1>i, <1>t, Settling
    <3>2. CASE ~Known(call[c].id)
      BY <1>8, <3>2, <1>i DEF SettleAgain, TypeOK
    <3> QED
      BY <3>1, <3>2
  <2>3. TypeOK'
    BY <2>1, <2>2, <1>i DEF TypeOK
  <2>4. QuietCosts' /\ UnreportedUnits' = UnreportedUnits
    BY <2>1, <1>i DEF QuietCosts, UnreportedUnits
  <2>5. BilledIsCounted'
    BY <2>1, <2>2, <2>4, <1>b DEF BilledIsCounted
  <2> QED
    BY <2>3, <2>4, <2>5 DEF CountInv
<1>9. ASSUME NEW c \in Callers, RecordDirect(c) PROVE CountInv'
  <2>1. PICK cost \in Amounts : /\ spent' = Plus(spent, cost) /\ direct' = direct + cost
                                /\ billed' = billed + cost
    BY <1>9 DEF RecordDirect, Bill
  <2>2. /\ pending' = pending /\ reservations' = reservations /\ call' = call
        /\ refused' = refused /\ cost \in Nat
    BY <1>9, <1>i, Types DEF RecordDirect
  <2>3. spent' \in 0 .. Top /\ (spent' < Top => spent' = spent + cost)
    BY <2>1, <2>2, <1>t, PlusMinus
  <2>4. TypeOK'
    BY <2>1, <2>2, <2>3, <1>i, <1>t DEF TypeOK
  <2>5. QuietCosts' /\ UnreportedUnits' = UnreportedUnits
    BY <2>2, <1>i DEF QuietCosts, UnreportedUnits
  <2>6. BilledIsCounted'
    BY <2>1, <2>2, <2>3, <2>5, <1>b, <1>t DEF BilledIsCounted
  <2> QED
    BY <2>4, <2>5, <2>6 DEF CountInv
<1>10. CASE UNCHANGED vars
  BY <1>10, <1>i DEF vars, CountInv, TypeOK, QuietCosts, BilledIsCounted, UnreportedUnits
<1> QED
  BY <1>1, <1>2, <1>3, <1>4, <1>5, <1>6, <1>7, <1>8, <1>9, <1>10 DEF Next, Finish

\* With a ceiling below the top nothing saturates that is compared with it.
LEMMA CeilingStep ==
  ASSUME Ceiling \in 1 .. Top - 1, TypeOK, PendingIsHeld, CeilingHolds, [Next]_vars
  PROVE  PendingIsHeld' /\ CeilingHolds'
<1>t. /\ \A c \in Callers : call[c].id \in Ids \cup {None} /\ call[c].cost \in 0 .. Top
      /\ \A c \in Callers : call[c].cost \in Nat
      /\ spent \in Nat /\ pending \in Nat /\ direct \in Nat /\ Top \in Nat /\ Ceiling \in Nat
      /\ 0 \in 0 .. Top
  BY Types
<1>c. spent + pending <= Ceiling + direct
  BY DEF CeilingHolds
<1>s. ASSUME reservations' = reservations, pending' = pending
      PROVE  PendingIsHeld'
  BY <1>s DEF PendingIsHeld, HeldUnits, Live
<1>1. ASSUME NEW c \in Callers, Reserve(c) PROVE PendingIsHeld' /\ CeilingHolds'
  <2>1. PICK i \in Ids, n \in Amounts : Fresh(i) /\ Book(i, n)
    BY <1>1 DEF Reserve
  <2>2. direct' = direct /\ n \in Nat
    BY <1>1, Types DEF Reserve
  <2>3. /\ spent' = spent /\ pending' = pending + n
        /\ spent + pending + n <= Ceiling /\ PendingIsHeld'
    BY <2>1, Booking DEF Fresh
  <2>4. CeilingHolds'
    BY <2>2, <2>3, <1>t DEF CeilingHolds
  <2> QED
    BY <2>3, <2>4
<1>2. ASSUME NEW i \in Ids \cup {None}, Known(i), NEW actual \in 0 .. Top,
             actual <= reservations[i], Settle(i, actual), direct' = direct
      PROVE  PendingIsHeld' /\ CeilingHolds'
  <2>1. /\ reservations[i] \in 0 .. Top /\ spent' <= spent + actual /\ spent' \in 0 .. Top
        /\ pending' = pending - reservations[i] /\ reservations[i] <= pending
        /\ PendingIsHeld'
    BY <1>2, Settling
  <2>2. spent' + pending' <= Ceiling + direct'
    BY <2>1, <1>2, <1>t, <1>c
  <2> QED
    BY <2>1, <2>2 DEF CeilingHolds
<1>r. \A i \in Ids \cup {None} : Known(i) => reservations[i] \in Nat
  BY Types DEF Known
<1>3. ASSUME NEW c \in Callers, CommitUsage(c) PROVE PendingIsHeld' /\ CeilingHolds'
  <2> DEFINE i == call[c].id
             excess == Minus(call[c].cost, reservations[i])
  <2>1. Known(i) /\ Settle(i, call[c].cost - excess) /\ direct' = direct
    BY <1>3 DEF CommitUsage
  <2>2. reservations[i] \in Nat
    BY <2>1, <1>r, <1>t
  <2>3. call[c].cost - excess \in 0 .. Top /\ call[c].cost - excess <= reservations[i]
    BY <2>2, <1>t DEF Minus
  <2> HIDE DEF excess
  <2> QED
    BY <2>1, <2>3, <1>2, <1>t
<1>4. ASSUME NEW c \in Callers, CommitHeld(c) PROVE PendingIsHeld' /\ CeilingHolds'
  <2>1. Known(call[c].id) /\ direct' = direct
    BY <1>4 DEF CommitHeld
  <2>2. CASE call[c].cost <= reservations[call[c].id] /\ Settle(call[c].id, call[c].cost)
    BY <2>1, <2>2, <1>2, <1>t
  <2>3. CASE spent' = spent /\ pending' = pending /\ reservations' = reservations
    BY <2>1, <2>3, <1>s DEF CeilingHolds
  <2> QED
    BY <1>4, <2>2, <2>3 DEF CommitHeld
<1>5. ASSUME NEW c \in Callers, Release(c) PROVE PendingIsHeld' /\ CeilingHolds'
  <2>1. Known(call[c].id) /\ Settle(call[c].id, 0) /\ direct' = direct
    BY <1>5 DEF Release
  <2>2. 0 <= reservations[call[c].id]
    BY <2>1, <1>r, <1>t
  <2> QED
    BY <2>1, <2>2, <1>2, <1>t
<1>6. ASSUME NEW c \in Callers, SettleAgain(c) PROVE PendingIsHeld' /\ CeilingHolds'
  <2>1. direct' = direct
    BY <1>6 DEF SettleAgain
  <2>2. CASE Known(call[c].id)
    <3>1. Settle(call[c].id, 0) /\ 0 <= reservations[call[c].id]
      BY <1>6, <2>2, <1>r, <1>t DEF SettleAgain
    <3> QED
      BY <2>1, <2>2, <3>1, <1>2, <1>t
  <2>3. CASE ~Known(call[c].id)
    <3>1. spent' = spent /\ pending' = pending /\ reservations' = reservations
      BY <1>6, <2>3 DEF SettleAgain
    <3> QED
      BY <2>1, <3>1, <1>s DEF CeilingHolds
  <2> QED
    BY <2>2, <2>3
<1>7. ASSUME NEW cost \in Nat, spent' = Plus(spent, cost), direct' = direct + cost,
             pending' = pending, reservations' = reservations
      PROVE  PendingIsHeld' /\ CeilingHolds'
  <2>1. spent' \in 0 .. Top /\ spent' <= spent + cost
    BY <1>7, <1>t, PlusMinus
  <2>2. spent' + pending' <= Ceiling + direct'
    BY <2>1, <1>7, <1>t, <1>c
  <2> QED
    BY <2>2, <1>7, <1>s DEF CeilingHolds
<1>8. ASSUME NEW c \in Callers, RecordExcess(c) \/ RecordDirect(c)
      PROVE  PendingIsHeld' /\ CeilingHolds'
  <2>1. CASE RecordExcess(c)
    BY <2>1, <1>7, <1>t DEF RecordExcess
  <2>2. CASE RecordDirect(c)
    BY <2>2, <1>7, Types DEF RecordDirect
  <2> QED
    BY <1>8, <2>1, <2>2
<1>9. ASSUME \/ \E c \in Callers : Answer(c) \/ CallFails(c)
             \/ UNCHANGED vars
      PROVE  PendingIsHeld' /\ CeilingHolds'
  BY <1>9, <1>s DEF Answer, CallFails, vars, CeilingHolds
<1> QED
  BY <1>1, <1>3, <1>4, <1>5, <1>6, <1>8, <1>9 DEF Next, Finish

\* Without a ceiling pending may stick at the top: it is never above what is held.
PendingWithin == pending <= Cardinality(HeldUnits)

LEMMA WithinStep ==
  ASSUME TypeOK, PendingWithin, [Next]_vars
  PROVE  PendingWithin'
<1>t. /\ reservations \in [Ids -> 0 .. Top \cup {None}]
      /\ \A c \in Callers : call[c].id \in Ids \cup {None}
      /\ pending \in Nat /\ Top \in Nat /\ None \notin Nat
  BY Types
<1>h. /\ Cardinality(UnitsHeld(reservations)) \in Nat
      /\ pending <= Cardinality(UnitsHeld(reservations))
  BY <1>t, HeldIsSum, SumsAre DEF PendingWithin
<1>1. ASSUME NEW i \in Ids, NEW n \in Amounts, ~Known(i), Book(i, n)
      PROVE  PendingWithin'
  <2>1. n \in 0 .. Top /\ n \in Nat /\ reservations[i] = None
    BY <1>1, Types DEF Known
  <2>2. reservations' = [reservations EXCEPT ![i] = n] /\ pending' = Plus(pending, n)
    BY <1>1 DEF Book
  <2>3. Cardinality(UnitsHeld([reservations EXCEPT ![i] = n])) + Amount(reservations[i]) =
          Cardinality(UnitsHeld(reservations)) + Amount(n)
    <3>1. n \in 0 .. Top \cup {None}
      BY <2>1
    <3> QED
      BY <3>1, <1>t, HeldChange
  <2>4. Amount(reservations[i]) = 0 /\ Amount(n) = n
    <3>1. n # None
      BY <2>1, <1>t
    <3> QED
      BY <2>1, <3>1 DEF Amount
  <2>5. reservations' \in [Ids -> 0 .. Top \cup {None}]
    BY <2>1, <2>2, <1>t
  <2>6. Cardinality(UnitsHeld(reservations')) \in Nat
    BY <2>5, HeldIsSum
  <2>7. Cardinality(UnitsHeld(reservations')) = Cardinality(UnitsHeld(reservations)) + n
    BY <2>1, <2>2, <2>3, <2>4, <2>6, <1>h
  <2>8. pending' <= pending + n /\ pending' \in Nat
    <3>1. Plus(pending, n) \in 0 .. Top /\ Plus(pending, n) <= pending + n
      BY <2>1, <1>t, PlusMinus
    <3> QED
      BY <2>2, <3>1, <1>t
  <2> QED
    BY <2>1, <2>7, <2>8, <1>h, <1>t, SumsAre DEF PendingWithin
<1>2. ASSUME NEW i \in Ids \cup {None}, NEW actual, Known(i), Settle(i, actual)
      PROVE  PendingWithin'
  <2>1. i \in Ids /\ reservations[i] \in Nat /\ reservations[i] # None
    BY <1>2, <1>t DEF Known
  <2>2. /\ reservations' = [reservations EXCEPT ![i] = None]
        /\ pending' = Minus(pending, reservations[i])
    BY <1>2 DEF Settle
  <2>3. Cardinality(UnitsHeld([reservations EXCEPT ![i] = None])) + Amount(reservations[i]) =
          Cardinality(UnitsHeld(reservations)) + Amount(None)
    BY <2>1, <1>t, HeldChange
  <2>4. Amount(reservations[i]) = reservations[i] /\ Amount(None) = 0
    BY <2>1 DEF Amount
  <2>5. reservations' \in [Ids -> 0 .. Top \cup {None}]
    BY <2>1, <2>2, <1>t
  <2>6. Cardinality(UnitsHeld(reservations')) \in Nat
    BY <2>5, HeldIsSum
  <2>7. Cardinality(UnitsHeld(reservations')) + reservations[i] =
          Cardinality(UnitsHeld(reservations))
    BY <2>1, <2>2, <2>3, <2>4, <2>6, <1>h
  <2>8. pending' <= Cardinality(UnitsHeld(reservations'))
    BY <2>1, <2>2, <2>6, <2>7, <1>h, <1>t DEF Minus
  <2> QED
    BY <2>8, SumsAre DEF PendingWithin
<1>3. ASSUME pending' = pending, reservations' = reservations
      PROVE  PendingWithin'
  BY <1>3, <1>h, SumsAre DEF PendingWithin
<1>4. ASSUME NEW c \in Callers, Reserve(c) PROVE PendingWithin'
  BY <1>4, <1>1 DEF Reserve, Fresh
<1>5. ASSUME NEW c \in Callers, Finish(c) \/ SettleAgain(c) PROVE PendingWithin'
  <2>1. CASE Answer(c) \/ CallFails(c) \/ RecordExcess(c)
    BY <2>1, <1>3 DEF Answer, CallFails, RecordExcess
  <2>2. CASE CommitUsage(c)
    BY <2>2, <1>2, <1>t DEF CommitUsage
  <2>3. CASE CommitHeld(c)
    BY <2>3, <1>2, <1>3, <1>t DEF CommitHeld
  <2>4. CASE Release(c)
    BY <2>4, <1>2, <1>t DEF Release
  <2>5. CASE SettleAgain(c)
    BY <2>5, <1>2, <1>3, <1>t DEF SettleAgain
  <2> QED
    BY <1>5, <2>1, <2>2, <2>3, <2>4, <2>5 DEF Finish
<1>6. CASE \/ \E c \in Callers : RecordDirect(c)
           \/ UNCHANGED vars
  BY <1>6, <1>3 DEF RecordDirect, vars
<1> QED
  BY <1>4, <1>5, <1>6 DEF Next

-----------------------------------------------------------------------------
LEMMA InitSums ==
  Init => CountInv /\ PendingIsHeld /\ CeilingHolds
<1> SUFFICES ASSUME Init PROVE CountInv /\ PendingIsHeld /\ CeilingHolds
  OBVIOUS
<1>1. TypeOK /\ QuietCosts
  BY LedgerAssumption DEF Init, TypeOK, QuietCosts
<1>2. HeldUnits = {}
  BY DEF Init, HeldUnits, Live
<1>3. UnreportedUnits = {}
  BY DEF Init, UnreportedUnits, Units
<1>4. Cardinality({}) = 0
  BY FS_EmptySet
<1>5. PendingIsHeld /\ BilledIsCounted
  BY <1>2, <1>3, <1>4 DEF Init, PendingIsHeld, BilledIsCounted
<1>6. CeilingHolds
  BY LedgerAssumption DEF Init, CeilingHolds
<1> QED
  BY <1>1, <1>5, <1>6 DEF CountInv

(* The totals stay in the machine word, and every handle is an id.           *)
THEOREM TypeCorrect == Spec => []TypeOK
<1>1. CountInv => TypeOK
  BY DEF CountInv
<1> QED
  BY <1>1, InitSums, CountStep, PTL DEF Spec

(* Until spent_micros sticks at the top, what providers charged is booked,   *)
(* in the hands of a caller, or refused by commit, whatever overlaps or is  *)
(* settled twice.                                                           *)
THEOREM ChargesAreCounted == Spec => []BilledIsCounted
<1>1. CountInv => BilledIsCounted
  BY DEF CountInv
<1> QED
  BY <1>1, InitSums, CountStep, PTL DEF Spec

\* With a ceiling below the greatest word nothing that is compared with it
\* saturates.
LEMMA CeilingInductive ==
  ASSUME Ceiling \in 1 .. Top - 1
  PROVE  Spec => [](CountInv /\ PendingIsHeld /\ CeilingHolds)
<1> DEFINE Inv == CountInv /\ PendingIsHeld /\ CeilingHolds
<1>1. Inv /\ [Next]_vars => Inv'
  BY CountStep, CeilingStep DEF CountInv
<1> QED
  BY <1>1, InitSums, PTL DEF Spec

(* With a ceiling, pending_micros is the sum of the live reservations at     *)
(* every release of the lock: reserve, commit and release account for one   *)
(* another whatever overlaps, is clamped, or is settled twice.              *)
THEOREM PendingIsExact ==
  ASSUME Ceiling \in 1 .. Top - 1
  PROVE  Spec => []PendingIsHeld
BY CeilingInductive, PTL

(* With a ceiling, callers that reserve at the same time never have more     *)
(* spent and reserved than the ceiling, apart from what recordDirect let    *)
(* past it.                                                                 *)
THEOREM ReservationsFit ==
  ASSUME Ceiling \in 1 .. Top - 1
  PROVE  Spec => []CeilingHolds
BY CeilingInductive, PTL

(* With a ceiling or without one, saturated or not, pending_micros never     *)
(* counts more than the live reservations: commit and release leave nothing *)
(* behind that would refuse a later caller.                                 *)
THEOREM NothingLeftPending == Spec => []PendingWithin
<1>1. CountInv /\ PendingWithin /\ [Next]_vars => (CountInv /\ PendingWithin)'
  BY CountStep, WithinStep DEF CountInv
<1>2. Init => CountInv /\ PendingWithin
  <2>1. ASSUME Init PROVE HeldUnits = {} /\ pending = 0
    BY <2>1 DEF Init, HeldUnits, Live
  <2>2. Cardinality({}) = 0
    BY FS_EmptySet
  <2> QED
    BY <2>1, <2>2, InitSums DEF PendingWithin
<1> QED
  BY <1>1, <1>2, PTL DEF Spec
=============================================================================
