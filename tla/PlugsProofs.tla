---------------------------- MODULE PlugsProofs ----------------------------
(***************************************************************************)
(* Theorems about Snapshots and Plugs, for every number of readers,        *)
(* snapshots and plugs, and all manifests.                                 *)
(***************************************************************************)
EXTENDS Plugs, FiniteSetTheorems, TLAPS

-----------------------------------------------------------------------------
(* The registry: a count is the number of handles, and one for the pointer. *)

Holding(s) == {t \in Threads : hand[t].at = "held" /\ hand[t].snap = s}

Pointed(s) == IF s = current THEN 1 ELSE 0

Counted == \A s \in 1 .. built : refcount[s] = Cardinality(Holding(s)) + Pointed(s)

Letting(t) == hand[t].at \in {"dropped", "unused"}

\* A thread that lets go of a snapshot took the last handle, and is alone.
AloneLetting ==
  \A t \in Threads : Letting(t) =>
    /\ refcount[hand[t].snap] = 0
    /\ \A u \in Threads : Letting(u) /\ hand[u].snap = hand[t].snap => u = t

LoadedIsCurrent == \A r \in Readers : hand[r].at = "loaded" => hand[r].snap = current

LiveIsUsed == live = {current} \cup InUse

RegistryInv == RegistryTypeOK /\ Counted

UndisturbedInv == AloneLetting /\ LoadedIsCurrent /\ LiveIsUsed

\* What the registry does in one step of the program.
RegistryAct == RegistryStep \/ Swap \/ UNCHANGED regVars

LEMMA HandTypes ==
  ASSUME RegistryTypeOK, NEW t \in Threads
  PROVE  /\ hand[t].at \in {"none", "loaded", "held", "dropped", "unused"}
         /\ hand[t].at # "none" => hand[t].snap \in 1 .. built /\ hand[t].snap \in Ids
         /\ hand[t].at = "none" => hand[t] = Free
<1>1. CASE hand[t] = Free
  BY <1>1 DEF Free
<1>2. CASE hand[t] # Free
  <2>1. hand[t] \in [at : {"loaded", "held", "dropped", "unused"}, snap : 1 .. built]
    BY <1>2 DEF RegistryTypeOK
  <2>2. built \in Nat /\ MaxSnapshots \in Nat /\ built <= MaxSnapshots
    BY SnapshotsAssumption DEF RegistryTypeOK, Ids
  <2> QED
    BY <2>1, <2>2 DEF Ids
<1> QED
  BY <1>1, <1>2

LEMMA HoldingFinite ==
  ASSUME NEW s
  PROVE  /\ IsFiniteSet(Holding(s)) /\ Cardinality(Holding(s)) \in Nat
         /\ Cardinality(Holding(s)) = 0 <=> Holding(s) = {}
<1>1. IsFiniteSet(Threads)
  BY SnapshotsAssumption, FS_AddElement DEF Threads
<1>2. Holding(s) \in SUBSET Threads
  BY DEF Holding
<1>3. IsFiniteSet(Holding(s))
  BY <1>1, <1>2, FS_Subset
<1> QED
  BY <1>3, FS_CardinalityType, FS_EmptySet

LEMMA HoldingChange ==
  ASSUME RegistryTypeOK, NEW t \in Threads, NEW h, NEW s,
         hand' = [hand EXCEPT ![t] = h]
  PROVE  Cardinality(Holding(s))' =
           Cardinality(Holding(s))
           - (IF hand[t].at = "held" /\ hand[t].snap = s THEN 1 ELSE 0)
           + (IF h.at = "held" /\ h.snap = s THEN 1 ELSE 0)
<1>1. hand' \in [Threads -> {hand[u] : u \in Threads} \cup {h}]
      /\ hand'[t] = h /\ \A u \in Threads \ {t} : hand'[u] = hand[u]
  BY DEF RegistryTypeOK
<1> DEFINE Rest == Holding(s) \ {t}
<1>2. IsFiniteSet(Rest)
      /\ Cardinality(Rest) = Cardinality(Holding(s))
                             - (IF hand[t].at = "held" /\ hand[t].snap = s THEN 1 ELSE 0)
      /\ Cardinality(Holding(s)) \in Nat /\ Cardinality(Rest) \in Nat
  <2>1. t \in Holding(s) <=> hand[t].at = "held" /\ hand[t].snap = s
    BY DEF Holding
  <2>2. IsFiniteSet(Rest)
        /\ Cardinality(Rest) = IF t \in Holding(s) THEN Cardinality(Holding(s)) - 1
                               ELSE Cardinality(Holding(s))
    BY HoldingFinite, FS_RemoveElement
  <2>3. Cardinality(Holding(s)) \in Nat /\ Cardinality(Rest) \in Nat
    BY <2>2, HoldingFinite, FS_CardinalityType
  <2> QED
    BY <2>1, <2>2, <2>3
<1>3. CASE h.at = "held" /\ h.snap = s
  <2>1. Holding(s)' = Rest \cup {t}
    BY <1>1, <1>3 DEF Holding
  <2>2. Cardinality(Rest \cup {t}) = Cardinality(Rest) + 1
    BY <1>2, FS_AddElement
  <2> QED
    BY <2>1, <2>2, <1>2, <1>3
<1>4. CASE ~(h.at = "held" /\ h.snap = s)
  <2>1. Holding(s)' = Rest
    BY <1>1, <1>4 DEF Holding
  <2> QED
    BY <2>1, <1>2, <1>4
<1> QED
  BY <1>3, <1>4

LEMMA RegistryInitially ==
  ASSUME RegistryInit
  PROVE  RegistryInv /\ UndisturbedInv
<1>1. \A t \in Threads : hand[t] = Free /\ hand[t].at = "none"
  BY DEF RegistryInit, Free
<1>2. RegistryTypeOK
  BY SnapshotsAssumption DEF RegistryInit, RegistryTypeOK, Ids
<1>3. Holding(1) = {}
  BY <1>1 DEF Holding
<1>4. Counted
  <2>1. Cardinality(Holding(1)) = 0
    BY <1>3, HoldingFinite
  <2> QED
    BY <2>1, SnapshotsAssumption DEF RegistryInit, Counted, Pointed, Ids
<1>5. AloneLetting /\ LoadedIsCurrent
  BY <1>1 DEF AloneLetting, LoadedIsCurrent, Letting, Threads
<1>6. LiveIsUsed
  BY <1>1 DEF LiveIsUsed, InUse, RegistryInit
<1> QED
  BY <1>2, <1>4, <1>5, <1>6 DEF RegistryInv, UndisturbedInv

LEMMA LoadStep ==
  ASSUME RegistryInv, NEW r \in Readers, Load(r)
  PROVE  RegistryInv' /\ (UndisturbedInv => UndisturbedInv')
<1> USE DEF Load
<1>0. r \in Threads
  BY DEF Threads
<1>1. /\ hand'[r] = [at |-> "loaded", snap |-> current]
      /\ \A t \in Threads \ {r} : hand'[t] = hand[t]
  BY <1>0 DEF RegistryInv, RegistryTypeOK
<1>2. hand[r].at = "none"
  BY DEF Free
<1>3. RegistryTypeOK'
  BY <1>0 DEF RegistryInv, RegistryTypeOK
<1>4. \A s : Cardinality(Holding(s))' = Cardinality(Holding(s))
  <2> SUFFICES ASSUME NEW s PROVE Cardinality(Holding(s))' = Cardinality(Holding(s))
    OBVIOUS
  <2> DEFINE h == [at |-> "loaded", snap |-> current]
  <2>1. Cardinality(Holding(s))' = Cardinality(Holding(s)) - 0 + 0
    BY <1>0, <1>2, HoldingChange DEF RegistryInv
  <2> QED
    BY <2>1, HoldingFinite
<1>5. Counted'
  BY <1>4 DEF RegistryInv, Counted, Pointed
<1>6. ASSUME UndisturbedInv PROVE UndisturbedInv'
  <2>1. \A t \in Threads : Letting(t)' => t # r /\ Letting(t) /\ hand'[t] = hand[t]
    BY <1>1 DEF Letting
  <2>2. AloneLetting'
    BY <1>6, <2>1 DEF UndisturbedInv, AloneLetting
  <2>3. LoadedIsCurrent'
    BY <1>1, <1>6, <1>0 DEF UndisturbedInv, LoadedIsCurrent, Threads
  <2>4. InUse' = InUse
    BY <1>0, <1>1, <1>2 DEF InUse
  <2> QED
    BY <1>6, <2>2, <2>3, <2>4 DEF UndisturbedInv, LiveIsUsed
<1> QED
  BY <1>3, <1>5, <1>6 DEF RegistryInv

LEMMA CountStep ==
  ASSUME RegistryInv, NEW r \in Readers, Count(r)
  PROVE  RegistryInv' /\ (UndisturbedInv => UndisturbedInv')
<1> USE DEF Count
<1> DEFINE s0 == hand[r].snap
<1>0. r \in Threads
  BY DEF Threads
<1>1. /\ hand'[r] = [at |-> "held", snap |-> s0]
      /\ \A t \in Threads \ {r} : hand'[t] = hand[t]
  BY <1>0 DEF RegistryInv, RegistryTypeOK
<1>2. s0 \in 1 .. built /\ s0 \in Ids
  BY <1>0, HandTypes DEF RegistryInv
<1>3. RegistryTypeOK'
  BY <1>0, <1>2 DEF RegistryInv, RegistryTypeOK
<1>4. \A s : Cardinality(Holding(s))' = Cardinality(Holding(s)) + (IF s = s0 THEN 1 ELSE 0)
  <2> SUFFICES ASSUME NEW s
               PROVE  Cardinality(Holding(s))'
                      = Cardinality(Holding(s)) + (IF s = s0 THEN 1 ELSE 0)
    OBVIOUS
  <2> DEFINE h == [at |-> "held", snap |-> s0]
  <2>1. hand' = [hand EXCEPT ![r] = h] /\ h.at = "held" /\ h.snap = s0 /\ RegistryTypeOK
    BY DEF RegistryInv
  <2> HIDE DEF h
  <2>2. Cardinality(Holding(s))'
          = Cardinality(Holding(s))
            - (IF hand[r].at = "held" /\ hand[r].snap = s THEN 1 ELSE 0)
            + (IF h.at = "held" /\ h.snap = s THEN 1 ELSE 0)
    BY <1>0, <2>1, HoldingChange, ZenonT(60)
  <2>3. hand[r].at # "held"
    BY DEF Count
  <2> QED
    BY <2>1, <2>2, <2>3, HoldingFinite
<1>5. Counted'
  <2> SUFFICES ASSUME NEW s \in 1 .. built
               PROVE  refcount'[s] = Cardinality(Holding(s))' + Pointed(s)
    BY DEF Counted, Pointed
  <2>1. s \in Ids
    BY SnapshotsAssumption DEF RegistryInv, RegistryTypeOK, Ids
  <2>2. refcount'[s] = refcount[s] + (IF s = s0 THEN 1 ELSE 0) /\ refcount[s] \in Nat
    BY <2>1, <1>2 DEF RegistryInv, RegistryTypeOK
  <2>3. refcount[s] = Cardinality(Holding(s)) + Pointed(s) /\ Pointed(s) \in Nat
    BY DEF RegistryInv, Counted, Pointed
  <2> QED
    BY <2>2, <2>3, <1>4, HoldingFinite
<1>6. ASSUME UndisturbedInv PROVE UndisturbedInv'
  <2>0. s0 = current
    BY <1>6 DEF UndisturbedInv, LoadedIsCurrent
  <2>1. \A t \in Threads : Letting(t)' => t # r /\ Letting(t) /\ hand'[t] = hand[t]
    BY <1>1 DEF Letting
  <2>2. \A t \in Threads : Letting(t) => hand[t].snap # current
    <3> SUFFICES ASSUME NEW t \in Threads, Letting(t), hand[t].snap = current PROVE FALSE
      OBVIOUS
    <3>1. refcount[current] = 0 /\ current \in 1 .. built
      BY <1>6 DEF UndisturbedInv, AloneLetting, RegistryInv, RegistryTypeOK
    <3>2. refcount[current] = Cardinality(Holding(current)) + 1
      BY <3>1 DEF RegistryInv, Counted, Pointed
    <3> QED
      BY <3>1, <3>2, HoldingFinite
  <2>3. AloneLetting'
    <3>1. \A t \in Threads : Letting(t) => refcount'[hand[t].snap] = refcount[hand[t].snap]
      BY <2>0, <2>2 DEF RegistryInv, RegistryTypeOK
    <3> QED
      BY <1>6, <2>1, <3>1 DEF UndisturbedInv, AloneLetting
  <2>4. LoadedIsCurrent'
    BY <1>1, <1>6, <1>0 DEF UndisturbedInv, LoadedIsCurrent, Threads
  <2>5. InUse' = InUse \cup {current}
    BY <1>0, <1>1, <2>0 DEF InUse
  <2> QED
    BY <1>6, <2>3, <2>4, <2>5 DEF UndisturbedInv, LiveIsUsed
<1> QED
  BY <1>3, <1>5, <1>6 DEF RegistryInv

LEMMA SwapStep ==
  ASSUME RegistryInv, Swap
  PROVE  RegistryInv' /\ (Undisturbed /\ UndisturbedInv => UndisturbedInv')
<1> USE DEF Swap
<1> DEFINE new == built + 1
<1>0. Writer \in Threads
  BY DEF Threads
<1>1. /\ hand'[Writer] = [at |-> "held", snap |-> current]
      /\ \A t \in Threads \ {Writer} : hand'[t] = hand[t]
  BY <1>0 DEF RegistryInv, RegistryTypeOK
<1>2. hand[Writer].at = "none"
  BY DEF Free
<1>3. /\ built \in Nat /\ MaxSnapshots \in Nat /\ built <= MaxSnapshots
      /\ current \in 1 .. built /\ new \in Ids /\ new \in Nat /\ 1 .. built \subseteq Ids
      /\ 1 .. new = 1 .. built \cup {new} /\ new \notin 1 .. built
  BY SnapshotsAssumption DEF RegistryInv, RegistryTypeOK, Ids
<1>4. RegistryTypeOK'
  <2>1. hand' \in [Threads -> {Free} \cup
                   [at : {"loaded", "held", "dropped", "unused"}, snap : 1 .. new]]
    BY <1>0, <1>3 DEF RegistryInv, RegistryTypeOK
  <2>2. refcount' \in [Ids -> Nat]
    BY <1>3 DEF RegistryInv, RegistryTypeOK
  <2>3. live' \subseteq 1 .. new
    BY <1>3 DEF RegistryInv, RegistryTypeOK
  <2> QED
    BY <1>3, <2>1, <2>2, <2>3 DEF RegistryTypeOK
<1>5. \A s : Cardinality(Holding(s))'
             = Cardinality(Holding(s)) + (IF s = current THEN 1 ELSE 0)
  <2> SUFFICES ASSUME NEW s
               PROVE  Cardinality(Holding(s))'
                      = Cardinality(Holding(s)) + (IF s = current THEN 1 ELSE 0)
    OBVIOUS
  <2> DEFINE h == [at |-> "held", snap |-> current]
  <2>1. hand' = [hand EXCEPT ![Writer] = h] /\ h.at = "held" /\ h.snap = current
        /\ RegistryTypeOK
    BY DEF RegistryInv
  <2> HIDE DEF h
  <2>2. Cardinality(Holding(s))'
          = Cardinality(Holding(s))
            - (IF hand[Writer].at = "held" /\ hand[Writer].snap = s THEN 1 ELSE 0)
            + (IF h.at = "held" /\ h.snap = s THEN 1 ELSE 0)
    BY <1>0, <2>1, HoldingChange, ZenonT(60)
  <2>3. hand[Writer].at # "held"
    BY <1>2
  <2> QED
    BY <2>1, <2>2, <2>3, HoldingFinite
<1>6. Holding(new) = {}
  BY <1>3, HandTypes DEF RegistryInv, Holding
<1>7. Counted'
  <2> SUFFICES ASSUME NEW s \in 1 .. new
               PROVE  refcount'[s] = Cardinality(Holding(s))' + (IF s = new THEN 1 ELSE 0)
    BY DEF Counted, Pointed
  <2>1. CASE s = new
    <3>1. Cardinality(Holding(new)) = 0 /\ new # current /\ refcount'[new] = 1
      BY <1>3, <1>6, HoldingFinite DEF RegistryInv, RegistryTypeOK
    <3> QED
      BY <2>1, <3>1, <1>5
  <2>2. CASE s # new
    <3>1. s \in 1 .. built /\ refcount'[s] = refcount[s]
      BY <2>2, <1>3 DEF RegistryInv, RegistryTypeOK
    <3>2. refcount[s] = Cardinality(Holding(s)) + Pointed(s)
      BY <3>1 DEF RegistryInv, Counted
    <3> QED
      BY <3>1, <3>2, <1>5, <2>2, HoldingFinite DEF Pointed
  <2> QED
    BY <2>1, <2>2
<1>8. ASSUME Undisturbed, UndisturbedInv PROVE UndisturbedInv'
  <2>1. \A t \in Threads : Letting(t)' => t # Writer /\ Letting(t) /\ hand'[t] = hand[t]
    BY <1>1 DEF Letting
  <2>2. \A t \in Threads : Letting(t) => hand[t].snap \in 1 .. built
    BY HandTypes DEF RegistryInv, Letting
  <2>3. AloneLetting'
    <3>1. \A t \in Threads : Letting(t) => refcount'[hand[t].snap] = refcount[hand[t].snap]
      BY <1>3, <2>2 DEF RegistryInv, RegistryTypeOK
    <3> QED
      BY <1>8, <2>1, <3>1 DEF UndisturbedInv, AloneLetting
  <2>4. LoadedIsCurrent'
    BY <1>1, <1>8, <1>0 DEF UndisturbedInv, LoadedIsCurrent, Threads
  <2>5. InUse' = InUse \cup {current}
    BY <1>0, <1>1, <1>2 DEF InUse
  <2> QED
    BY <1>8, <2>3, <2>4, <2>5 DEF UndisturbedInv, LiveIsUsed
<1> QED
  BY <1>4, <1>7, <1>8 DEF RegistryInv

LEMMA DropStep ==
  ASSUME RegistryInv, NEW t \in Threads, Drop(t)
  PROVE  RegistryInv' /\ (UndisturbedInv => UndisturbedInv')
<1> USE DEF Drop
<1> DEFINE s0 == hand[t].snap
           h == IF refcount[s0] # 1 THEN Free ELSE [at |-> "dropped", snap |-> s0]
<1>1. /\ hand' = [hand EXCEPT ![t] = h] /\ hand'[t] = h
      /\ \A u \in Threads \ {t} : hand'[u] = hand[u]
  BY DEF RegistryInv, RegistryTypeOK
<1>2. s0 \in 1 .. built /\ s0 \in Ids /\ t \in Holding(s0)
  BY HandTypes DEF RegistryInv, Holding
<1>3. h \in {Free} \cup [at : {"loaded", "held", "dropped", "unused"}, snap : 1 .. built]
      /\ h.at \in {"none", "dropped"}
  BY <1>2 DEF Free
<1>4. /\ Cardinality(Holding(s0)) \in Nat \ {0}
      /\ refcount[s0] = Cardinality(Holding(s0)) + Pointed(s0)
      /\ Pointed(s0) \in {0, 1}
      /\ refcount[s0] \in Nat \ {0}
  <2>1. Cardinality(Holding(s0)) \in Nat \ {0}
    BY <1>2, HoldingFinite
  <2>2. refcount[s0] = Cardinality(Holding(s0)) + Pointed(s0) /\ Pointed(s0) \in {0, 1}
    BY <1>2 DEF RegistryInv, Counted, Pointed
  <2> QED
    BY <2>1, <2>2
<1>5. RegistryTypeOK'
  <2>1. refcount' \in [Ids -> Nat]
    BY <1>2, <1>4 DEF RegistryInv, RegistryTypeOK
  <2>2. hand' \in [Threads -> {Free} \cup
                   [at : {"loaded", "held", "dropped", "unused"}, snap : 1 .. built]]
    BY <1>1, <1>3 DEF RegistryInv, RegistryTypeOK
  <2> QED
    BY <2>1, <2>2 DEF RegistryInv, RegistryTypeOK
<1>6. \A s : Cardinality(Holding(s))' = Cardinality(Holding(s)) - (IF s = s0 THEN 1 ELSE 0)
  <2> SUFFICES ASSUME NEW s
               PROVE  Cardinality(Holding(s))'
                      = Cardinality(Holding(s)) - (IF s = s0 THEN 1 ELSE 0)
    OBVIOUS
  <2>1. hand' = [hand EXCEPT ![t] = h] /\ h.at # "held" /\ RegistryTypeOK
    BY <1>1, <1>3 DEF RegistryInv
  <2> HIDE DEF h, s0, Drop
  <2>2. Cardinality(Holding(s))'
          = Cardinality(Holding(s))
            - (IF hand[t].at = "held" /\ hand[t].snap = s THEN 1 ELSE 0)
            + (IF h.at = "held" /\ h.snap = s THEN 1 ELSE 0)
    BY <2>1, HoldingChange
  <2>3. hand[t].at = "held" /\ s0 = hand[t].snap
    BY DEF Drop, s0
  <2> QED
    BY <2>1, <2>2, <2>3, HoldingFinite
<1>7. Counted'
  <2> SUFFICES ASSUME NEW s \in 1 .. built
               PROVE  refcount'[s] = Cardinality(Holding(s))' + Pointed(s)
    BY DEF Counted, Pointed
  <2>1. s \in Ids
    BY SnapshotsAssumption DEF RegistryInv, RegistryTypeOK, Ids
  <2>2. refcount'[s] = refcount[s] - (IF s = s0 THEN 1 ELSE 0) /\ refcount[s] \in Nat
    BY <2>1, <1>2 DEF RegistryInv, RegistryTypeOK
  <2>3. refcount[s] = Cardinality(Holding(s)) + Pointed(s) /\ Pointed(s) \in Nat
    BY DEF RegistryInv, Counted, Pointed
  <2> QED
    BY <2>2, <2>3, <1>6, HoldingFinite
<1>8. ASSUME UndisturbedInv PROVE UndisturbedInv'
  <2>1. \A u \in Threads : Letting(u) => u # t /\ hand[u].snap # s0
    BY <1>4, <1>8 DEF UndisturbedInv, AloneLetting, Letting
  <2>2. \A u \in Threads \ {t} : Letting(u)' <=> Letting(u)
    BY <1>1 DEF Letting
  <2>3. refcount' = [refcount EXCEPT ![s0] = refcount[s0] - 1] /\ refcount \in [Ids -> Nat]
    BY DEF RegistryInv, RegistryTypeOK
  <2>4. \A u \in Threads : Letting(u) => refcount'[hand[u].snap] = refcount[hand[u].snap]
    BY <2>1, <2>3, HandTypes DEF RegistryInv, Letting
  <2>5. LoadedIsCurrent'
    BY <1>1, <1>3, <1>8 DEF UndisturbedInv, LoadedIsCurrent, Threads
  <2>6. CASE refcount[s0] = 1
    <3>1. hand'[t] = [at |-> "dropped", snap |-> s0] /\ refcount'[s0] = 0
      BY <1>1, <1>2, <2>3, <2>6
    <3>2. AloneLetting'
      <4> SUFFICES ASSUME NEW u \in Threads, Letting(u)'
                   PROVE  /\ refcount'[hand'[u].snap] = 0
                          /\ \A v \in Threads :
                               Letting(v)' /\ hand'[v].snap = hand'[u].snap => v = u
        BY DEF AloneLetting
      <4>1. CASE u = t
        BY <4>1, <3>1, <2>1, <2>2, <1>1
      <4>2. CASE u # t
        BY <4>2, <3>1, <2>1, <2>2, <2>4, <1>1, <1>8 DEF UndisturbedInv, AloneLetting
      <4> QED
        BY <4>1, <4>2
    <3>3. InUse' = InUse
      BY <3>1, <1>1 DEF InUse
    <3> QED
      BY <3>2, <3>3, <2>5, <1>8 DEF UndisturbedInv, LiveIsUsed
  <2>7. CASE refcount[s0] # 1
    <3>1. hand'[t] = Free /\ ~Letting(t)'
      BY <1>1, <2>7 DEF Letting, Free
    <3>2. AloneLetting'
      BY <3>1, <2>1, <2>2, <2>4, <1>1, <1>8 DEF UndisturbedInv, AloneLetting
    <3>3. s0 = current \/ \E u \in Holding(s0) : u # t
      <4> SUFFICES ASSUME s0 # current, Holding(s0) = {t} PROVE FALSE
        BY <1>2
      <4>1. Cardinality({t}) = 1
        BY FS_Singleton
      <4> QED
        BY <4>1, <1>4, <2>7 DEF Pointed
    <3>4. {current} \cup InUse' = {current} \cup InUse
      <4>1. InUse = InUse' \cup {s0}
        BY <3>1, <1>1, <1>2 DEF InUse, Free, Holding
      <4>2. s0 = current \/ s0 \in InUse'
        BY <3>3, <1>1 DEF InUse, Holding
      <4> QED
        BY <4>1, <4>2
    <3> QED
      BY <3>2, <3>4, <2>5, <1>8 DEF UndisturbedInv, LiveIsUsed
  <2> QED
    BY <2>6, <2>7
<1> QED
  BY <1>5, <1>7, <1>8 DEF RegistryInv

LEMMA LettingStep ==
  ASSUME RegistryInv, NEW t \in Threads, Compare(t) \/ FreeSnapshot(t)
  PROVE  RegistryInv' /\ (UndisturbedInv => UndisturbedInv')
<1> DEFINE s0 == hand[t].snap
<1>1. /\ hand[t].at \in {"dropped", "unused"} /\ Letting(t)
      /\ hand'[t] \in {Free, [at |-> "unused", snap |-> s0]}
      /\ \A u \in Threads \ {t} : hand'[u] = hand[u]
      /\ UNCHANGED <<built, current, refcount>>
  BY DEF Compare, FreeSnapshot, RegistryInv, RegistryTypeOK, Letting
<1>2. s0 \in 1 .. built
  BY <1>1, HandTypes DEF RegistryInv
<1>3. RegistryTypeOK'
  BY <1>1, <1>2 DEF Compare, FreeSnapshot, RegistryInv, RegistryTypeOK
<1>4. \A s : Holding(s)' = Holding(s)
  BY <1>1 DEF Holding, Free
<1>5. Counted'
  BY <1>1, <1>4 DEF RegistryInv, Counted, Pointed
<1>6. ASSUME UndisturbedInv PROVE UndisturbedInv'
  <2>1. AloneLetting'
    BY <1>1, <1>6 DEF UndisturbedInv, AloneLetting, Letting, Free
  <2>2. LoadedIsCurrent'
    BY <1>1, <1>6 DEF UndisturbedInv, LoadedIsCurrent, Threads, Free
  <2>3. refcount[s0] = 0 /\ Holding(s0) = {} /\ s0 # current
    <3>1. refcount[s0] = 0
      BY <1>1, <1>6 DEF UndisturbedInv, AloneLetting
    <3>2. refcount[s0] = Cardinality(Holding(s0)) + Pointed(s0) /\ Pointed(s0) \in {0, 1}
      BY <1>2 DEF RegistryInv, Counted, Pointed
    <3>3. Cardinality(Holding(s0)) = 0 /\ Pointed(s0) = 0
      BY <3>1, <3>2, HoldingFinite
    <3> QED
      BY <3>1, <3>3, HoldingFinite DEF Pointed
  <2>4. LiveIsUsed'
    <3>1. CASE Compare(t)
      <4>1. hand'[t] = [at |-> "unused", snap |-> s0]
        BY <3>1, <2>3 DEF Compare, RegistryInv, RegistryTypeOK
      <4>2. InUse' = InUse
        BY <4>1, <1>1 DEF InUse
      <4> QED
        BY <3>1, <4>2, <1>6 DEF Compare, UndisturbedInv, LiveIsUsed
    <3>2. CASE FreeSnapshot(t)
      <4>1. hand'[t] = Free /\ live' = live \ {s0}
        BY <3>2 DEF FreeSnapshot, RegistryInv, RegistryTypeOK
      <4>2. \A u \in Threads \ {t} :
              hand[u].at \in {"held", "dropped", "unused"} => hand[u].snap # s0
        BY <2>3, <1>1, <1>6 DEF UndisturbedInv, AloneLetting, Letting, Holding
      <4>3. InUse' = InUse \ {s0}
        BY <4>1, <4>2, <1>1 DEF InUse, Free
      <4> QED
        BY <4>1, <4>3, <2>3, <1>1, <1>6 DEF UndisturbedInv, LiveIsUsed
    <3> QED
      BY <3>1, <3>2
  <2> QED
    BY <2>1, <2>2, <2>4 DEF UndisturbedInv
<1> QED
  BY <1>3, <1>5, <1>6 DEF RegistryInv

LEMMA RegistryKept ==
  ASSUME RegistryInv, RegistryAct
  PROVE  RegistryInv' /\ (Undisturbed /\ UndisturbedInv => UndisturbedInv')
<1>1. CASE RegistryStep
  BY <1>1, LoadStep, CountStep, DropStep, LettingStep DEF RegistryStep
<1>2. CASE Swap
  BY <1>2, SwapStep
<1>3. CASE UNCHANGED regVars
  BY <1>3 DEF regVars, RegistryInv, RegistryTypeOK, Counted, Holding, Pointed,
     UndisturbedInv, AloneLetting, Letting, LoadedIsCurrent, LiveIsUsed, InUse
<1> QED
  BY <1>1, <1>2, <1>3 DEF RegistryAct

-----------------------------------------------------------------------------
(* The sort and the owner's loops.                                          *)

LifeTypeOK ==
  /\ manifests \in Manifests
  /\ phase \in {"idle", "refused", "registered", "started", "draining", "stopped"}
  /\ inDegree \in [Plug -> 0 .. Cardinality(Capabilities)]
  /\ order \in Seq(Plug) /\ Len(order) <= NumPlugs
  /\ startedCount \in 0 .. Len(order)
  /\ call \in {"none", "sort", "start", "rollback", "drain", "stop"}
  /\ left \in 0 .. Len(order)
  /\ running \in [Plug -> Int]
  /\ drained \subseteq Plug

Places == 1 .. Len(order)

Control ==
  /\ phase = "idle" => call \in {"none", "sort"} /\ startedCount = 0
  /\ phase = "idle" /\ call = "none" => order = <<>>
  /\ call = "sort" => phase = "idle"
  /\ call \in {"start", "rollback"} => phase = "registered"
  /\ call = "drain" => phase = "draining"
  /\ call = "stop" => phase \in {"started", "draining"}
  /\ phase \in {"refused", "stopped"} => startedCount = 0 /\ call = "none"
  /\ phase = "registered" /\ call = "none" => startedCount = 0
  /\ call \in {"drain", "rollback", "stop"} => left <= startedCount
  /\ phase \in {"registered", "started", "draining", "stopped"} => Remaining = {}
  /\ phase \in {"started", "draining"} => startedCount = Len(order)

\* Each plug is placed once.
Distinct ==
  /\ \A k, l \in Places : order[k] = order[l] => k = l
  /\ Cardinality(Remaining) = NumPlugs - Len(order)

PlacedCaps == UNION {manifests[order[k]].provides : k \in Places}

Degrees ==
  call = "sort" => \A q \in Remaining : inDegree[q] = Cardinality(Needs(q) \ PlacedCaps)

Ordered ==
  \A k \in Places : \A c \in Needs(order[k]) :
    \E l \in Places : l < k /\ c \in manifests[order[l]].provides

\* How many plugs, from the first in the order, are running.
Up == IF call \in {"rollback", "stop"} THEN left ELSE startedCount

UpRuns ==
  \A p \in Plug : running[p] = IF \E k \in Places : k <= Up /\ order[k] = p THEN 1 ELSE 0

DrainedLast ==
  /\ drained # {} => phase \in {"draining", "stopped"}
  /\ call = "drain" => \A k \in Places : order[k] \in drained <=> k > left
  /\ \A k, l \in Places : k <= l /\ order[k] \in drained => order[l] \in drained

LifeInv ==
  /\ LifeTypeOK /\ Control /\ Distinct /\ UpRuns /\ DrainedLast
  /\ OneProvider => Degrees /\ Ordered

LEMMA ManifestTypes ==
  ASSUME LifeTypeOK, NEW p \in Plug
  PROVE  /\ manifests[p].provides \subseteq Capabilities
         /\ IsFiniteSet(Needs(p)) /\ Needs(p) \subseteq Capabilities
         /\ Cardinality(Needs(p)) \in 0 .. Cardinality(Capabilities)
<1>1. manifests[p] \in Manifest
  BY PlugsAssumption DEF LifeTypeOK
<1>2. Needs(p) \in SUBSET Capabilities /\ manifests[p].provides \subseteq Capabilities
  BY <1>1 DEF Manifest, Needs
<1>3. IsFiniteSet(Capabilities)
  BY PlugsAssumption
<1>4. IsFiniteSet(Needs(p)) /\ Cardinality(Needs(p)) <= Cardinality(Capabilities)
  BY <1>2, <1>3, FS_Subset
<1>5. Cardinality(Needs(p)) \in Nat /\ Cardinality(Capabilities) \in Nat
  BY <1>3, <1>4, FS_CardinalityType
<1> QED
  BY <1>2, <1>4, <1>5

LEMMA LifeInitially ==
  ASSUME Init
  PROVE  LifeInv
<1> USE DEF Init
<1>1. NumPlugs \in Nat /\ Len(order) = 0 /\ order \in Seq(Plug)
      /\ Cardinality(Capabilities) \in Nat
  BY PlugsAssumption, FS_CardinalityType
<1>2. LifeTypeOK
  BY <1>1 DEF LifeTypeOK
<1>3. Remaining = Plug /\ Cardinality(Plug) = NumPlugs
  <2>1. Cardinality(1 .. NumPlugs) = IF 1 > NumPlugs THEN 0 ELSE NumPlugs - 1 + 1
    BY <1>1, FS_Interval
  <2> QED
    BY <1>1, <2>1 DEF Remaining, Plug
<1>4. Control
  BY DEF Control
<1>5. Distinct
  BY <1>1, <1>3 DEF Distinct, Places
<1>6. UpRuns /\ DrainedLast /\ Degrees /\ Ordered
  BY <1>1 DEF UpRuns, DrainedLast, Degrees, Ordered, Places
<1> QED
  BY <1>2, <1>4, <1>5, <1>6 DEF LifeInv

LEMMA PlaceStep ==
  ASSUME LifeInv, NEW p \in Plug, Place(p)
  PROVE  LifeInv'
<1> USE DEF Place
<1> DEFINE n == Len(order)
<1>1. /\ order' = Append(order, p) /\ order \in Seq(Plug) /\ n \in Nat /\ NumPlugs \in Nat
      /\ Len(order') = n + 1 /\ order' \in Seq(Plug)
      /\ order'[n + 1] = p /\ \A k \in 1 .. n : order'[k] = order[k]
  BY PlugsAssumption DEF LifeInv, LifeTypeOK
<1>2. Places' = Places \cup {n + 1} /\ n + 1 \notin Places
      /\ \A k \in Places : order'[k] = order[k] /\ k < n + 1
      /\ Places \subseteq Nat
  BY <1>1 DEF Places
<1>3. Remaining' = Remaining \ {p} /\ p \in Remaining
  BY <1>1, <1>2 DEF Remaining, Places
<1>4. Distinct'
  <2>1. IsFiniteSet(Remaining)
    <3>1. IsFiniteSet(1 .. NumPlugs)
      BY <1>1, FS_Interval
    <3>2. Remaining \in SUBSET (1 .. NumPlugs)
      BY DEF Remaining, Plug
    <3> QED
      BY <3>1, <3>2, FS_Subset
  <2>2. Cardinality(Remaining \ {p}) = Cardinality(Remaining) - 1
    BY <2>1, <1>3, FS_RemoveElement
  <2>3. Cardinality(Remaining) \in Nat
    BY <2>1, FS_CardinalityType
  <2>4. Cardinality(Remaining)' = NumPlugs - Len(order')
    BY <2>2, <2>3, <1>1, <1>3 DEF LifeInv, Distinct
  <2>5. \A k \in Places : order[k] # p
    BY <1>3 DEF Remaining, Places
  <2>6. \A k, l \in Places' : order'[k] = order'[l] => k = l
    <3>1. \A k, l \in Places : order'[k] = order'[l] => k = l
      BY <1>2 DEF LifeInv, Distinct
    <3>2. \A k \in Places : order'[k] # order'[n + 1]
      BY <1>1, <1>2, <2>5
    <3> HIDE DEF n
    <3> QED
      BY <3>1, <3>2, <1>2
  <2> QED
    BY <2>4, <2>6 DEF Distinct
<1>5. LifeTypeOK'
  <2>1. Len(order') <= NumPlugs
    <3>1. IsFiniteSet(1 .. NumPlugs) /\ Remaining' \in SUBSET (1 .. NumPlugs)
      BY <1>1, FS_Interval DEF Remaining, Plug
    <3>2. Cardinality(Remaining') \in Nat
      BY <3>1, FS_Subset, FS_CardinalityType
    <3> QED
      BY <3>2, <1>1, <1>4 DEF Distinct
  <2>2. inDegree' \in [Plug -> 0 .. Cardinality(Capabilities)]
    <3>1. \A q \in Plug : Less(p, q) \in Nat
      <4> SUFFICES ASSUME NEW q \in Plug PROVE Less(p, q) \in Nat
        OBVIOUS
      <4>1. IsFiniteSet(Needs(q))
        BY ManifestTypes DEF LifeInv
      <4>2. Needs(q) \cap manifests[p].provides \in SUBSET Needs(q)
        OBVIOUS
      <4> QED
        BY <4>1, <4>2, FS_Subset, FS_CardinalityType DEF Less
    <3>2. Cardinality(Capabilities) \in Nat
      BY PlugsAssumption, FS_CardinalityType
    <3> QED
      BY <3>1, <3>2 DEF LifeInv, LifeTypeOK
  <2>3. startedCount' \in 0 .. Len(order') /\ left' \in 0 .. Len(order')
    BY <1>1 DEF LifeInv, LifeTypeOK
  <2> QED
    BY <1>1, <2>1, <2>2, <2>3 DEF LifeInv, LifeTypeOK
<1>6. phase = "idle" /\ startedCount = 0 /\ drained = {}
  BY DEF LifeInv, Control, DrainedLast
<1>7. Control'
  BY <1>6 DEF LifeInv, Control
<1>8. UpRuns'
  <2>1. Up = 0 /\ Up' = 0
    BY <1>6 DEF Up
  <2> QED
    BY <2>1, <1>2 DEF LifeInv, UpRuns, Places
<1>9. DrainedLast'
  BY <1>6 DEF DrainedLast
<1>10. ASSUME OneProvider PROVE Degrees' /\ Ordered'
  <2>1. Degrees /\ Ordered
    BY <1>10 DEF LifeInv
  <2>2. \A k \in Places : order[k] \in Plug /\ order[k] # p
    BY <1>1, <1>3 DEF Remaining, Places
  <2>3. PlacedCaps' = PlacedCaps \cup manifests[p].provides
    BY <1>1, <1>2 DEF PlacedCaps
  <2>4. PlacedCaps \cap manifests[p].provides = {}
    BY <1>10, <2>2 DEF PlacedCaps, OneProvider
  <2>5. ASSUME NEW q \in Remaining, q # p
        PROVE  inDegree'[q] = Cardinality(Needs(q)' \ PlacedCaps')
    <3> DEFINE A == Needs(q) \ PlacedCaps
    <3>1. q \in Plug
      BY DEF Remaining
    <3>2. IsFiniteSet(A)
      <4>1. IsFiniteSet(Needs(q)) /\ A \in SUBSET Needs(q)
        BY <3>1, ManifestTypes DEF LifeInv
      <4> QED
        BY <4>1, FS_Subset
    <3>3. /\ Cardinality(A \ manifests[p].provides)
             = Cardinality(A) - Cardinality(A \cap manifests[p].provides)
          /\ IsFiniteSet(A \ manifests[p].provides)
      BY <3>2, FS_Difference
    <3>4. A \cap manifests[p].provides = Needs(q) \cap manifests[p].provides
      BY <2>4
    <3>5. Needs(q)' \ PlacedCaps' = A \ manifests[p].provides
      BY <2>3 DEF Needs
    <3>6. inDegree[q] = Cardinality(A)
      BY <2>1 DEF Degrees
    <3>7. Cardinality(A) - Less(p, q) \in Nat /\ Cardinality(A) \in Nat /\ Less(p, q) \in Nat
      <4>1. Cardinality(A) \in Nat /\ Cardinality(A \ manifests[p].provides) \in Nat
        BY <3>2, <3>3, FS_CardinalityType
      <4>2. A \cap manifests[p].provides \in SUBSET A
        OBVIOUS
      <4>3. IsFiniteSet(A \cap manifests[p].provides)
        BY <4>2, <3>2, FS_Subset
      <4>4. Less(p, q) \in Nat
        BY <4>3, <3>4, FS_CardinalityType DEF Less
      <4> QED
        BY <4>1, <4>4, <3>3, <3>4 DEF Less
    <3>8. inDegree'[q] = inDegree[q] - Less(p, q)
      BY <3>1, <3>6, <3>7, <2>5
    <3> QED
      BY <3>3, <3>4, <3>5, <3>6, <3>8 DEF Less
  <2>6. Degrees'
    BY <2>5, <1>3 DEF Degrees
  <2>7. Needs(p) \subseteq PlacedCaps
    <3>1. Cardinality(Needs(p) \ PlacedCaps) = 0
      BY <2>1, <1>3 DEF Degrees, Ready
    <3>2. IsFiniteSet(Needs(p) \ PlacedCaps)
      <4>1. IsFiniteSet(Needs(p)) /\ Needs(p) \ PlacedCaps \in SUBSET Needs(p)
        BY ManifestTypes DEF LifeInv
      <4> QED
        BY <4>1, FS_Subset
    <3> QED
      BY <3>1, <3>2, FS_EmptySet
  <2>8. Ordered'
    <3> SUFFICES ASSUME NEW k \in Places', NEW c \in Needs(order'[k])
                 PROVE  \E l \in Places' : l < k /\ c \in manifests[order'[l]].provides
      BY DEF Ordered, Needs
    <3>1. CASE k = n + 1
      <4>1. c \in PlacedCaps
        BY <3>1, <1>1, <2>7
      <4> QED
        BY <3>1, <4>1, <1>2 DEF PlacedCaps
    <3>2. CASE k # n + 1
      <4>1. k \in Places /\ order'[k] = order[k]
        BY <3>2, <1>2
      <4> QED
        BY <4>1, <1>2, <2>1 DEF Ordered
    <3> QED
      BY <3>1, <3>2
  <2> QED
    BY <2>6, <2>8
<1>11. OneProvider' => OneProvider
  BY DEF OneProvider
<1> QED
  BY <1>4, <1>5, <1>7, <1>8, <1>9, <1>10, <1>11 DEF LifeInv

LEMMA OwnerStep ==
  ASSUME LifeInv, Lifecycle, ~\E p \in Plug : Place(p)
  PROVE  LifeInv'
<1>1. UNCHANGED <<manifests, order>>
  BY DEF Lifecycle, Sort, SortEnds, Start, StartNext, StartFails, StartEnds, StopNext,
     StopEnds, Install, Drain, DrainNext, DrainEnds, Stop, Quiet, lifeVars
<1>2. /\ Places' = Places /\ Remaining' = Remaining /\ PlacedCaps' = PlacedCaps
      /\ OneProvider' = OneProvider /\ (\A p : Needs(p)' = Needs(p))
      /\ Distinct' /\ (Ordered => Ordered')
  <2>1. /\ Places' = Places /\ Remaining' = Remaining /\ PlacedCaps' = PlacedCaps
        /\ \A p : Needs(p)' = Needs(p)
    BY <1>1 DEF Places, Remaining, PlacedCaps, Needs
  <2>2. OneProvider' = OneProvider
    BY <1>1 DEF OneProvider
  <2>3. Distinct'
    BY <1>1, <2>1 DEF LifeInv, Distinct
  <2>4. Ordered => Ordered'
    BY <1>1, <2>1 DEF Ordered
  <2> QED
    BY <2>1, <2>2, <2>3, <2>4
<1>3. Len(order) \in Nat /\ \A k \in Places : order[k] \in Plug /\ k \in Nat
  BY DEF LifeInv, LifeTypeOK, Places
<1>4. CASE Sort
  <2> USE <1>4 DEF Sort
  <2>1. LifeTypeOK'
    BY ManifestTypes DEF LifeInv, LifeTypeOK
  <2>2. Control'
    BY <1>2 DEF LifeInv, Control, Resting
  <2>3. order = <<>> /\ PlacedCaps = {}
    BY DEF LifeInv, Control, Resting, PlacedCaps, Places
  <2>4. Degrees'
    <3> SUFFICES ASSUME call' = "sort", NEW q \in Remaining'
                 PROVE  inDegree'[q] = Cardinality(Needs(q)' \ PlacedCaps')
      BY DEF Degrees
    <3>1. q \in Plug /\ inDegree'[q] = Cardinality(Needs(q))
      BY DEF Resting, Remaining
    <3> QED
      BY <3>1, <1>2, <2>3
  <2>5. UpRuns'
    BY <1>2 DEF LifeInv, UpRuns, Up, Resting
  <2>6. DrainedLast'
    BY <1>2 DEF LifeInv, DrainedLast, Resting
  <2> QED
    BY <1>2, <2>1, <2>2, <2>4, <2>5, <2>6 DEF LifeInv
<1>5. CASE SortEnds
  <2> USE <1>5 DEF SortEnds
  <2>1. LifeTypeOK' /\ Degrees'
    BY DEF LifeInv, LifeTypeOK, Degrees
  <2>2. Control'
    BY <1>2 DEF LifeInv, Control
  <2>3. UpRuns' /\ DrainedLast'
    BY <1>2 DEF LifeInv, Control, UpRuns, Up, DrainedLast
  <2> QED
    BY <1>2, <2>1, <2>2, <2>3 DEF LifeInv
<1>6. CASE Start \/ StartEnds
  <2> USE <1>6 DEF Start, StartEnds, Quiet, Resting
  <2>1. LifeTypeOK' /\ Degrees'
    BY <1>3 DEF LifeInv, LifeTypeOK, Degrees
  <2>2. Control'
    BY <1>2 DEF LifeInv, Control
  <2>3. UpRuns' /\ DrainedLast'
    BY <1>2 DEF LifeInv, Control, UpRuns, Up, DrainedLast
  <2> QED
    BY <1>2, <2>1, <2>2, <2>3 DEF LifeInv
<1>7. CASE StartNext
  <2> USE <1>7 DEF StartNext, Quiet
  <2> DEFINE n == startedCount
             q == order[n + 1]
  <2>1. n \in Nat /\ n + 1 \in Places /\ q \in Plug /\ startedCount' = n + 1
        /\ running' = [running EXCEPT ![q] = running[q] + 1]
    BY <1>3 DEF LifeInv, LifeTypeOK, Places
  <2>2. LifeTypeOK' /\ Degrees'
    BY <2>1, <1>3 DEF LifeInv, LifeTypeOK, Degrees, Places
  <2>3. Control'
    BY <1>2 DEF LifeInv, Control
  <2>4. UpRuns'
    <3>1. Up = n /\ Up' = n + 1
      BY <2>1 DEF Up
    <3>2. running[q] = 0
      <4>1. ~\E k \in Places : k <= n /\ order[k] = q
        BY <1>3, <2>1 DEF LifeInv, Distinct
      <4> QED
        BY <4>1, <2>1, <3>1 DEF LifeInv, UpRuns
    <3> SUFFICES ASSUME NEW p \in Plug
                 PROVE  running'[p] = IF \E k \in Places : k <= n + 1 /\ order[k] = p
                                      THEN 1 ELSE 0
      BY <3>1, <1>1, <1>2 DEF UpRuns
    <3>3. CASE p = q
      BY <3>2, <3>3, <2>1 DEF LifeInv, LifeTypeOK
    <3>4. CASE p # q
      <4>1. \A k \in Places : k <= n + 1 /\ order[k] = p <=> k <= n /\ order[k] = p
        BY <3>4, <1>3, <2>1
      <4>2. running'[p] = running[p]
        BY <3>4, <2>1 DEF LifeInv, LifeTypeOK
      <4>3. running[p] = IF \E k \in Places : k <= n /\ order[k] = p THEN 1 ELSE 0
        BY <3>1 DEF LifeInv, UpRuns
      <4> QED
        BY <4>1, <4>2, <4>3
    <3> QED
      BY <3>3, <3>4
  <2>5. DrainedLast'
    BY <1>1, <1>2 DEF LifeInv, DrainedLast
  <2> QED
    BY <1>2, <2>2, <2>3, <2>4, <2>5 DEF LifeInv
<1>8. CASE StartFails
  <2> USE <1>8 DEF StartFails, Quiet
  <2>1. LifeTypeOK' /\ Degrees'
    BY DEF LifeInv, LifeTypeOK, Degrees
  <2>2. Control'
    BY <1>2, <1>3 DEF LifeInv, Control, LifeTypeOK
  <2>3. UpRuns' /\ DrainedLast'
    BY <1>2 DEF LifeInv, Control, UpRuns, Up, DrainedLast
  <2> QED
    BY <1>2, <2>1, <2>2, <2>3 DEF LifeInv
<1>9. CASE StopNext
  <2> USE <1>9 DEF StopNext, Quiet
  <2> DEFINE n == left
             q == order[n]
  <2>1. n \in Nat \ {0} /\ n \in Places /\ q \in Plug /\ left' = n - 1
        /\ running' = [running EXCEPT ![q] = running[q] - 1]
    BY <1>3 DEF LifeInv, LifeTypeOK, Places
  <2>2. LifeTypeOK' /\ Degrees'
    BY <2>1, <1>3 DEF LifeInv, LifeTypeOK, Degrees, Places
  <2>3. Control'
    BY <1>2, <2>1 DEF LifeInv, Control, LifeTypeOK
  <2>4. UpRuns'
    <3>1. Up = n /\ Up' = n - 1
      BY <2>1 DEF Up
    <3>2. running[q] = 1
      BY <2>1, <3>1 DEF LifeInv, UpRuns
    <3> SUFFICES ASSUME NEW p \in Plug
                 PROVE  running'[p] = IF \E k \in Places : k <= n - 1 /\ order[k] = p
                                      THEN 1 ELSE 0
      BY <3>1, <1>1, <1>2 DEF UpRuns
    <3>3. CASE p = q
      <4>1. ~\E k \in Places : k <= n - 1 /\ order[k] = q
        BY <1>3, <2>1 DEF LifeInv, Distinct
      <4>2. running'[q] = 0
        BY <3>2, <2>1 DEF LifeInv, LifeTypeOK
      <4> QED
        BY <3>3, <4>1, <4>2
    <3>4. CASE p # q
      <4>1. \A k \in Places : k <= n - 1 /\ order[k] = p <=> k <= n /\ order[k] = p
        BY <3>4, <1>3, <2>1
      <4>2. running'[p] = running[p]
        BY <3>4, <2>1 DEF LifeInv, LifeTypeOK
      <4>3. running[p] = IF \E k \in Places : k <= n /\ order[k] = p THEN 1 ELSE 0
        BY <3>1 DEF LifeInv, UpRuns
      <4> QED
        BY <4>1, <4>2, <4>3
    <3> QED
      BY <3>3, <3>4
  <2>5. DrainedLast'
    BY <1>1, <1>2 DEF LifeInv, DrainedLast
  <2> QED
    BY <1>2, <2>2, <2>3, <2>4, <2>5 DEF LifeInv
<1>10. CASE StopEnds
  <2> USE <1>10 DEF StopEnds, Quiet
  <2>1. LifeTypeOK' /\ Degrees'
    BY <1>3 DEF LifeInv, LifeTypeOK, Degrees
  <2>2. Control'
    BY <1>2 DEF LifeInv, Control
  <2>3. UpRuns' /\ DrainedLast'
    BY <1>2 DEF LifeInv, Control, UpRuns, Up, DrainedLast
  <2> QED
    BY <1>2, <2>1, <2>2, <2>3 DEF LifeInv
<1>11. CASE Install
  <2>1. UNCHANGED lifeVars
    BY <1>11 DEF Install
  <2> QED
    BY <2>1, <1>2 DEF lifeVars, LifeInv, LifeTypeOK, Control, UpRuns, Up, DrainedLast, Degrees
<1>12. CASE Drain \/ Stop
  <2> USE <1>12 DEF Drain, Stop, Quiet, Resting
  <2>1. LifeTypeOK' /\ Degrees'
    BY DEF LifeInv, LifeTypeOK, Degrees
  <2>2. Control'
    BY <1>2, <1>3 DEF LifeInv, Control, LifeTypeOK
  <2>3. UpRuns'
    BY <1>2 DEF LifeInv, UpRuns, Up
  <2>4. DrainedLast'
    BY <1>2, <1>3 DEF LifeInv, Control, DrainedLast, Places
  <2> QED
    BY <1>2, <2>1, <2>2, <2>3, <2>4 DEF LifeInv
<1>13. CASE DrainNext \/ \E failed \in BOOLEAN : DrainEnds(failed)
  <2> USE <1>13 DEF DrainNext, DrainEnds, Quiet
  <2>0. drained' \subseteq Plug /\ left' \in 0 .. Len(order)
    BY <1>3 DEF LifeInv, LifeTypeOK, Places
  <2>1. LifeTypeOK' /\ Degrees'
    BY <2>0 DEF LifeInv, LifeTypeOK, Degrees
  <2>2. Control'
    BY <1>2, <1>3 DEF LifeInv, Control, LifeTypeOK
  <2>3. UpRuns'
    BY <1>2 DEF LifeInv, UpRuns, Up
  <2>4. DrainedLast'
    <3>1. phase' = "draining" /\ phase = "draining" /\ call = "drain"
      BY DEF LifeInv, Control
    <3>2. left \in Nat /\ (left > 0 => left \in Places)
      BY <1>3 DEF LifeInv, LifeTypeOK, Places
    <3>3. \A k \in Places : order[k] \in drained <=> k > left
      BY <3>1 DEF LifeInv, DrainedLast
    <3>4. \A k \in Places : left > 0 /\ order[k] = order[left] => k = left
      BY <3>2 DEF LifeInv, Distinct
    <3>5. CASE drained' = drained /\ call' = "none"
      BY <3>1, <3>5, <1>1, <1>2 DEF LifeInv, DrainedLast
    <3>6. CASE left > 0 /\ drained' = drained \cup {order[left]}
               /\ (call' = "none" \/ left' = left - 1)
      <4>1. \A k \in Places : order[k] \in drained' <=> k > left - 1
        BY <3>2, <3>3, <3>4, <3>6, <1>3
      <4> QED
        BY <4>1, <3>1, <3>2, <3>6, <1>1, <1>2, <1>3 DEF DrainedLast
    <3> QED
      BY <3>5, <3>6
  <2> QED
    BY <1>2, <2>1, <2>2, <2>3, <2>4 DEF LifeInv
<1> QED
  BY <1>4, <1>5, <1>6, <1>7, <1>8, <1>9, <1>10, <1>11, <1>12, <1>13 DEF Lifecycle

-----------------------------------------------------------------------------
(* The theorems.                                                            *)

IInv == RegistryInv /\ LifeInv

LEMMA StepKept ==
  ASSUME IInv, [Next]_vars
  PROVE  IInv' /\ (Undisturbed /\ UndisturbedInv => UndisturbedInv')
<1>1. CASE Lifecycle
  <2>1. RegistryAct
    BY <1>1 DEF Lifecycle, RegistryAct, Sort, Place, SortEnds, Start, StartNext, StartFails,
       StartEnds, StopNext, StopEnds, Install, Drain, DrainNext, DrainEnds, Stop, regVars
  <2>2. LifeInv'
    BY <1>1, PlaceStep, OwnerStep DEF IInv
  <2> QED
    BY <2>1, <2>2, RegistryKept DEF IInv
<1>2. CASE (RegistryStep \/ UNCHANGED regVars) /\ UNCHANGED lifeVars
  <2>1. RegistryAct
    BY <1>2 DEF RegistryAct
  <2>2. UNCHANGED <<manifests, phase, inDegree, order, startedCount, call, left, running, drained>>
    BY <1>2 DEF lifeVars
  <2>3. /\ Places' = Places /\ Remaining' = Remaining /\ PlacedCaps' = PlacedCaps
        /\ \A p : Needs(p)' = Needs(p)
    BY <2>2 DEF Places, Remaining, PlacedCaps, Needs
  <2>4. OneProvider' = OneProvider
    BY <2>2 DEF OneProvider
  <2>5. LifeTypeOK' /\ Control' /\ Distinct' /\ UpRuns' /\ DrainedLast'
    BY <2>2, <2>3 DEF IInv, LifeInv, LifeTypeOK, Control, Distinct, UpRuns, Up, DrainedLast
  <2>6. (Degrees => Degrees') /\ (Ordered => Ordered')
    BY <2>2, <2>3 DEF Degrees, Ordered
  <2> QED
    BY <2>1, <2>4, <2>5, <2>6, RegistryKept DEF IInv, LifeInv
<1> QED
  BY <1>1, <1>2 DEF Next, vars

LEMMA Invariant == Spec => []IInv
<1>1. Init => IInv
  BY RegistryInitially, LifeInitially DEF Init, IInv
<1>2. IInv /\ [Next]_vars => IInv'
  BY StepKept
<1> QED
  BY <1>1, <1>2, PTL DEF Spec

\* Every count, phase and index stays in its range; in particular no count
\* goes below zero (src/registry.zig:118), and no plug is placed twice.
THEOREM TypeCorrect == Spec => []TypeOK
<1>1. IInv => TypeOK
  BY DEF IInv, RegistryInv, LifeInv, LifeTypeOK, TypeOK
<1> QED
  BY <1>1, Invariant, PTL

\* Where a capability has one provider, the order of topoSort
\* (src/dep_graph.zig:39) and the loops of start, rollbackStart, drain and stop
\* (src/lifecycle.zig:145) keep what a running plug requires running.
THEOREM RequirementsAreMet == Spec => []RequirementsRun
<1>1. IInv => RequirementsRun
  <2> SUFFICES ASSUME IInv, OneProvider, NEW p \in Plug, running[p] = 1, NEW c \in Needs(p)
               PROVE  MetBy(c, p)
    BY DEF RequirementsRun
  <2>1. PICK k \in Places : k <= Up /\ order[k] = p
    BY DEF IInv, LifeInv, UpRuns
  <2>2. PICK l \in Places : l < k /\ c \in manifests[order[l]].provides
    BY <2>1 DEF IInv, LifeInv, Ordered
  <2>3. order[l] \in Plug /\ l <= Up /\ l <= k
    BY <2>1, <2>2 DEF IInv, LifeInv, LifeTypeOK, Places, Up
  <2>4. running[order[l]] = 1
    BY <2>2, <2>3 DEF IInv, LifeInv, UpRuns
  <2>5. order[l] \in drained => p \in drained
    BY <2>1, <2>3 DEF IInv, LifeInv, DrainedLast
  <2> QED
    BY <2>2, <2>3, <2>4, <2>5 DEF MetBy
<1> QED
  BY <1>1, Invariant, PTL

\* A start that fails, and a stop, call onStop once for every plug that was
\* started and for no other (src/lifecycle.zig:160, :200).
THEOREM EveryStartIsStopped == Spec => []StopsMatchStarts
<1>1. IInv => StopsMatchStarts
  <2> SUFFICES ASSUME IInv PROVE StopsMatchStarts
    OBVIOUS
  <2>1. \A p \in Plug : running[p] \in {0, 1}
    BY DEF IInv, LifeInv, UpRuns
  <2>2. ASSUME call \in {"none", "sort"}, phase \in {"registered", "stopped"}
        PROVE  \A p \in Plug : running[p] = 0
    <3>1. Up = 0
      BY <2>2 DEF IInv, LifeInv, Control, Up
    <3> QED
      BY <3>1 DEF IInv, LifeInv, UpRuns, Places
  <2>3. ASSUME phase \in {"started", "draining"}, call # "stop"
        PROVE  \A p \in Plug : running[p] = 1
    <3>1. Up = Len(order) /\ Remaining = {}
      BY <2>3 DEF IInv, LifeInv, Control, Up
    <3>2. \A p \in Plug : \E k \in Places : order[k] = p
      BY <3>1 DEF Remaining, Places
    <3> QED
      BY <3>1, <3>2 DEF IInv, LifeInv, LifeTypeOK, UpRuns, Places
  <2> QED
    BY <2>1, <2>2, <2>3 DEF StopsMatchStarts
<1> QED
  BY <1>1, Invariant, PTL

\* As long as no pointer is exchanged between the two steps of acquire
\* (src/registry.zig:105), a snapshot is freed once and only when it is neither
\* current nor in use, and is not kept beyond that.
THEOREM HandlesKeepAlive == ASSUME Undisturbed PROVE Spec => []LivesWhileUsed
<1>1. Init => IInv /\ UndisturbedInv
  BY RegistryInitially, LifeInitially DEF Init, IInv
<1>2. IInv /\ UndisturbedInv /\ [Next]_vars => (IInv /\ UndisturbedInv)'
  BY StepKept
<1>3. IInv /\ UndisturbedInv => LivesWhileUsed
  <2> SUFFICES ASSUME IInv, UndisturbedInv PROVE LivesWhileUsed
    OBVIOUS
  <2>1. live = {current} \cup InUse
    BY DEF UndisturbedInv, LiveIsUsed
  <2>2. ASSUME NEW t \in Threads, NEW u \in Threads, hand[t].at = "unused",
               hand[u].at \in {"held", "dropped", "unused"}, hand[t].snap = hand[u].snap
        PROVE  t = u
    <3>1. Letting(t) /\ refcount[hand[t].snap] = 0 /\ hand[t].snap \in 1 .. built
      BY <2>2, HandTypes DEF UndisturbedInv, AloneLetting, Letting, IInv, RegistryInv
    <3>2. Cardinality(Holding(hand[t].snap)) + Pointed(hand[t].snap) = 0
      BY <3>1 DEF IInv, RegistryInv, Counted
    <3>3. Holding(hand[t].snap) = {}
      BY <3>2, HoldingFinite DEF Pointed
    <3>4. hand[u].at # "held"
      BY <2>2, <3>3 DEF Holding
    <3> QED
      BY <2>2, <3>1, <3>4 DEF UndisturbedInv, AloneLetting, Letting
  <2> QED
    BY <2>1, <2>2 DEF LivesWhileUsed
<1> QED
  BY <1>1, <1>2, <1>3, PTL DEF Spec

=============================================================================
