--------------------------- MODULE InstancesProofs ---------------------------
(***************************************************************************)
(* Theorems about Instances, for every set of clients and ids, all windows *)
(* and all lags.                                                           *)
(***************************************************************************)
EXTENDS Instances, TLAPS

\* An id belongs to one client: as its own, or as the one being registered.
OwnIds ==
  \A c, d \in Clients : c # d =>
    {client[c].id, request[c].id} \cap {client[d].id, request[d].id} \subseteq {None}

\* What a handler's request says about its client.
RequestsMatch ==
  \A c \in Clients :
    /\ request[c].at = "none" => request[c].id = None
    /\ request[c].at # "none" => request[c].id \in Ids
    /\ request[c].at \in {"insert", "token"} => client[c].at # "in"
    /\ request[c].at \in {"beat", "delete"} => request[c].id = client[c].id
    /\ request[c].at = "beat" => client[c].at # "out"
    /\ request[c].at = "delete" => client[c].at = "gone"
    /\ client[c].at = "in" => client[c].id \in Ids

\* A live row whose heartbeat is at most n old.
FreshRow(i, n) == rows[i] # None /\ rows[i].evicted = None /\ rows[i].age <= n

\* A row written no longer ago than the grace window is listed and as young as
\* the clock reading its writer took.
WrittenIsFresh ==
  \A c \in Clients :
    /\ client[c].at = "in" /\ client[c].beat <= Grace
         => FreshRow(client[c].id, client[c].beat)
    /\ request[c].at = "token" /\ request[c].lag <= Grace
         => FreshRow(request[c].id, request[c].lag)

\* An evicted row was silent for the grace window before its eviction.
EvictedWasSilent ==
  \A i \in Ids : rows[i] # None /\ rows[i].evicted # None =>
    /\ rows[i].pulse
    /\ rows[i].age = Old \/ rows[i].age > Grace + rows[i].evicted

IInv ==
  /\ TypeOK /\ OwnIds /\ RequestsMatch
  /\ WrittenIsFresh /\ RegisteredHoldsToken /\ EvictedWasSilent

-----------------------------------------------------------------------------
LEMMA OlderType == \A n \in Age : Older(n) \in Age /\ (n < Old => Older(n) = n + 1)
                                                  /\ (n = Old => Older(n) = Old)
BY InstancesAssumption DEF Older, Age, Old

\* Ageing keeps a row a row, or none.
LEMMA OlderRowType ==
  ASSUME NEW row \in Row \cup {None}
  PROVE  /\ OlderRow(row) \in Row \cup {None}
         /\ OlderRow(row) = None <=> row = None
         /\ row # None =>
              /\ OlderRow(row).pulse = row.pulse
              /\ OlderRow(row).token = row.token
              /\ OlderRow(row).age = Older(row.age)
              /\ OlderRow(row).evicted = IF row.evicted = None THEN None
                                         ELSE Older(row.evicted)
<1>1. CASE row = None
  BY <1>1 DEF OlderRow
<1>2. CASE row # None
  <2>1. row \in Row
    BY <1>2
  <2>2. /\ row.age \in Age /\ row.evicted \in Age \cup {None}
        /\ row.pulse \in BOOLEAN /\ row.token \in BOOLEAN
    BY <2>1 DEF Row
  <2> DEFINE old == [pulse |-> row.pulse, token |-> row.token, age |-> Older(row.age),
                     evicted |-> IF row.evicted = None THEN None ELSE Older(row.evicted)]
  <2>3. OlderRow(row) = old
    BY <1>2, <2>1 DEF OlderRow, Row
  <2>4. old \in Row
    BY <2>2, OlderType DEF Row
  <2>5. old # None
    BY <2>4, NoRowAssumption
  <2> QED
    BY <1>2, <2>3, <2>4, <2>5
<1> QED
  BY <1>1, <1>2

\* The types, one variable at a time, as the proofs of the steps use them.
LEMMA Types ==
  ASSUME TypeOK
  PROVE  /\ rows \in [Ids -> Row \cup {None}]
         /\ client \in [Clients -> [at: {"out", "in", "gone"},
                                    id: Ids \cup {None}, beat: Age]]
         /\ request \in [Clients -> [at: {"none", "insert", "token", "beat", "delete"},
                                     id: Ids \cup {None}, pulse: BOOLEAN, lag: Lag]]
         /\ sweep \in [at: {"asleep", "evict", "purge"}, lag: Lag]
         /\ 0 \in Lag /\ 0 \in Age /\ Old \in Age /\ Lag \subseteq Age
         /\ Lag \subseteq Nat /\ Age \subseteq Nat
BY InstancesAssumption DEF TypeOK, Age, Lag, Old

\* What a row may become in a step of a handler or of the sweeper.
LEMMA RowUpdates ==
  ASSUME TypeOK, NEW i \in Ids, rows[i] # None, NEW age \in Age, NEW evicted \in Age
  PROVE  /\ rows[i] \in Row
         /\ [rows[i] EXCEPT !.token = TRUE] \in Row
         /\ [pulse |-> rows[i].pulse, token |-> rows[i].token,
             age |-> age, evicted |-> None] \in Row
         /\ [rows[i] EXCEPT !.evicted = evicted] \in Row
<1>1. rows[i] \in Row
  BY Types
<1>2. /\ rows[i] = [pulse |-> rows[i].pulse, token |-> rows[i].token,
                    age |-> rows[i].age, evicted |-> rows[i].evicted]
      /\ rows[i].pulse \in BOOLEAN /\ rows[i].token \in BOOLEAN
      /\ rows[i].age \in Age /\ rows[i].evicted \in Age \cup {None}
  BY <1>1 DEF Row
<1>3. [pulse |-> rows[i].pulse, token |-> rows[i].token,
       age |-> age, evicted |-> None] \in Row
  BY <1>2 DEF Row
<1>4. [rows[i] EXCEPT !.token = TRUE] \in Row
  BY <1>1 DEF Row
<1>5. [rows[i] EXCEPT !.evicted = evicted] \in Row
  <2>1. [rows[i] EXCEPT !.evicted = evicted] =
          [pulse |-> rows[i].pulse, token |-> rows[i].token,
           age |-> rows[i].age, evicted |-> evicted]
    BY <1>2
  <2> QED
    BY <1>2, <2>1 DEF Row
<1> QED
  BY <1>1, <1>3, <1>4, <1>5

LEMMA EvictedRows ==
  ASSUME TypeOK, NEW lag \in Lag, EvictExpired(lag)
  PROVE  /\ rows' \in [Ids -> Row \cup {None}]
         /\ \A i \in Ids :
              \/ rows'[i] = rows[i]
              \/ /\ Expired(rows[i], lag)
                 /\ rows'[i] = [rows[i] EXCEPT !.evicted = lag]
                 /\ rows'[i] \in Row
<1>1. \A i \in Ids : Expired(rows[i], lag) => [rows[i] EXCEPT !.evicted = lag] \in Row
  BY RowUpdates, Types DEF Expired
<1> QED
  BY <1>1, Types DEF EvictExpired

LEMMA TypeStep == TypeOK /\ [Next]_vars => TypeOK'
<1> SUFFICES ASSUME TypeOK, [Next]_vars PROVE TypeOK'
  OBVIOUS
<1> USE Types
<1>n. NoRequest \in [at: {"none", "insert", "token", "beat", "delete"},
                     id: Ids \cup {None}, pulse: BOOLEAN, lag: Lag]
  BY DEF NoRequest
<1>s. Asleep \in [at: {"asleep", "evict", "purge"}, lag: Lag]
  BY DEF Asleep
<1>d. ASSUME NEW c \in Clients, Done(c)
      PROVE  request' \in [Clients -> [at: {"none", "insert", "token", "beat", "delete"},
                                       id: Ids \cup {None}, pulse: BOOLEAN, lag: Lag]]
  BY <1>d, <1>n DEF Done
<1>t. ASSUME NEW c \in Clients, NEW at \in {"out", "in"}, NEW i \in Ids \cup {None},
             NEW beat \in Age, Told(c, at, i, beat)
      PROVE  client' \in [Clients -> [at: {"out", "in", "gone"},
                                      id: Ids \cup {None}, beat: Age]]
  BY <1>t DEF Told
<1>f. ASSUME NEW kind, Fault(kind)
      PROVE  faults' \in 0 .. MaxFaults
  BY <1>f, InstancesAssumption DEF Fault, TypeOK
<1>0. up \in BOOLEAN /\ faults \in 0 .. MaxFaults
  BY DEF TypeOK
<1>1. ASSUME NEW c \in Clients, Register(c) PROVE TypeOK'
  BY <1>1, <1>0 DEF Register, TypeOK
<1>2. ASSUME NEW c \in Clients, Insert(c) PROVE TypeOK'
  <2>1. request[c].id \in Ids \cup {None} /\ request[c].lag \in Age
        /\ request[c].pulse \in BOOLEAN
    OBVIOUS
  <2>2. [pulse |-> request[c].pulse, token |-> FALSE,
         age |-> request[c].lag, evicted |-> None] \in Row
    BY <2>1 DEF Row
  <2>3. rows' \in [Ids -> Row \cup {None}]
    BY <1>2, <2>2 DEF Insert
  <2> QED
    BY <1>2, <2>3, <1>0 DEF Insert, TypeOK
<1>3. ASSUME NEW c \in Clients, SetToken(c) PROVE TypeOK'
  <2>1. rows' \in [Ids -> Row \cup {None}]
    BY <1>3, RowUpdates DEF SetToken
  <2>2. request[c].id \in Ids \cup {None} /\ request[c].lag \in Age
    OBVIOUS
  <2>3. Told(c, "in", request[c].id, request[c].lag) /\ Done(c)
    BY <1>3 DEF SetToken
  <2>4. sweep' = sweep /\ up' = up /\ faults' = faults
    BY <1>3 DEF SetToken
  <2> QED
    BY <2>1, <2>2, <2>3, <2>4, <1>0, <1>d, <1>t DEF TypeOK
<1>4. ASSUME NEW c \in Clients, Beat(c) \/ Leave(c) PROVE TypeOK'
  <2>1. /\ request[c] \in [at: {"none", "insert", "token", "beat", "delete"},
                            id: Ids \cup {None}, pulse: BOOLEAN, lag: Lag]
        /\ client[c].id \in Ids \cup {None}
    OBVIOUS
  <2>2. request' \in [Clients -> [at: {"none", "insert", "token", "beat", "delete"},
                                  id: Ids \cup {None}, pulse: BOOLEAN, lag: Lag]]
    <3>1. ASSUME NEW at \in {"beat", "delete"}, Authorised(c, at)
          PROVE  request' \in [Clients -> [at: {"none", "insert", "token", "beat", "delete"},
                                           id: Ids \cup {None}, pulse: BOOLEAN, lag: Lag]]
      <4>1. [at |-> at, id |-> client[c].id, pulse |-> FALSE, lag |-> 0]
              \in [at: {"none", "insert", "token", "beat", "delete"},
                   id: Ids \cup {None}, pulse: BOOLEAN, lag: Lag]
        BY <2>1
      <4> QED
        BY <3>1, <4>1 DEF Authorised
    <3> QED
      BY <1>4, <3>1 DEF Beat, Leave
  <2>3. client' \in [Clients -> [at: {"out", "in", "gone"}, id: Ids \cup {None}, beat: Age]]
    BY <1>4 DEF Beat, Leave
  <2> QED
    BY <1>4, <2>2, <2>3, <1>0 DEF Beat, Leave, Authorised, TypeOK
<1>5. ASSUME NEW c \in Clients, Unknown(c) PROVE TypeOK'
  <2>1. client' \in [Clients -> [at: {"out", "in", "gone"}, id: Ids \cup {None}, beat: Age]]
    BY <1>5, <1>t DEF Unknown
  <2> QED
    BY <1>5, <2>1, <1>0 DEF Unknown, TypeOK
<1>6. ASSUME NEW c \in Clients, BeatApply(c) PROVE TypeOK'
  <2>1. request[c].id \in Ids \cup {None} /\ request[c].lag \in Age
    OBVIOUS
  <2>2. rows' \in [Ids -> Row \cup {None}]
    <3>1. CASE rows[request[c].id] = None
      BY <1>6, <3>1 DEF BeatApply
    <3>2. CASE rows[request[c].id] # None
      <4> DEFINE i == request[c].id
                 new == [pulse |-> rows[i].pulse, token |-> rows[i].token,
                         age |-> request[c].lag, evicted |-> None]
      <4>1. rows' = [rows EXCEPT ![i] = new]
        BY <1>6, <3>2 DEF BeatApply
      <4>2. i \in Ids => new \in Row
        BY <2>1, <3>2, RowUpdates
      <4> HIDE DEF new
      <4> QED
        BY <4>1, <4>2
    <3> QED
      BY <3>1, <3>2
  <2>3. \/ Told(c, "in", request[c].id, request[c].lag)
        \/ Told(c, "out", None, Old)
    BY <1>6 DEF BeatApply
  <2>4. Done(c) /\ sweep' = sweep /\ up' = up /\ faults' = faults
    BY <1>6 DEF BeatApply
  <2> QED
    BY <2>1, <2>2, <2>3, <2>4, <1>0, <1>d, <1>t DEF TypeOK
<1>7. ASSUME NEW c \in Clients, Delete(c) PROVE TypeOK'
  <2>1. rows' \in [Ids -> Row \cup {None}]
    BY <1>7 DEF Delete
  <2> QED
    BY <1>7, <2>1, <1>0, <1>d DEF Delete, TypeOK
<1>8. ASSUME NEW c \in Clients, Fails(c) PROVE TypeOK'
  BY <1>8, <1>0, <1>d, <1>f DEF Fails, TypeOK
<1>9. ASSUME NEW c \in Clients, Die(c) PROVE TypeOK'
  BY <1>9, <1>0 DEF Die, TypeOK
<1>10. ASSUME SweepStart PROVE TypeOK'
  BY <1>10, <1>0 DEF SweepStart, TypeOK
<1>11. ASSUME SweepEvict PROVE TypeOK'
  BY <1>11, <1>0, EvictedRows DEF SweepEvict, TypeOK
<1>12. ASSUME SweepPurge PROVE TypeOK'
  <2>1. rows' \in [Ids -> Row \cup {None}]
    BY <1>12 DEF SweepPurge, PurgeEvicted
  <2> QED
    BY <1>12, <2>1, <1>0, <1>s DEF SweepPurge, TypeOK
<1>13. ASSUME SweepFails PROVE TypeOK'
  BY <1>13, <1>0, <1>s, <1>f DEF SweepFails, TypeOK
<1>14. ASSUME Crash PROVE TypeOK'
  <2>1. request' \in [Clients -> [at: {"none", "insert", "token", "beat", "delete"},
                                  id: Ids \cup {None}, pulse: BOOLEAN, lag: Lag]]
    BY <1>14, <1>n DEF Crash
  <2> QED
    BY <1>14, <2>1, <1>0, <1>s, <1>f DEF Crash, TypeOK
<1>15. ASSUME Boot PROVE TypeOK'
  <2>1. rows' \in [Ids -> Row \cup {None}]
    BY <1>15, EvictedRows DEF Boot
  <2>2. faults' \in 0 .. MaxFaults
    BY <1>15, <1>0, <1>f DEF Boot
  <2> QED
    BY <1>15, <2>1, <2>2 DEF Boot, TypeOK
<1>16. ASSUME Tick PROVE TypeOK'
  <2>1. rows' \in [Ids -> Row \cup {None}]
    <3>1. \A i \in Ids : OlderRow(rows[i]) \in Row \cup {None}
      BY OlderRowType
    <3> QED
      BY <1>16, <3>1 DEF Tick
  <2>2. client' \in [Clients -> [at: {"out", "in", "gone"}, id: Ids \cup {None}, beat: Age]]
    BY <1>16, OlderType DEF Tick
  <2>3. request' \in [Clients -> [at: {"none", "insert", "token", "beat", "delete"},
                                  id: Ids \cup {None}, pulse: BOOLEAN, lag: Lag]]
    <3>1. ASSUME NEW c \in Clients
          PROVE  request'[c] \in [at: {"none", "insert", "token", "beat", "delete"},
                                  id: Ids \cup {None}, pulse: BOOLEAN, lag: Lag]
      <4>1. CASE request[c].at = "none"
        BY <1>16, <4>1, <1>n DEF Tick
      <4>2. CASE request[c].at # "none"
        <5>1. request[c].lag + 1 \in Lag
          BY <1>16, <4>2, InstancesAssumption DEF Tick, Lag
        <5>2. request'[c] = [request[c] EXCEPT !.lag = request[c].lag + 1]
          BY <1>16, <4>2 DEF Tick
        <5> QED
          BY <5>1, <5>2
      <4> QED
        BY <4>1, <4>2
    <3>2. request' = [c \in Clients |-> request'[c]]
      BY <1>16 DEF Tick
    <3> QED
      BY <3>1, <3>2
  <2>4. sweep' \in [at: {"asleep", "evict", "purge"}, lag: Lag]
    BY <1>16, InstancesAssumption DEF Tick, Lag
  <2> QED
    BY <1>16, <2>1, <2>2, <2>3, <2>4, <1>0 DEF Tick, TypeOK
<1>17. CASE UNCHANGED vars
  BY <1>17 DEF vars, TypeOK
<1> QED
  BY <1>1, <1>2, <1>3, <1>4, <1>5, <1>6, <1>7, <1>8, <1>9, <1>10, <1>11, <1>12,
     <1>13, <1>14, <1>15, <1>16, <1>17 DEF Next, Handler

-----------------------------------------------------------------------------
\* What the helpers of the handlers do to one client's record and request.
LEMMA TellDone ==
  ASSUME TypeOK, NEW c \in Clients
  PROVE  /\ \A at, i, beat : Told(c, at, i, beat) =>
              \A d \in Clients :
                client'[d] = IF d = c /\ client[c].at # "gone"
                             THEN [at |-> at, id |-> i, beat |-> beat] ELSE client[d]
         /\ Done(c) => \A d \in Clients :
              request'[d] = IF d = c THEN NoRequest ELSE request[d]
<1>1. client \in [Clients -> [at: {"out", "in", "gone"}, id: Ids \cup {None}, beat: Age]]
  BY Types
<1>2. request \in [Clients -> [at: {"none", "insert", "token", "beat", "delete"},
                               id: Ids \cup {None}, pulse: BOOLEAN, lag: Lag]]
  BY Types
<1> QED
  BY <1>1, <1>2 DEF Told, Done

\* A step that gives no client an id from elsewhere keeps ids with their owner.
LEMMA IdsKept ==
  ASSUME OwnIds,
         \A d \in Clients :
           {client'[d].id, request'[d].id} \subseteq {client[d].id, request[d].id, None}
  PROVE  OwnIds'
<1> SUFFICES ASSUME NEW c \in Clients, NEW d \in Clients, c # d,
                    NEW i \in {client'[c].id, request'[c].id} \cap {client'[d].id, request'[d].id}
             PROVE  i = None
  BY DEF OwnIds
<1>1. i \in {client[c].id, request[c].id, None} /\ i \in {client[d].id, request[d].id, None}
  OBVIOUS
<1>2. {client[c].id, request[c].id} \cap {client[d].id, request[d].id} \subseteq {None}
  BY DEF OwnIds
<1> QED
  BY <1>1, <1>2

LEMMA IdsStep == IInv /\ [Next]_vars => OwnIds' /\ RequestsMatch'
<1> SUFFICES ASSUME IInv, [Next]_vars PROVE OwnIds' /\ RequestsMatch'
  OBVIOUS
<1>i. TypeOK /\ OwnIds /\ RequestsMatch
  BY DEF IInv
<1>n. NoRequest.at = "none" /\ NoRequest.id = None
  BY DEF NoRequest
<1>a. None \notin Ids
  BY InstancesAssumption
<1>1. ASSUME NEW c \in Clients, Register(c) PROVE OwnIds' /\ RequestsMatch'
  BY <1>1, <1>i, <1>a, Types DEF Register, Fresh, Serving, OwnIds, RequestsMatch
<1>2. ASSUME NEW c \in Clients, Insert(c) PROVE OwnIds' /\ RequestsMatch'
  BY <1>2, <1>i, Types DEF Insert, Serving, OwnIds, RequestsMatch
<1>3. ASSUME NEW c \in Clients, SetToken(c) PROVE OwnIds' /\ RequestsMatch'
  <2>1. Told(c, "in", request[c].id, request[c].lag) /\ Done(c) /\ request[c].at = "token"
    BY <1>3 DEF SetToken, Serving
  <2>2. \A d \in Clients :
          /\ client'[d] = IF d = c /\ client[c].at # "gone"
                          THEN [at |-> "in", id |-> request[c].id, beat |-> request[c].lag]
                          ELSE client[d]
          /\ request'[d] = IF d = c THEN NoRequest ELSE request[d]
    BY <2>1, <1>i, TellDone
  <2>3. OwnIds'
    BY <2>2, <1>i, <1>n, IdsKept
  <2>4. RequestsMatch'
    BY <2>1, <2>2, <1>i, <1>n DEF RequestsMatch
  <2> QED
    BY <2>3, <2>4
<1>4. ASSUME NEW c \in Clients, Beat(c) \/ Leave(c) PROVE OwnIds' /\ RequestsMatch'
  BY <1>4, <1>i, Types DEF Beat, Leave, Authorised, Serving, OwnIds, RequestsMatch
<1>5. ASSUME NEW c \in Clients, Unknown(c) PROVE OwnIds' /\ RequestsMatch'
  <2>1. Told(c, "out", None, Old) /\ request' = request /\ request[c].at = "none"
    BY <1>5 DEF Unknown, Serving
  <2>2. \A d \in Clients :
          client'[d] = IF d = c /\ client[c].at # "gone"
                       THEN [at |-> "out", id |-> None, beat |-> Old] ELSE client[d]
    BY <2>1, <1>i, TellDone
  <2>3. OwnIds'
    BY <2>1, <2>2, <1>i, IdsKept
  <2>4. RequestsMatch'
    BY <2>1, <2>2, <1>i DEF RequestsMatch
  <2> QED
    BY <2>3, <2>4
<1>6. ASSUME NEW c \in Clients, BeatApply(c) PROVE OwnIds' /\ RequestsMatch'
  <2>1. /\ Done(c) /\ request[c].at = "beat"
        /\ \/ Told(c, "in", request[c].id, request[c].lag)
           \/ Told(c, "out", None, Old)
    BY <1>6 DEF BeatApply, Serving
  <2>2. PICK at \in {"in", "out"}, i \in {request[c].id, None}, beat \in Age :
          Told(c, at, i, beat) /\ (at = "in" => i = request[c].id)
    BY <2>1, <1>i, Types
  <2>3. \A d \in Clients :
          /\ client'[d] = IF d = c /\ client[c].at # "gone"
                          THEN [at |-> at, id |-> i, beat |-> beat] ELSE client[d]
          /\ request'[d] = IF d = c THEN NoRequest ELSE request[d]
    BY <2>1, <2>2, <1>i, TellDone
  <2>4. OwnIds'
    BY <2>3, <1>i, <1>n, IdsKept
  <2>5. RequestsMatch'
    BY <2>1, <2>2, <2>3, <1>i, <1>n DEF RequestsMatch
  <2> QED
    BY <2>4, <2>5
<1>7. ASSUME NEW c \in Clients, Delete(c) \/ Fails(c) PROVE OwnIds' /\ RequestsMatch'
  <2>1. Done(c) /\ client' = client
    BY <1>7 DEF Delete, Fails
  <2> QED
    BY <2>1, <1>i, <1>n, TellDone DEF OwnIds, RequestsMatch
<1>8. ASSUME NEW c \in Clients, Die(c) PROVE OwnIds' /\ RequestsMatch'
  BY <1>8, <1>i, Types DEF Die, OwnIds, RequestsMatch
<1>9. CASE SweepStart \/ SweepEvict \/ SweepPurge \/ SweepFails \/ Boot
  <2>1. client' = client /\ request' = request
    BY <1>9 DEF SweepStart, SweepEvict, SweepPurge, SweepFails, Boot
  <2> QED
    BY <2>1, <1>i DEF OwnIds, RequestsMatch
<1>10. CASE Crash
  BY <1>10, <1>i, <1>n DEF Crash, OwnIds, RequestsMatch
<1>11. CASE Tick
  <2>1. \A c \in Clients : client'[c].at = client[c].at /\ client'[c].id = client[c].id
    BY <1>11, Types, <1>i DEF Tick
  <2>2. \A c \in Clients : request'[c].at = request[c].at /\ request'[c].id = request[c].id
    BY <1>11, Types, <1>i, <1>n DEF Tick, RequestsMatch
  <2> QED
    BY <2>1, <2>2, <1>i DEF OwnIds, RequestsMatch
<1>12. CASE UNCHANGED vars
  BY <1>12, <1>i DEF vars, OwnIds, RequestsMatch
<1> QED
  BY <1>1, <1>2, <1>3, <1>4, <1>5, <1>6, <1>7, <1>8, <1>9, <1>10, <1>11, <1>12
     DEF Next, Handler

-----------------------------------------------------------------------------
RowsInv == WrittenIsFresh /\ RegisteredHoldsToken /\ EvictedWasSilent

\* Two clients' ids are two rows.
LEMMA TwoRows ==
  ASSUME OwnIds, NEW c \in Clients, NEW d \in Clients, c # d,
         NEW i \in {client[c].id, request[c].id}, NEW j \in {client[d].id, request[d].id},
         i \in Ids
  PROVE  i # j
BY InstancesAssumption DEF OwnIds

\* A row written less than the grace window ago survives an eviction.
LEMMA EvictionKeepsFresh ==
  ASSUME TypeOK, NEW lag \in Lag, EvictExpired(lag), EvictedWasSilent
  PROVE  /\ \A i \in Ids, n \in Nat : FreshRow(i, n) /\ n <= Grace => FreshRow(i, n)'
         /\ \A i \in Ids : (rows[i] = None <=> rows'[i] = None)
                        /\ (rows[i] # None => rows'[i].token = rows[i].token)
         /\ EvictedWasSilent'
<1> USE Types, InstancesAssumption
<1>1. ASSUME NEW i \in Ids, rows[i] # None
      PROVE  /\ rows[i] \in Row /\ rows[i].age \in Nat
             /\ rows'[i] = IF Expired(rows[i], lag)
                           THEN [rows[i] EXCEPT !.evicted = lag] ELSE rows[i]
  BY <1>1 DEF EvictExpired, Row
<1>2. ASSUME NEW i \in Ids, Expired(rows[i], lag)
      PROVE  /\ rows'[i].pulse = rows[i].pulse /\ rows'[i].token = rows[i].token
             /\ rows'[i].age = rows[i].age /\ rows'[i].evicted = lag
             /\ rows'[i] # None /\ rows[i].pulse /\ rows[i].age > Grace + lag
  <2>1. rows[i] \in Row /\ rows'[i] = [rows[i] EXCEPT !.evicted = lag]
    BY <1>1, <1>2 DEF Expired
  <2>2. rows'[i] \in Row
    <3>1. rows[i] # None /\ lag \in Age
      BY <1>2 DEF Expired
    <3>2. [rows[i] EXCEPT !.evicted = lag] \in Row
      <4> HIDE InstancesAssumption, Types
      <4> QED
        BY <3>1, RowUpdates
    <3> QED
      BY <2>1, <3>2
  <2>3. rows'[i] # None
    BY <2>2, NoRowAssumption
  <2> QED
    BY <1>2, <2>1, <2>3 DEF Expired, Row
<1>3. \A i \in Ids : ~Expired(rows[i], lag) => rows'[i] = rows[i]
  BY DEF EvictExpired
<1>4. \A i \in Ids, n \in Nat : FreshRow(i, n) /\ n <= Grace => FreshRow(i, n)'
  <2> SUFFICES ASSUME NEW i \in Ids, NEW n \in Nat, FreshRow(i, n), n <= Grace
               PROVE  FreshRow(i, n)'
    OBVIOUS
  <2>1. ~Expired(rows[i], lag)
    <3>1. rows[i].age \in Nat /\ rows[i].age <= n
      BY <1>1 DEF FreshRow
    <3>2. lag \in Nat /\ Grace \in Nat
      OBVIOUS
    <3> QED
      BY <3>1, <3>2 DEF Expired
  <2> QED
    BY <2>1, <1>3 DEF FreshRow
<1>5. \A i \in Ids : (rows[i] = None <=> rows'[i] = None)
                  /\ (rows[i] # None => rows'[i].token = rows[i].token)
  BY <1>2, <1>3 DEF Expired
<1>6. EvictedWasSilent'
  <2> SUFFICES ASSUME NEW i \in Ids, rows'[i] # None, rows'[i].evicted # None
               PROVE  /\ rows'[i].pulse
                      /\ rows'[i].age = Old \/ rows'[i].age > Grace + rows'[i].evicted
    BY DEF EvictedWasSilent
  <2>1. CASE Expired(rows[i], lag)
    BY <2>1, <1>2
  <2>2. CASE ~Expired(rows[i], lag)
    BY <2>2, <1>3 DEF EvictedWasSilent
  <2> QED
    BY <2>1, <2>2
<1> QED
  BY <1>4, <1>5, <1>6

\* An eviction disturbs nothing when clients and requests only lose their place.
LEMMA EvictionStep ==
  ASSUME IInv, NEW lag \in Lag, EvictExpired(lag), client' = client, request' = request
  PROVE  RowsInv'
<1>1. TypeOK /\ RequestsMatch /\ RowsInv
  BY DEF IInv, RowsInv
<1>2. /\ \A i \in Ids, n \in Nat : FreshRow(i, n) /\ n <= Grace => FreshRow(i, n)'
      /\ \A i \in Ids : (rows[i] = None <=> rows'[i] = None)
                     /\ (rows[i] # None => rows'[i].token = rows[i].token)
      /\ EvictedWasSilent'
  BY <1>1, EvictionKeepsFresh DEF RowsInv
<1>3. \A c \in Clients : /\ client[c].beat \in Nat /\ request[c].lag \in Nat
                         /\ client[c].at = "in" => client[c].id \in Ids
                         /\ request[c].at # "none" => request[c].id \in Ids
  BY <1>1, Types DEF RequestsMatch
<1>4. WrittenIsFresh'
  <2>1. ASSUME NEW c \in Clients, client[c].at = "in", client[c].beat <= Grace
        PROVE  FreshRow(client[c].id, client[c].beat)'
    <3>1. FreshRow(client[c].id, client[c].beat)
      BY <2>1, <1>1 DEF RowsInv, WrittenIsFresh
    <3> QED
      BY <2>1, <3>1, <1>2, <1>3 DEF FreshRow
  <2>2. ASSUME NEW c \in Clients, request[c].at = "token", request[c].lag <= Grace
        PROVE  FreshRow(request[c].id, request[c].lag)'
    <3>1. FreshRow(request[c].id, request[c].lag)
      BY <2>2, <1>1 DEF RowsInv, WrittenIsFresh
    <3> QED
      BY <2>2, <3>1, <1>2, <1>3 DEF FreshRow
  <2> QED
    BY <2>1, <2>2 DEF WrittenIsFresh
<1>5. RegisteredHoldsToken'
  BY <1>1, <1>2, <1>3 DEF RowsInv, RegisteredHoldsToken
<1> QED
  BY <1>2, <1>4, <1>5 DEF RowsInv

\* A step that writes no row and in which nobody comes to know of one.
LEMMA SameRows ==
  ASSUME IInv, rows' = rows,
         \A c \in Clients : /\ client'[c].at = "in" => client'[c] = client[c]
                            /\ request'[c].at = "token" => request'[c] = request[c]
  PROVE  RowsInv'
BY DEF IInv, RowsInv, WrittenIsFresh, FreshRow, RegisteredHoldsToken, EvictedWasSilent

\* A step that writes one row of one client, and what that client then knows.
LEMMA OneRow ==
  ASSUME IInv, NEW c \in Clients, NEW i \in Ids, i \in {client[c].id, request[c].id},
         NEW new, rows' = [rows EXCEPT ![i] = new],
         \A d \in Clients : d # c => client'[d] = client[d] /\ request'[d] = request[d],
         client'[c].at = "in" =>
           /\ client'[c].id = i /\ (new # None => new.token)
           /\ client'[c].beat <= Grace =>
                new # None /\ new.evicted = None /\ new.age <= client'[c].beat,
         request'[c].at = "token" =>
           /\ request'[c].id = i
           /\ request'[c].lag <= Grace =>
                new # None /\ new.evicted = None /\ new.age <= request'[c].lag,
         new # None /\ new.evicted # None =>
           new.pulse /\ (new.age = Old \/ new.age > Grace + new.evicted)
  PROVE  RowsInv'
<1>1. /\ TypeOK /\ OwnIds /\ RequestsMatch /\ WrittenIsFresh
      /\ RegisteredHoldsToken /\ EvictedWasSilent
  BY DEF IInv
<1>2. rows'[i] = new /\ \A j \in Ids : j # i => rows'[j] = rows[j]
  BY <1>1, Types
<1>3. ASSUME NEW d \in Clients, d # c, NEW j \in {client[d].id, request[d].id}, j \in Ids
      PROVE  rows'[j] = rows[j]
  BY <1>1, <1>2, <1>3, TwoRows
<1>4. WrittenIsFresh'
  <2>1. ASSUME NEW d \in Clients, client'[d].at = "in", client'[d].beat <= Grace
        PROVE  FreshRow(client[d].id, client[d].beat)'
    <3>1. CASE d = c
      BY <2>1, <3>1, <1>2 DEF FreshRow
    <3>2. CASE d # c
      <4>1. client'[d] = client[d] /\ client[d].id \in Ids
        BY <2>1, <3>2, <1>1 DEF RequestsMatch
      <4>2. FreshRow(client[d].id, client[d].beat)
        BY <2>1, <4>1, <1>1 DEF WrittenIsFresh
      <4>3. rows'[client[d].id] = rows[client[d].id]
        BY <4>1, <3>2, <1>3
      <4> QED
        BY <4>1, <4>2, <4>3 DEF FreshRow
    <3> QED
      BY <3>1, <3>2
  <2>2. ASSUME NEW d \in Clients, request'[d].at = "token", request'[d].lag <= Grace
        PROVE  FreshRow(request[d].id, request[d].lag)'
    <3>1. CASE d = c
      BY <2>2, <3>1, <1>2 DEF FreshRow
    <3>2. CASE d # c
      <4>1. request'[d] = request[d] /\ request[d].id \in Ids
        BY <2>2, <3>2, <1>1 DEF RequestsMatch
      <4>2. FreshRow(request[d].id, request[d].lag)
        BY <2>2, <4>1, <1>1 DEF WrittenIsFresh
      <4>3. rows'[request[d].id] = rows[request[d].id]
        BY <4>1, <3>2, <1>3
      <4> QED
        BY <4>1, <4>2, <4>3 DEF FreshRow
    <3> QED
      BY <3>1, <3>2
  <2> QED
    BY <2>1, <2>2 DEF WrittenIsFresh
<1>5. RegisteredHoldsToken'
  <2> SUFFICES ASSUME NEW d \in Clients, client'[d].at = "in", rows'[client'[d].id] # None
               PROVE  rows'[client'[d].id].token
    BY DEF RegisteredHoldsToken
  <2>1. CASE d = c
    BY <2>1, <1>2
  <2>2. CASE d # c
    <3>1. client'[d] = client[d] /\ client[d].id \in Ids
      BY <2>2, <1>1 DEF RequestsMatch
    <3>2. rows'[client[d].id] = rows[client[d].id]
      BY <3>1, <2>2, <1>3
    <3> QED
      BY <3>1, <3>2, <1>1 DEF RegisteredHoldsToken
  <2> QED
    BY <2>1, <2>2
<1>6. EvictedWasSilent'
  BY <1>1, <1>2 DEF EvictedWasSilent
<1> QED
  BY <1>4, <1>5, <1>6 DEF RowsInv

LEMMA RowsStep == IInv /\ [Next]_vars => RowsInv'
<1> SUFFICES ASSUME IInv, [Next]_vars PROVE RowsInv'
  OBVIOUS
<1>i. /\ TypeOK /\ OwnIds /\ RequestsMatch /\ WrittenIsFresh
      /\ RegisteredHoldsToken /\ EvictedWasSilent
  BY DEF IInv
<1>t. \A c \in Clients :
        /\ client[c].beat \in Nat /\ request[c].lag \in Nat
        /\ client[c].id \in Ids \cup {None} /\ request[c].id \in Ids \cup {None}
        /\ client[c].at = "in" => client[c].id \in Ids
        /\ request[c].at # "none" => request[c].id \in Ids
  BY <1>i, Types DEF RequestsMatch
<1>n. NoRequest.at = "none" /\ NoRequest.id = None
  BY DEF NoRequest
<1>a. None \notin Ids /\ Grace \in Nat /\ Old \in Nat /\ Old > Grace
  BY InstancesAssumption DEF Old
<1>1. ASSUME NEW c \in Clients, Register(c) \/ Beat(c) \/ Leave(c) PROVE RowsInv'
  <2>1. rows' = rows
    BY <1>1 DEF Register, Beat, Leave, Authorised
  <2>2. \A d \in Clients : /\ client'[d].at = "in" => client'[d] = client[d]
                           /\ request'[d].at = "token" => request'[d] = request[d]
    BY <1>1, <1>i, Types DEF Register, Beat, Leave, Authorised
  <2> QED
    BY <2>1, <2>2, SameRows
<1>2. ASSUME NEW c \in Clients, Insert(c) PROVE RowsInv'
  <2> DEFINE i == request[c].id
             new == [pulse |-> request[c].pulse, token |-> FALSE,
                     age |-> request[c].lag, evicted |-> None]
  <2>1. /\ i \in Ids /\ client[c].at # "in"
        /\ rows' = [rows EXCEPT ![i] = new] /\ client' = client
        /\ \A d \in Clients : d # c => request'[d] = request[d]
        /\ request'[c].id = i /\ request'[c].lag = request[c].lag
    BY <1>2, <1>i, <1>t, Types DEF Insert, Serving, RequestsMatch
  <2>2. new.evicted = None /\ new.age = request[c].lag
    OBVIOUS
  <2>3. new # None
    <3>1. request[c].pulse \in BOOLEAN /\ request[c].lag \in Age
      BY <1>i, Types
    <3>2. new \in Row
      BY <3>1 DEF Row
    <3> QED
      BY <3>2, NoRowAssumption
  <2> HIDE DEF new
  <2>4. i \in {client[c].id, request[c].id}
    OBVIOUS
  <2>5. \A d \in Clients : d # c => client'[d] = client[d] /\ request'[d] = request[d]
    BY <2>1
  <2>6. new.age <= request'[c].lag
    BY <2>1, <2>2, <1>t
  <2> QED
    BY <2>1, <2>2, <2>3, <2>4, <2>5, <2>6, OneRow
<1>3. ASSUME NEW c \in Clients, SetToken(c) PROVE RowsInv'
  <2> DEFINE i == request[c].id
             new == IF rows[i] = None THEN None ELSE [rows[i] EXCEPT !.token = TRUE]
  <2>1. /\ i \in Ids /\ request[c].at = "token"
        /\ Told(c, "in", i, request[c].lag) /\ Done(c)
    BY <1>3, <1>t DEF SetToken, Serving
  <2>2. /\ rows \in [Ids -> Row \cup {None}]
        /\ rows' = [rows EXCEPT ![i] = new]
    BY <1>3, <1>i, Types, <2>1 DEF SetToken
  <2>3. rows[i] # None =>
          /\ new # None /\ new.token
          /\ new.evicted = rows[i].evicted /\ new.age = rows[i].age /\ new.pulse = rows[i].pulse
    BY <2>1, <2>2, NoRowAssumption DEF Row
  <2>4. /\ client'[c] = IF client[c].at # "gone"
                        THEN [at |-> "in", id |-> i, beat |-> request[c].lag] ELSE client[c]
        /\ request'[c] = NoRequest
        /\ \A d \in Clients : d # c => client'[d] = client[d] /\ request'[d] = request[d]
    BY <2>1, <1>i, TellDone
  <2>5. request[c].lag <= Grace =>
          rows[i] # None /\ rows[i].evicted = None /\ rows[i].age <= request[c].lag
    BY <2>1, <1>i DEF WrittenIsFresh, FreshRow
  <2>6. rows[i] # None /\ rows[i].evicted # None =>
          rows[i].pulse /\ (rows[i].age = Old \/ rows[i].age > Grace + rows[i].evicted)
    BY <2>1, <1>i DEF EvictedWasSilent
  <2>7. rows[i] = None => new = None
    OBVIOUS
  <2> HIDE DEF new
  <2>8. client'[c].at = "in" =>
          /\ client'[c].id = i /\ (new # None => new.token)
          /\ client'[c].beat <= Grace =>
               new # None /\ new.evicted = None /\ new.age <= client'[c].beat
    <3>1. client[c].at # "in"
      BY <2>1, <1>i DEF RequestsMatch
    <3> QED
      BY <3>1, <2>3, <2>4, <2>5, <2>7
  <2>9. new # None /\ new.evicted # None =>
          new.pulse /\ (new.age = Old \/ new.age > Grace + new.evicted)
    BY <2>3, <2>6, <2>7
  <2>10. i \in {client[c].id, request[c].id} /\ request'[c].at # "token"
    BY <2>4, <1>n
  <2> QED
    BY <2>1, <2>2, <2>4, <2>8, <2>9, <2>10, OneRow
<1>4. ASSUME NEW c \in Clients, Unknown(c) PROVE RowsInv'
  <2>1. Told(c, "out", None, Old) /\ rows' = rows /\ request' = request
    BY <1>4 DEF Unknown
  <2>2. \A d \in Clients :
          client'[d] = IF d = c /\ client[c].at # "gone"
                       THEN [at |-> "out", id |-> None, beat |-> Old] ELSE client[d]
    BY <2>1, <1>i, TellDone
  <2>3. \A d \in Clients : client'[d].at = "in" => client'[d] = client[d]
    BY <2>2
  <2> QED
    BY <2>1, <2>3, SameRows
<1>5. ASSUME NEW c \in Clients, BeatApply(c) PROVE RowsInv'
  <2> DEFINE i == request[c].id
             new == [pulse |-> rows[i].pulse, token |-> rows[i].token,
                     age |-> request[c].lag, evicted |-> None]
  <2>1. i \in Ids /\ request[c].at = "beat" /\ Done(c) /\ i = client[c].id
    BY <1>5, <1>i, <1>t DEF BeatApply, Serving, RequestsMatch
  <2>2. CASE rows[i] = None
    <3>1. rows' = rows /\ Told(c, "out", None, Old)
      BY <1>5, <2>2 DEF BeatApply
    <3>2. \A d \in Clients :
            /\ client'[d] = IF d = c /\ client[c].at # "gone"
                            THEN [at |-> "out", id |-> None, beat |-> Old] ELSE client[d]
            /\ request'[d] = IF d = c THEN NoRequest ELSE request[d]
      BY <3>1, <2>1, <1>i, TellDone
    <3>3. \A d \in Clients : /\ client'[d].at = "in" => client'[d] = client[d]
                             /\ request'[d].at = "token" => request'[d] = request[d]
      BY <3>2, <1>n
    <3> QED
      BY <3>1, <3>3, SameRows
  <2>3. CASE rows[i] # None
    <3>1. rows' = [rows EXCEPT ![i] = new] /\ Told(c, "in", i, request[c].lag)
      BY <1>5, <2>3 DEF BeatApply
    <3>2. /\ new # None /\ new.evicted = None /\ new.age = request[c].lag
          /\ new.token = rows[i].token
      <4>1. request[c].lag \in Age
        BY <1>i, Types
      <4>2. new \in Row
        BY <4>1, <2>1, <2>3, <1>i, RowUpdates
      <4> QED
        BY <4>2, NoRowAssumption
    <3>3. /\ client'[c] = IF client[c].at # "gone"
                          THEN [at |-> "in", id |-> i, beat |-> request[c].lag] ELSE client[c]
          /\ request'[c] = NoRequest
          /\ \A d \in Clients : d # c => client'[d] = client[d] /\ request'[d] = request[d]
      BY <3>1, <2>1, <1>i, TellDone
    <3>4. client'[c].at = "in" => client[c].at = "in" /\ rows[i].token
      BY <3>3, <2>1, <2>3, <1>i, Types DEF RequestsMatch, RegisteredHoldsToken
    <3> HIDE DEF new
    <3>5. client'[c].at = "in" =>
            /\ client'[c].id = i /\ (new # None => new.token)
            /\ client'[c].beat <= Grace =>
                 new # None /\ new.evicted = None /\ new.age <= client'[c].beat
      BY <3>2, <3>3, <3>4, <1>t
    <3>6. i \in {client[c].id, request[c].id} /\ request'[c].at # "token"
      BY <3>3, <1>n
    <3> QED
      BY <2>1, <3>1, <3>2, <3>3, <3>5, <3>6, OneRow
  <2> QED
    BY <2>2, <2>3
<1>6. ASSUME NEW c \in Clients, Delete(c) PROVE RowsInv'
  <2>1. /\ request[c].at = "delete" /\ request[c].id \in Ids /\ client[c].at # "in"
        /\ rows' = [rows EXCEPT ![request[c].id] = None] /\ client' = client /\ Done(c)
    BY <1>6, <1>i, <1>t DEF Delete, Serving, RequestsMatch
  <2>2. /\ request'[c] = NoRequest
        /\ \A d \in Clients : d # c => request'[d] = request[d]
    BY <2>1, <1>i, TellDone
  <2> QED
    BY <2>1, <2>2, <1>n, OneRow
<1>7. ASSUME NEW c \in Clients, Fails(c) PROVE RowsInv'
  <2>1. rows' = rows /\ client' = client /\ Done(c)
    BY <1>7 DEF Fails
  <2> QED
    BY <2>1, <1>i, <1>n, TellDone, SameRows
<1>8. ASSUME NEW c \in Clients, Die(c) PROVE RowsInv'
  <2>1. /\ rows' = rows /\ request' = request
        /\ \A d \in Clients : client'[d].at = "in" => client'[d] = client[d]
    BY <1>8, <1>i, Types DEF Die
  <2> QED
    BY <2>1, SameRows
<1>9. CASE SweepStart \/ SweepFails \/ Crash \/ UNCHANGED vars
  <2>1. /\ rows' = rows /\ client' = client
        /\ \A d \in Clients : request'[d].at = "token" => request'[d] = request[d]
    BY <1>9, <1>n DEF SweepStart, SweepFails, Crash, vars
  <2> QED
    BY <2>1, SameRows
<1>10. CASE SweepEvict
  <2>1. EvictExpired(sweep.lag) /\ client' = client /\ request' = request
    BY <1>10 DEF SweepEvict
  <2>2. sweep.lag \in Lag
    BY <1>i, Types
  <2> QED
    BY <2>1, <2>2, EvictionStep
<1>11. CASE SweepPurge
  <2>1. /\ client' = client /\ request' = request
        /\ \A i \in Ids : rows'[i] = IF Purgeable(rows[i], sweep.lag) THEN None ELSE rows[i]
    BY <1>11 DEF SweepPurge, PurgeEvicted
  <2>2. \A i \in Ids : rows[i] # None /\ rows[i].evicted = None => rows'[i] = rows[i]
    BY <2>1 DEF Purgeable
  <2>3. WrittenIsFresh'
    BY <2>1, <2>2, <1>i, <1>t DEF WrittenIsFresh, FreshRow
  <2>4. RegisteredHoldsToken'
    BY <2>1, <1>i, <1>t DEF RegisteredHoldsToken
  <2>5. EvictedWasSilent'
    BY <2>1, <1>i DEF EvictedWasSilent
  <2> QED
    BY <2>3, <2>4, <2>5 DEF RowsInv
<1>12. CASE Boot
  <2>1. client' = client /\ request' = request
    BY <1>12 DEF Boot
  <2>2. CASE rows' = rows
    BY <2>1, <2>2, SameRows
  <2>3. CASE EvictExpired(0)
    BY <2>1, <2>3, <1>i, Types, EvictionStep
  <2> QED
    BY <1>12, <2>2, <2>3 DEF Boot
<1>13. CASE Tick
  <2>1. \A i \in Ids : rows'[i] = OlderRow(rows[i])
    BY <1>13 DEF Tick
  <2>2. \A i \in Ids : rows[i] \in Row \cup {None}
    BY <1>i, Types
  <2>3. \A c \in Clients : client'[c].at = client[c].at /\ client'[c].id = client[c].id
                        /\ client'[c].beat = Older(client[c].beat)
    BY <1>13, <1>i, Types DEF Tick
  <2>4. \A c \in Clients : request'[c].at = "token" =>
          /\ request[c].at = "token" /\ request'[c].id = request[c].id
          /\ request'[c].lag = request[c].lag + 1
    BY <1>13, <1>i, <1>n, Types DEF Tick
  <2>5. \A n \in Age : n < Old => Older(n) = n + 1
    BY OlderType
  <2>6. ASSUME NEW i \in Ids, NEW n \in Age, n < Grace, FreshRow(i, n)
        PROVE  FreshRow(i, n + 1)'
    <3>1. /\ rows'[i] # None /\ rows'[i].evicted = None /\ rows'[i].age = Older(rows[i].age)
          /\ rows[i].age \in Age /\ rows[i].age <= n
      BY <2>1, <2>2, <2>6, OlderRowType DEF FreshRow, Row
    <3>2. Older(rows[i].age) = rows[i].age + 1
      BY <3>1, <2>5, <2>6, <1>a DEF Age
    <3> QED
      BY <3>1, <3>2, <1>a DEF FreshRow, Age
  <2>7. ASSUME NEW n \in Age, Older(n) <= Grace
        PROVE  n < Grace /\ Older(n) = n + 1
    BY <2>7, <1>a DEF Older, Age
  <2>8. WrittenIsFresh'
    <3>1. ASSUME NEW c \in Clients, client'[c].at = "in", client'[c].beat <= Grace
          PROVE  FreshRow(client[c].id, client[c].beat)'
      <4>1. client[c].beat \in Age
        BY <1>i, Types
      <4>2. client[c].beat < Grace /\ client'[c].beat = client[c].beat + 1
        BY <3>1, <2>3, <2>7, <4>1
      <4>3. FreshRow(client[c].id, client[c].beat)
        BY <3>1, <4>2, <2>3, <1>i, <1>t, <1>a DEF WrittenIsFresh
      <4>4. /\ rows'[client[c].id] # None /\ rows'[client[c].id].evicted = None
            /\ rows'[client[c].id].age <= client[c].beat + 1
        BY <3>1, <2>3, <2>6, <4>1, <4>2, <4>3, <1>t DEF FreshRow
      <4> QED
        BY <4>2, <4>4, <2>3 DEF FreshRow
    <3>2. ASSUME NEW c \in Clients, request'[c].at = "token", request'[c].lag <= Grace
          PROVE  FreshRow(request[c].id, request[c].lag)'
      <4>1. request[c].lag \in Age /\ request[c].lag < Grace
        BY <3>2, <2>4, <1>i, <1>t, <1>a, Types
      <4>2. FreshRow(request[c].id, request[c].lag)
        BY <3>2, <2>4, <4>1, <1>i, <1>t, <1>a DEF WrittenIsFresh
      <4>3. /\ rows'[request[c].id] # None /\ rows'[request[c].id].evicted = None
            /\ rows'[request[c].id].age <= request[c].lag + 1
        BY <3>2, <2>4, <2>6, <4>1, <4>2, <1>t DEF FreshRow
      <4> QED
        BY <3>2, <4>3, <2>4 DEF FreshRow
    <3> QED
      BY <3>1, <3>2 DEF WrittenIsFresh
  <2>9. RegisteredHoldsToken'
    BY <2>1, <2>2, <2>3, <1>i, <1>t, OlderRowType DEF RegisteredHoldsToken
  <2>10. EvictedWasSilent'
    <3> SUFFICES ASSUME NEW i \in Ids, rows'[i] # None, rows'[i].evicted # None
                 PROVE  /\ rows'[i].pulse
                        /\ rows'[i].age = Old \/ rows'[i].age > Grace + rows'[i].evicted
      BY DEF EvictedWasSilent
    <3>1. /\ rows[i] # None /\ rows[i].evicted # None /\ rows'[i].pulse = rows[i].pulse
          /\ rows'[i].age = Older(rows[i].age) /\ rows'[i].evicted = Older(rows[i].evicted)
          /\ rows[i].age \in Age /\ rows[i].evicted \in Age
      BY <2>1, <2>2, OlderRowType DEF Row
    <3>2. rows[i].pulse /\ (rows[i].age = Old \/ rows[i].age > Grace + rows[i].evicted)
      BY <3>1, <1>i DEF EvictedWasSilent
    <3> QED
      BY <3>1, <3>2, <1>a DEF Older, Age
  <2> QED
    BY <2>8, <2>9, <2>10 DEF RowsInv
<1> QED
  BY <1>1, <1>2, <1>3, <1>4, <1>5, <1>6, <1>7, <1>8, <1>9, <1>10, <1>11, <1>12, <1>13
     DEF Next, Handler

-----------------------------------------------------------------------------
LEMMA Inductive == Spec => []IInv
<1>1. Init => IInv
  <2> SUFFICES ASSUME Init PROVE IInv
    OBVIOUS
  <2>1. TypeOK
    BY InstancesAssumption DEF Init, TypeOK, NoRequest, Asleep, Age, Lag, Old
  <2>2. /\ \A c \in Clients : /\ client[c].at = "out" /\ client[c].id = None
                              /\ request[c].at = "none" /\ request[c].id = None
        /\ \A i \in Ids : rows[i] = None
    BY DEF Init, NoRequest
  <2> QED
    BY <2>1, <2>2 DEF IInv, OwnIds, RequestsMatch, WrittenIsFresh, RegisteredHoldsToken,
                      EvictedWasSilent
<1>2. IInv /\ [Next]_vars => IInv'
  BY TypeStep, IdsStep, RowsStep DEF IInv, RowsInv
<1> QED
  BY <1>1, <1>2, PTL DEF Spec

(* Every variable keeps its type: rows, clients, handlers and sweeper, and   *)
(* the lags of their clock readings.                                        *)
THEOREM TypeCorrect == Spec => []TypeOK
<1>1. IInv => TypeOK
  BY DEF IInv
<1> QED
  BY <1>1, Inductive, PTL

(* A client that was answered no more than a grace window ago is listed,    *)
(* whatever sweep, restart or failed statement comes between.               *)
THEOREM AnsweredIsListed == Spec => []AnsweredStaysListed
<1>1. IInv => AnsweredStaysListed
  <2> SUFFICES ASSUME IInv, NEW c \in Clients, client[c].at = "in", client[c].beat <= Grace
               PROVE  Listed(client[c].id)
    BY DEF AnsweredStaysListed
  <2>1. client[c].id \in Ids /\ FreshRow(client[c].id, client[c].beat)
    BY DEF IInv, RequestsMatch, WrittenIsFresh
  <2> QED
    BY <2>1, InstancesAssumption DEF Listed, FreshRow
<1> QED
  BY <1>1, Inductive, PTL

(* The row of a client that was told 201 carries its token.                 *)
THEOREM TokenBeforeAnswer == Spec => []RegisteredHoldsToken
<1>1. IInv => RegisteredHoldsToken
  BY DEF IInv
<1> QED
  BY <1>1, Inductive, PTL

(* Only a DELETE or the silence of both windows takes a row away.           *)
THEOREM PurgeAfterSilence == Spec => PurgedWasSilent
<1>1. ASSUME IInv, [Next]_vars, NEW i \in Ids,
             rows[i] # None, rows'[i] = None, ~Deleting(i)
      PROVE  rows[i].pulse /\ rows[i].age > Grace + PurgeAfter
  <2> USE <1>1
  <2>0. /\ TypeOK /\ EvictedWasSilent /\ RequestsMatch
        /\ rows \in [Ids -> Row \cup {None}]
    BY Types DEF IInv
  <2>1. \A c \in Clients : ~Register(c) /\ ~Beat(c) /\ ~Leave(c) /\ ~Unknown(c) /\ ~Die(c)
                        /\ ~Fails(c)
    BY DEF Register, Beat, Leave, Authorised, Unknown, Die, Fails
  <2>2. \A c \in Clients : ~Insert(c)
    <3> SUFFICES ASSUME NEW c \in Clients, Insert(c) PROVE FALSE
      OBVIOUS
    <3> DEFINE new == [pulse |-> request[c].pulse, token |-> FALSE,
                       age |-> request[c].lag, evicted |-> None]
    <3>1. request[c].pulse \in BOOLEAN /\ request[c].lag \in Age
      BY <2>0, Types
    <3>2. new \in Row
      BY <3>1 DEF Row
    <3>3. rows' = [rows EXCEPT ![request[c].id] = new]
      BY DEF Insert
    <3> QED
      BY <2>0, <3>2, <3>3, NoRowAssumption
  <2>3. \A c \in Clients : ~SetToken(c)
    <3> SUFFICES ASSUME NEW c \in Clients, SetToken(c) PROVE FALSE
      OBVIOUS
    <3>1. [rows[i] EXCEPT !.token = TRUE] \in Row
      BY <2>0, Types, RowUpdates
    <3>2. rows'[i] \in {rows[i], [rows[i] EXCEPT !.token = TRUE]}
      BY <2>0 DEF SetToken
    <3> QED
      BY <3>1, <3>2, NoRowAssumption
  <2>4. \A c \in Clients : ~BeatApply(c)
    <3> SUFFICES ASSUME NEW c \in Clients, BeatApply(c) PROVE FALSE
      OBVIOUS
    <3> DEFINE new == [pulse |-> rows[i].pulse, token |-> rows[i].token,
                       age |-> request[c].lag, evicted |-> None]
    <3>1. request[c].lag \in Age
      BY <2>0, Types
    <3>2. new \in Row
      BY <2>0, <3>1, RowUpdates
    <3>3. rows'[i] \in {rows[i], new}
      BY <2>0 DEF BeatApply
    <3> QED
      BY <3>2, <3>3, NoRowAssumption
  <2>5. \A c \in Clients : ~Delete(c)
    BY <2>0 DEF Delete, Serving, Deleting
  <2>6. ~SweepStart /\ ~SweepFails /\ ~Crash /\ ~(UNCHANGED vars)
    BY DEF SweepStart, SweepFails, Crash, vars
  <2>7. ~SweepEvict /\ ~Boot
    <3>1. \A lag \in Lag : ~EvictExpired(lag)
      BY <2>0, EvictionKeepsFresh
    <3>2. sweep.lag \in Lag /\ 0 \in Lag
      BY <2>0, Types
    <3> QED
      BY <3>1, <3>2 DEF SweepEvict, Boot
  <2>8. ~Tick
    BY <2>0, OlderRowType DEF Tick
  <2>9. SweepPurge
    BY <2>1, <2>2, <2>3, <2>4, <2>5, <2>6, <2>7, <2>8 DEF Next, Handler
  <2>10. Purgeable(rows[i], sweep.lag)
    BY <2>9 DEF SweepPurge, PurgeEvicted
  <2>11. /\ rows[i].evicted \in Nat /\ rows[i].age \in Nat /\ sweep.lag \in Nat
         /\ rows[i].evicted > PurgeAfter + sweep.lag
    BY <2>0, <2>10, Types DEF Purgeable, Row
  <2>12. /\ rows[i].pulse
         /\ rows[i].age = Old \/ rows[i].age > Grace + rows[i].evicted
    BY <2>0, <2>10 DEF Purgeable, EvictedWasSilent
  <2> QED
    BY <2>11, <2>12, InstancesAssumption DEF Old
<1>2. IInv /\ [Next]_vars =>
        [\A i \in Ids : rows[i] # None /\ rows'[i] = None /\ ~Deleting(i)
           => rows[i].pulse /\ rows[i].age > Grace + PurgeAfter]_vars
  BY <1>1
<1> QED
  BY <1>2, Inductive, PTL DEF Spec, PurgedWasSilent

=============================================================================
