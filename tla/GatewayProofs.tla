---------------------------- MODULE GatewayProofs ----------------------------
(***************************************************************************)
(* Proofs about the way of a message and about the drain, for any number   *)
(* of bots, updates and lives.                                             *)
(***************************************************************************)
EXTENDS Gateway, FiniteSetTheorems, SequenceTheorems, WellFoundedInduction, TLAPS

Msg == Agents \X (1 .. MaxUpdates)

-----------------------------------------------------------------------------
(* Numbers and sets of them.                                               *)

LEMMA Constants ==
  /\ IsFiniteSet(Agents) /\ FirstAgent \in Agents
  /\ MaxUpdates \in Nat /\ NoMessage \notin Msg
  /\ BatchSize \in Nat \ {0} /\ Capacity \in Nat \ {0} /\ ResponseLimit \in Nat \ {0}
BY GatewayAssumption DEF Msg

LEMMA Least ==
  ASSUME NEW T \in SUBSET Nat, T # {}
  PROVE  \E m \in T : \A n \in T : m <= n
<1>1. PICK m \in T : \A n \in T : <<n, m>> \notin OpToRel(<, Nat)
  BY NatLessThanWellFounded, WFMin
<1>2. \A n \in T : ~(n < m)
  BY <1>1 DEF OpToRel
<1>3. \A n \in T : m <= n
  BY <1>2
<1> QED BY <1>3

LEMMA Greatest ==
  ASSUME NEW T \in SUBSET Nat, T # {}, NEW b \in Nat, \A n \in T : n <= b
  PROVE  \E m \in T : \A n \in T : n <= m
<1> DEFINE Over == {k \in Nat : \A n \in T : n <= k}
<1>1. PICK m \in Over : \A k \in Over : m <= k
  <2>1. b \in Over
    OBVIOUS
  <2> HIDE DEF Over
  <2>2. Over \in SUBSET Nat
    BY DEF Over
  <2> QED BY <2>1, <2>2, Least
<1>2. m \in T
  <2> SUFFICES ASSUME m \notin T PROVE FALSE
    OBVIOUS
  <2>0. m \in Nat /\ \A n \in T : n \in Nat /\ n <= m /\ n # m
    BY <1>1
  <2>1. \A n \in T : n <= m - 1
    BY <2>0
  <2>a. PICK n \in T : TRUE
    OBVIOUS
  <2>b. m - 1 \in Nat
    BY <2>0, <2>a
  <2>2. m - 1 \in Over
    BY <2>1, <2>b
  <2>3. m <= m - 1 /\ m \in Nat
    BY <1>1, <2>2
  <2> QED BY <2>3
<1> QED BY <1>1, <1>2

LEMMA FirstIsLeast ==
  ASSUME NEW ids \in SUBSET (1 .. MaxUpdates), ids # {}
  PROVE  First(ids) \in ids /\ \A id \in ids : First(ids) <= id
<1>1. ids \in SUBSET Nat
  BY Constants
<1>2. \E m \in ids : \A n \in ids : m <= n
  BY <1>1, Least
<1> QED BY <1>2 DEF First

LEMMA LastIsGreatest ==
  ASSUME NEW ids \in SUBSET (1 .. MaxUpdates), ids # {}
  PROVE  Last(ids) \in ids /\ \A id \in ids : id <= Last(ids)
<1>1. ids \in SUBSET Nat /\ \A id \in ids : id <= MaxUpdates
  BY Constants
<1>2. \E m \in ids : \A n \in ids : n <= m
  BY <1>1, Constants, Greatest
<1> QED BY <1>2 DEF Last

-----------------------------------------------------------------------------
(* Batches.                                                                *)

\* What receive makes of a response that follows on c: it sees it up to some
\* id, and the texts it writes are among those it saw.
LEMMA BatchOf ==
  ASSUME NEW a \in Agents, NEW ids \in SUBSET (1 .. MaxUpdates), ids # {}
  PROVE  /\ Last(Seen(a, ids)) \in ids
         /\ \A id \in ids : id <= Last(Seen(a, ids)) => id \in Seen(a, ids)
         /\ Written(a, ids) \subseteq Texts(a, Seen(a, ids))
         /\ \A id \in Written(a, ids) : id \in ids /\ IsText(a, id) /\ id <= Last(Seen(a, ids))
<1>0. IsFiniteSet(1 .. MaxUpdates)
  BY Constants, FS_Interval
<1>1. IsFiniteSet(ids) /\ \A id \in ids : id \in Nat
  <2>1. IsFiniteSet(ids)
    BY <1>0, FS_Subset
  <2>2. \A id \in ids : id \in Nat
    BY Constants
  <2> QED BY <2>1, <2>2
<1>2. Seen(a, ids) \subseteq ids
  BY DEF Seen
<1>3. First(ids) \in Seen(a, ids)
  <2>1. First(ids) \in ids /\ \A id \in ids : First(ids) <= id
    BY FirstIsLeast
  <2> HIDE DEF First
  <2>a. First(ids) \in Nat
    BY <1>1, <2>1
  <2>2. ASSUME NEW id \in ids PROVE ~(id < First(ids))
    <3>1. id \in Nat /\ First(ids) <= id
      BY <1>1, <2>1
    <3> QED BY <2>a, <3>1
  <2> QED BY <2>1, <2>2 DEF Seen
<1>4. /\ Last(Seen(a, ids)) \in Seen(a, ids)
      /\ \A id \in Seen(a, ids) : id <= Last(Seen(a, ids))
  <2>1. Seen(a, ids) \in SUBSET (1 .. MaxUpdates) /\ Seen(a, ids) # {}
    BY <1>2, <1>3
  <2> QED BY <2>1, LastIsGreatest
<1>5. \A id \in ids : id <= Last(Seen(a, ids)) => id \in Seen(a, ids)
  <2> SUFFICES ASSUME NEW id \in ids, id <= Last(Seen(a, ids)),
                      NEW before \in ids, before < id
               PROVE  ~FullAt(a, ids, before)
    BY DEF Seen
  <2>1. Last(Seen(a, ids)) \in Nat /\ id \in Nat /\ before \in Nat
    BY <1>1, <1>2, <1>4
  <2>2. before < Last(Seen(a, ids))
    BY <2>1
  <2> QED BY <1>4, <2>2 DEF Seen
<1>6. \A i, j \in ids : i <= j /\ FullAt(a, ids, i) => FullAt(a, ids, j)
  <2> SUFFICES ASSUME NEW i \in ids, NEW j \in ids, i <= j, FullAt(a, ids, i)
               PROVE  FullAt(a, ids, j)
    OBVIOUS
  <2> DEFINE S == {text \in Texts(a, ids) : text < i}
             T == {text \in Texts(a, ids) : text < j}
  <2>0. \A text \in ids : text < i => text < j
    BY <1>1
  <2>1. S \subseteq T /\ T \subseteq ids
    BY <2>0 DEF Texts
  <2> HIDE DEF S, T
  <2>2. IsFiniteSet(T)
    BY <1>1, <2>1, FS_Subset
  <2>3. IsFiniteSet(S) /\ Cardinality(S) <= Cardinality(T)
    BY <2>1, <2>2, FS_Subset
  <2>4. Cardinality(S) \in Nat /\ Cardinality(T) \in Nat
    BY <2>2, <2>3, FS_CardinalityType
  <2>5. Cardinality(S) >= BatchSize
    BY DEF FullAt, S
  <2>6. Cardinality(T) >= BatchSize
    BY <2>3, <2>4, <2>5, Constants
  <2> QED BY <2>6 DEF FullAt, T
<1>7. Written(a, ids) \subseteq Seen(a, ids)
  <2> SUFFICES ASSUME NEW id \in Written(a, ids), NEW before \in ids, before < id
               PROVE  ~FullAt(a, ids, before)
    BY DEF Seen, Written, Texts
  <2>1. id \in ids /\ ~FullAt(a, ids, id)
    BY DEF Written, Texts
  <2> QED BY <1>1, <1>6, <2>1
<1>8. \A id \in Written(a, ids) : id \in ids /\ IsText(a, id)
  BY DEF Written, Texts
<1> QED BY <1>2, <1>4, <1>5, <1>7, <1>8 DEF Texts

-----------------------------------------------------------------------------
(* Queues.                                                                 *)

\* The ids of an agent's messages, and that they ascend.
WaitingIn(q, a) == {q[i][2] : i \in {j \in DOMAIN q : q[j][1] = a}}

SortedIn(q, a) ==
  \A i, j \in DOMAIN q : i < j /\ q[i][1] = a /\ q[j][1] = a => q[i][2] < q[j][2]

Before(s, t) == \A m \in s, n \in t : m < n

LEMMA MsgIs ==
  ASSUME NEW m \in Msg
  PROVE  m[1] \in Agents /\ m[2] \in 1 .. MaxUpdates /\ m[2] \in Nat /\ m = <<m[1], m[2]>>
BY Constants DEF Msg

LEMMA QueueIs ==
  ASSUME NEW q \in Seq(Msg)
  PROVE  /\ Len(q) \in Nat /\ DOMAIN q = 1 .. Len(q)
         /\ \A i \in 1 .. Len(q) : q[i] \in Msg
BY LenProperties, ElementOfSeq

LEMMA AppendKeeps ==
  ASSUME NEW q \in Seq(Msg), NEW m \in Msg
  PROVE  /\ Append(q, m) \in Seq(Msg) /\ Len(Append(q, m)) = Len(q) + 1
         /\ Members(Append(q, m)) = Members(q) \cup {m}
         /\ \A a \in Agents :
              /\ WaitingIn(Append(q, m), a) = WaitingIn(q, a) \cup (IF m[1] = a THEN {m[2]} ELSE {})
              /\ SortedIn(q, a) /\ (m[1] = a => Before(WaitingIn(q, a), {m[2]}))
                   => SortedIn(Append(q, m), a)
<1> DEFINE t == Append(q, m)
<1>1. /\ t \in Seq(Msg) /\ Len(t) = Len(q) + 1 /\ t[Len(q) + 1] = m
      /\ \A i \in 1 .. Len(q) : t[i] = q[i]
  BY AppendProperties
<1>2. Len(q) \in Nat /\ DOMAIN q = 1 .. Len(q) /\ DOMAIN t = 1 .. Len(q) + 1
  BY <1>1, LenProperties
<1>3. \A i \in DOMAIN t : i \in DOMAIN q \/ i = Len(q) + 1
  BY <1>2
<1>4. DOMAIN q \subseteq DOMAIN t /\ Len(q) + 1 \in DOMAIN t /\ Len(q) + 1 \notin DOMAIN q
  BY <1>2
<1> HIDE DEF t
<1>5. Members(t) = Members(q) \cup {m}
  BY <1>1, <1>2, <1>3, <1>4 DEF Members
<1>6. ASSUME NEW a \in Agents
      PROVE  WaitingIn(t, a) = WaitingIn(q, a) \cup (IF m[1] = a THEN {m[2]} ELSE {})
  BY <1>1, <1>2, <1>3, <1>4 DEF WaitingIn
<1>7. ASSUME NEW a \in Agents, SortedIn(q, a), m[1] = a => Before(WaitingIn(q, a), {m[2]})
      PROVE  SortedIn(t, a)
  <2> SUFFICES ASSUME NEW i \in DOMAIN t, NEW j \in DOMAIN t, i < j, t[i][1] = a, t[j][1] = a
               PROVE  t[i][2] < t[j][2]
    BY DEF SortedIn
  <2>1. i \in DOMAIN q
    BY <1>2, <1>3
  <2>2. CASE j \in DOMAIN q
    BY <1>1, <1>2, <1>7, <2>1, <2>2 DEF SortedIn
  <2>3. CASE j = Len(q) + 1
    <3>1. q[i][2] \in WaitingIn(q, a) /\ t[i] = q[i] /\ t[j] = m
      BY <1>1, <1>2, <2>1, <2>3 DEF WaitingIn
    <3> QED BY <1>7, <3>1 DEF Before
  <2> QED BY <1>3, <2>2, <2>3
<1> QED BY <1>1, <1>5, <1>6, <1>7 DEF t

LEMMA TailKeeps ==
  ASSUME NEW q \in Seq(Msg), q # << >>
  PROVE  /\ Tail(q) \in Seq(Msg) /\ Len(Tail(q)) = Len(q) - 1 /\ Head(q) \in Msg
         /\ Members(q) = Members(Tail(q)) \cup {Head(q)}
         /\ \A a \in Agents :
              /\ WaitingIn(Tail(q), a) \subseteq WaitingIn(q, a)
              /\ SortedIn(q, a) => SortedIn(Tail(q), a)
              /\ Head(q)[1] = a => /\ Head(q)[2] \in WaitingIn(q, a)
                                   /\ SortedIn(q, a) => Before({Head(q)[2]}, WaitingIn(Tail(q), a))
<1> DEFINE t == Tail(q)
<1>1. /\ t \in Seq(Msg) /\ Len(t) = Len(q) - 1 /\ Head(q) = q[1] /\ Head(q) \in Msg
      /\ \A i \in 1 .. Len(t) : t[i] = q[i + 1]
  BY HeadTailProperties
<1>2. Len(q) \in Nat \ {0} /\ DOMAIN q = 1 .. Len(q) /\ DOMAIN t = 1 .. Len(q) - 1
  BY <1>1, LenProperties, EmptySeq
<1>3. \A i \in DOMAIN t : i + 1 \in DOMAIN q /\ t[i] = q[i + 1] /\ i + 1 # 1
  BY <1>1, <1>2
<1>4. \A i \in DOMAIN q : i = 1 \/ (i - 1 \in DOMAIN t /\ t[i - 1] = q[i])
  <2> SUFFICES ASSUME NEW i \in DOMAIN q, i # 1
               PROVE  i - 1 \in DOMAIN t /\ t[i - 1] = q[i]
    OBVIOUS
  <2>1. i - 1 \in DOMAIN t /\ (i - 1) + 1 = i
    BY <1>2
  <2> QED BY <1>3, <2>1
<1>5. 1 \in DOMAIN q
  BY <1>2
<1> HIDE DEF t
<1>6. Members(q) = Members(t) \cup {Head(q)}
  <2>1. \A i \in DOMAIN q : q[i] \in Members(t) \cup {Head(q)}
    BY <1>1, <1>4 DEF Members
  <2>2. \A i \in DOMAIN t : t[i] \in Members(q)
    BY <1>3 DEF Members
  <2>3. Head(q) \in Members(q)
    BY <1>1, <1>5 DEF Members
  <2> QED BY <2>1, <2>2, <2>3 DEF Members
<1>7. ASSUME NEW a \in Agents
      PROVE  /\ WaitingIn(t, a) \subseteq WaitingIn(q, a)
             /\ Head(q)[1] = a => Head(q)[2] \in WaitingIn(q, a)
  BY <1>1, <1>3, <1>5 DEF WaitingIn
<1>8. ASSUME NEW a \in Agents, SortedIn(q, a)
      PROVE  SortedIn(t, a)
  <2> SUFFICES ASSUME NEW i \in DOMAIN t, NEW j \in DOMAIN t, i < j, t[i][1] = a, t[j][1] = a
               PROVE  t[i][2] < t[j][2]
    BY DEF SortedIn
  <2>1. i + 1 < j + 1
    BY <1>2
  <2> QED BY <1>3, <1>8, <2>1 DEF SortedIn
<1>9. ASSUME NEW a \in Agents, SortedIn(q, a), Head(q)[1] = a
      PROVE  Before({Head(q)[2]}, WaitingIn(t, a))
  <2> SUFFICES ASSUME NEW i \in DOMAIN t, t[i][1] = a
               PROVE  Head(q)[2] < t[i][2]
    BY DEF Before, WaitingIn
  <2>1. 1 < i + 1
    BY <1>2
  <2> QED BY <1>1, <1>3, <1>5, <1>9, <2>1 DEF SortedIn
<1> QED BY <1>1, <1>6, <1>7, <1>8, <1>9 DEF t

-----------------------------------------------------------------------------
(* The invariant.                                                          *)

\* What was read, told and asked for was sent; what a receive thread holds
\* is what next_offset has not passed yet, or the texts of the batch.
Upstream ==
  \A a \in Agents :
    /\ confirmed[a] <= Len(upstream[a]) /\ nextOffset[a] <= Len(upstream[a])
    /\ Len(upstream[a]) <= MaxUpdates

Hands ==
  \A a \in Agents :
    /\ receiver[a].pc \notin {"got", "delivering"} => receiver[a].ids = {}
    /\ receiver[a].pc = "got" =>
         /\ nextOffset[a] <= confirmed[a]
         /\ \E n \in 1 .. MaxUpdates : /\ receiver[a].ids = confirmed[a] + 1 .. confirmed[a] + n
                               /\ confirmed[a] + n <= Len(upstream[a])
    /\ receiver[a].pc = "delivering" =>
         /\ receiver[a].ids # {}
         /\ \A id \in receiver[a].ids : id <= nextOffset[a] /\ IsText(a, id)

Working ==
  /\ worker = "taken" => popped \in Msg
  /\ worker \in {"turn", "hung", "append"} => popped \in turned

\* Per agent: last turn, message taken, queue, batch, next_offset ascend.
InHand(a) == IF worker = "taken" /\ popped[1] = a THEN {popped[2]} ELSE {}
Waiting(a) == WaitingIn(queue, a)
Batched(a) == IF receiver[a].pc = "delivering" THEN receiver[a].ids ELSE {}

Ascending ==
  \A a \in Agents :
    /\ lastTurn[a] <= nextOffset[a]
    /\ Before({lastTurn[a]}, InHand(a) \cup Waiting(a) \cup Batched(a))
    /\ Before(InHand(a), Waiting(a) \cup Batched(a))
    /\ Before(Waiting(a), Batched(a))
    /\ \A id \in InHand(a) \cup Waiting(a) : id <= nextOffset[a]
    /\ SortedIn(queue, a)

IInv == TypeOK /\ Upstream /\ Hands /\ Working /\ Ascending /\ ForgottenIsAccountedFor

-----------------------------------------------------------------------------
(* The steps of a receive thread.                                          *)

Receivers == [pc : {"start", "top", "poll", "asking", "got", "delivering", "stopped"},
              ids : SUBSET (1 .. MaxUpdates)]

LEMMA InMemoryIs ==
  ASSUME NEW b \in Agents, NEW id
  PROVE  <<b, id>> \in InMemory <=>
           \/ id \in Texts(b, receiver[b].ids)
           \/ <<b, id>> \in Members(queue)
           \/ worker = "taken" /\ <<b, id>> = popped
<1>1. <<b, id>> \in UNION {{a} \X Texts(a, receiver[a].ids) : a \in Agents}
        <=> id \in Texts(b, receiver[b].ids)
  <2> HIDE DEF Texts
  <2>1. ASSUME NEW a \in Agents, <<b, id>> \in {a} \X Texts(a, receiver[a].ids)
        PROVE  id \in Texts(b, receiver[b].ids)
    <3>1. a = b /\ id \in Texts(a, receiver[a].ids)
      BY <2>1
    <3> QED BY <3>1
  <2>2. id \in Texts(b, receiver[b].ids) => <<b, id>> \in {b} \X Texts(b, receiver[b].ids)
    OBVIOUS
  <2> QED BY <2>1, <2>2
<1> QED BY <1>1 DEF InMemory

LEMMA InMemoryWillBe ==
  ASSUME NEW b \in Agents, NEW id
  PROVE  (<<b, id>> \in InMemory)' <=>
           \/ id \in Texts(b, receiver[b].ids)'
           \/ <<b, id>> \in Members(queue)'
           \/ worker' = "taken" /\ <<b, id>> = popped'
<1>1. <<b, id>> \in UNION {{a} \X Texts(a, receiver[a].ids)' : a \in Agents}
        <=> id \in Texts(b, receiver[b].ids)'
  <2>1. ASSUME NEW a \in Agents, <<b, id>> \in {a} \X Texts(a, receiver[a].ids)'
        PROVE  id \in Texts(b, receiver[b].ids)'
    <3>1. a = b /\ id \in Texts(a, receiver[a].ids)'
      BY <2>1
    <3> QED BY <3>1
  <2>2. id \in Texts(b, receiver[b].ids)' => <<b, id>> \in {b} \X Texts(b, receiver[b].ids)'
    OBVIOUS
  <2> QED BY <2>1, <2>2
<1> QED BY <1>1 DEF InMemory

\* Ids in hand lie past what is forgotten, or are texts of the batch.
LEMMA PollStep ==
  ASSUME IInv, NEW a \in Agents, receiver[a].pc # "delivering",
         NEW r \in Receivers, receiver' = [receiver EXCEPT ![a] = r],
         NEW c \in {confirmed[a], Later(confirmed[a], nextOffset[a])},
         confirmed' = [confirmed EXCEPT ![a] = c],
         r.pc # "delivering",
         r.pc # "got" => r.ids = {},
         r.pc = "got" => /\ nextOffset[a] <= c
                         /\ \E n \in 1 .. MaxUpdates : /\ r.ids = c + 1 .. c + n
                                                       /\ c + n <= Len(upstream[a]),
         UNCHANGED <<upstream, nextOffset, queueVars, worker, replyVars, daemonVars, historyVars>>
  PROVE  IInv'
<1> USE Constants
<1>1. /\ confirmed \in [Agents -> 0 .. MaxUpdates] /\ nextOffset \in [Agents -> 0 .. MaxUpdates]
      /\ receiver \in [Agents -> Receivers] /\ upstream \in [Agents -> Seq({"text", "other"})]
  BY DEF IInv, TypeOK, Receivers
<1>2. UNCHANGED <<queue, enqueued, dropped, drained, popped, outbox, sender, sent, stage, lives,
                  turned, lastTurn, evicted, overflowed, abandoned, upstream, nextOffset, worker>>
  BY DEF queueVars, replyVars, daemonVars, historyVars
<1>3. c \in 0 .. MaxUpdates /\ c <= Len(upstream[a])
  <2>1. confirmed[a] <= Len(upstream[a]) /\ nextOffset[a] <= Len(upstream[a])
    BY DEF IInv, Upstream
  <2> QED BY <1>1, <2>1 DEF Later
<1>4. Later(c, nextOffset[a]) = Later(confirmed[a], nextOffset[a])
  <2>1. confirmed[a] \in Nat /\ nextOffset[a] \in Nat
    BY <1>1
  <2> QED BY <2>1 DEF Later
<1>5. /\ receiver'[a] = r /\ confirmed'[a] = c
      /\ \A b \in Agents \ {a} : receiver'[b] = receiver[b] /\ confirmed'[b] = confirmed[b]
  BY <1>1
<1>6. confirmed' \in [Agents -> 0 .. MaxUpdates] /\ receiver' \in [Agents -> Receivers]
  BY <1>1, <1>3
<1>7. TypeOK'
  BY <1>2, <1>6 DEF IInv, TypeOK, Receivers
<1>8. Upstream'
  BY <1>2, <1>3, <1>5 DEF IInv, Upstream
<1>9. Hands'
  <2> SUFFICES ASSUME NEW b \in Agents
               PROVE  /\ receiver'[b].pc \notin {"got", "delivering"} => receiver'[b].ids = {}
                      /\ receiver'[b].pc = "got" =>
                           /\ nextOffset'[b] <= confirmed'[b]
                           /\ \E n \in 1 .. MaxUpdates :
                                /\ receiver'[b].ids = confirmed'[b] + 1 .. confirmed'[b] + n
                                /\ confirmed'[b] + n <= Len(upstream'[b])
                      /\ receiver'[b].pc = "delivering" =>
                           /\ receiver'[b].ids # {}
                           /\ \A id \in receiver'[b].ids : id <= nextOffset'[b] /\ IsText(b, id)'
    BY DEF Hands
  <2>1. CASE b = a
    BY <1>2, <1>5, <2>1
  <2>2. CASE b # a
    BY <1>2, <1>5, <2>2 DEF IInv, Hands, IsText
  <2> QED BY <2>1, <2>2
<1>10. Working'
  BY <1>2 DEF IInv, Working
<1>11. Ascending'
  <2>1. \A b \in Agents : Batched(b)' = Batched(b)
    BY <1>5 DEF Batched
  <2>2. \A b \in Agents : InHand(b)' = InHand(b) /\ Waiting(b)' = Waiting(b)
    BY <1>2 DEF InHand, Waiting
  <2>3. \A b \in Agents : SortedIn(queue, b)' = SortedIn(queue, b)
    BY <1>2
  <2> QED BY <1>2, <2>1, <2>2, <2>3 DEF IInv, Ascending
<1>12. ForgottenIsAccountedFor'
  <2> SUFFICES ASSUME NEW b \in Agents, NEW id \in 1 .. Later(confirmed'[b], nextOffset'[b]),
                      IsText(b, id)'
               PROVE  (<<b, id>> \in turned \cup InMemory \cup evicted \cup overflowed
                                       \cup abandoned)'
    BY DEF ForgottenIsAccountedFor, Later
  <2>1. id \in 1 .. Later(confirmed[b], nextOffset[b]) /\ IsText(b, id)
    BY <1>2, <1>4, <1>5 DEF IsText
  <2>2. <<b, id>> \in turned \cup InMemory \cup evicted \cup overflowed \cup abandoned
    BY <2>1 DEF IInv, ForgottenIsAccountedFor
  <2>3. CASE <<b, id>> \notin InMemory
    BY <1>2, <2>2, <2>3
  <2>4. CASE <<b, id>> \in InMemory
    <3>1. id \in Texts(b, receiver[b].ids) => b # a
      <4> SUFFICES ASSUME b = a, id \in receiver[a].ids PROVE FALSE
        BY DEF Texts
      <4>1. receiver[a].pc = "got"
        BY DEF IInv, Hands
      <4>2. nextOffset[a] <= confirmed[a] /\ \E n \in Nat : receiver[a].ids = confirmed[a] + 1 .. confirmed[a] + n
        BY <4>1 DEF IInv, Hands
      <4>3. id > confirmed[a]
        BY <1>1, <4>2
      <4> QED BY <1>1, <2>1, <4>2, <4>3 DEF Later
    <3>2. \/ id \in Texts(b, receiver[b].ids)'
          \/ <<b, id>> \in Members(queue)'
          \/ worker' = "taken" /\ <<b, id>> = popped'
      BY <1>2, <1>5, <2>4, <3>1, InMemoryIs DEF Texts, IsText
    <3> QED BY <3>2, InMemoryWillBe
  <2> QED BY <2>3, <2>4
<1> QED BY <1>7, <1>8, <1>9, <1>10, <1>11, <1>12 DEF IInv

LEMMA PollKeeps ==
  ASSUME IInv, NEW a \in Agents,
         \/ EnterReceiveLoop(a) \/ LoopReceive(a) \/ ReceiveCancelled(a)
         \/ Ask(a) \/ Answer(a) \/ AskFails(a) \/ BatchFails(a)
  PROVE  IInv'
<1> USE Constants
<1>1. /\ confirmed \in [Agents -> 0 .. MaxUpdates] /\ nextOffset \in [Agents -> 0 .. MaxUpdates]
      /\ receiver \in [Agents -> Receivers]
  BY DEF IInv, TypeOK, Receivers
<1>3. AtTop \in Receivers /\ AtTop.pc = "top" /\ AtTop.ids = {}
  BY DEF AtTop, Receivers
<1>4. receiver[a].pc \notin {"got", "delivering"} => receiver[a].ids = {}
  BY DEF IInv, Hands
<1>5. CASE \/ EnterReceiveLoop(a) \/ LoopReceive(a) \/ Ask(a)
  <2>1. PICK pc \in {"top", "stopped", "poll", "asking"} :
          receiver' = [receiver EXCEPT ![a].pc = pc]
    BY <1>5 DEF EnterReceiveLoop, LoopReceive, Ask
  <2> DEFINE r == [pc |-> pc, ids |-> {}]
  <2>2. receiver[a].pc \notin {"got", "delivering"} /\ UNCHANGED confirmed
    BY <1>5 DEF EnterReceiveLoop, LoopReceive, Ask
  <2>3. [receiver[a] EXCEPT !.pc = pc] = r
    <3>1. receiver[a] \in Receivers /\ receiver[a].ids = {}
      BY <1>1, <1>4, <2>2
    <3> DEFINE held == receiver[a]
    <3>2. held \in Receivers /\ held.ids = {}
      BY <3>1
    <3> HIDE DEF held
    <3>3. [held EXCEPT !.pc = pc] = [pc |-> pc, ids |-> held.ids]
      BY <3>2 DEF Receivers
    <3> QED BY <3>2, <3>3 DEF held
  <2>4. receiver' = [receiver EXCEPT ![a] = r] /\ r \in Receivers
    BY <2>1, <2>3 DEF Receivers
  <2>5. UNCHANGED <<upstream, nextOffset, queueVars, worker, replyVars, daemonVars, historyVars>>
    BY <1>5 DEF EnterReceiveLoop, LoopReceive, Ask
  <2>6. confirmed' = [confirmed EXCEPT ![a] = confirmed[a]]
    BY <1>1, <2>2
  <2>7. r.pc # "got" /\ r.pc # "delivering" /\ r.ids = {}
    OBVIOUS
  <2> HIDE DEF r
  <2> QED BY <2>2, <2>4, <2>5, <2>6, <2>7, PollStep
<1>6. CASE ReceiveCancelled(a) \/ BatchFails(a) \/ AskFails(a)
  <2>1. /\ receiver[a].pc # "delivering" /\ receiver' = [receiver EXCEPT ![a] = AtTop]
        /\ UNCHANGED <<upstream, nextOffset, queueVars, worker, replyVars, daemonVars, historyVars>>
    BY <1>6 DEF ReceiveCancelled, BatchFails, AskFails
  <2>2. PICK c \in {confirmed[a], Later(confirmed[a], nextOffset[a])} :
          confirmed' = [confirmed EXCEPT ![a] = c]
    BY <1>1, <1>6 DEF ReceiveCancelled, BatchFails, AskFails, Confirm
  <2>3. AtTop.pc # "got" /\ AtTop.pc # "delivering"
    BY <1>3
  <2> QED BY <1>3, <2>1, <2>2, <2>3, PollStep
<1>7. CASE Answer(a)
  <2> DEFINE c    == Later(confirmed[a], nextOffset[a])
             left == Len(upstream[a]) - c
             n    == IF left < ResponseLimit THEN left ELSE ResponseLimit
             r    == [pc |-> IF n > 0 THEN "got" ELSE "poll", ids |-> c + 1 .. c + n]
  <2>1. /\ receiver[a].pc # "delivering" /\ confirmed' = [confirmed EXCEPT ![a] = c]
        /\ UNCHANGED <<upstream, nextOffset, queueVars, worker, replyVars, daemonVars, historyVars>>
    BY <1>7 DEF Answer, Confirm
  <2>2. confirmed'[a] = c
    BY <1>1, <2>1
  <2>3. receiver' = [receiver EXCEPT ![a] = r]
    BY <1>7, <2>2 DEF Answer
  <2>4. Len(upstream[a]) \in Nat /\ Len(upstream[a]) <= MaxUpdates
    BY LenProperties DEF IInv, TypeOK, Upstream
  <2>5. c \in Nat /\ c <= Len(upstream[a]) /\ nextOffset[a] <= c
    BY <1>1 DEF Later, IInv, Upstream
  <2> HIDE DEF c
  <2>6. n \in Nat /\ c + n <= Len(upstream[a])
    BY <2>4, <2>5
  <2>7. n > 0 => n \in 1 .. MaxUpdates
    BY <2>4, <2>5, <2>6
  <2> HIDE DEF n
  <2>8. n = 0 => c + 1 .. c + n = {}
    BY <2>5
  <2>9. c + 1 .. c + n \in SUBSET (1 .. MaxUpdates)
    BY <2>4, <2>5, <2>6
  <2>10. r \in Receivers /\ r.pc # "delivering" /\ (r.pc # "got" => r.ids = {})
    BY <2>6, <2>8, <2>9 DEF Receivers
  <2>11. r.pc = "got" => /\ nextOffset[a] <= c
                         /\ \E k \in 1 .. MaxUpdates : /\ r.ids = c + 1 .. c + k
                                                       /\ c + k <= Len(upstream[a])
    BY <2>5, <2>6, <2>7
  <2> HIDE DEF r
  <2> QED BY <2>1, <2>3, <2>10, <2>11, PollStep DEF c
<1> QED BY <1>5, <1>6, <1>7

\* The bound on arrivals counts the updates of every bot.
LEMMA RoomForOneMore ==
  ASSUME IInv, NEW a \in Agents,
         Cardinality(UNION {{b} \X DOMAIN upstream[b] : b \in Agents}) < MaxUpdates
  PROVE  Len(upstream[a]) + 1 <= MaxUpdates
<1> DEFINE Slots(b) == {b} \X DOMAIN upstream[b]
           All      == UNION {Slots(b) : b \in Agents}
<1>1. ASSUME NEW b \in Agents
      PROVE  IsFiniteSet(Slots(b)) /\ Cardinality(Slots(b)) = Len(upstream[b])
  <2>1. Len(upstream[b]) \in Nat /\ DOMAIN upstream[b] = 1 .. Len(upstream[b])
    BY LenProperties DEF IInv, TypeOK
  <2>2. IsFiniteSet(DOMAIN upstream[b]) /\ Cardinality(DOMAIN upstream[b]) = Len(upstream[b])
    BY <2>1, FS_Interval
  <2>3. IsFiniteSet({b}) /\ Cardinality({b}) = 1
    BY FS_Singleton
  <2>4. /\ IsFiniteSet({b} \X DOMAIN upstream[b])
        /\ Cardinality({b} \X DOMAIN upstream[b]) = 1 * Len(upstream[b])
    BY <2>2, <2>3, FS_Product
  <2> QED BY <2>1, <2>4
<1> HIDE DEF Slots
<1>2. IsFiniteSet(All)
  <2> DEFINE g == [b \in Agents |-> Slots(b)]
  <2>a. g \in Surjection(Agents, {g[b] : b \in Agents})
    BY DEF Surjection
  <2>b. IsFiniteSet({g[b] : b \in Agents})
    BY <2>a, Constants, FS_Surjection
  <2>1. IsFiniteSet({Slots(b) : b \in Agents})
    BY <2>b
  <2>2. \A T \in {Slots(b) : b \in Agents} : IsFiniteSet(T)
    BY <1>1
  <2> QED BY <2>1, <2>2, FS_UNION
<1>3. Slots(a) \subseteq All
  OBVIOUS
<1>4. Cardinality(All) < MaxUpdates
  BY DEF Slots
<1> HIDE DEF All
<1>5. Cardinality(Slots(a)) <= Cardinality(All) /\ Cardinality(All) \in Nat
  BY <1>2, <1>3, FS_Subset, FS_CardinalityType
<1>6. Len(upstream[a]) \in Nat /\ Len(upstream[a]) <= Cardinality(All)
  BY <1>1, <1>5, LenProperties DEF IInv, TypeOK
<1> QED BY <1>4, <1>5, <1>6, Constants

LEMMA ArriveKeeps ==
  ASSUME IInv, NEW a \in Agents, Arrive(a)
  PROVE  IInv'
<1> USE Constants
<1>1. PICK kind \in {"text", "other"} : upstream' = [upstream EXCEPT ![a] = Append(@, kind)]
  BY DEF Arrive
<1>2. /\ confirmed \in [Agents -> 0 .. MaxUpdates] /\ nextOffset \in [Agents -> 0 .. MaxUpdates]
      /\ receiver \in [Agents -> Receivers] /\ upstream \in [Agents -> Seq({"text", "other"})]
  BY DEF IInv, TypeOK, Receivers
<1>3. UNCHANGED <<queue, enqueued, dropped, drained, popped, outbox, sender, sent, stage, lives,
                  turned, lastTurn, evicted, overflowed, abandoned, confirmed, nextOffset, receiver,
                  worker>>
  BY DEF Arrive, queueVars, replyVars, daemonVars, historyVars
<1>4. /\ upstream'[a] = Append(upstream[a], kind)
      /\ \A b \in Agents \ {a} : upstream'[b] = upstream[b]
  BY <1>1, <1>2
<1>5. \A b \in Agents : Len(upstream[b]) \in Nat
  BY <1>2, LenProperties
<1>6. /\ Append(upstream[a], kind) \in Seq({"text", "other"})
      /\ Len(Append(upstream[a], kind)) = Len(upstream[a]) + 1
      /\ \A i \in 1 .. Len(upstream[a]) : Append(upstream[a], kind)[i] = upstream[a][i]
  <2>1. upstream[a] \in Seq({"text", "other"})
    BY <1>2
  <2> QED BY <2>1, AppendProperties
<1>7. ASSUME NEW b \in Agents
      PROVE  /\ Len(upstream[b]) <= Len(upstream'[b]) /\ Len(upstream'[b]) <= MaxUpdates
             /\ Len(upstream'[b]) \in Nat
             /\ \A id \in 1 .. Len(upstream[b]) : IsText(b, id)' <=> IsText(b, id)
  <2>1. CASE b = a
    <3>1. Len(upstream[a]) + 1 <= MaxUpdates
      BY RoomForOneMore DEF Arrive
    <3> QED BY <1>4, <1>5, <1>6, <2>1, <3>1 DEF IsText
  <2>2. CASE b # a
    BY <1>4, <1>5, <2>2 DEF IInv, Upstream, IsText
  <2> QED BY <2>1, <2>2
<1>8. upstream' \in [Agents -> Seq({"text", "other"})]
  BY <1>1, <1>2, <1>6
<1>9. TypeOK'
  BY <1>3, <1>8 DEF IInv, TypeOK
<1>10. \A b \in Agents : confirmed[b] \in Nat /\ nextOffset[b] \in Nat
  BY <1>2
<1>11. Upstream'
  <2> SUFFICES ASSUME NEW b \in Agents
               PROVE  /\ confirmed[b] <= Len(upstream'[b]) /\ nextOffset[b] <= Len(upstream'[b])
                      /\ Len(upstream'[b]) <= MaxUpdates
    BY <1>3 DEF Upstream
  <2>1. confirmed[b] <= Len(upstream[b]) /\ nextOffset[b] <= Len(upstream[b])
    BY DEF IInv, Upstream
  <2> QED BY <1>5, <1>7, <1>10, <2>1
<1>12. \A b \in Agents : \A id \in receiver[b].ids : id \in 1 .. Len(upstream[b])
  <2> SUFFICES ASSUME NEW b \in Agents, NEW id \in receiver[b].ids
               PROVE  id \in 1 .. Len(upstream[b])
    OBVIOUS
  <2>1. id \in 1 .. MaxUpdates
    BY <1>2 DEF Receivers
  <2>2. CASE receiver[b].pc = "got"
    <3>1. \E n \in 1 .. MaxUpdates : /\ receiver[b].ids = confirmed[b] + 1 .. confirmed[b] + n
                                     /\ confirmed[b] + n <= Len(upstream[b])
      BY <2>2 DEF IInv, Hands
    <3> QED BY <1>5, <1>10, <2>1, <3>1
  <2>3. CASE receiver[b].pc = "delivering"
    <3>1. id <= nextOffset[b] /\ nextOffset[b] <= Len(upstream[b])
      BY <2>3 DEF IInv, Hands, Upstream
    <3> QED BY <1>5, <1>10, <2>1, <3>1
  <2> QED BY <2>2, <2>3 DEF IInv, Hands
<1>13. Hands'
  <2> SUFFICES ASSUME NEW b \in Agents
               PROVE  /\ receiver[b].pc \notin {"got", "delivering"} => receiver[b].ids = {}
                      /\ receiver[b].pc = "got" =>
                           /\ nextOffset[b] <= confirmed[b]
                           /\ \E n \in 1 .. MaxUpdates :
                                /\ receiver[b].ids = confirmed[b] + 1 .. confirmed[b] + n
                                /\ confirmed[b] + n <= Len(upstream'[b])
                      /\ receiver[b].pc = "delivering" =>
                           /\ receiver[b].ids # {}
                           /\ \A id \in receiver[b].ids : id <= nextOffset[b] /\ IsText(b, id)'
    BY <1>3 DEF Hands
  <2>1. CASE receiver[b].pc = "got"
    <3>1. PICK n \in 1 .. MaxUpdates : /\ receiver[b].ids = confirmed[b] + 1 .. confirmed[b] + n
                                       /\ confirmed[b] + n <= Len(upstream[b])
      BY <2>1 DEF IInv, Hands
    <3>2. confirmed[b] + n <= Len(upstream'[b])
      BY <1>5, <1>7, <1>10, <3>1
    <3> QED BY <2>1, <3>1, <3>2 DEF IInv, Hands
  <2>2. CASE receiver[b].pc # "got"
    BY <1>7, <1>12, <2>2 DEF IInv, Hands
  <2> QED BY <2>1, <2>2
<1>14. Working' /\ Ascending'
  <2>1. \A b \in Agents : Batched(b)' = Batched(b) /\ InHand(b)' = InHand(b) /\ Waiting(b)' = Waiting(b)
    BY <1>3 DEF Batched, InHand, Waiting
  <2>2. \A b \in Agents : SortedIn(queue, b)' = SortedIn(queue, b)
    BY <1>3
  <2> QED BY <1>3, <2>1, <2>2 DEF IInv, Working, Ascending
<1>15. ForgottenIsAccountedFor'
  <2> SUFFICES ASSUME NEW b \in Agents, NEW id \in 1 .. Later(confirmed[b], nextOffset[b]),
                      IsText(b, id)'
               PROVE  (<<b, id>> \in turned \cup InMemory \cup evicted \cup overflowed
                                       \cup abandoned)'
    BY <1>3 DEF ForgottenIsAccountedFor, Later
  <2>1. id \in 1 .. Len(upstream[b])
    <3>1. confirmed[b] <= Len(upstream[b]) /\ nextOffset[b] <= Len(upstream[b])
      BY DEF IInv, Upstream
    <3> QED BY <1>5, <1>10, <3>1 DEF Later
  <2>2. IsText(b, id)
    BY <1>7, <2>1
  <2>3. <<b, id>> \in turned \cup InMemory \cup evicted \cup overflowed \cup abandoned
    BY <2>2 DEF IInv, ForgottenIsAccountedFor
  <2>4. <<b, id>> \in InMemory => (<<b, id>> \in InMemory)'
    <3>1. id \in Texts(b, receiver[b].ids) => id \in Texts(b, receiver[b].ids)'
      BY <1>3, <1>7, <2>1 DEF Texts
    <3> QED BY <1>3, <3>1, InMemoryIs, InMemoryWillBe
  <2> QED BY <1>3, <2>3, <2>4
<1> QED BY <1>9, <1>11, <1>13, <1>14, <1>15 DEF IInv

LEMMA AgentIds ==
  ASSUME IInv, NEW a \in Agents
  PROVE  /\ lastTurn[a] \in Nat /\ nextOffset[a] \in Nat /\ confirmed[a] \in Nat
         /\ queue \in Seq(Msg)
         /\ \A id \in InHand(a) \cup Waiting(a) \cup Batched(a) : id \in 1 .. MaxUpdates /\ id \in Nat
<1>1. /\ lastTurn \in [Agents -> 0 .. MaxUpdates] /\ nextOffset \in [Agents -> 0 .. MaxUpdates]
      /\ confirmed \in [Agents -> 0 .. MaxUpdates] /\ receiver \in [Agents -> Receivers]
      /\ queue \in Seq(Msg)
  BY DEF IInv, TypeOK, Receivers, Msg
<1>2. \A id \in InHand(a) : id \in 1 .. MaxUpdates
  BY MsgIs DEF InHand, IInv, Working
<1>3. \A id \in Waiting(a) : id \in 1 .. MaxUpdates
  <2> SUFFICES ASSUME NEW i \in DOMAIN queue PROVE queue[i][2] \in 1 .. MaxUpdates
    BY DEF Waiting, WaitingIn
  <2>1. queue[i] \in Msg
    BY <1>1, QueueIs
  <2> QED BY <2>1, MsgIs
<1>4. \A id \in Batched(a) : id \in 1 .. MaxUpdates
  BY <1>1 DEF Batched, Receivers
<1>5. \A id \in 1 .. MaxUpdates : id \in Nat
  BY Constants
<1>6. lastTurn[a] \in Nat /\ nextOffset[a] \in Nat /\ confirmed[a] \in Nat
  BY <1>1, Constants
<1> QED BY <1>1, <1>2, <1>3, <1>4, <1>5, <1>6

LEMMA BatchKeeps ==
  ASSUME IInv, NEW a \in Agents, Batch(a)
  PROVE  IInv'
<1> USE Constants
<1> DEFINE ids   == receiver[a].ids
           seen  == Seen(a, ids)
           batch == Written(a, ids)
           next  == Last(seen)
           r     == [pc |-> IF batch = {} THEN "poll" ELSE "delivering", ids |-> batch]
<1>1. /\ confirmed \in [Agents -> 0 .. MaxUpdates] /\ nextOffset \in [Agents -> 0 .. MaxUpdates]
      /\ receiver \in [Agents -> Receivers] /\ upstream \in [Agents -> Seq({"text", "other"})]
      /\ lastTurn \in [Agents -> 0 .. MaxUpdates]
  BY DEF IInv, TypeOK, Receivers
<1>2. /\ receiver[a].pc = "got" /\ nextOffset' = [nextOffset EXCEPT ![a] = next]
      /\ receiver' = [receiver EXCEPT ![a] = r]
      /\ overflowed' = overflowed \cup ({a} \X (Texts(a, seen) \ batch))
  BY DEF Batch
<1>3. UNCHANGED <<queue, enqueued, dropped, drained, popped, outbox, sender, sent, stage, lives,
                  turned, lastTurn, evicted, abandoned, confirmed, upstream, worker>>
  BY DEF Batch, queueVars, replyVars, daemonVars
<1>4. PICK n \in 1 .. MaxUpdates : ids = confirmed[a] + 1 .. confirmed[a] + n
                                   /\ confirmed[a] + n <= Len(upstream[a])
  BY <1>2 DEF IInv, Hands
<1>5. /\ confirmed[a] \in Nat /\ nextOffset[a] \in Nat /\ nextOffset[a] <= confirmed[a]
      /\ Len(upstream[a]) \in Nat /\ Len(upstream[a]) <= MaxUpdates
  BY <1>1, <1>2, LenProperties DEF IInv, Hands, Upstream
<1>6. ids \in SUBSET (1 .. MaxUpdates) /\ ids # {}
  <2>1. ids \in SUBSET (1 .. MaxUpdates)
    BY <1>1 DEF Receivers
  <2>2. confirmed[a] + 1 \in ids
    BY <1>4, <1>5
  <2> QED BY <2>1, <2>2
<1>7. /\ next \in ids
      /\ \A id \in ids : id <= next => id \in seen
      /\ batch \subseteq Texts(a, seen)
      /\ \A id \in batch : id \in ids /\ IsText(a, id) /\ id <= next
  BY <1>6, BatchOf
<1> HIDE DEF seen, batch, next, ids
<1>8. next \in 0 .. MaxUpdates /\ confirmed[a] < next /\ next <= Len(upstream[a]) /\ nextOffset[a] < next
  BY <1>4, <1>5, <1>6, <1>7
<1>9. \A id \in ids : confirmed[a] < id /\ id \in Nat
  BY <1>4, <1>5
<1>10. r \in Receivers
  BY <1>6, <1>7 DEF Receivers
<1>11. /\ receiver'[a] = r /\ nextOffset'[a] = next
       /\ \A b \in Agents \ {a} : receiver'[b] = receiver[b] /\ nextOffset'[b] = nextOffset[b]
  BY <1>1, <1>2
<1>12. TypeOK'
  <2>1. nextOffset' \in [Agents -> 0 .. MaxUpdates] /\ receiver' \in [Agents -> Receivers]
    BY <1>1, <1>2, <1>8, <1>10
  <2>2. overflowed' \subseteq Msg
    <3>1. Texts(a, seen) \subseteq 1 .. MaxUpdates
      BY <1>6 DEF Texts, Seen, seen
    <3> QED BY <1>2, <3>1 DEF IInv, TypeOK, Msg
  <2> QED BY <1>3, <2>1, <2>2 DEF IInv, TypeOK, Receivers, Msg
<1>13. Upstream'
  BY <1>3, <1>8, <1>11 DEF IInv, Upstream
<1>14. Hands'
  <2> SUFFICES ASSUME NEW b \in Agents
               PROVE  /\ receiver'[b].pc \notin {"got", "delivering"} => receiver'[b].ids = {}
                      /\ receiver'[b].pc = "got" =>
                           /\ nextOffset'[b] <= confirmed'[b]
                           /\ \E k \in 1 .. MaxUpdates :
                                /\ receiver'[b].ids = confirmed'[b] + 1 .. confirmed'[b] + k
                                /\ confirmed'[b] + k <= Len(upstream'[b])
                      /\ receiver'[b].pc = "delivering" =>
                           /\ receiver'[b].ids # {}
                           /\ \A id \in receiver'[b].ids : id <= nextOffset'[b] /\ IsText(b, id)'
    BY DEF Hands
  <2>1. CASE b = a
    BY <1>3, <1>7, <1>11, <2>1 DEF IsText
  <2>2. CASE b # a
    BY <1>3, <1>11, <2>2 DEF IInv, Hands, IsText
  <2> QED BY <2>1, <2>2
<1>15. Working'
  BY <1>3 DEF IInv, Working
<1>16. Ascending'
  <2>1. \A b \in Agents : InHand(b)' = InHand(b) /\ Waiting(b)' = Waiting(b)
    BY <1>3 DEF InHand, Waiting
  <2>2. \A b \in Agents : SortedIn(queue, b)' = SortedIn(queue, b)
    BY <1>3
  <2>3. \A b \in Agents \ {a} : Batched(b)' = Batched(b)
    BY <1>11 DEF Batched
  <2>4. Batched(a)' \subseteq ids /\ Batched(a) = {}
    BY <1>2, <1>7, <1>11 DEF Batched
  <2>5. ASSUME NEW b \in Agents
        PROVE  /\ lastTurn[b] <= nextOffset'[b]
               /\ Before({lastTurn[b]}, InHand(b) \cup Waiting(b) \cup Batched(b)')
               /\ Before(InHand(b), Waiting(b) \cup Batched(b)')
               /\ Before(Waiting(b), Batched(b)')
               /\ \A id \in InHand(b) \cup Waiting(b) : id <= nextOffset'[b]
               /\ SortedIn(queue, b)
    <3>1. CASE b = a
      <4>1. lastTurn[a] \in Nat /\ lastTurn[a] <= nextOffset[a]
        BY AgentIds DEF IInv, Ascending
      <4>2. \A id \in InHand(a) \cup Waiting(a) : id \in Nat /\ id <= nextOffset[a]
        BY AgentIds DEF IInv, Ascending
      <4>3. \A id \in Batched(a)' : id \in Nat /\ nextOffset[a] < id
        BY <1>5, <1>9, <2>4
      <4>4. lastTurn[a] <= next
        BY <1>5, <1>8, <4>1
      <4>5. \A id \in InHand(a) \cup Waiting(a) : id <= next
        BY <1>5, <1>8, <4>2
      <4>6. \A id \in InHand(a) \cup Waiting(a) \cup {lastTurn[a]} : \A k \in Batched(a)' : id < k
        BY <1>5, <4>1, <4>2, <4>3
      <4>7. /\ Before({lastTurn[a]}, InHand(a) \cup Waiting(a)) /\ Before(InHand(a), Waiting(a))
            /\ SortedIn(queue, a)
        BY DEF IInv, Ascending, Before
      <4> QED BY <1>11, <3>1, <4>4, <4>5, <4>6, <4>7 DEF Before
    <3>2. CASE b # a
      BY <1>11, <2>3, <3>2 DEF IInv, Ascending
    <3> QED BY <3>1, <3>2
  <2> QED BY <1>3, <2>1, <2>2, <2>5 DEF Ascending
<1>17. ForgottenIsAccountedFor'
  <2> SUFFICES ASSUME NEW b \in Agents, NEW id \in 1 .. Later(confirmed[b], nextOffset'[b]),
                      IsText(b, id)
               PROVE  (<<b, id>> \in turned \cup InMemory \cup evicted \cup overflowed
                                       \cup abandoned)'
    BY <1>3 DEF ForgottenIsAccountedFor, Later, IsText
  <2>1. CASE id \in 1 .. Later(confirmed[b], nextOffset[b])
    <3>1. <<b, id>> \in turned \cup InMemory \cup evicted \cup overflowed \cup abandoned
      BY <2>1 DEF IInv, ForgottenIsAccountedFor
    <3>2. <<b, id>> \in InMemory => (<<b, id>> \in InMemory)'
      <4>1. id \in Texts(b, receiver[b].ids) => b # a
        BY <1>5, <1>9, <2>1 DEF Texts, ids, Later
      <4> QED BY <1>3, <1>11, <4>1, InMemoryIs, InMemoryWillBe DEF Texts, IsText
    <3> QED BY <1>2, <1>3, <3>1, <3>2
  <2>2. CASE id \notin 1 .. Later(confirmed[b], nextOffset[b])
    <3>1. b = a
      BY <1>11, <2>2
    <3>2. id \in Nat /\ id > confirmed[a] /\ id <= next
      BY <1>5, <1>8, <1>11, <2>2, <3>1 DEF Later
    <3>3. id \in ids
      <4>1. next \in confirmed[a] + 1 .. confirmed[a] + n
        BY <1>4, <1>7
      <4> QED BY <1>4, <1>5, <3>2, <4>1
    <3>4. id \in Texts(a, seen)
      BY <1>7, <3>1, <3>2, <3>3 DEF Texts
    <3>5. CASE id \in batch
      <4>1. id \in Texts(b, receiver[b].ids)'
        BY <1>3, <1>11, <3>1, <3>5 DEF Texts, IsText
      <4> QED BY <4>1, InMemoryWillBe
    <3>6. CASE id \notin batch
      BY <1>2, <3>1, <3>4, <3>6
    <3> QED BY <3>5, <3>6
  <2> QED BY <2>1, <2>2
<1> QED BY <1>12, <1>13, <1>14, <1>15, <1>16, <1>17 DEF IInv

\* Whether the message finds room or displaces another, it is appended to
\* what stays of the queue.
LEMMA Enqueued ==
  ASSUME IInv, NEW m \in Msg,
         \/ Queue!Accept(m) /\ UNCHANGED evicted
         \/ Queue!Displace(m) /\ evicted' = evicted \cup {Head(queue)}
  PROVE  /\ enqueued' \in Nat /\ dropped' \in Nat /\ UNCHANGED <<drained, popped>>
         /\ evicted \subseteq evicted' /\ evicted' \subseteq Msg
         /\ \E q \in Seq(Msg) :
              /\ queue' = Append(q, m) /\ Len(q) < Capacity
              /\ Members(queue) \subseteq Members(q) \cup evicted'
              /\ \A b \in Agents : /\ WaitingIn(q, b) \subseteq Waiting(b)
                                   /\ SortedIn(queue, b) => SortedIn(q, b)
<1>1. /\ queue \in Seq(Msg) /\ Len(queue) \in Nat /\ evicted \subseteq Msg
      /\ enqueued \in Nat /\ dropped \in Nat
  BY LenProperties DEF IInv, TypeOK, Msg
<1>2. CASE Queue!Accept(m) /\ UNCHANGED evicted
  <2>1. /\ enqueued' = enqueued + 1 /\ UNCHANGED <<dropped, drained, popped>>
        /\ queue' = Append(queue, m) /\ Len(queue) < Capacity
    BY <1>2 DEF Queue!Accept
  <2>2. \A b \in Agents : /\ WaitingIn(queue, b) \subseteq Waiting(b)
                          /\ SortedIn(queue, b) => SortedIn(queue, b)
    BY DEF Waiting
  <2>3. enqueued' \in Nat /\ dropped' \in Nat
    BY <1>1, <2>1
  <2> QED BY <1>1, <1>2, <2>1, <2>2, <2>3
<1>3. CASE Queue!Displace(m) /\ evicted' = evicted \cup {Head(queue)}
  <2>1. /\ enqueued' = enqueued + 1 /\ dropped' = dropped + 1 /\ UNCHANGED <<drained, popped>>
        /\ queue' = Append(Tail(queue), m) /\ Len(queue) = Capacity
    BY <1>3 DEF Queue!Displace
  <2>2. queue # << >>
    BY <2>1, EmptySeq, Constants
  <2>3. /\ Tail(queue) \in Seq(Msg) /\ Len(Tail(queue)) = Len(queue) - 1 /\ Head(queue) \in Msg
        /\ Members(queue) = Members(Tail(queue)) \cup {Head(queue)}
        /\ \A b \in Agents : /\ WaitingIn(Tail(queue), b) \subseteq WaitingIn(queue, b)
                             /\ SortedIn(queue, b) => SortedIn(Tail(queue), b)
    BY <1>1, <2>2, TailKeeps
  <2>4. Len(Tail(queue)) < Capacity
    BY <1>1, <2>1, <2>3
  <2>5. enqueued' \in Nat /\ dropped' \in Nat
    BY <1>1, <2>1
  <2>6. Members(queue) \subseteq Members(Tail(queue)) \cup evicted'
    BY <1>3, <2>3
  <2>7. evicted' \subseteq Msg /\ evicted \subseteq evicted'
    BY <1>1, <1>3, <2>3
  <2>8. \A b \in Agents : /\ WaitingIn(Tail(queue), b) \subseteq Waiting(b)
                          /\ SortedIn(queue, b) => SortedIn(Tail(queue), b)
    BY <2>3 DEF Waiting
  <2> QED BY <2>1, <2>3, <2>4, <2>5, <2>6, <2>7, <2>8
<1> QED BY <1>2, <1>3

LEMMA DeliverKeeps ==
  ASSUME IInv, NEW a \in Agents, Deliver(a)
  PROVE  IInv'
<1> USE Constants
<1> DEFINE ids  == receiver[a].ids
           id0  == First(ids)
           rest == ids \ {id0}
           m    == <<a, id0>>
           r    == [pc |-> IF rest = {} THEN "top" ELSE "delivering", ids |-> rest]
<1>1. /\ receiver[a].pc = "delivering" /\ receiver' = [receiver EXCEPT ![a] = r]
      /\ \/ Queue!Accept(m) /\ UNCHANGED evicted
         \/ Queue!Displace(m) /\ evicted' = evicted \cup {Head(queue)}
  BY DEF Deliver
<1>2. UNCHANGED <<upstream, confirmed, nextOffset, worker, outbox, sender, sent, stage, lives,
                  turned, lastTurn, overflowed, abandoned>>
  BY DEF Deliver, replyVars, daemonVars
<1>3. receiver \in [Agents -> Receivers] /\ ids \in SUBSET (1 .. MaxUpdates)
  BY DEF IInv, TypeOK, Receivers
<1>4. /\ ids # {}
      /\ \A id \in ids : id \in Nat /\ id <= nextOffset[a] /\ IsText(a, id)
  BY <1>1, <1>3 DEF IInv, Hands
<1>5. id0 \in ids /\ \A id \in ids : id0 <= id
  BY <1>3, <1>4, FirstIsLeast
<1> HIDE DEF id0, ids
<1>6. \A id \in rest : id \in ids /\ id0 < id
  BY <1>4, <1>5
<1>7. m \in Msg
  BY <1>3, <1>5 DEF Msg
<1>8. /\ enqueued' \in Nat /\ dropped' \in Nat /\ UNCHANGED <<drained, popped>>
      /\ evicted \subseteq evicted' /\ evicted' \subseteq Msg
  BY <1>1, <1>7, Enqueued
<1>9. PICK q \in Seq(Msg) :
        /\ queue' = Append(q, m) /\ Len(q) < Capacity
        /\ Members(queue) \subseteq Members(q) \cup evicted'
        /\ \A b \in Agents : /\ WaitingIn(q, b) \subseteq Waiting(b)
                             /\ SortedIn(queue, b) => SortedIn(q, b)
  BY <1>1, <1>7, Enqueued
<1>10. /\ queue' \in Seq(Msg) /\ Len(queue') = Len(q) + 1
       /\ Members(queue') = Members(q) \cup {m}
       /\ \A b \in Agents :
            /\ WaitingIn(queue', b) = WaitingIn(q, b) \cup (IF m[1] = b THEN {m[2]} ELSE {})
            /\ SortedIn(q, b) /\ (m[1] = b => Before(WaitingIn(q, b), {m[2]}))
                 => SortedIn(queue', b)
  BY <1>7, <1>9, AppendKeeps
<1>11. m[1] = a /\ m[2] = id0
  OBVIOUS
<1>12. r \in Receivers /\ r.ids = rest /\ (r.pc = "delivering" <=> rest # {}) /\ r.pc # "got"
  BY <1>3, <1>6 DEF Receivers
<1> HIDE DEF m, r
<1>13. /\ receiver'[a] = r
       /\ \A b \in Agents \ {a} : receiver'[b] = receiver[b]
       /\ receiver' \in [Agents -> Receivers]
  BY <1>1, <1>3, <1>12
<1>14. TypeOK'
  <2>1. queue' \in Seq(Agents \X (1 .. MaxUpdates)) /\ Len(queue') <= Capacity
    BY <1>9, <1>10, LenProperties DEF Msg
  <2> QED BY <1>2, <1>8, <1>13, <2>1 DEF IInv, TypeOK, Receivers, Msg
<1>15. Upstream'
  BY <1>2 DEF IInv, Upstream
<1>16. Hands'
  <2> SUFFICES ASSUME NEW b \in Agents
               PROVE  /\ receiver'[b].pc \notin {"got", "delivering"} => receiver'[b].ids = {}
                      /\ receiver'[b].pc = "got" =>
                           /\ nextOffset'[b] <= confirmed'[b]
                           /\ \E k \in 1 .. MaxUpdates :
                                /\ receiver'[b].ids = confirmed'[b] + 1 .. confirmed'[b] + k
                                /\ confirmed'[b] + k <= Len(upstream'[b])
                      /\ receiver'[b].pc = "delivering" =>
                           /\ receiver'[b].ids # {}
                           /\ \A id \in receiver'[b].ids : id <= nextOffset'[b] /\ IsText(b, id)'
    BY DEF Hands
  <2>1. CASE b = a
    BY <1>2, <1>4, <1>6, <1>12, <1>13, <2>1 DEF IsText
  <2>2. CASE b # a
    BY <1>2, <1>13, <2>2 DEF IInv, Hands, IsText
  <2> QED BY <2>1, <2>2
<1>17. Working'
  BY <1>2, <1>8 DEF IInv, Working
<1>18. Ascending'
  <2> SUFFICES ASSUME NEW b \in Agents
               PROVE  /\ lastTurn[b] <= nextOffset[b]
                      /\ Before({lastTurn[b]}, InHand(b) \cup Waiting(b)' \cup Batched(b)')
                      /\ Before(InHand(b), Waiting(b)' \cup Batched(b)')
                      /\ Before(Waiting(b)', Batched(b)')
                      /\ \A id \in InHand(b) \cup Waiting(b)' : id <= nextOffset[b]
                      /\ SortedIn(queue', b)
    <3>1. \A b \in Agents : InHand(b)' = InHand(b)
      BY <1>2, <1>8 DEF InHand
    <3> QED BY <1>2, <3>1 DEF Ascending
  <2>1. /\ lastTurn[b] <= nextOffset[b]
        /\ Before({lastTurn[b]}, InHand(b) \cup Waiting(b) \cup Batched(b))
        /\ Before(InHand(b), Waiting(b) \cup Batched(b))
        /\ Before(Waiting(b), Batched(b))
        /\ \A id \in InHand(b) \cup Waiting(b) : id <= nextOffset[b]
        /\ SortedIn(queue, b)
    BY DEF IInv, Ascending
  <2>2. CASE b = a
    <3>1. Batched(a) = ids /\ Batched(a)' = rest
      BY <1>1, <1>12, <1>13 DEF Batched, ids
    <3>2. Waiting(a)' \subseteq Waiting(a) \cup {id0}
      BY <1>9, <1>10, <1>11 DEF Waiting
    <3>3. \A id \in Waiting(a)' : \A k \in rest : id < k
      BY <1>6, <2>1, <2>2, <3>1, <3>2 DEF Before
    <3>4. \A id \in Waiting(a)' \cup rest : id \in Waiting(a) \cup ids
      BY <1>5, <3>2
    <3>5. \A id \in Waiting(a)' : id <= nextOffset[a]
      BY <1>4, <1>5, <2>1, <2>2, <3>2
    <3>6. Before(WaitingIn(q, a), {id0})
      BY <1>5, <1>9, <2>1, <2>2, <3>1 DEF Before
    <3>7. SortedIn(queue', a)
      BY <1>9, <1>10, <1>11, <2>1, <2>2, <3>6
    <3> QED BY <2>1, <2>2, <3>1, <3>3, <3>4, <3>5, <3>7 DEF Before
  <2>3. CASE b # a
    <3>1. Batched(b)' = Batched(b)
      BY <1>13, <2>3 DEF Batched
    <3>2. Waiting(b)' \subseteq Waiting(b)
      BY <1>9, <1>10, <1>11, <2>3 DEF Waiting
    <3>3. SortedIn(queue', b)
      BY <1>9, <1>10, <1>11, <2>1, <2>3
    <3> QED BY <2>1, <3>1, <3>2, <3>3 DEF Before
  <2> QED BY <2>2, <2>3
<1>19. ForgottenIsAccountedFor'
  <2> SUFFICES ASSUME NEW b \in Agents, NEW id \in 1 .. Later(confirmed[b], nextOffset[b]),
                      IsText(b, id)
               PROVE  (<<b, id>> \in turned \cup InMemory \cup evicted \cup overflowed
                                       \cup abandoned)'
    BY <1>2 DEF ForgottenIsAccountedFor, Later, IsText
  <2>1. <<b, id>> \in turned \cup InMemory \cup evicted \cup overflowed \cup abandoned
    BY DEF IInv, ForgottenIsAccountedFor
  <2>2. <<b, id>> \in InMemory => <<b, id>> \in evicted' \/ (<<b, id>> \in InMemory)'
    <3>1. id \in Texts(b, receiver[b].ids) =>
            id \in Texts(b, receiver[b].ids)' \/ <<b, id>> = m
      <4>1. CASE b = a
        <5>1. id \in ids => id \in rest \/ <<b, id>> = m
          BY <4>1 DEF m
        <5> QED BY <1>2, <1>12, <1>13, <4>1, <5>1 DEF Texts, IsText, ids
      <4>2. CASE b # a
        BY <1>2, <1>13, <4>2 DEF Texts, IsText
      <4> QED BY <4>1, <4>2
    <3>2. Members(queue)' = Members(q) \cup {m}
      BY <1>10
    <3> QED BY <1>2, <1>8, <1>9, <3>1, <3>2, InMemoryIs, InMemoryWillBe
  <2> QED BY <1>2, <1>8, <2>1, <2>2
<1> QED BY <1>14, <1>15, <1>16, <1>17, <1>18, <1>19 DEF IInv

-----------------------------------------------------------------------------
(* The steps of the worker, the sender and the drain.                      *)

\* Only the worker's place, the outbox, the sender and the drain move on.
LEMMA QuietKeeps ==
  ASSUME IInv, UNCHANGED <<pollVars, queueVars, historyVars, lives>>,
         worker = "taken" <=> worker' = "taken",
         worker' \in {"turn", "hung", "append"} => worker \in {"turn", "hung", "append"},
         worker' \in {"top", "dequeue", "unlocked", "taken", "turn", "hung", "append", "stopped"},
         sender' \in {"running", "stopped"},
         stage' \in {"serving", "waiting", "receivers_told", "worker_told", "sender_told", "down"},
         outbox' \subseteq turned, sent' \subseteq outbox' \X Agents
  PROVE  IInv'
<1>1. UNCHANGED <<upstream, confirmed, nextOffset, receiver, queue, enqueued, dropped, drained,
                  popped, lives, turned, lastTurn, evicted, overflowed, abandoned>>
  BY DEF pollVars, queueVars, historyVars
<1>2. TypeOK'
  BY <1>1 DEF IInv, TypeOK
<1>3. Upstream' /\ Hands'
  BY <1>1 DEF IInv, Upstream, Hands, IsText
<1>4. Working'
  BY <1>1 DEF IInv, Working
<1>5. Ascending'
  <2>1. \A b \in Agents : Batched(b)' = Batched(b) /\ InHand(b)' = InHand(b) /\ Waiting(b)' = Waiting(b)
    BY <1>1 DEF Batched, InHand, Waiting
  <2>2. \A b \in Agents : SortedIn(queue, b)' = SortedIn(queue, b)
    BY <1>1
  <2> QED BY <1>1, <2>1, <2>2 DEF IInv, Ascending
<1>6. ForgottenIsAccountedFor'
  <2>1. InMemory' = InMemory
    BY <1>1 DEF InMemory, Texts, IsText
  <2> QED BY <1>1, <2>1 DEF IInv, ForgottenIsAccountedFor, Later, IsText
<1> QED BY <1>2, <1>3, <1>4, <1>5, <1>6 DEF IInv

LEMMA DequeueKeeps ==
  ASSUME IInv, Dequeue
  PROVE  IInv'
<1> USE Constants
<1>1. /\ queue # << >> /\ popped' = Head(queue) /\ queue' = Tail(queue)
      /\ drained' = drained + 1 /\ worker' = "taken" /\ worker = "dequeue"
  BY DEF Dequeue, Queue!Take
<1>2. UNCHANGED <<upstream, confirmed, nextOffset, receiver, enqueued, dropped, outbox, sender, sent,
                  stage, lives, turned, lastTurn, evicted, overflowed, abandoned>>
  BY DEF Dequeue, Queue!Take, pollVars, replyVars, daemonVars, historyVars
<1>3. queue \in Seq(Msg) /\ Len(queue) \in Nat /\ Len(queue) <= Capacity /\ drained \in Nat
  BY LenProperties DEF IInv, TypeOK, Msg
<1>4. /\ queue' \in Seq(Msg) /\ Len(queue') = Len(queue) - 1 /\ popped' \in Msg
      /\ Members(queue) = Members(queue') \cup {popped'}
      /\ \A a \in Agents :
           /\ Waiting(a)' \subseteq Waiting(a)
           /\ SortedIn(queue, a) => SortedIn(queue', a)
           /\ popped'[1] = a => /\ popped'[2] \in Waiting(a)
                                /\ SortedIn(queue, a) => Before({popped'[2]}, Waiting(a)')
  BY <1>1, <1>3, TailKeeps DEF Waiting
<1>5. TypeOK'
  <2>1. Len(queue') <= Capacity /\ drained' \in Nat
    BY <1>1, <1>3, <1>4
  <2> QED BY <1>1, <1>2, <1>4, <2>1 DEF IInv, TypeOK, Msg
<1>6. Upstream' /\ Hands'
  BY <1>2 DEF IInv, Upstream, Hands, IsText
<1>7. Working'
  BY <1>1, <1>4 DEF Working
<1>8. Ascending'
  <2> SUFFICES ASSUME NEW b \in Agents
               PROVE  /\ lastTurn[b] <= nextOffset[b]
                      /\ Before({lastTurn[b]}, InHand(b)' \cup Waiting(b)' \cup Batched(b))
                      /\ Before(InHand(b)', Waiting(b)' \cup Batched(b))
                      /\ Before(Waiting(b)', Batched(b))
                      /\ \A id \in InHand(b)' \cup Waiting(b)' : id <= nextOffset[b]
                      /\ SortedIn(queue', b)
    <3>1. \A b \in Agents : Batched(b)' = Batched(b)
      BY <1>2 DEF Batched
    <3> QED BY <1>2, <3>1 DEF Ascending
  <2>1. /\ lastTurn[b] <= nextOffset[b]
        /\ Before({lastTurn[b]}, Waiting(b) \cup Batched(b))
        /\ Before(Waiting(b), Batched(b))
        /\ \A id \in Waiting(b) : id <= nextOffset[b]
        /\ SortedIn(queue, b)
    BY DEF IInv, Ascending, Before
  <2>2. InHand(b)' \subseteq Waiting(b) /\ Waiting(b)' \subseteq Waiting(b)
    BY <1>4 DEF InHand
  <2>3. Before(InHand(b)', Waiting(b)')
    BY <1>4, <2>1 DEF InHand, Before
  <2>4. SortedIn(queue', b)
    BY <1>4, <2>1
  <2> QED BY <2>1, <2>2, <2>3, <2>4 DEF Before
<1>9. ForgottenIsAccountedFor'
  <2> SUFFICES ASSUME NEW b \in Agents, NEW id \in 1 .. Later(confirmed[b], nextOffset[b]),
                      IsText(b, id)
               PROVE  (<<b, id>> \in turned \cup InMemory \cup evicted \cup overflowed
                                       \cup abandoned)'
    BY <1>2 DEF ForgottenIsAccountedFor, Later, IsText
  <2>1. <<b, id>> \in turned \cup InMemory \cup evicted \cup overflowed \cup abandoned
    BY DEF IInv, ForgottenIsAccountedFor
  <2>2. <<b, id>> \in InMemory => (<<b, id>> \in InMemory)'
    <3>1. id \in Texts(b, receiver[b].ids) => id \in Texts(b, receiver[b].ids)'
      BY <1>2 DEF Texts, IsText
    <3>2. <<b, id>> \in Members(queue) => <<b, id>> \in Members(queue)' \/ <<b, id>> = popped'
      BY <1>4
    <3> QED BY <1>1, <3>1, <3>2, InMemoryIs, InMemoryWillBe
  <2> QED BY <1>2, <2>1, <2>2
<1> QED BY <1>5, <1>6, <1>7, <1>8, <1>9 DEF IInv

LEMMA BeginTurnKeeps ==
  ASSUME IInv, BeginTurn
  PROVE  IInv'
<1> USE Constants
<1>1. /\ worker = "taken" /\ worker' = "turn" /\ turned' = turned \cup {popped}
      /\ lastTurn' = [lastTurn EXCEPT ![popped[1]] = popped[2]]
  BY DEF BeginTurn
<1>2. UNCHANGED <<upstream, confirmed, nextOffset, receiver, queue, enqueued, dropped, drained, popped,
                  outbox, sender, sent, stage, lives, evicted, overflowed, abandoned>>
  BY DEF BeginTurn, pollVars, queueVars, replyVars, daemonVars
<1>3. popped \in Msg /\ lastTurn \in [Agents -> 0 .. MaxUpdates]
  BY <1>1 DEF IInv, Working, TypeOK
<1>4. popped[1] \in Agents /\ popped[2] \in 0 .. MaxUpdates
  BY <1>3, MsgIs
<1>5. TypeOK'
  <2>1. lastTurn' \in [Agents -> 0 .. MaxUpdates]
    BY <1>1, <1>3, <1>4
  <2>2. turned' \subseteq Msg /\ outbox' \subseteq turned'
    BY <1>1, <1>2, <1>3 DEF IInv, TypeOK, Msg
  <2> QED BY <1>1, <1>2, <2>1, <2>2 DEF IInv, TypeOK, Msg
<1>6. Upstream' /\ Hands'
  BY <1>2 DEF IInv, Upstream, Hands, IsText
<1>7. Working'
  BY <1>1, <1>2 DEF Working
<1>8. Ascending'
  <2> SUFFICES ASSUME NEW b \in Agents
               PROVE  /\ lastTurn'[b] <= nextOffset[b]
                      /\ Before({lastTurn'[b]}, Waiting(b) \cup Batched(b))
                      /\ Before(Waiting(b), Batched(b))
                      /\ \A id \in Waiting(b) : id <= nextOffset[b]
                      /\ SortedIn(queue, b)
    <3>1. \A b \in Agents : Batched(b)' = Batched(b) /\ Waiting(b)' = Waiting(b) /\ InHand(b)' = {}
      BY <1>1, <1>2 DEF Batched, Waiting, InHand
    <3> QED BY <1>2, <3>1 DEF Ascending, Before
  <2>1. /\ lastTurn[b] <= nextOffset[b]
        /\ Before({lastTurn[b]}, InHand(b) \cup Waiting(b) \cup Batched(b))
        /\ Before(InHand(b), Waiting(b) \cup Batched(b))
        /\ Before(Waiting(b), Batched(b))
        /\ \A id \in InHand(b) \cup Waiting(b) : id <= nextOffset[b]
        /\ SortedIn(queue, b)
    BY DEF IInv, Ascending
  <2>2. CASE popped[1] = b
    <3>1. lastTurn'[b] = popped[2] /\ InHand(b) = {popped[2]}
      BY <1>1, <1>3, <1>4, <2>2 DEF InHand
    <3> QED BY <2>1, <3>1
  <2>3. CASE popped[1] # b
    <3>1. lastTurn'[b] = lastTurn[b]
      BY <1>1, <1>3, <1>4, <2>3
    <3> QED BY <2>1, <3>1 DEF Before
  <2> QED BY <2>2, <2>3
<1>9. ForgottenIsAccountedFor'
  <2> SUFFICES ASSUME NEW b \in Agents, NEW id \in 1 .. Later(confirmed[b], nextOffset[b]),
                      IsText(b, id)
               PROVE  (<<b, id>> \in turned \cup InMemory \cup evicted \cup overflowed
                                       \cup abandoned)'
    BY <1>2 DEF ForgottenIsAccountedFor, Later, IsText
  <2>1. <<b, id>> \in turned \cup InMemory \cup evicted \cup overflowed \cup abandoned
    BY DEF IInv, ForgottenIsAccountedFor
  <2>2. <<b, id>> \in InMemory => <<b, id>> \in turned' \/ (<<b, id>> \in InMemory)'
    <3>1. id \in Texts(b, receiver[b].ids) => id \in Texts(b, receiver[b].ids)'
      BY <1>2 DEF Texts, IsText
    <3> QED BY <1>1, <1>2, <3>1, InMemoryIs, InMemoryWillBe
  <2> QED BY <1>1, <1>2, <2>1, <2>2
<1> QED BY <1>5, <1>6, <1>7, <1>8, <1>9 DEF IInv

LEMMA RestartKeeps ==
  ASSUME IInv, Restart
  PROVE  IInv'
<1> USE Constants
<1>1. /\ receiver' = [a \in Agents |-> AtStart] /\ nextOffset' = [a \in Agents |-> 0]
      /\ lastTurn' = [a \in Agents |-> 0] /\ queue' = << >> /\ worker' = "top"
      /\ enqueued' = 0 /\ dropped' = 0 /\ drained' = 0 /\ popped' = NoMessage
      /\ sender' = "running" /\ stage' = "serving" /\ lives' = lives + 1
      /\ abandoned' = abandoned \cup InMemory
      /\ UNCHANGED <<upstream, confirmed, outbox, sent, turned, evicted, overflowed>>
  BY DEF Restart
<1>2. AtStart \in Receivers /\ AtStart.pc = "start" /\ AtStart.ids = {}
  BY DEF AtStart, Receivers
<1>3. InMemory \subseteq Msg
  <2>1. receiver \in [Agents -> Receivers] /\ queue \in Seq(Msg)
    BY DEF IInv, TypeOK, Receivers, Msg
  <2>2. (UNION {{a} \X Texts(a, receiver[a].ids) : a \in Agents}) \subseteq Msg
    <3>1. \A a \in Agents : Texts(a, receiver[a].ids) \subseteq 1 .. MaxUpdates
      BY <2>1 DEF Texts, Receivers
    <3>2. \A a \in Agents : {a} \X Texts(a, receiver[a].ids) \subseteq Msg
      BY <3>1 DEF Msg
    <3> QED BY <3>2
  <2>3. Members(queue) \subseteq Msg
    BY <2>1, QueueIs DEF Members
  <2>4. worker = "taken" => popped \in Msg
    BY DEF IInv, Working
  <2> QED BY <2>2, <2>3, <2>4 DEF InMemory
<1>4. TypeOK'
  <2>1. receiver' \in [Agents -> Receivers] /\ nextOffset' \in [Agents -> 0 .. MaxUpdates]
        /\ lastTurn' \in [Agents -> 0 .. MaxUpdates]
    BY <1>1, <1>2
  <2>2. queue' \in Seq(Agents \X (1 .. MaxUpdates)) /\ Len(queue') <= Capacity
    BY <1>1, EmptySeq
  <2>3. {enqueued, dropped, drained, lives}' \subseteq Nat
    BY <1>1 DEF IInv, TypeOK
  <2>4. abandoned' \subseteq Msg
    BY <1>1, <1>3 DEF IInv, TypeOK, Msg
  <2> QED BY <1>1, <2>1, <2>2, <2>3, <2>4 DEF IInv, TypeOK, Receivers, Msg
<1>5. Upstream'
  <2>1. \A a \in Agents : Len(upstream[a]) \in Nat
    BY LenProperties DEF IInv, TypeOK
  <2> QED BY <1>1, <2>1 DEF IInv, Upstream
<1>6. Hands' /\ Working'
  BY <1>1, <1>2 DEF Hands, Working
<1>7. Ascending'
  <2>1. \A a \in Agents : Batched(a)' = {} /\ InHand(a)' = {} /\ Waiting(a)' = {} /\ SortedIn(queue, a)'
    BY <1>1, <1>2, EmptySeq DEF Batched, InHand, Waiting, WaitingIn, SortedIn
  <2> QED BY <1>1, <2>1 DEF Ascending, Before
<1>8. ForgottenIsAccountedFor'
  <2> SUFFICES ASSUME NEW b \in Agents, NEW id \in 1 .. Later(confirmed[b], 0), IsText(b, id)
               PROVE  <<b, id>> \in (turned \cup evicted \cup overflowed \cup abandoned)'
    BY <1>1 DEF ForgottenIsAccountedFor, Later, IsText
  <2>1. confirmed[b] \in Nat /\ nextOffset[b] \in Nat
    BY AgentIds
  <2>2. id \in 1 .. Later(confirmed[b], nextOffset[b])
    BY <2>1 DEF Later
  <2>3. <<b, id>> \in turned \cup InMemory \cup evicted \cup overflowed \cup abandoned
    BY <2>2 DEF IInv, ForgottenIsAccountedFor
  <2> QED BY <1>1, <2>3
<1> QED BY <1>4, <1>5, <1>6, <1>7, <1>8 DEF IInv

-----------------------------------------------------------------------------
(* Every step.                                                             *)

LEMMA InitHolds == Init => IInv
<1> SUFFICES ASSUME Init PROVE IInv
  OBVIOUS
<1> USE Constants
<1>1. AtStart \in Receivers /\ AtStart.pc = "start" /\ AtStart.ids = {}
  BY DEF AtStart, Receivers
<1>2. queue = << >> /\ popped = NoMessage /\ enqueued = 0 /\ dropped = 0 /\ drained = 0
  BY DEF Init, Queue!Init
<1>3. TypeOK
  <2>1. queue \in Seq(Agents \X (1 .. MaxUpdates)) /\ Len(queue) <= Capacity
    BY <1>2, EmptySeq
  <2>2. upstream \in [Agents -> Seq({"text", "other"})]
    BY EmptySeq DEF Init
  <2> QED BY <1>1, <1>2, <2>1, <2>2 DEF Init, TypeOK, Receivers
<1>4. Upstream
  <2>1. \A a \in Agents : upstream[a] = << >> /\ Len(upstream[a]) = 0
    BY EmptySeq DEF Init
  <2> QED BY <2>1 DEF Init, Upstream
<1>5. Hands /\ Working
  BY <1>1 DEF Init, Hands, Working
<1>6. Ascending
  <2>1. \A a \in Agents : Batched(a) = {} /\ InHand(a) = {} /\ Waiting(a) = {} /\ SortedIn(queue, a)
    BY <1>1, <1>2, EmptySeq DEF Init, Batched, InHand, Waiting, WaitingIn, SortedIn
  <2> QED BY <2>1 DEF Init, Ascending, Before
<1>7. ForgottenIsAccountedFor
  BY DEF Init, ForgottenIsAccountedFor, Later
<1> QED BY <1>3, <1>4, <1>5, <1>6, <1>7 DEF IInv

LEMMA WorkKeeps ==
  ASSUME IInv, Work
  PROVE  IInv'
<1>1. CASE Dequeue
  BY <1>1, DequeueKeeps
<1>2. CASE BeginTurn
  BY <1>2, BeginTurnKeeps
<1>3. CASE LoopWork \/ DequeueEmpty \/ DequeueCancelled \/ EndTurn \/ Hang
  <2>1. /\ UNCHANGED <<pollVars, queueVars, historyVars, lives, outbox, sender, sent, stage>>
        /\ worker # "taken" /\ worker' # "taken"
        /\ worker' \in {"turn", "hung", "append"} => worker \in {"turn", "hung", "append"}
        /\ worker' \in {"top", "dequeue", "unlocked", "turn", "hung", "append", "stopped"}
    BY <1>3 DEF LoopWork, DequeueEmpty, DequeueCancelled, EndTurn, Hang, replyVars, daemonVars
  <2> QED BY <2>1, QuietKeeps DEF IInv, TypeOK
<1>4. CASE AppendReply
  <2>1. popped \in turned
    BY <1>4 DEF AppendReply, IInv, Working
  <2>2. /\ UNCHANGED <<pollVars, queueVars, historyVars, lives, sender, sent, stage>>
        /\ worker = "append" /\ worker' = "top" /\ outbox' \in {outbox, outbox \cup {popped}}
    BY <1>4 DEF AppendReply, daemonVars
  <2>3. outbox' \subseteq turned /\ sent' \subseteq outbox' \X Agents
    BY <2>1, <2>2 DEF IInv, TypeOK
  <2>4. sender \in {"running", "stopped"} /\ stage \in {"serving", "waiting", "receivers_told",
          "worker_told", "sender_told", "down"}
    BY DEF IInv, TypeOK
  <2> QED BY <2>2, <2>3, <2>4, QuietKeeps
<1> QED BY <1>1, <1>2, <1>3, <1>4 DEF Work

LEMMA StepKeeps ==
  ASSUME IInv, [Next]_vars
  PROVE  IInv'
<1>1. CASE \E a \in Agents : Arrive(a) \/ Receive(a)
  <2>1. PICK a \in Agents : Arrive(a) \/ Receive(a)
    BY <1>1
  <2> QED BY <2>1, ArriveKeeps, PollKeeps, BatchKeeps, DeliverKeeps DEF Receive
<1>2. CASE Work
  BY <1>2, WorkKeeps
<1>3. CASE (\E msg \in outbox : SendReply(msg)) \/ StopSending
  <2>1. UNCHANGED <<pollVars, queueVars, historyVars, lives, worker, outbox, stage>>
    BY <1>3 DEF SendReply, StopSending, daemonVars
  <2>2. sender' \in {"running", "stopped"} /\ sent' \subseteq outbox \X Agents
    <3>1. CASE StopSending
      BY <1>3, <3>1 DEF StopSending, IInv, TypeOK
    <3>2. CASE \E msg \in outbox : SendReply(msg)
      <4>1. PICK msg \in outbox : sent' = sent \cup {<<msg, FirstAgent>>} /\ sender' = sender
        BY <3>2 DEF SendReply, Binding
      <4>2. sent \subseteq outbox \X Agents /\ sender \in {"running", "stopped"}
        BY DEF IInv, TypeOK
      <4>3. <<msg, FirstAgent>> \in outbox \X Agents
        BY Constants
      <4> QED BY <4>1, <4>2, <4>3
    <3> QED BY <1>3, <3>1, <3>2
  <2> QED BY <2>1, <2>2, QuietKeeps DEF IInv, TypeOK
<1>4. CASE RequestStop \/ Drain
  <2>1. /\ UNCHANGED <<pollVars, queueVars, historyVars, lives, worker, outbox, sender, sent>>
        /\ stage' \in {"waiting", "receivers_told", "worker_told", "sender_told", "down"}
    BY <1>4 DEF RequestStop, Drain, StopReceivers, StopWorker, StopSender, Finish, replyVars
  <2> QED BY <2>1, QuietKeeps DEF IInv, TypeOK
<1>5. CASE Restart
  BY <1>5, RestartKeeps
<1>6. CASE UNCHANGED vars
  <2>1. UNCHANGED <<pollVars, queueVars, historyVars, lives, worker, outbox, sender, sent, stage>>
    BY <1>6 DEF vars, replyVars, daemonVars
  <2> QED BY <2>1, QuietKeeps DEF IInv, TypeOK
<1> QED BY <1>1, <1>2, <1>3, <1>4, <1>5, <1>6 DEF Next

(* With any number of bots, updates and lives, every variable keeps its    *)
(* type, the queue its capacity, and a reply its turn (boot.zig, the       *)
(* threads it starts). *)
THEOREM TypeCorrect == Spec => []TypeOK
<1>1. Init => IInv
  BY InitHolds
<1>2. IInv /\ [Next]_vars => IInv'
  BY StepKeeps
<1>3. IInv => TypeOK
  BY DEF IInv
<1> QED BY <1>1, <1>2, <1>3, PTL DEF Spec

(* No text that next_offset or a confirmation has passed is lost, but for  *)
(* an eviction, a full batch or the end of a life (channel.zig, receiveFn; *)
(* dispatch.zig, enqueue; manager.zig, receiveLoop). *)
THEOREM NothingIsForgotten == Spec => []ForgottenIsAccountedFor
<1>1. Init => IInv
  BY InitHolds
<1>2. IInv /\ [Next]_vars => IInv'
  BY StepKeeps
<1>3. IInv => ForgottenIsAccountedFor
  BY DEF IInv
<1> QED BY <1>1, <1>2, <1>3, PTL DEF Spec

\* What a step of each kind leaves alone.
LEMMA ReceiveFrame ==
  ASSUME NEW a \in Agents, Arrive(a) \/ Receive(a)
  PROVE  UNCHANGED <<lives, stage, worker, outbox>>
<1>1. CASE Arrive(a)
  BY <1>1 DEF Arrive, daemonVars, replyVars
<1>2. CASE Receive(a)
  BY <1>2 DEF Receive, EnterReceiveLoop, LoopReceive, ReceiveCancelled, Ask, Answer, AskFails,
              Batch, BatchFails, Deliver, daemonVars, replyVars
<1> QED BY <1>1, <1>2

LEMMA WorkFrame ==
  ASSUME Work
  PROVE  UNCHANGED <<lives, stage, receiver, enqueued>>
<1>1. CASE Dequeue
  BY <1>1 DEF Dequeue, Queue!Take, pollVars, daemonVars
<1>2. CASE ~Dequeue
  BY <1>2 DEF Work, LoopWork, DequeueEmpty, DequeueCancelled, BeginTurn, EndTurn, Hang,
              AppendReply, pollVars, queueVars, daemonVars
<1> QED BY <1>1, <1>2

LEMMA SendFrame ==
  ASSUME (\E msg \in outbox : SendReply(msg)) \/ StopSending
  PROVE  UNCHANGED <<lives, stage, receiver, worker, enqueued, outbox>>
BY DEF SendReply, StopSending, pollVars, queueVars, daemonVars

LEMMA DrainFrame ==
  ASSUME RequestStop \/ Drain
  PROVE  UNCHANGED <<lives, receiver, worker, enqueued, outbox>>
BY DEF RequestStop, Drain, StopReceivers, StopWorker, StopSender, Finish, pollVars, queueVars,
       replyVars

LEMMA TurnStep ==
  ASSUME IInv, [Next]_vars, NEW a \in Agents, lives' = lives
  PROVE  /\ lastTurn'[a] >= lastTurn[a]
         /\ worker = "taken" /\ popped[1] = a /\ worker' = "turn" => lastTurn'[a] > lastTurn[a]
<1>1. lastTurn[a] \in Nat /\ lastTurn \in [Agents -> 0 .. MaxUpdates] /\ lives \in Nat
  BY AgentIds DEF IInv, TypeOK
<1>2. CASE BeginTurn
  <2>1. /\ worker = "taken" /\ lastTurn' = [lastTurn EXCEPT ![popped[1]] = popped[2]]
        /\ popped \in Msg
    BY <1>2 DEF BeginTurn, IInv, Working
  <2>2. popped[1] \in Agents /\ popped[2] \in Nat
    BY <2>1, MsgIs
  <2>3. CASE popped[1] = a
    <3>1. lastTurn'[a] = popped[2]
      BY <1>1, <2>1, <2>2, <2>3
    <3>2. popped[2] \in InHand(a)
      BY <2>1, <2>3 DEF InHand
    <3>3. lastTurn[a] < popped[2]
      BY <3>2 DEF IInv, Ascending, Before
    <3> QED BY <1>1, <2>2, <3>1, <3>3
  <2>4. CASE popped[1] # a
    BY <1>1, <2>1, <2>2, <2>4
  <2> QED BY <2>3, <2>4
<1>3. CASE ~BeginTurn
  <2>1. lastTurn' = lastTurn /\ ~(worker = "taken" /\ worker' = "turn")
    <3>1. CASE \E b \in Agents : Arrive(b) \/ Receive(b)
      BY <3>1, ReceiveFrame DEF Arrive, Receive, EnterReceiveLoop, LoopReceive, ReceiveCancelled,
         Ask, Answer, AskFails, Batch, BatchFails, Deliver, historyVars
    <3>2. CASE Work
      BY <1>3, <3>2 DEF Work, LoopWork, Dequeue, DequeueEmpty, DequeueCancelled, EndTurn, Hang,
         AppendReply, historyVars
    <3>3. CASE (\E msg \in outbox : SendReply(msg)) \/ StopSending \/ RequestStop \/ Drain
      BY <3>3 DEF SendReply, StopSending, RequestStop, Drain, StopReceivers, StopWorker, StopSender,
         Finish, historyVars
    <3>4. CASE Restart
      <4>1. lives' = lives + 1
        BY <3>4 DEF Restart
      <4> QED BY <1>1, <4>1
    <3>5. CASE UNCHANGED vars
      BY <3>5 DEF vars, historyVars
    <3> QED BY <3>1, <3>2, <3>3, <3>4, <3>5 DEF Next
  <2> QED BY <1>1, <2>1
<1> QED BY <1>2, <1>3

(* Within a life the turns of every agent follow the order of its updates, *)
(* and none is begun twice (channel.zig, next_offset; dispatch.zig, the    *)
(* ring; dispatch_worker.zig, processOne). *)
THEOREM TurnsAscend == Spec => TurnsInOrder
<1>1. Init => IInv
  BY InitHolds
<1>2. IInv /\ [Next]_vars => IInv'
  BY StepKeeps
<1>3. IInv /\ [Next]_vars =>
        [\A a \in Agents : lives' = lives => lastTurn'[a] >= lastTurn[a]
           /\ (worker = "taken" /\ popped[1] = a /\ worker' = "turn"
                 => lastTurn'[a] > lastTurn[a])]_vars
  BY TurnStep
<1> QED BY <1>1, <1>2, <1>3, PTL DEF Spec, TurnsInOrder

-----------------------------------------------------------------------------
(* The drain.                                                              *)

\* A stage is told to stop only after the one before it has stopped for good.
Joined ==
  /\ lives \in Nat
  /\ WorkerCancelled => ReceiversJoined
  /\ SenderCancelled => worker = "stopped"

\* What a joined thread does: nothing.
LEMMA StoppedReceiverRests ==
  ASSUME NEW a \in Agents, receiver[a].pc = "stopped", Receive(a)
  PROVE  FALSE
BY DEF Receive, EnterReceiveLoop, LoopReceive, ReceiveCancelled, Ask, Answer, AskFails, Batch,
       BatchFails, Deliver

LEMMA StoppedWorkerRests ==
  ASSUME worker = "stopped", Work
  PROVE  FALSE
BY DEF Work, LoopWork, Dequeue, DequeueEmpty, DequeueCancelled, BeginTurn, EndTurn, Hang,
       AppendReply

LEMMA JoinedInductive ==
  ASSUME Joined, [Next]_vars
  PROVE  Joined'
<1> USE DEF WorkerCancelled, SenderCancelled, ReceiversJoined, Joined
<1>1. CASE \E a \in Agents : Arrive(a) \/ Receive(a)
  <2>1. PICK a \in Agents : Arrive(a) \/ Receive(a)
    BY <1>1
  <2>2. UNCHANGED <<lives, stage, worker>>
    BY <2>1, ReceiveFrame
  <2>3. WorkerCancelled => receiver' = receiver
    BY <2>1, StoppedReceiverRests DEF Arrive
  <2> QED BY <2>2, <2>3
<1>2. CASE Work
  BY <1>2, WorkFrame, StoppedWorkerRests
<1>3. CASE (\E msg \in outbox : SendReply(msg)) \/ StopSending
  BY <1>3, SendFrame
<1>4. CASE RequestStop \/ Drain
  <2>1. UNCHANGED <<lives, receiver, worker>>
    BY <1>4, DrainFrame
  <2> QED BY <1>4, <2>1 DEF RequestStop, Drain, StopReceivers, StopWorker, StopSender, Finish
<1>5. CASE Restart
  <2>1. stage' = "serving" /\ lives' = lives + 1
    BY <1>5 DEF Restart
  <2>2. ~WorkerCancelled' /\ ~SenderCancelled'
    BY <2>1
  <2>3. lives' \in Nat
    BY <2>1
  <2> QED BY <2>2, <2>3
<1>6. CASE UNCHANGED vars
  BY <1>6 DEF vars, pollVars, daemonVars
<1> QED BY <1>1, <1>2, <1>3, <1>4, <1>5, <1>6 DEF Next

LEMMA JoinedStepIsQuiet ==
  ASSUME Joined, [Next]_vars, lives' = lives
  PROVE  /\ WorkerCancelled => enqueued' = enqueued
         /\ SenderCancelled => outbox' = outbox /\ worker' = worker
<1> USE DEF WorkerCancelled, SenderCancelled, ReceiversJoined, Joined
<1>1. CASE \E a \in Agents : Arrive(a) \/ Receive(a)
  <2>1. PICK a \in Agents : Arrive(a) \/ Receive(a)
    BY <1>1
  <2>2. UNCHANGED <<worker, outbox>>
    BY <2>1, ReceiveFrame
  <2>3. WorkerCancelled => enqueued' = enqueued
    BY <2>1, StoppedReceiverRests DEF Arrive, queueVars
  <2> QED BY <2>2, <2>3
<1>2. CASE Work
  BY <1>2, WorkFrame, StoppedWorkerRests
<1>3. CASE (\E msg \in outbox : SendReply(msg)) \/ StopSending
  BY <1>3, SendFrame
<1>4. CASE RequestStop \/ Drain
  BY <1>4, DrainFrame
<1>5. CASE Restart
  <2>1. stage' = "serving" /\ lives' = lives + 1
    BY <1>5 DEF Restart
  <2>2. lives' # lives
    BY <2>1
  <2> QED BY <2>2
<1>6. CASE UNCHANGED vars
  BY <1>6 DEF vars, queueVars, replyVars
<1> QED BY <1>1, <1>2, <1>3, <1>4, <1>5, <1>6 DEF Next

(* With any number of bots, nothing comes from a stage that the drain has  *)
(* joined: no message is enqueued once the worker is told to stop, no      *)
(* reply is appended once the sender is told (boot.zig, drain).            *)
THEOREM DrainIsQuiet == Spec => QuietOnceJoined
<1>1. Init => Joined
  BY DEF Init, Joined, WorkerCancelled, SenderCancelled
<1>2. Joined /\ [Next]_vars => Joined'
  BY JoinedInductive
<1>3. Joined /\ [Next]_vars =>
        [lives' = lives =>
           /\ WorkerCancelled => enqueued' = enqueued
           /\ SenderCancelled => outbox' = outbox /\ worker' = worker]_vars
  BY JoinedStepIsQuiet
<1> QED BY <1>1, <1>2, <1>3, PTL DEF Spec, QuietOnceJoined
=============================================================================
