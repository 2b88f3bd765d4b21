---------------------------- MODULE ContextProofs ----------------------------
(***************************************************************************)
(* Proofs about the context engine, for any sessions, sizes and budgets    *)
(* and any number of messages.                                             *)
(***************************************************************************)
EXTENDS Context, FiniteSetTheorems, SequenceTheorems, TLAPS

(* What compact.zig presumes of ids, and mints of one width grant: their     *)
(* byte order is the order they were minted in.                             *)
Padded == \A a, b \in 1 .. MaxMessages : a < b => Rank[a] < Rank[b]

-----------------------------------------------------------------------------
(* Ranks in a finite set.                                                   *)

LEMMA Constants ==
  /\ Sizes \subseteq Nat /\ Budgets \subseteq Nat
  /\ InsertionMax \in Nat /\ MaxMessages \in Nat
  /\ Rank \in [1 .. MaxMessages -> Nat]
BY ContextAssumption

\* R orders S in a line.
Lines(R, S) ==
  /\ \A i, j \in S : <<i, j>> \in R \/ <<j, i>> \in R
  /\ \A i, j \in S : <<i, j>> \in R /\ <<j, i>> \in R => i = j
  /\ \A i, j, k \in S : <<i, j>> \in R /\ <<j, k>> \in R => <<i, k>> \in R

UpTo(R, S, i) == {j \in S : <<j, i>> \in R}

\* Counting what does not come later numbers a finite set from one upwards.
LEMMA Ranking ==
  ASSUME NEW S, IsFiniteSet(S), NEW R, Lines(R, S)
  PROVE  /\ \A i \in S : Cardinality(UpTo(R, S, i)) \in 1 .. Cardinality(S)
         /\ \A i, j \in S : <<i, j>> \in R /\ i # j =>
              Cardinality(UpTo(R, S, i)) < Cardinality(UpTo(R, S, j))
<1>1. ASSUME NEW i \in S
      PROVE  IsFiniteSet(UpTo(R, S, i)) /\ Cardinality(UpTo(R, S, i)) \in 1 .. Cardinality(S)
  <2>1. UpTo(R, S, i) \in SUBSET S /\ i \in UpTo(R, S, i)
    BY DEF UpTo, Lines
  <2>2. IsFiniteSet(UpTo(R, S, i)) /\ Cardinality(UpTo(R, S, i)) <= Cardinality(S)
    BY <2>1, FS_Subset
  <2>3. Cardinality(UpTo(R, S, i)) \in Nat /\ Cardinality(UpTo(R, S, i)) # 0
        /\ Cardinality(S) \in Nat
    BY <2>1, <2>2, FS_CardinalityType, FS_EmptySet
  <2> QED BY <2>2, <2>3
<1>2. ASSUME NEW i \in S, NEW j \in S, <<i, j>> \in R, i # j
      PROVE  Cardinality(UpTo(R, S, i)) < Cardinality(UpTo(R, S, j))
  <2>1. UpTo(R, S, i) \in SUBSET UpTo(R, S, j)
    BY <1>2 DEF UpTo, Lines
  <2>2. j \in UpTo(R, S, j) /\ j \notin UpTo(R, S, i)
    BY <1>2 DEF UpTo, Lines
  <2>3. /\ Cardinality(UpTo(R, S, i)) <= Cardinality(UpTo(R, S, j))
        /\ Cardinality(UpTo(R, S, i)) # Cardinality(UpTo(R, S, j))
    BY <2>1, <2>2, <1>1, FS_Subset
  <2>4. /\ Cardinality(UpTo(R, S, i)) \in Nat
        /\ Cardinality(UpTo(R, S, j)) \in Nat
    BY <1>1, FS_CardinalityType
  <2> QED BY <2>3, <2>4
<1> QED BY <1>1, <1>2

\* No number is left out.
LEMMA RankedOnto ==
  ASSUME NEW S, IsFiniteSet(S), NEW R, Lines(R, S)
  PROVE  {Cardinality(UpTo(R, S, i)) : i \in S} = 1 .. Cardinality(S)
<1> DEFINE rank == [i \in S |-> Cardinality(UpTo(R, S, i))]
           T    == 1 .. Cardinality(S)
<1>1. Cardinality(S) \in Nat
  BY FS_CardinalityType
<1>2. IsFiniteSet(T) /\ Cardinality(T) = Cardinality(S)
  BY <1>1, FS_Interval
<1>3. \A i \in S : Cardinality(UpTo(R, S, i)) \in T
  BY Ranking
<1>4. rank \in [S -> T]
  BY <1>3
<1>5. ASSUME NEW i \in S, NEW j \in S, i # j
      PROVE  rank[i] # rank[j]
  <2>1. /\ Cardinality(UpTo(R, S, i)) \in Nat
        /\ Cardinality(UpTo(R, S, j)) \in Nat
    BY <1>1, <1>3
  <2>2. \/ Cardinality(UpTo(R, S, i)) < Cardinality(UpTo(R, S, j))
        \/ Cardinality(UpTo(R, S, j)) < Cardinality(UpTo(R, S, i))
    BY <1>5, Ranking DEF Lines
  <2> QED BY <2>1, <2>2
<1>6. rank \in Injection(S, T)
  BY <1>4, <1>5 DEF Injection, IsInjective
<1>7. rank \in Surjection(S, T)
  BY <1>2, <1>6, FS_Injection
<1> QED BY <1>3, <1>7 DEF Surjection

AtMost(S, i) == {j \in S : j <= i}

\* The n-th smallest is there, and in its place.
LEMMA NthIs ==
  ASSUME NEW S \in SUBSET Nat, IsFiniteSet(S)
  PROVE  /\ Cardinality(S) \in Nat
         /\ \A n \in 1 .. Cardinality(S) :
              Nth(n, S) \in S /\ Cardinality({j \in S : j <= Nth(n, S)}) = n
         /\ \A i \in S : \E n \in 1 .. Cardinality(S) : Nth(n, S) = i
         /\ \A m, n \in 1 .. Cardinality(S) : m < n => Nth(m, S) < Nth(n, S)
<1> DEFINE R == {p \in Nat \X Nat : p[1] <= p[2]}
<1>1. Lines(R, S)
  BY DEF Lines
<1>2. ASSUME NEW i \in S
      PROVE  UpTo(R, S, i) = AtMost(S, i)
  BY DEF UpTo, AtMost
<1>3. Cardinality(S) \in Nat
  BY FS_CardinalityType
<1> HIDE DEF R
<1>4. \A i \in S : Cardinality(AtMost(S, i)) \in 1 .. Cardinality(S)
  BY <1>1, <1>2, Ranking
<1>5. ASSUME NEW i \in S, NEW j \in S, i < j
      PROVE  Cardinality(AtMost(S, i)) < Cardinality(AtMost(S, j))
  <2>1. <<i, j>> \in R /\ i # j
    BY <1>5 DEF R
  <2> QED BY <2>1, <1>1, <1>2, Ranking
<1>6. ASSUME NEW n \in 1 .. Cardinality(S)
      PROVE  \E i \in S : Cardinality(AtMost(S, i)) = n
  <2>1. PICK i \in S : Cardinality(UpTo(R, S, i)) = n
    BY <1>1, RankedOnto
  <2> QED BY <2>1, <1>2
<1>7. ASSUME NEW n \in 1 .. Cardinality(S)
      PROVE  Nth(n, S) \in S /\ Cardinality(AtMost(S, Nth(n, S))) = n
  BY <1>6 DEF Nth, AtMost
<1>8. ASSUME NEW i \in S, NEW j \in S, Cardinality(AtMost(S, i)) <= Cardinality(AtMost(S, j))
      PROVE  i <= j
  <2>1. CASE j < i
    BY <2>1, <1>3, <1>4, <1>5, <1>8
  <2> QED BY <2>1
<1>9. ASSUME NEW i \in S
      PROVE  \E n \in 1 .. Cardinality(S) : Nth(n, S) = i
  <2>1. PICK n \in 1 .. Cardinality(S) : Cardinality(AtMost(S, i)) = n
    BY <1>4
  <2>2. Nth(n, S) \in S /\ Cardinality(AtMost(S, Nth(n, S))) = n
    BY <1>7
  <2>3. n \in Nat
    BY <1>3
  <2>4. /\ Cardinality(AtMost(S, Nth(n, S))) <= Cardinality(AtMost(S, i))
        /\ Cardinality(AtMost(S, i)) <= Cardinality(AtMost(S, Nth(n, S)))
    BY <2>1, <2>2, <2>3
  <2>5. Nth(n, S) <= i
    BY <2>2, <2>4, <1>8
  <2>6. i <= Nth(n, S)
    BY <2>2, <2>4, <1>8
  <2>7. i \in Nat /\ Nth(n, S) \in Nat
    BY <2>2
  <2> QED BY <2>5, <2>6, <2>7
<1>10. ASSUME NEW m \in 1 .. Cardinality(S), NEW n \in 1 .. Cardinality(S), m < n
       PROVE  Nth(m, S) < Nth(n, S)
  <2>1. CASE Nth(n, S) <= Nth(m, S)
    <3>1. /\ Nth(n, S) \in S /\ Cardinality(AtMost(S, Nth(n, S))) = n
          /\ Nth(m, S) \in S /\ Cardinality(AtMost(S, Nth(m, S))) = m
      BY <1>7
    <3>2. m \in Nat /\ n \in Nat
      BY <1>3
    <3>3. Nth(n, S) # Nth(m, S)
      BY <3>1, <3>2, <1>10
    <3>4. Nth(n, S) \in Nat /\ Nth(m, S) \in Nat
      BY <3>1
    <3>5. Nth(n, S) < Nth(m, S)
      BY <2>1, <3>3, <3>4
    <3>6. Cardinality(AtMost(S, Nth(n, S))) < Cardinality(AtMost(S, Nth(m, S)))
      BY <3>1, <3>5, <1>5
    <3> QED BY <3>1, <3>2, <3>6, <1>10
  <2>2. Nth(m, S) \in Nat /\ Nth(n, S) \in Nat
    BY <1>7
  <2> QED BY <2>1, <2>2
<1> QED BY <1>3, <1>7, <1>9, <1>10 DEF AtMost

-----------------------------------------------------------------------------
(* The inductive invariant.  Ids ascend within a session ...                *)
IdsAscend ==
  \A i, j \in DOMAIN messages :
    messages[i].session = messages[j].session /\ i < j => messages[i].id < messages[j].id

(* ... a marker runs from one message of its session to a later one ...      *)
Spans(marker) ==
  \E p, q \in Of(marker.session) :
    /\ ~messages[p].beat /\ messages[p].id = marker.from
    /\ ~messages[q].beat /\ messages[q].id = marker.to
    /\ p < q

(* ... lists what it covers ...                                              *)
Covered(marker) ==
  {i \in DOMAIN messages :
     ~messages[i].beat /\ Covers(marker, messages[i].session, messages[i].id)}

(* ... leaves nothing before its end uncovered, be it by earlier markers ... *)
Closes(marker) ==
  \A i \in Of(marker.session) :
    ~messages[i].beat /\ messages[i].id < marker.to => Hidden(i)

(* ... and has enough messages behind it.                                    *)
Behind(marker) ==
  {i \in Of(marker.session) : ~messages[i].beat /\ marker.to <= messages[i].id}

Sound(marker) ==
  /\ Spans(marker)
  /\ marker.lists = Covered(marker)
  /\ Closes(marker)
  /\ Cardinality(Behind(marker)) >= Keep

(* Markers of one session are added from left to right.                      *)
Apart ==
  \A k, l \in DOMAIN markers :
    k < l /\ markers[k].session = markers[l].session => markers[k].to <= markers[l].from

MarkersSound == Apart /\ \A k \in DOMAIN markers : Sound(markers[k])

-----------------------------------------------------------------------------
(* Types, and what the operations do.                                       *)

LEMMA OfIs ==
  ASSUME TypeOK, NEW s
  PROVE  /\ DOMAIN messages = 1 .. Len(messages) /\ Len(messages) \in Nat
         /\ Of(s) \in SUBSET (DOMAIN messages) /\ Of(s) \in SUBSET Nat
         /\ IsFiniteSet(Of(s)) /\ Cardinality(Of(s)) \in Nat
         /\ Cardinality(Of(s)) <= Len(messages)
         /\ \A i \in DOMAIN messages : messages[i] \in Message
<1>1. DOMAIN messages = 1 .. Len(messages) /\ Len(messages) \in Nat
  BY LenProperties DEF TypeOK
<1>2. Of(s) \in SUBSET (1 .. Len(messages))
  BY <1>1 DEF Of
<1>3. IsFiniteSet(1 .. Len(messages)) /\ Cardinality(1 .. Len(messages)) = Len(messages)
  <2>1. 1 \in Int /\ Len(messages) \in Int
    BY <1>1
  <2>2. Cardinality(1 .. Len(messages)) = IF 1 > Len(messages) THEN 0 ELSE Len(messages) - 1 + 1
    BY <2>1, FS_Interval
  <2>3. Cardinality(1 .. Len(messages)) = Len(messages)
    BY <1>1, <2>2
  <2> QED BY <2>1, <2>3, FS_Interval
<1>4. IsFiniteSet(Of(s)) /\ Cardinality(Of(s)) <= Len(messages)
  BY <1>2, <1>3, FS_Subset
<1>5. Cardinality(Of(s)) \in Nat
  BY <1>4, FS_CardinalityType
<1>6. \A i \in DOMAIN messages : messages[i] \in Message
  BY <1>1, ElementOfSeq DEF TypeOK
<1> QED BY <1>1, <1>2, <1>4, <1>5, <1>6

LEMMA EligibleIs ==
  ASSUME TypeOK, NEW s
  PROVE  /\ Eligible(s) \in SUBSET Of(s) /\ Eligible(s) \in SUBSET Nat
         /\ IsFiniteSet(Eligible(s)) /\ Cardinality(Eligible(s)) \in Nat
<1>1. Eligible(s) \in SUBSET Of(s)
  BY DEF Eligible
<1>2. IsFiniteSet(Eligible(s))
  BY <1>1, OfIs, FS_Subset
<1> QED BY <1>1, <1>2, OfIs, FS_CardinalityType

LEMMA PairCardinality ==
  ASSUME NEW a, NEW b, a # b
  PROVE  IsFiniteSet({a, b}) /\ Cardinality({a, b}) = 2
<1>1. IsFiniteSet({a}) /\ Cardinality({a}) = 1 /\ b \notin {a}
  BY FS_Singleton
<1>2. Cardinality({a} \cup {b}) = Cardinality({a}) + 1 /\ IsFiniteSet({a} \cup {b})
  BY <1>1, FS_AddElement
<1>3. {a} \cup {b} = {a, b}
  OBVIOUS
<1> QED BY <1>1, <1>2, <1>3

NewMarker(s, p, q) ==
  [session |-> s, from |-> messages[p].id, to |-> messages[q].id,
   lists |-> {i \in Eligible(s) : p <= i /\ i < q}]

LEMMA NewMarkerIs ==
  ASSUME TypeOK, NEW s \in Sessions, NEW p \in Eligible(s), NEW q \in Eligible(s)
  PROVE  NewMarker(s, p, q) \in Marker
<1>1. messages[p].id \in 1 .. MaxMessages /\ messages[q].id \in 1 .. MaxMessages
  BY OfIs, EligibleIs DEF Message
<1>2. Eligible(s) \in SUBSET (1 .. MaxMessages)
  <2>1. Eligible(s) \in SUBSET (1 .. Len(messages))
    BY OfIs, EligibleIs
  <2>2. Len(messages) <= MaxMessages
    BY DEF TypeOK
  <2> QED BY <2>1, <2>2, OfIs, Constants
<1> QED BY <1>1, <1>2 DEF Marker, NewMarker

\* Compaction marks from the first message it may mark, up to the last two.
LEMMA CompactIs ==
  ASSUME TypeOK, NEW s \in Sessions, Compact(s)
  PROVE  \E p, q \in Eligible(s) :
           /\ p < q /\ \A i \in Eligible(s) : p <= i
           /\ Cardinality({i \in Eligible(s) : q <= i}) = Keep
           /\ UNCHANGED messages
           /\ \/ markers' = markers
              \/ markers' = Append(markers, NewMarker(s, p, q))
<1> DEFINE E == Eligible(s)
           n == Cardinality(E)
           p == Nth(1, E)
           q == Nth(n - Keep + 1, E)
           rest == {i \in E : q <= i}
<1>1. E \in SUBSET Nat /\ IsFiniteSet(E) /\ n \in Nat
  BY EligibleIs
<1>2. n > 2 /\ Keep = 2
  BY DEF Compact, Keep
<1>3. /\ UNCHANGED messages
      /\ \/ markers' = markers
         \/ markers' = Append(markers, NewMarker(s, p, q))
  BY DEF Compact, CompactableRange, NewMarker
<1> HIDE DEF E, n
<1>4. 1 \in 1 .. n /\ n - 1 \in 1 .. n /\ n \in 1 .. n /\ n - Keep + 1 = n - 1
  BY <1>1, <1>2
<1>5. p \in E /\ q \in E /\ Nth(n, E) \in E
  BY <1>1, <1>4, NthIs DEF n
<1>6. p < q /\ q < Nth(n, E)
  BY <1>1, <1>2, <1>4, NthIs DEF n
<1>7. ASSUME NEW i \in E
      PROVE  p <= i
  <2>1. PICK k \in 1 .. n : Nth(k, E) = i
    BY <1>1, NthIs DEF n
  <2>2. k = 1 \/ 1 < k
    BY <1>1
  <2>3. CASE 1 < k
    <3>1. Nth(1, E) < Nth(k, E)
      BY <2>3, <1>1, <1>4, NthIs DEF n
    <3>2. Nth(1, E) \in Nat /\ i \in Nat
      BY <1>1, <1>5
    <3> QED BY <2>1, <3>1, <3>2
  <2>4. CASE k = 1
    BY <2>1, <2>4, <1>1
  <2> QED BY <2>2, <2>3, <2>4
<1>8. Cardinality(rest) = Keep
  <2>1. q \in Nat /\ Nth(n, E) \in Nat
    BY <1>1, <1>5
  <2>2. q \in rest /\ Nth(n, E) \in rest /\ q # Nth(n, E)
    BY <2>1, <1>5, <1>6
  <2>3. ASSUME NEW i \in rest
        PROVE  i = q \/ i = Nth(n, E)
    <3>1. PICK k \in 1 .. n : Nth(k, E) = i
      BY <1>1, NthIs DEF n
    <3>2. ~(k < n - 1)
      <4>1. k < n - 1 => Nth(k, E) < Nth(n - 1, E)
        BY <1>1, <1>4, NthIs DEF n
      <4>2. i \in Nat /\ q <= i /\ q = Nth(n - 1, E)
        BY <1>1, <1>4
      <4> QED BY <4>1, <4>2, <3>1, <2>1
    <3>3. k = n - 1 \/ k = n
      BY <3>2, <1>1
    <3> QED BY <3>1, <3>3, <1>4
  <2>4. rest = {q, Nth(n, E)}
    BY <2>2, <2>3
  <2> QED BY <2>2, <2>4, <1>2, PairCardinality
<1> QED BY <1>3, <1>5, <1>6, <1>7, <1>8 DEF E

\* A message of a session with an id above all that the session has.
IsNew(m, s) ==
  m \in Message /\ m.session = s /\ \A i \in Of(s) : messages[i].id < m.id

\* Ingesting changes nothing, or appends one message.
LEMMA IngestIs ==
  ASSUME NEW s \in Sessions, IngestNew(s) \/ IngestAgain(s)
  PROVE  /\ UNCHANGED markers
         /\ \/ UNCHANGED messages
            \/ /\ Len(messages) < MaxMessages
               /\ \E m : IsNew(m, s) /\ messages' = Append(messages, m)
<1>1. CASE IngestNew(s)
  <2>1. PICK id \in 1 .. MaxMessages, beat \in BOOLEAN, size \in Sizes :
          /\ \A i \in DOMAIN messages : messages[i].id < id
          /\ Ingest(s, id, beat, size)
    BY <1>1 DEF IngestNew
  <2>2. Len(messages) < MaxMessages
    BY <1>1 DEF IngestNew
  <2>3. IsNew([session |-> s, id |-> id, beat |-> beat, size |-> size], s)
    BY <2>1 DEF IsNew, Message, Of
  <2> QED BY <2>1, <2>2, <2>3 DEF Ingest
<1>2. CASE IngestAgain(s)
  <2>1. PICK i \in Of(s) : Ingest(s, messages[i].id, messages[i].beat, messages[i].size)
    BY <1>2 DEF IngestAgain
  <2>2. \E j \in Of(s) : messages[j].id = messages[i].id
    OBVIOUS
  <2> QED BY <2>1, <2>2 DEF Ingest
<1> QED BY <1>1, <1>2

LEMMA Steps ==
  ASSUME Next
  PROVE  \E s \in Sessions : IngestNew(s) \/ IngestAgain(s) \/ Compact(s)
BY DEF Next

LEMMA TypeInductive ==
  ASSUME TypeOK, [Next]_vars
  PROVE  TypeOK'
<1>1. CASE UNCHANGED vars
  BY <1>1 DEF TypeOK, vars
<1>2. ASSUME NEW s \in Sessions, IngestNew(s) \/ IngestAgain(s)
      PROVE  TypeOK'
  <2>1. CASE UNCHANGED messages
    BY <2>1, <1>2, IngestIs DEF TypeOK
  <2>2. CASE ~UNCHANGED messages
    <3>1. PICK m : IsNew(m, s) /\ messages' = Append(messages, m)
      BY <2>2, <1>2, IngestIs
    <3>2. Len(messages) < MaxMessages /\ UNCHANGED markers
      BY <2>2, <1>2, IngestIs
    <3>3. m \in Message
      BY <3>1 DEF IsNew
    <3>4. messages' \in Seq(Message) /\ Len(messages') = Len(messages) + 1
      BY <3>1, <3>3, AppendProperties DEF TypeOK
    <3>5. Len(messages') <= MaxMessages
      BY <3>2, <3>4, OfIs, Constants
    <3> QED BY <3>2, <3>4, <3>5 DEF TypeOK
  <2> QED BY <2>1, <2>2
<1>3. ASSUME NEW s \in Sessions, Compact(s)
      PROVE  TypeOK'
  <2>1. PICK p \in Eligible(s), q \in Eligible(s) :
          /\ UNCHANGED messages
          /\ \/ markers' = markers
             \/ markers' = Append(markers, NewMarker(s, p, q))
    BY <1>3, CompactIs
  <2>2. NewMarker(s, p, q) \in Marker
    BY NewMarkerIs
  <2>3. markers' \in Seq(Marker)
    BY <2>1, <2>2, AppendProperties DEF TypeOK
  <2> QED BY <2>1, <2>3 DEF TypeOK
<1> QED BY <1>1, <1>2, <1>3, Steps

(* Messages and markers keep their types, with any sessions, sizes and ids:  *)
(* no compaction points outside the list, and ids stay in range.            *)
THEOREM TypeCorrect == Spec => []TypeOK
<1>1. Init => TypeOK
  BY EmptySeq, Constants DEF Init, TypeOK
<1>2. TypeOK /\ [Next]_vars => TypeOK'
  BY TypeInductive
<1> QED BY <1>1, <1>2, PTL DEF Spec

-----------------------------------------------------------------------------
(* Ids ascend.                                                              *)

LEMMA Grown ==
  ASSUME TypeOK, NEW s, NEW m, m.session = s, m \in Message,
         messages' = Append(messages, m)
  PROVE  LET new == Len(messages) + 1 IN
         /\ DOMAIN messages' = DOMAIN messages \cup {new}
         /\ new \notin DOMAIN messages /\ \A i \in DOMAIN messages : i < new
         /\ \A i \in DOMAIN messages : messages'[i] = messages[i]
         /\ messages'[new] = m
         /\ \A t : Of(t)' = IF t = s THEN Of(t) \cup {new} ELSE Of(t)
         /\ \A t : IsFiniteSet(Of(t)')
<1> DEFINE new == Len(messages) + 1
<1>1. /\ DOMAIN messages = 1 .. Len(messages) /\ Len(messages) \in Nat
      /\ messages \in Seq(Message)
  BY OfIs DEF TypeOK
<1>2. /\ DOMAIN messages' = 1 .. new
      /\ \A i \in DOMAIN messages : messages'[i] = messages[i]
      /\ messages'[new] = m
  BY <1>1, AppendProperties, LenProperties
<1>3. /\ DOMAIN messages' = DOMAIN messages \cup {new}
      /\ new \notin DOMAIN messages /\ \A i \in DOMAIN messages : i < new
  BY <1>1, <1>2
<1> HIDE DEF new
<1>4. \A t : Of(t)' = IF t = s THEN Of(t) \cup {new} ELSE Of(t)
  BY <1>2, <1>3 DEF Of
<1>5. IsFiniteSet(Of(s)) /\ new \notin Of(s)
  BY <1>3, OfIs
<1>6. IsFiniteSet(Of(s) \cup {new})
  BY <1>5, FS_AddElement
<1>7. \A t : IsFiniteSet(Of(t)')
  BY <1>4, <1>6, OfIs
<1> QED BY <1>2, <1>3, <1>4, <1>7 DEF new

LEMMA IdsInductive ==
  ASSUME TypeOK, IdsAscend, [Next]_vars
  PROVE  IdsAscend'
<1>1. CASE UNCHANGED messages
  BY <1>1 DEF IdsAscend, Of
<1>2. ASSUME NEW s \in Sessions, IngestNew(s) \/ IngestAgain(s), ~UNCHANGED messages
      PROVE  IdsAscend'
  <2>1. PICK m : IsNew(m, s) /\ messages' = Append(messages, m)
    BY <1>2, IngestIs
  <2> DEFINE new == Len(messages) + 1
  <2>2. /\ DOMAIN messages' = DOMAIN messages \cup {new}
        /\ \A i \in DOMAIN messages : i < new
        /\ \A i \in DOMAIN messages : messages'[i] = messages[i]
        /\ messages'[new] = m
    BY <2>1, Grown DEF IsNew
  <2>3. new \in Nat /\ DOMAIN messages \in SUBSET Nat
    BY OfIs
  <2> HIDE DEF new
  <2>4. ASSUME NEW i \in DOMAIN messages', NEW j \in DOMAIN messages',
               messages'[i].session = messages'[j].session, i < j
        PROVE  messages'[i].id < messages'[j].id
    <3>1. i # new /\ i \in DOMAIN messages
      BY <2>2, <2>3, <2>4
    <3>2. CASE j = new
      <4>1. i \in Of(s) /\ messages'[j] = m
        BY <3>1, <3>2, <2>1, <2>2, <2>4 DEF Of, IsNew
      <4> QED BY <3>1, <4>1, <2>1, <2>2 DEF IsNew
    <3>3. CASE j # new
      BY <3>1, <3>3, <2>2, <2>4 DEF IdsAscend
    <3> QED BY <3>2, <3>3
  <2> QED BY <2>4 DEF IdsAscend
<1>3. ASSUME NEW s \in Sessions, Compact(s)
      PROVE  UNCHANGED messages
  BY <1>3 DEF Compact
<1>4. UNCHANGED vars => UNCHANGED messages
  BY DEF vars
<1> QED BY <1>1, <1>2, <1>3, <1>4, Steps

\* The order of ids is the order of arrival.
LEMMA IdOrder ==
  ASSUME TypeOK, IdsAscend, NEW s, NEW i \in Of(s), NEW j \in Of(s)
  PROVE  /\ i < j <=> messages[i].id < messages[j].id
         /\ i <= j <=> messages[i].id <= messages[j].id
<1>1. i \in Nat /\ j \in Nat /\ messages[i].id \in Nat /\ messages[j].id \in Nat
  BY OfIs DEF Message
<1>2. i < j => messages[i].id < messages[j].id
  BY DEF IdsAscend, Of
<1>3. j < i => messages[j].id < messages[i].id
  BY DEF IdsAscend, Of
<1> QED BY <1>1, <1>2, <1>3

-----------------------------------------------------------------------------
(* Markers are sound.                                                       *)

LEMMA MarkersAre ==
  ASSUME TypeOK
  PROVE  /\ DOMAIN markers = 1 .. Len(markers) /\ Len(markers) \in Nat
         /\ \A k \in DOMAIN markers : markers[k] \in Marker
BY LenProperties, ElementOfSeq DEF TypeOK

LEMMA CoversIs ==
  ASSUME TypeOK, Padded, NEW marker \in Marker, NEW i \in DOMAIN messages
  PROVE  Covers(marker, messages[i].session, messages[i].id) <=>
           /\ marker.session = messages[i].session
           /\ marker.from <= messages[i].id /\ messages[i].id < marker.to
<1> DEFINE id == messages[i].id
<1>1. /\ id \in 1 .. MaxMessages
      /\ marker.from \in 1 .. MaxMessages /\ marker.to \in 1 .. MaxMessages
  BY OfIs DEF Message, Marker
<1> HIDE DEF id
<1>2. ASSUME NEW a \in 1 .. MaxMessages, NEW b \in 1 .. MaxMessages
      PROVE  /\ Rank[a] < Rank[b] <=> a < b
             /\ Rank[a] <= Rank[b] <=> a <= b
  <2>1. Rank[a] \in Nat /\ Rank[b] \in Nat /\ a \in Nat /\ b \in Nat
    BY Constants
  <2>2. (a < b => Rank[a] < Rank[b]) /\ (b < a => Rank[b] < Rank[a])
    BY DEF Padded
  <2> QED BY <2>1, <2>2
<1>3. /\ Rank[marker.from] <= Rank[id] <=> marker.from <= id
      /\ Rank[id] < Rank[marker.to] <=> id < marker.to
  BY <1>1, <1>2
<1> QED BY <1>3 DEF Covers, id

\* What is hidden before a step stays hidden.
LEMMA HiddenStays ==
  ASSUME NEW i \in DOMAIN messages, messages'[i] = messages[i],
         DOMAIN markers \subseteq DOMAIN markers',
         \A k \in DOMAIN markers : markers'[k] = markers[k],
         Hidden(i)
  PROVE  Hidden(i)'
BY DEF Hidden, Covers

\* A marker stays sound when a message is ingested ...
LEMMA SoundOnIngest ==
  ASSUME TypeOK, IdsAscend, Padded, UNCHANGED markers,
         NEW s \in Sessions, Len(messages) < MaxMessages,
         NEW m, IsNew(m, s), messages' = Append(messages, m),
         NEW marker \in Marker, Sound(marker)
  PROVE  Sound(marker)'
<1> DEFINE new == Len(messages) + 1
<1>1. m \in Message /\ m.session = s /\ m.id \in 1 .. MaxMessages
  BY DEF IsNew, Message
<1>2. /\ DOMAIN messages' = DOMAIN messages \cup {new}
      /\ new \notin DOMAIN messages
      /\ \A i \in DOMAIN messages : messages'[i] = messages[i]
      /\ messages'[new] = m
      /\ \A t : Of(t)' = IF t = s THEN Of(t) \cup {new} ELSE Of(t)
      /\ \A t : IsFiniteSet(Of(t)')
  BY <1>1, Grown
<1> HIDE DEF new
<1>3. marker.session = s => marker.to < m.id
  BY DEF Sound, Spans, IsNew
<1>4. marker.session = s => ~Covers(marker, s, m.id) /\ ~(m.id < marker.to)
  <2> SUFFICES ASSUME marker.session = s
               PROVE  ~Covers(marker, s, m.id) /\ ~(m.id < marker.to)
    OBVIOUS
  <2>1. marker.to < m.id /\ marker.to \in 1 .. MaxMessages
    BY <1>3 DEF Marker
  <2>2. Rank[marker.to] < Rank[m.id] /\ Rank[marker.to] \in Nat /\ Rank[m.id] \in Nat
    BY <2>1, <1>1, Constants DEF Padded
  <2> QED BY <2>1, <2>2, <1>1 DEF Covers
<1>5. Spans(marker)'
  <2>1. PICK p \in Of(marker.session), q \in Of(marker.session) :
          /\ ~messages[p].beat /\ messages[p].id = marker.from
          /\ ~messages[q].beat /\ messages[q].id = marker.to
          /\ p < q
    BY DEF Sound, Spans
  <2>2. p \in Of(marker.session)' /\ q \in Of(marker.session)'
    BY <1>2
  <2>3. messages'[p] = messages[p] /\ messages'[q] = messages[q]
    BY <1>2 DEF Of
  <2> QED BY <2>1, <2>2, <2>3 DEF Spans
<1>6. (marker.lists = Covered(marker))'
  <2>1. ~Covers(marker, messages'[new].session, messages'[new].id)
    BY <1>1, <1>2, <1>4 DEF Covers
  <2>2. Covered(marker)' = Covered(marker)
    BY <2>1, <1>2 DEF Covered, Covers
  <2> QED BY <2>2 DEF Sound
<1>7. Closes(marker)'
  <2> SUFFICES ASSUME NEW i \in Of(marker.session)', ~messages'[i].beat,
                      messages'[i].id < marker.to
               PROVE  Hidden(i)'
    BY DEF Closes
  <2>1. i # new
    BY <1>1, <1>2, <1>4 DEF Of
  <2>2. i \in Of(marker.session) /\ messages'[i] = messages[i] /\ i \in DOMAIN messages
    BY <2>1, <1>2 DEF Of
  <2>3. Hidden(i)
    BY <2>2 DEF Sound, Closes
  <2> QED BY <2>2, <2>3, HiddenStays
<1>8. (Cardinality(Behind(marker)) >= Keep)'
  <2>1. Behind(marker) \in SUBSET (Behind(marker)')
    BY <1>2 DEF Behind, Of
  <2>2. IsFiniteSet(Behind(marker)')
    <3>1. Behind(marker)' \in SUBSET (Of(marker.session)')
      BY DEF Behind
    <3> QED BY <3>1, <1>2, FS_Subset
  <2>3. /\ Cardinality(Behind(marker)) <= Cardinality(Behind(marker)')
        /\ Cardinality(Behind(marker)) \in Nat /\ Cardinality(Behind(marker)') \in Nat
    BY <2>1, <2>2, FS_Subset, FS_CardinalityType
  <2> QED BY <2>3 DEF Sound, Keep
<1> QED BY <1>5, <1>6, <1>7, <1>8 DEF Sound

\* ... and when another one is added.
LEMMA SoundOnCompact ==
  ASSUME UNCHANGED messages,
         DOMAIN markers \subseteq DOMAIN markers',
         \A k \in DOMAIN markers : markers'[k] = markers[k],
         NEW marker, Sound(marker)
  PROVE  Sound(marker)'
<1>1. /\ Spans(marker)' = Spans(marker) /\ Covered(marker)' = Covered(marker)
      /\ Behind(marker)' = Behind(marker) /\ Of(marker.session)' = Of(marker.session)
  BY DEF Spans, Covered, Behind, Of, Covers
<1>2. Closes(marker)'
  BY <1>1, HiddenStays DEF Sound, Closes, Of
<1> QED BY <1>1, <1>2 DEF Sound, Keep

\* A new marker begins behind the earlier ones of its session ...
LEMMA MarkersPrecede ==
  ASSUME TypeOK, Padded, MarkersSound, NEW s, NEW p \in Eligible(s),
         NEW k \in DOMAIN markers, markers[k].session = s
  PROVE  markers[k].to <= messages[p].id
<1>1. p \in Of(s) /\ ~messages[p].beat /\ ~Hidden(p)
  BY DEF Eligible
<1>2. Closes(markers[k])
  BY DEF MarkersSound, Sound
<1>3. ~(messages[p].id < markers[k].to)
  BY <1>1, <1>2 DEF Closes
<1>4. messages[p].id \in Nat /\ markers[k].to \in Nat
  BY <1>1, OfIs, MarkersAre DEF Message, Marker
<1> QED BY <1>3, <1>4

\* ... and is sound itself.
LEMMA SoundWhenAdded ==
  ASSUME TypeOK, IdsAscend, Padded, MarkersSound, NEW s \in Sessions,
         NEW p \in Eligible(s), NEW q \in Eligible(s),
         p < q, \A i \in Eligible(s) : p <= i,
         Cardinality({i \in Eligible(s) : q <= i}) = Keep,
         UNCHANGED messages, NEW marker \in Marker, marker = NewMarker(s, p, q),
         markers' = Append(markers, marker)
  PROVE  Sound(marker)'
<1>1. /\ marker.session = s /\ marker.from = messages[p].id /\ marker.to = messages[q].id
      /\ marker.lists = {i \in Eligible(s) : p <= i /\ i < q}
  BY DEF NewMarker
<1>2. /\ p \in Of(s) /\ ~messages[p].beat /\ p \in DOMAIN messages
      /\ q \in Of(s) /\ ~messages[q].beat /\ q \in DOMAIN messages
      /\ \A i \in Of(s) : i \in DOMAIN messages /\ messages[i].session = s
      /\ Of(s)' = Of(s)
  BY DEF Eligible, Of
<1>3. ASSUME NEW i \in Of(s)
      PROVE  /\ p <= i <=> marker.from <= messages[i].id
             /\ i < q <=> messages[i].id < marker.to
             /\ q <= i <=> marker.to <= messages[i].id
  BY <1>1, <1>2, IdOrder
<1>4. \A i \in DOMAIN messages : Hidden(i) => Hidden(i)'
  <2>1. markers \in Seq(Marker)
    BY DEF TypeOK
  <2>2. DOMAIN markers \subseteq DOMAIN markers' /\ \A k \in DOMAIN markers : markers'[k] = markers[k]
    BY <2>1, MarkersAre, AppendProperties, LenProperties
  <2> QED BY <2>2, HiddenStays
<1>5. ASSUME NEW i \in Of(s), Hidden(i)
      PROVE  messages[i].id < marker.from
  <2>1. PICK k \in DOMAIN markers : Covers(markers[k], messages[i].session, messages[i].id)
    BY <1>5 DEF Hidden
  <2>2. markers[k].session = s /\ messages[i].id < markers[k].to
    BY <2>1, <1>2, CoversIs, MarkersAre
  <2>3. markers[k].to <= messages[p].id
    BY <2>2, MarkersPrecede
  <2>4. messages[i].id \in Nat /\ markers[k].to \in Nat /\ messages[p].id \in Nat
    BY <1>2, OfIs, MarkersAre DEF Message, Marker
  <2> QED BY <2>2, <2>3, <2>4, <1>1
<1>6. Spans(marker)'
  BY <1>1, <1>2 DEF Spans
<1>7. marker.lists = Covered(marker)
  <2>1. ASSUME NEW i \in marker.lists
        PROVE  i \in Covered(marker)
    <3>1. i \in Of(s) /\ ~messages[i].beat /\ p <= i /\ i < q
      BY <1>1 DEF Eligible
    <3>2. Covers(marker, messages[i].session, messages[i].id)
      BY <3>1, <1>1, <1>2, <1>3, CoversIs
    <3> QED BY <3>1, <3>2, <1>2 DEF Covered
  <2>2. ASSUME NEW i \in Covered(marker)
        PROVE  i \in marker.lists
    <3>1. /\ i \in DOMAIN messages /\ ~messages[i].beat /\ messages[i].session = s
          /\ marker.from <= messages[i].id /\ messages[i].id < marker.to
      BY <1>1, CoversIs DEF Covered
    <3>2. i \in Of(s)
      BY <3>1 DEF Of
    <3>3. ~Hidden(i)
      <4>1. messages[i] \in Message
        BY <3>1, OfIs
      <4>2. messages[i].id \in Nat /\ marker.from \in Nat
        BY <4>1 DEF Message, Marker
      <4> QED BY <3>1, <3>2, <4>2, <1>5
    <3> QED BY <3>1, <3>2, <3>3, <1>1, <1>3 DEF Eligible
  <2> QED BY <2>1, <2>2
<1>8. Covered(marker)' = Covered(marker)
  BY DEF Covered, Covers
<1>9. Closes(marker)'
  <2> SUFFICES ASSUME NEW i \in Of(s), ~messages[i].beat, messages[i].id < marker.to
               PROVE  Hidden(i)'
    BY <1>1, <1>2 DEF Closes
  <2>1. CASE Hidden(i)
    BY <2>1, <1>2, <1>4
  <2>2. CASE ~Hidden(i)
    <3>1. i \in Eligible(s)
      BY <2>2 DEF Eligible
    <3>2. Covers(marker, messages[i].session, messages[i].id)
      BY <3>1, <1>1, <1>2, <1>3, CoversIs
    <3>3. markers'[Len(markers) + 1] = marker /\ Len(markers) + 1 \in DOMAIN markers'
      <4>1. markers \in Seq(Marker)
        BY DEF TypeOK
      <4> QED BY <4>1, MarkersAre, AppendProperties, LenProperties
    <3>4. \E k \in DOMAIN markers' : Covers(markers'[k], messages[i].session, messages[i].id)
      BY <3>2, <3>3
    <3> QED BY <3>4 DEF Hidden, Covers
  <2> QED BY <2>1, <2>2
<1>10. (Cardinality(Behind(marker)) >= Keep)'
  <2> DEFINE last == {i \in Eligible(s) : q <= i}
  <2>1. last \in SUBSET Behind(marker)
    BY <1>1, <1>2, <1>3 DEF Behind, Eligible
  <2>2. IsFiniteSet(Behind(marker))
    <3>1. Behind(marker) \in SUBSET Of(s)
      BY <1>1 DEF Behind
    <3> QED BY <3>1, OfIs, FS_Subset
  <2> HIDE DEF last
  <2>3. /\ Cardinality(last) <= Cardinality(Behind(marker))
        /\ Cardinality(last) \in Nat /\ Cardinality(Behind(marker)) \in Nat
    BY <2>1, <2>2, FS_Subset, FS_CardinalityType
  <2>4. Behind(marker)' = Behind(marker)
    BY DEF Behind, Of
  <2> QED BY <2>3, <2>4 DEF last, Keep
<1> QED BY <1>6, <1>7, <1>8, <1>9, <1>10 DEF Sound

Inv == TypeOK /\ IdsAscend /\ MarkersSound

LEMMA MarkersInductive ==
  ASSUME Padded, Inv, [Next]_vars
  PROVE  MarkersSound'
<1> USE DEF Inv
<1>1. ASSUME UNCHANGED markers,
             ASSUME NEW marker \in Marker, Sound(marker) PROVE Sound(marker)'
      PROVE  MarkersSound'
  <2>1. Apart'
    BY <1>1 DEF MarkersSound, Apart
  <2>2. ASSUME NEW k \in DOMAIN markers, NEW marker, marker = markers[k]
        PROVE  Sound(marker)'
    BY <2>2, <1>1, MarkersAre DEF MarkersSound
  <2>3. (\A k \in DOMAIN markers : Sound(markers[k]))'
    BY <2>2, <1>1
  <2> QED BY <2>1, <2>3 DEF MarkersSound
<1>2. CASE UNCHANGED <<messages, markers>>
  <2>1. ASSUME NEW marker \in Marker, Sound(marker)
        PROVE  Sound(marker)'
    BY <1>2, <2>1, SoundOnCompact
  <2> QED BY <2>1, <1>1, <1>2
<1>3. ASSUME NEW s \in Sessions, IngestNew(s) \/ IngestAgain(s)
      PROVE  MarkersSound'
  <2>1. CASE UNCHANGED messages
    BY <2>1, <1>2, <1>3, IngestIs
  <2>2. CASE ~UNCHANGED messages
    <3>1. PICK m : IsNew(m, s) /\ messages' = Append(messages, m)
      BY <2>2, <1>3, IngestIs
    <3>2. Len(messages) < MaxMessages /\ UNCHANGED markers
      BY <2>2, <1>3, IngestIs
    <3>3. ASSUME NEW marker \in Marker, Sound(marker)
          PROVE  Sound(marker)'
      BY <3>1, <3>2, <3>3, SoundOnIngest
    <3> QED BY <3>2, <3>3, <1>1
  <2> QED BY <2>1, <2>2
<1>4. ASSUME NEW s \in Sessions, Compact(s)
      PROVE  MarkersSound'
  <2>1. PICK p \in Eligible(s), q \in Eligible(s) :
          /\ p < q /\ \A i \in Eligible(s) : p <= i
          /\ Cardinality({i \in Eligible(s) : q <= i}) = Keep
          /\ UNCHANGED messages
          /\ \/ markers' = markers
             \/ markers' = Append(markers, NewMarker(s, p, q))
    BY <1>4, CompactIs
  <2>2. CASE markers' = markers
    BY <2>1, <2>2, <1>2
  <2>3. CASE markers' = Append(markers, NewMarker(s, p, q))
    <3> DEFINE new == Len(markers) + 1
    <3>1. PICK added : added = NewMarker(s, p, q)
      OBVIOUS
    <3>2. /\ DOMAIN markers = 1 .. Len(markers) /\ Len(markers) \in Nat
          /\ markers \in Seq(Marker)
      BY MarkersAre DEF TypeOK
    <3>3. markers' = Append(markers, added)
      BY <2>3, <3>1
    <3>4. markers' \in Seq(Marker)
      BY TypeInductive DEF TypeOK
    <3>5. /\ Len(markers') = new /\ DOMAIN markers' = 1 .. new
          /\ \A k \in DOMAIN markers : markers'[k] = markers[k]
          /\ markers'[new] = added
      BY <3>2, <3>3, <3>4, LenProperties, AppendProperties
    <3>6. added \in Marker
      <4>1. new \in 1 .. Len(markers')
        BY <3>2, <3>5
      <4> QED BY <3>4, <3>5, <4>1, ElementOfSeq
    <3>7. added.session = s /\ added.from = messages[p].id
      BY <3>1 DEF NewMarker
    <3>8. /\ DOMAIN markers' = DOMAIN markers \cup {new}
          /\ \A k \in DOMAIN markers : k < new
      BY <3>2, <3>5
    <3> HIDE DEF new
    <3>9. Sound(added)'
      BY <2>1, <3>1, <3>3, <3>6, SoundWhenAdded
    <3>10. ASSUME NEW k \in DOMAIN markers, NEW marker, marker = markers[k]
           PROVE  Sound(marker)'
      BY <2>1, <3>5, <3>8, <3>10, SoundOnCompact DEF MarkersSound
    <3>11. (\A k \in DOMAIN markers : Sound(markers[k]))'
      <4> SUFFICES ASSUME NEW k \in DOMAIN markers', NEW marker, marker = markers'[k]
                   PROVE  Sound(marker)'
        OBVIOUS
      <4> QED BY <3>5, <3>8, <3>9, <3>10
    <3>12. ASSUME NEW k \in DOMAIN markers', NEW l \in DOMAIN markers',
                  k < l, markers'[k].session = markers'[l].session
           PROVE  markers'[k].to <= markers'[l].from
      <4>1. k # new
        BY <3>2, <3>8, <3>12
      <4>2. CASE l = new
        BY <4>1, <4>2, <3>5, <3>7, <3>8, <3>12, MarkersPrecede
      <4>3. CASE l # new
        BY <4>1, <4>3, <3>5, <3>8, <3>12 DEF MarkersSound, Apart
      <4> QED BY <4>2, <4>3
    <3> QED BY <3>11, <3>12 DEF MarkersSound, Apart
  <2> QED BY <2>1, <2>2, <2>3
<1>5. UNCHANGED vars => UNCHANGED <<messages, markers>>
  BY DEF vars
<1> QED BY <1>2, <1>3, <1>4, <1>5, Steps

\* The invariant holds with padded ids, whatever is ingested and compacted.
LEMMA Invariant == ASSUME Padded PROVE Spec => []Inv
<1>1. Init => Inv
  BY EmptySeq, Constants DEF Init, Inv, TypeOK, IdsAscend, MarkersSound, Apart
<1>2. Inv /\ [Next]_vars => Inv'
  BY TypeInductive, IdsInductive, MarkersInductive DEF Inv
<1> QED BY <1>1, <1>2, PTL DEF Spec

-----------------------------------------------------------------------------
(* What the invariant says of compaction.                                   *)

\* No message is under two markers.
LEMMA CoveredOnce ==
  ASSUME Padded, Inv, NEW i \in DOMAIN messages,
         NEW k \in DOMAIN markers, Covers(markers[k], messages[i].session, messages[i].id),
         NEW l \in DOMAIN markers, Covers(markers[l], messages[i].session, messages[i].id)
  PROVE  k = l
<1> USE DEF Inv
<1>1. /\ markers[k] \in Marker /\ markers[l] \in Marker /\ messages[i] \in Message
      /\ k \in Nat /\ l \in Nat
  BY MarkersAre, OfIs
<1>2. /\ markers[k].from <= messages[i].id /\ messages[i].id < markers[k].to
      /\ markers[l].from <= messages[i].id /\ messages[i].id < markers[l].to
      /\ markers[k].session = markers[l].session
  BY <1>1, CoversIs
<1>3. /\ messages[i].id \in Nat /\ markers[k].to \in Nat /\ markers[l].to \in Nat
      /\ markers[k].from \in Nat /\ markers[l].from \in Nat
  BY <1>1 DEF Message, Marker
<1>4. ~(k < l)
  <2>1. k < l => markers[k].to <= markers[l].from
    BY <1>2 DEF MarkersSound, Apart
  <2> QED BY <2>1, <1>2, <1>3
<1>5. ~(l < k)
  <2>1. l < k => markers[l].to <= markers[k].from
    BY <1>2 DEF MarkersSound, Apart
  <2> QED BY <2>1, <1>2, <1>3
<1> QED BY <1>1, <1>4, <1>5

\* A hidden message comes before everything that stands behind a marker.
LEMMA HiddenIsBefore ==
  ASSUME Padded, Inv, NEW i \in DOMAIN messages, NEW k \in DOMAIN markers,
         Covers(markers[k], messages[i].session, messages[i].id),
         NEW j \in Of(messages[i].session), markers[k].to <= messages[j].id
  PROVE  i < j
<1> USE DEF Inv
<1>1. markers[k] \in Marker /\ messages[i] \in Message
  BY MarkersAre, OfIs
<1>2. messages[j] \in Message /\ i \in Of(messages[i].session)
  BY OfIs DEF Of
<1>3. messages[i].id < markers[k].to
  BY <1>1, CoversIs
<1>4. messages[i].id < messages[j].id
  BY <1>1, <1>2, <1>3 DEF Message, Marker
<1> QED BY <1>2, <1>4, IdOrder

(* Compaction loses no message and tells none twice: what a prompt no longer *)
(* shows stands in exactly one summary, however sessions are interleaved.   *)
THEOREM CompactionLosesNothing ==
  ASSUME Padded
  PROVE  Spec => []HiddenIsSummarised
<1>1. Inv => HiddenIsSummarised
  <2> SUFFICES ASSUME Inv, NEW i \in DOMAIN messages, ~messages[i].beat
               PROVE  Cardinality({k \in DOMAIN markers : i \in markers[k].lists})
                        = IF Hidden(i) THEN 1 ELSE 0
    BY DEF HiddenIsSummarised
  <2> DEFINE Listing == {k \in DOMAIN markers : i \in markers[k].lists}
  <2>1. \A k \in DOMAIN markers :
          i \in markers[k].lists <=> Covers(markers[k], messages[i].session, messages[i].id)
    BY DEF Inv, MarkersSound, Sound, Covered
  <2>2. CASE Hidden(i)
    <3>1. PICK k \in DOMAIN markers : Covers(markers[k], messages[i].session, messages[i].id)
      BY <2>2 DEF Hidden
    <3>2. Listing = {k}
      BY <2>1, <3>1, CoveredOnce
    <3> QED BY <2>2, <3>2, FS_Singleton
  <2>3. CASE ~Hidden(i)
    <3>1. Listing = {}
      BY <2>1, <2>3 DEF Hidden
    <3> QED BY <2>3, <3>1, FS_EmptySet
  <2> QED BY <2>2, <2>3
<1> QED BY <1>1, Invariant, PTL

(* The last messages of a session stay in its history, however many sessions *)
(* share the list and however often each is compacted.                      *)
THEOREM RecentMessagesStay ==
  ASSUME Padded
  PROVE  Spec => []RecentStaysVisible
<1>1. Inv => RecentStaysVisible
  <2> SUFFICES ASSUME Inv, NEW s \in Sessions, NEW i \in DOMAIN messages,
                      i \in Of(s), ~messages[i].beat, Hidden(i)
               PROVE  ~(Cardinality({j \in Of(s) : j > i /\ ~messages[j].beat}) < Keep)
    BY DEF RecentStaysVisible
  <2> DEFINE later == {j \in Of(s) : j > i /\ ~messages[j].beat}
  <2>1. PICK k \in DOMAIN markers : Covers(markers[k], messages[i].session, messages[i].id)
    BY DEF Hidden
  <2>2. messages[i].session = s /\ markers[k].session = s
    BY <2>1 DEF Of, Covers
  <2> DEFINE behind == Behind(markers[k])
  <2>3. behind \in SUBSET later
    <3>1. ASSUME NEW j \in behind
          PROVE  j \in later
      <4>1. j \in Of(s) /\ ~messages[j].beat /\ markers[k].to <= messages[j].id
        BY <2>2 DEF Behind
      <4>2. i < j
        BY <2>1, <2>2, <4>1, HiddenIsBefore
      <4> QED BY <4>1, <4>2
    <3> QED BY <3>1
  <2>4. IsFiniteSet(later)
    <3>1. later \in SUBSET Of(s)
      OBVIOUS
    <3> QED BY <3>1, OfIs, FS_Subset DEF Inv
  <2>5. Cardinality(behind) >= Keep
    BY DEF Inv, MarkersSound, Sound
  <2> HIDE DEF later, behind
  <2>6. /\ Cardinality(behind) <= Cardinality(later)
        /\ Cardinality(behind) \in Nat /\ Cardinality(later) \in Nat
    BY <2>3, <2>4, FS_Subset, FS_CardinalityType
  <2>7. ~(Cardinality(later) < Keep)
    BY <2>5, <2>6 DEF Keep
  <2> QED BY <2>7 DEF later
<1> QED BY <1>1, Invariant, PTL

-----------------------------------------------------------------------------
(* The sections of a prompt.                                                *)

SectionType == [kind : {"history", "summary", "prompt"}, lists : SUBSET Nat, size : Nat]

LEMMA PickIs ==
  ASSUME NEW S, NEW D, NEW seq \in [D -> S], NEW P \in SUBSET D,
         P \in SUBSET Nat, IsFiniteSet(P)
  PROVE  /\ Pick(seq, P) \in Seq(S) /\ Len(Pick(seq, P)) = Cardinality(P)
         /\ Cardinality(P) \in Nat
         /\ DOMAIN Pick(seq, P) = 1 .. Cardinality(P)
         /\ \A n \in 1 .. Cardinality(P) : Nth(n, P) \in P /\ Pick(seq, P)[n] = seq[Nth(n, P)]
<1> DEFINE n == Cardinality(P)
<1>1. n \in Nat /\ \A k \in 1 .. n : Nth(k, P) \in P
  BY NthIs
<1>2. Pick(seq, P) = [k \in 1 .. n |-> seq[Nth(k, P)]]
  BY DEF Pick
<1> HIDE DEF n
<1>3. Pick(seq, P) \in [1 .. n -> S]
  BY <1>1, <1>2
<1>4. Pick(seq, P) \in Seq(S) /\ Len(Pick(seq, P)) = n
  BY <1>1, <1>3
<1> QED BY <1>1, <1>2, <1>4 DEF n

VisibleCount(s) == Cardinality(Visible(s))
MarkerCount(s)  == Cardinality(MarkersOf(s))

LEMMA VisibleIs ==
  ASSUME TypeOK, NEW s
  PROVE  /\ Visible(s) \in SUBSET Of(s) /\ Visible(s) \in SUBSET (DOMAIN messages)
         /\ Visible(s) \in SUBSET Nat /\ IsFiniteSet(Visible(s))
         /\ MarkersOf(s) \in SUBSET (DOMAIN markers)
         /\ MarkersOf(s) \in SUBSET Nat /\ IsFiniteSet(MarkersOf(s))
         /\ VisibleCount(s) \in Nat /\ MarkerCount(s) \in Nat
<1>1. /\ Visible(s) \in SUBSET Of(s) /\ Visible(s) \in SUBSET (DOMAIN messages)
      /\ Visible(s) \in SUBSET Nat /\ IsFiniteSet(Visible(s))
  <2>1. Visible(s) \in SUBSET Of(s)
    BY DEF Visible
  <2> QED BY <2>1, OfIs, FS_Subset
<1>2. /\ MarkersOf(s) \in SUBSET (DOMAIN markers)
      /\ MarkersOf(s) \in SUBSET Nat /\ IsFiniteSet(MarkersOf(s))
  <2>1. MarkersOf(s) \in SUBSET (1 .. Len(markers)) /\ Len(markers) \in Nat
    BY MarkersAre DEF MarkersOf
  <2>2. IsFiniteSet(1 .. Len(markers))
    BY <2>1, FS_Interval
  <2> QED BY <2>1, <2>2, FS_Subset, MarkersAre
<1> QED BY <1>1, <1>2, FS_CardinalityType DEF VisibleCount, MarkerCount

LEMMA SectionsAre ==
  ASSUME TypeOK, NEW s, Of(s) # {}
  PROVE  LET h == VisibleCount(s)
             m == MarkerCount(s)
         IN /\ Sections(s) \in Seq(SectionType) /\ Len(Sections(s)) = h + m + 1
            /\ \A n \in 1 .. h : /\ Sections(s)[n].kind = "history"
                                 /\ Sections(s)[n].lists = {Nth(n, Visible(s))}
            /\ \A n \in 1 .. m : /\ Sections(s)[h + n].kind = "summary"
                                 /\ Sections(s)[h + n].lists = markers[Nth(n, MarkersOf(s))].lists
            /\ Sections(s)[h + m + 1].kind = "prompt"
<1> DEFINE h == VisibleCount(s)
           m == MarkerCount(s)
           history   == [i \in DOMAIN messages |-> Section("history", {i}, messages[i].size)]
           summaries == [k \in DOMAIN markers |->
                           Section("summary", markers[k].lists, SummarySize(markers[k].lists))]
           last      == Nth(Cardinality(Of(s)), Of(s))
           prompt    == Section("prompt", {}, messages[last].size)
           H == Pick(history, Visible(s))
           M == Pick(summaries, MarkersOf(s))
<1>1. history \in [DOMAIN messages -> SectionType]
  <2> SUFFICES ASSUME NEW i \in DOMAIN messages
               PROVE  Section("history", {i}, messages[i].size) \in SectionType
    OBVIOUS
  <2>1. messages[i] \in Message /\ i \in Nat
    BY OfIs
  <2>2. messages[i].size \in Nat
    BY <2>1, Constants DEF Message
  <2> QED BY <2>1, <2>2 DEF Section, SectionType
<1>2. summaries \in [DOMAIN markers -> SectionType]
  <2> SUFFICES ASSUME NEW k \in DOMAIN markers
               PROVE  Section("summary", markers[k].lists, SummarySize(markers[k].lists))
                        \in SectionType
    OBVIOUS
  <2>1. markers[k].lists \in SUBSET (1 .. MaxMessages) /\ IsFiniteSet(1 .. MaxMessages)
    <3>1. markers[k] \in Marker
      BY MarkersAre
    <3>2. 1 \in Int /\ MaxMessages \in Int
      BY Constants
    <3> QED BY <3>1, <3>2, FS_Interval DEF Marker
  <2>2. Cardinality(markers[k].lists) \in Nat
    BY <2>1, FS_Subset, FS_CardinalityType
  <2>3. SummarySize(markers[k].lists) \in Nat /\ markers[k].lists \in SUBSET Nat
    BY <2>1, <2>2, Constants DEF SummarySize
  <2> QED BY <2>3 DEF Section, SectionType
<1>3. prompt \in SectionType
  <2>1. Of(s) \in SUBSET Nat /\ IsFiniteSet(Of(s)) /\ Cardinality(Of(s)) \in Nat \ {0}
    BY OfIs, FS_EmptySet
  <2>2. Cardinality(Of(s)) \in 1 .. Cardinality(Of(s))
    BY <2>1
  <2>3. last \in Of(s)
    BY <2>1, <2>2, NthIs
  <2>4. messages[last] \in Message
    BY <2>3, OfIs
  <2>5. messages[last].size \in Nat
    BY <2>4, Constants DEF Message
  <2> QED BY <2>5 DEF Section, SectionType
<1>4. Sections(s) = H \o M \o <<prompt>>
  BY DEF Sections
<1>5. /\ prompt.kind = "prompt"
      /\ \A i \in DOMAIN messages : history[i].kind = "history" /\ history[i].lists = {i}
      /\ \A k \in DOMAIN markers : /\ summaries[k].kind = "summary"
                                   /\ summaries[k].lists = markers[k].lists
  BY DEF Section
<1> HIDE DEF history, summaries, prompt
<1>6. /\ H \in Seq(SectionType) /\ Len(H) = h
      /\ \A n \in 1 .. h : Nth(n, Visible(s)) \in Visible(s) /\ H[n] = history[Nth(n, Visible(s))]
  <2>1. /\ Visible(s) \in SUBSET (DOMAIN messages) /\ Visible(s) \in SUBSET Nat
        /\ IsFiniteSet(Visible(s))
    BY VisibleIs
  <2> QED BY <1>1, <2>1, PickIs DEF VisibleCount
<1>7. /\ M \in Seq(SectionType) /\ Len(M) = m
      /\ \A n \in 1 .. m : /\ Nth(n, MarkersOf(s)) \in MarkersOf(s)
                           /\ M[n] = summaries[Nth(n, MarkersOf(s))]
  <2>1. /\ MarkersOf(s) \in SUBSET (DOMAIN markers) /\ MarkersOf(s) \in SUBSET Nat
        /\ IsFiniteSet(MarkersOf(s))
    BY VisibleIs
  <2> QED BY <1>2, <2>1, PickIs DEF MarkerCount
<1>8. h \in Nat /\ m \in Nat
  BY VisibleIs
<1> HIDE DEF h, m, H, M
<1>9. <<prompt>> \in Seq(SectionType) /\ Len(<<prompt>>) = 1 /\ <<prompt>>[1] = prompt
  BY <1>3
<1>10. /\ H \o M \in Seq(SectionType) /\ Len(H \o M) = h + m
       /\ \A n \in 1 .. h + m : (H \o M)[n] = IF n <= h THEN H[n] ELSE M[n - h]
  BY <1>6, <1>7, ConcatProperties
<1>11. /\ Sections(s) \in Seq(SectionType) /\ Len(Sections(s)) = h + m + 1
       /\ \A n \in 1 .. h + m + 1 :
            Sections(s)[n] = IF n <= h + m THEN (H \o M)[n] ELSE <<prompt>>[n - (h + m)]
  BY <1>4, <1>9, <1>10, ConcatProperties
<1>12. ASSUME NEW n \in 1 .. h
       PROVE  Sections(s)[n].kind = "history" /\ Sections(s)[n].lists = {Nth(n, Visible(s))}
  <2>1. n \in 1 .. h + m /\ n \in 1 .. h + m + 1 /\ n <= h /\ n <= h + m
    BY <1>8
  <2>2. Sections(s)[n] = H[n]
    BY <2>1, <1>10, <1>11
  <2> QED BY <2>2, <1>5, <1>6, VisibleIs
<1>13. ASSUME NEW n \in 1 .. m
       PROVE  /\ Sections(s)[h + n].kind = "summary"
              /\ Sections(s)[h + n].lists = markers[Nth(n, MarkersOf(s))].lists
  <2>1. /\ h + n \in 1 .. h + m /\ h + n \in 1 .. h + m + 1
        /\ ~(h + n <= h) /\ h + n <= h + m /\ (h + n) - h = n
    BY <1>8
  <2>2. Sections(s)[h + n] = M[n]
    BY <2>1, <1>10, <1>11
  <2> QED BY <2>2, <1>5, <1>7, VisibleIs
<1>14. Sections(s)[h + m + 1].kind = "prompt"
  BY <1>5, <1>8, <1>9, <1>11
<1> QED BY <1>11, <1>12, <1>13, <1>14 DEF h, m

\* The messages that a section other than the prompt tells.
LEMMA HistoryTells ==
  ASSUME TypeOK, NEW s, Of(s) # {}, NEW n \in 1 .. VisibleCount(s),
         NEW x \in Tells(Sections(s)[n])
  PROVE  x = Nth(n, Visible(s)) /\ x \in Of(s) /\ ~messages[x].beat /\ ~Hidden(x)
<1>1. Nth(n, Visible(s)) \in Visible(s)
  BY VisibleIs, NthIs DEF VisibleCount
<1>2. x = Nth(n, Visible(s)) /\ ~messages[x].beat
  BY SectionsAre DEF Tells
<1> QED BY <1>1, <1>2 DEF Visible

LEMMA SummaryTells ==
  ASSUME Padded, Inv, NEW s, Of(s) # {}, NEW n \in 1 .. MarkerCount(s),
         NEW x \in Tells(Sections(s)[VisibleCount(s) + n])
  PROVE  LET k == Nth(n, MarkersOf(s)) IN
         /\ k \in DOMAIN markers /\ markers[k].session = s
         /\ x \in Of(s) /\ x \in DOMAIN messages /\ messages[x].session = s
         /\ Covers(markers[k], messages[x].session, messages[x].id)
         /\ markers[k].from <= messages[x].id /\ messages[x].id < markers[k].to
<1> DEFINE k == Nth(n, MarkersOf(s))
<1>1. k \in MarkersOf(s)
  BY VisibleIs, NthIs DEF MarkerCount, Inv
<1>2. k \in DOMAIN markers /\ markers[k].session = s
  BY <1>1 DEF MarkersOf
<1>3. x \in markers[k].lists
  BY SectionsAre DEF Tells, Inv
<1> HIDE DEF k
<1>4. x \in DOMAIN messages /\ Covers(markers[k], messages[x].session, messages[x].id)
  BY <1>2, <1>3 DEF Inv, MarkersSound, Sound, Covered
<1>5. messages[x].session = s /\ x \in Of(s)
  BY <1>2, <1>4 DEF Covers, Of
<1>6. markers[k].from <= messages[x].id /\ messages[x].id < markers[k].to
  BY <1>2, <1>4, CoversIs, MarkersAre DEF Inv
<1> QED BY <1>2, <1>4, <1>5, <1>6 DEF k

\* Sections in their order of sorting tell earlier messages first.
LEMMA SortedTellsInOrder ==
  ASSUME Padded, Inv, NEW s, Of(s) # {},
         NEW u \in DOMAIN Sections(s), NEW v \in DOMAIN Sections(s), u # v,
         Before(Sections(s), u, v),
         Sections(s)[u].kind # "prompt", Sections(s)[v].kind # "prompt",
         NEW x \in Tells(Sections(s)[u]), NEW y \in Tells(Sections(s)[v])
  PROVE  x < y
<1> DEFINE h == VisibleCount(s)
           m == MarkerCount(s)
<1>1. TypeOK
  BY DEF Inv
<1>2. h \in Nat /\ m \in Nat
  BY <1>1, VisibleIs
<1>3. DOMAIN Sections(s) = 1 .. h + m + 1
  BY <1>1, SectionsAre, LenProperties
<1>4. Sections(s)[h + m + 1].kind = "prompt"
  BY <1>1, SectionsAre
<1>5. (u \in 1 .. h \/ u - h \in 1 .. m) /\ (v \in 1 .. h \/ v - h \in 1 .. m)
  <2>1. u # h + m + 1 /\ v # h + m + 1
    BY <1>4
  <2> QED BY <2>1, <1>2, <1>3
<1>6. /\ u \in Nat /\ v \in Nat /\ h + (u - h) = u /\ h + (v - h) = v
  BY <1>2, <1>3
<1>7. /\ u \in 1 .. h => Priority(Sections(s)[u]) = 50
      /\ v \in 1 .. h => Priority(Sections(s)[v]) = 50
      /\ u - h \in 1 .. m => Priority(Sections(s)[u]) = 40
      /\ v - h \in 1 .. m => Priority(Sections(s)[v]) = 40
  <2>1. ASSUME NEW w \in DOMAIN Sections(s), h + (w - h) = w
        PROVE  /\ w \in 1 .. h => Priority(Sections(s)[w]) = 50
               /\ w - h \in 1 .. m => Priority(Sections(s)[w]) = 40
    <3>1. w \in 1 .. h => Sections(s)[w].kind = "history"
      BY <1>1, SectionsAre
    <3>2. w - h \in 1 .. m => Sections(s)[h + (w - h)].kind = "summary"
      BY <1>1, SectionsAre
    <3> QED BY <2>1, <3>1, <3>2 DEF Priority
  <2> QED BY <2>1, <1>6
<1> HIDE DEF h, m
<1>8. CASE u \in 1 .. h /\ v \in 1 .. h
  <2>1. u < v
    BY <1>6, <1>7, <1>8 DEF Before
  <2>2. Nth(u, Visible(s)) < Nth(v, Visible(s))
    BY <2>1, <1>1, <1>8, VisibleIs, NthIs DEF h, VisibleCount
  <2> QED BY <2>2, <1>1, <1>8, HistoryTells DEF h
<1>9. CASE u \in 1 .. h /\ v - h \in 1 .. m
  BY <1>7, <1>9 DEF Before
<1>10. CASE u - h \in 1 .. m /\ v \in 1 .. h
  <2> DEFINE k == Nth(u - h, MarkersOf(s))
  <2>1. /\ k \in DOMAIN markers /\ markers[k].session = s
        /\ x \in DOMAIN messages /\ messages[x].session = s
        /\ Covers(markers[k], messages[x].session, messages[x].id)
    BY <1>6, <1>10, SummaryTells DEF h, m
  <2> HIDE DEF k
  <2>2. y \in Of(s) /\ ~messages[y].beat /\ ~Hidden(y)
    BY <1>1, <1>10, HistoryTells DEF h
  <2>3. ~(messages[y].id < markers[k].to)
    BY <2>1, <2>2 DEF Inv, MarkersSound, Sound, Closes
  <2>4. markers[k] \in Marker /\ messages[y] \in Message
    BY <2>1, <2>2, <1>1, MarkersAre, OfIs
  <2>5. markers[k].to <= messages[y].id
    BY <2>3, <2>4 DEF Marker, Message
  <2> QED BY <2>1, <2>2, <2>5, HiddenIsBefore
<1>11. CASE u - h \in 1 .. m /\ v - h \in 1 .. m
  <2> DEFINE k == Nth(u - h, MarkersOf(s))
             l == Nth(v - h, MarkersOf(s))
  <2>1. u < v
    BY <1>6, <1>7, <1>11 DEF Before
  <2>2. u - h < v - h
    BY <2>1, <1>2, <1>6
  <2>3. k < l
    BY <2>2, <1>1, <1>11, VisibleIs, NthIs DEF m, MarkerCount
  <2>4. /\ k \in DOMAIN markers /\ markers[k].session = s
        /\ x \in DOMAIN messages /\ messages[x].session = s
        /\ Covers(markers[k], messages[x].session, messages[x].id)
    BY <1>6, <1>11, SummaryTells DEF h, m
  <2>5. /\ l \in DOMAIN markers /\ markers[l].session = s
        /\ y \in Of(s) /\ markers[l].from <= messages[y].id
    BY <1>6, <1>11, SummaryTells DEF h, m
  <2> HIDE DEF k, l
  <2>6. markers[k].to <= markers[l].from
    BY <2>3, <2>4, <2>5 DEF Inv, MarkersSound, Apart
  <2>7. markers[k] \in Marker /\ markers[l] \in Marker /\ messages[y] \in Message
    BY <2>4, <2>5, <1>1, MarkersAre, OfIs
  <2>8. markers[k].to <= messages[y].id
    BY <2>5, <2>6, <2>7 DEF Marker, Message
  <2> QED BY <2>4, <2>5, <2>8, HiddenIsBefore
<1> QED BY <1>5, <1>8, <1>9, <1>10, <1>11

-----------------------------------------------------------------------------
(* Sorting.                                                                 *)

LEMMA PriorityIs ==
  ASSUME NEW section \in SectionType
  PROVE  Priority(section) \in Nat
BY DEF SectionType, Priority

\* A stable sort leaves every section in, and puts them in the order it says.
LEMMA StableOrderIs ==
  ASSUME NEW input \in Seq(SectionType)
  PROVE  /\ \A n \in DOMAIN input : StableOrder(input)[n] \in DOMAIN input
         /\ \A u \in DOMAIN input : \E n \in DOMAIN input : StableOrder(input)[n] = u
         /\ \A m, n \in DOMAIN input : m < n =>
              /\ StableOrder(input)[m] # StableOrder(input)[n]
              /\ Before(input, StableOrder(input)[m], StableOrder(input)[n])
<1> DEFINE D     == DOMAIN input
           R     == {p \in D \X D : Before(input, p[1], p[2])}
           order == StableOrder(input)
<1>1. D = 1 .. Len(input) /\ Len(input) \in Nat
  BY LenProperties
<1>2. IsFiniteSet(D) /\ Cardinality(D) = Len(input)
  <2>1. Cardinality(1 .. Len(input)) = IF 1 > Len(input) THEN 0 ELSE Len(input) - 1 + 1
    BY <1>1, FS_Interval
  <2>2. Cardinality(D) = Len(input)
    BY <2>1, <1>1
  <2> QED BY <2>2, <1>1, FS_Interval
<1>3. \A i \in D : Priority(input[i]) \in Nat /\ i \in Nat
  BY <1>1, ElementOfSeq, PriorityIs
<1>4. \A i, j \in D : <<i, j>> \in R <=> Before(input, i, j)
  OBVIOUS
<1>5. \A i \in D : UpTo(R, D, i) = {j \in D : Before(input, j, i)}
  BY <1>4 DEF UpTo
<1> HIDE DEF R, D
<1>6. Lines(R, D)
  BY <1>3, <1>4 DEF Lines, Before
<1>7. {Cardinality(UpTo(R, D, i)) : i \in D} = 1 .. Cardinality(D)
  BY <1>2, <1>6, RankedOnto
<1>8. D = 1 .. Cardinality(D)
  BY <1>1, <1>2
<1>9. ASSUME NEW n \in D
      PROVE  order[n] \in D /\ Cardinality(UpTo(R, D, order[n])) = n
  <2>1. PICK i \in D : Cardinality(UpTo(R, D, i)) = n
    BY <1>7, <1>8
  <2>2. Cardinality({j \in D : Before(input, j, i)}) = n
    BY <2>1, <1>5
  <2>3. order[n] = CHOOSE k \in D : Cardinality({j \in D : Before(input, j, k)}) = n
    BY DEF StableOrder, D
  <2>4. order[n] \in D /\ Cardinality({j \in D : Before(input, j, order[n])}) = n
    BY <2>2, <2>3
  <2> QED BY <2>4, <1>5
<1> HIDE DEF order
<1>10. ASSUME NEW m \in D, NEW n \in D, m < n
       PROVE  order[m] # order[n] /\ Before(input, order[m], order[n])
  <2>1. m \in Nat /\ n \in Nat
    BY <1>3
  <2>2. order[m] # order[n]
    BY <2>1, <1>9, <1>10
  <2>3. CASE <<order[n], order[m]>> \in R
    <3>1. Cardinality(UpTo(R, D, order[n])) < Cardinality(UpTo(R, D, order[m]))
      BY <2>2, <2>3, <1>2, <1>6, <1>9, Ranking
    <3> QED BY <3>1, <2>1, <1>9, <1>10
  <2>4. CASE <<order[m], order[n]>> \in R
    BY <2>2, <2>4, <1>4, <1>9
  <2> QED BY <2>3, <2>4, <1>6, <1>9 DEF Lines
<1>11. ASSUME NEW u \in D
       PROVE  \E n \in D : order[n] = u
  <2>1. PICK n \in D : n = Cardinality(UpTo(R, D, u))
    BY <1>7, <1>8
  <2>2. order[n] \in D /\ Cardinality(UpTo(R, D, order[n])) = Cardinality(UpTo(R, D, u))
    BY <2>1, <1>9
  <2>3. n \in Nat
    BY <1>3
  <2>4. order[n] = u
    <3>1. ASSUME order[n] # u, <<order[n], u>> \in R
          PROVE  FALSE
      <4>1. Cardinality(UpTo(R, D, order[n])) < Cardinality(UpTo(R, D, u))
        BY <3>1, <2>2, <1>2, <1>6, Ranking
      <4> QED BY <4>1, <2>1, <2>2, <2>3
    <3>2. ASSUME order[n] # u, <<u, order[n]>> \in R
          PROVE  FALSE
      <4>1. Cardinality(UpTo(R, D, u)) < Cardinality(UpTo(R, D, order[n]))
        BY <3>2, <2>2, <1>2, <1>6, Ranking
      <4> QED BY <4>1, <2>1, <2>2, <2>3
    <3> QED BY <3>1, <3>2, <2>2, <1>6 DEF Lines
  <2> QED BY <2>4
<1> QED BY <1>9, <1>10, <1>11 DEF D, order

\* Up to InsertionMax sections, the sort is the stable one.
LEMMA SortedIs ==
  ASSUME NEW input \in Seq(SectionType), Len(input) <= InsertionMax,
         NEW sorted \in Sorted(input)
  PROVE  /\ sorted \in Seq(SectionType) /\ Len(sorted) = Len(input)
         /\ DOMAIN sorted = DOMAIN input
         /\ \A n \in DOMAIN input : sorted[n] = input[StableOrder(input)[n]]
<1>1. Orders(input) = {StableOrder(input)}
  BY DEF Orders
<1>2. sorted = [n \in DOMAIN input |-> input[StableOrder(input)[n]]]
  BY <1>1 DEF Sorted
<1>3. DOMAIN input = 1 .. Len(input) /\ Len(input) \in Nat
  BY LenProperties
<1>4. \A n \in DOMAIN input : input[StableOrder(input)[n]] \in SectionType
  BY <1>3, StableOrderIs, ElementOfSeq
<1>5. sorted \in [1 .. Len(input) -> SectionType]
  BY <1>2, <1>3, <1>4
<1>6. sorted \in Seq(SectionType) /\ Len(sorted) = Len(input)
  BY <1>3, <1>5
<1> QED BY <1>2, <1>6

Spoken(sorted, budget) == {k \in Kept(sorted, budget) : sorted[k].kind # "prompt"}

LEMMA ConversationIs ==
  ASSUME NEW sorted \in Seq(SectionType), NEW budget
  PROVE  LET P == Spoken(sorted, budget)
             c == Conversation(sorted, budget)
         IN /\ P \in SUBSET (DOMAIN sorted) /\ P \in SUBSET Nat /\ IsFiniteSet(P)
            /\ c \in Seq(SectionType) /\ Len(c) = Cardinality(P) /\ Cardinality(P) \in Nat
            /\ DOMAIN c = 1 .. Cardinality(P)
            /\ \A n \in 1 .. Cardinality(P) : Nth(n, P) \in P /\ c[n] = sorted[Nth(n, P)]
<1> DEFINE P == Spoken(sorted, budget)
<1>1. P \in SUBSET (DOMAIN sorted)
  BY DEF Spoken, Kept
<1>2. /\ DOMAIN sorted = 1 .. Len(sorted) /\ Len(sorted) \in Nat
      /\ sorted \in [DOMAIN sorted -> SectionType]
  BY LenProperties
<1>3. P \in SUBSET Nat /\ IsFiniteSet(P)
  <2>1. IsFiniteSet(1 .. Len(sorted))
    <3>1. 1 \in Int /\ Len(sorted) \in Int
      BY <1>2
    <3> QED BY <3>1, FS_Interval
  <2> QED BY <2>1, <1>1, <1>2, FS_Subset
<1>4. Conversation(sorted, budget) = Pick(sorted, P)
  BY DEF Conversation, Spoken
<1> HIDE DEF P
<1> QED BY <1>1, <1>2, <1>3, <1>4, PickIs DEF P

\* What the prompts tell, they tell in order, whatever was left out.
LEMMA PromptTellsInOrder ==
  ASSUME Padded, Inv, NEW s, Of(s) # {}, Len(Sections(s)) <= InsertionMax,
         NEW sorted \in Sorted(Sections(s)), NEW budget,
         NEW j \in DOMAIN Conversation(sorted, budget),
         NEW k \in DOMAIN Conversation(sorted, budget), j < k,
         NEW x \in Tells(Conversation(sorted, budget)[j]),
         NEW y \in Tells(Conversation(sorted, budget)[k])
  PROVE  x < y
<1> DEFINE input == Sections(s)
           order == StableOrder(input)
           P     == Spoken(sorted, budget)
           a     == Nth(j, P)
           b     == Nth(k, P)
<1>1. input \in Seq(SectionType)
  BY SectionsAre DEF Inv
<1>2. /\ sorted \in Seq(SectionType) /\ DOMAIN sorted = DOMAIN input
      /\ \A n \in DOMAIN input : sorted[n] = input[order[n]]
  BY <1>1, SortedIs
<1> HIDE DEF input
<1>3. /\ P \in SUBSET (DOMAIN sorted) /\ P \in SUBSET Nat /\ IsFiniteSet(P)
      /\ j \in 1 .. Cardinality(P) /\ k \in 1 .. Cardinality(P)
      /\ \A n \in 1 .. Cardinality(P) :
           Nth(n, P) \in P /\ Conversation(sorted, budget)[n] = sorted[Nth(n, P)]
  BY <1>2, ConversationIs
<1>4. a < b
  BY <1>3, NthIs
<1>5. /\ a \in DOMAIN input /\ sorted[a].kind # "prompt"
      /\ b \in DOMAIN input /\ sorted[b].kind # "prompt"
  BY <1>2, <1>3 DEF Spoken
<1>6. x \in Tells(sorted[a]) /\ y \in Tells(sorted[b])
  BY <1>3
<1> HIDE DEF a, b
<1>7. /\ order[a] \in DOMAIN input /\ order[b] \in DOMAIN input /\ order[a] # order[b]
      /\ Before(input, order[a], order[b])
  BY <1>1, <1>4, <1>5, StableOrderIs
<1>8. /\ input[order[a]].kind # "prompt" /\ x \in Tells(input[order[a]])
      /\ input[order[b]].kind # "prompt" /\ y \in Tells(input[order[b]])
  BY <1>2, <1>5, <1>6
<1> QED BY <1>7, <1>8, SortedTellsInOrder DEF input

-----------------------------------------------------------------------------
(* Budgets.                                                                 *)

LEMMA Least ==
  ASSUME NEW T \in SUBSET Nat, T # {}
  PROVE  \E m \in T : \A n \in T : ~(n < m)
<1>1. PICK m \in T : \A n \in T : <<n, m>> \notin OpToRel(<, Nat)
  BY NatLessThanWellFounded, WFMin
<1> QED BY <1>1 DEF OpToRel

\* What each number up to n passes on to the next holds of all of them.
LEMMA Climb ==
  ASSUME NEW n \in Nat, NEW G, 0 \in G, \A k \in 1 .. n : k - 1 \in G => k \in G
  PROVE  0 .. n \subseteq G
<1> DEFINE T == {k \in 0 .. n : k \notin G}
<1> SUFFICES ASSUME T # {}
             PROVE  FALSE
  OBVIOUS
<1>1. PICK m \in T : \A k \in T : ~(k < m)
  <2>1. T \in SUBSET Nat
    OBVIOUS
  <2> HIDE DEF T
  <2> QED BY <2>1, Least
<1>2. m \in 1 .. n /\ m - 1 \in 0 .. n /\ m - 1 < m
  OBVIOUS
<1>3. m - 1 \in G
  BY <1>1, <1>2
<1> QED BY <1>2, <1>3

\* A function on the numbers up to n can be given step by step.
Follows(f, next, n) ==
  /\ f \in [0 .. n -> Nat]
  /\ f[0] = 0
  /\ \A k \in 1 .. n : f[k] = next[<<k, f[k - 1]>>]

LEMMA Recursion ==
  ASSUME NEW N \in Nat, NEW next \in [(1 .. N) \X Nat -> Nat]
  PROVE  \E f : Follows(f, next, N)
<1> DEFINE T == {n \in 0 .. N : ~ \E f : Follows(f, next, n)}
<1> SUFFICES ASSUME T # {}
             PROVE  FALSE
  OBVIOUS
<1>1. PICK m \in T : \A n \in T : ~(n < m)
  <2>1. T \in SUBSET Nat
    OBVIOUS
  <2> HIDE DEF T
  <2> QED BY <2>1, Least
<1>2. m \in 0 .. N /\ ~ \E f : Follows(f, next, m)
  OBVIOUS
<1>3. m # 0
  <2>1. Follows([k \in 0 .. 0 |-> 0], next, 0)
    BY DEF Follows
  <2> QED BY <2>1, <1>2
<1>4. m \in 1 .. N /\ m - 1 \in 0 .. N /\ m - 1 < m /\ m \in Nat
  BY <1>2, <1>3
<1>5. PICK f : Follows(f, next, m - 1)
  BY <1>1, <1>4
<1> DEFINE g == [k \in 0 .. m |-> IF k = m THEN next[<<m, f[m - 1]>>] ELSE f[k]]
<1>6. f[m - 1] \in Nat
  BY <1>4, <1>5 DEF Follows
<1>7. next[<<m, f[m - 1]>>] \in Nat
  BY <1>4, <1>6
<1>8. g \in [0 .. m -> Nat] /\ g[0] = 0
  BY <1>4, <1>5, <1>7 DEF Follows
<1>9. ASSUME NEW k \in 1 .. m
      PROVE  g[k] = next[<<k, g[k - 1]>>]
  <2>1. g[k - 1] = f[k - 1]
    BY <1>4
  <2>2. CASE k = m
    <3>1. g[m] = next[<<m, f[m - 1]>>]
      BY <1>4
    <3>2. g[m - 1] = f[m - 1]
      BY <2>1, <2>2
    <3> HIDE DEF g
    <3> QED BY <2>2, <3>1, <3>2
  <2>3. CASE k # m
    <3>1. k \in 1 .. m - 1 /\ k \in 0 .. m
      BY <2>3, <1>4
    <3>2. f[k] = next[<<k, f[k - 1]>>]
      BY <3>1, <1>5 DEF Follows
    <3> QED BY <2>1, <2>3, <3>1, <3>2
  <2> QED BY <2>2, <2>3
<1> HIDE DEF g
<1>10. Follows(g, next, m)
  BY <1>8, <1>9 DEF Follows
<1> QED BY <1>2, <1>10

LEMMA SizesAre ==
  ASSUME NEW sorted \in Seq(SectionType)
  PROVE  /\ Len(sorted) \in Nat /\ DOMAIN sorted = 1 .. Len(sorted)
         /\ \A k \in 1 .. Len(sorted) : sorted[k] \in SectionType /\ sorted[k].size \in Nat
<1>1. Len(sorted) \in Nat /\ DOMAIN sorted = 1 .. Len(sorted)
  BY LenProperties
<1>2. \A k \in 1 .. Len(sorted) : sorted[k] \in SectionType
  BY ElementOfSeq
<1> QED BY <1>1, <1>2 DEF SectionType

\* What fit does with a section when u tokens are in use.
Fitted(sorted, budget, k, u) ==
  u + (IF u + sorted[k].size <= budget THEN sorted[k].size ELSE 0)

LEMMA UsedIs ==
  ASSUME NEW sorted \in Seq(SectionType), NEW budget \in Nat
  PROVE  LET used == Used(sorted, budget) IN
         /\ used[0] = 0
         /\ \A k \in 0 .. Len(sorted) : used[k] \in Nat
         /\ \A k \in 1 .. Len(sorted) : used[k] = Fitted(sorted, budget, k, used[k - 1])
<1> DEFINE N == Len(sorted)
           Step(g) == [k \in 0 .. N |-> IF k = 0 THEN 0
                         ELSE g[k - 1] + (IF g[k - 1] + sorted[k].size <= budget
                                          THEN sorted[k].size ELSE 0)]
           next == [p \in (1 .. N) \X Nat |-> Fitted(sorted, budget, p[1], p[2])]
           used == Used(sorted, budget)
<1>1. N \in Nat /\ \A k \in 1 .. N : sorted[k].size \in Nat
  BY SizesAre
<1>2. used = CHOOSE g : g = Step(g)
  BY DEF Used
<1> HIDE DEF N
<1>3. next \in [(1 .. N) \X Nat -> Nat]
  BY <1>1 DEF Fitted
<1>4. \A k \in 1 .. N : \A u \in Nat : next[<<k, u>>] = Fitted(sorted, budget, k, u)
  OBVIOUS
<1> HIDE DEF next
<1>5. PICK f : Follows(f, next, N)
  BY <1>1, <1>3, Recursion
<1>6. f = Step(f)
  <2>1. \A k \in 1 .. N : f[k] = Fitted(sorted, budget, k, f[k - 1])
    <3>1. \A k \in 1 .. N : k - 1 \in 0 .. N
      BY <1>1
    <3>2. \A k \in 1 .. N : f[k - 1] \in Nat
      BY <3>1, <1>5 DEF Follows
    <3> QED BY <3>2, <1>4, <1>5 DEF Follows
  <2>2. \A k \in 0 .. N : f[k] = Step(f)[k]
    BY <2>1, <1>1, <1>5 DEF Follows, Fitted
  <2>3. f = [k \in 0 .. N |-> f[k]]
    BY <1>5 DEF Follows
  <2> QED BY <2>2, <2>3
<1>7. used = Step(used)
  BY <1>2, <1>6
<1> HIDE DEF used
<1>8. used[0] = 0 /\ \A k \in 1 .. N : used[k] = Fitted(sorted, budget, k, used[k - 1])
  BY <1>1, <1>7 DEF Fitted
<1>9. \A k \in 0 .. N : used[k] \in Nat
  <2> DEFINE G == {k \in 0 .. N : used[k] \in Nat}
  <2>1. 0 \in G
    BY <1>1, <1>8
  <2>2. ASSUME NEW k \in 1 .. N, k - 1 \in G
        PROVE  k \in G
    <3>1. used[k] = Fitted(sorted, budget, k, used[k - 1])
      BY <1>8
    <3>2. used[k - 1] \in Nat /\ sorted[k].size \in Nat
      BY <2>2, <1>1
    <3>3. used[k] \in Nat
      BY <3>1, <3>2 DEF Fitted
    <3> QED BY <3>3, <1>1
  <2> HIDE DEF G
  <2>3. 0 .. N \subseteq G
    BY <2>1, <2>2, <1>1, Climb
  <2> QED BY <2>3 DEF G
<1> QED BY <1>8, <1>9 DEF used, N

LEMMA TotalIs ==
  ASSUME NEW sorted \in Seq(SectionType)
  PROVE  \E sum \in [0 .. Len(sorted) -> Nat] :
           /\ sum[0] = 0 /\ sum[Len(sorted)] = Total(sorted)
           /\ \A k \in 1 .. Len(sorted) : sum[k] = sum[k - 1] + sorted[k].size
<1> DEFINE N == Len(sorted)
           Step(g) == [k \in 0 .. N |-> IF k = 0 THEN 0 ELSE g[k - 1] + sorted[k].size]
           next == [p \in (1 .. N) \X Nat |-> p[2] + sorted[p[1]].size]
           sum  == CHOOSE g : g = Step(g)
<1>1. N \in Nat /\ \A k \in 1 .. N : sorted[k].size \in Nat
  BY SizesAre
<1>2. Total(sorted) = sum[N]
  BY DEF Total
<1> HIDE DEF N
<1>3. next \in [(1 .. N) \X Nat -> Nat]
  BY <1>1
<1>4. \A k \in 1 .. N : \A u \in Nat : next[<<k, u>>] = u + sorted[k].size
  OBVIOUS
<1> HIDE DEF next
<1>5. PICK f : Follows(f, next, N)
  BY <1>1, <1>3, Recursion
<1>6. f = Step(f)
  <2>1. \A k \in 1 .. N : k - 1 \in 0 .. N
    BY <1>1
  <2>2. \A k \in 1 .. N : f[k] = f[k - 1] + sorted[k].size
    BY <2>1, <1>4, <1>5 DEF Follows
  <2>3. \A k \in 0 .. N : f[k] = Step(f)[k]
    BY <2>2, <1>1, <1>5 DEF Follows
  <2>4. f = [k \in 0 .. N |-> f[k]]
    BY <1>5 DEF Follows
  <2> QED BY <2>3, <2>4
<1>7. sum = Step(sum)
  BY <1>6
<1> HIDE DEF sum
<1>8. sum[0] = 0 /\ \A k \in 1 .. N : sum[k] = sum[k - 1] + sorted[k].size
  BY <1>1, <1>7
<1>9. \A k \in 0 .. N : sum[k] \in Nat
  <2> DEFINE G == {k \in 0 .. N : sum[k] \in Nat}
  <2>1. 0 \in G
    BY <1>1, <1>8
  <2>2. ASSUME NEW k \in 1 .. N, k - 1 \in G
        PROVE  k \in G
    <3>1. sum[k - 1] \in Nat /\ sorted[k].size \in Nat /\ k \in 0 .. N
      BY <2>2, <1>1
    <3>2. sum[k] = sum[k - 1] + sorted[k].size
      BY <1>8
    <3> QED BY <3>1, <3>2
  <2> HIDE DEF G
  <2>3. 0 .. N \subseteq G
    BY <2>1, <2>2, <1>1, Climb
  <2> QED BY <2>3 DEF G
<1>10. sum \in [0 .. N -> Nat]
  <2>1. sum = [k \in 0 .. N |-> sum[k]]
    <3>1. DOMAIN Step(sum) = 0 .. N
      OBVIOUS
    <3> QED BY <3>1, <1>7
  <2> QED BY <2>1, <1>9
<1> QED BY <1>2, <1>8, <1>10 DEF N

(* fit never lets the tokens in use exceed the budget, and leaves nothing    *)
(* out if there is room for everything.                                     *)
THEOREM FitKeepsToBudget ==
  ASSUME NEW sorted \in Seq(SectionType), NEW budget \in Nat
  PROVE  /\ Used(sorted, budget)[Len(sorted)] <= budget
         /\ budget >= Total(sorted) => Kept(sorted, budget) = DOMAIN sorted
<1> DEFINE N    == Len(sorted)
           used == Used(sorted, budget)
<1>1. N \in Nat /\ DOMAIN sorted = 1 .. N /\ \A k \in 1 .. N : sorted[k].size \in Nat
  BY SizesAre
<1>2. /\ used[0] = 0 /\ \A k \in 0 .. N : used[k] \in Nat
      /\ \A k \in 1 .. N : used[k] = Fitted(sorted, budget, k, used[k - 1])
  BY UsedIs
<1>3. PICK sum \in [0 .. N -> Nat] :
        /\ sum[0] = 0 /\ sum[N] = Total(sorted)
        /\ \A k \in 1 .. N : sum[k] = sum[k - 1] + sorted[k].size
  BY TotalIs
<1>4. Kept(sorted, budget) = {k \in DOMAIN sorted : used[k - 1] + sorted[k].size <= budget}
  BY DEF Kept
<1> HIDE DEF N, used
<1>5. \A k \in 1 .. N : k - 1 \in 0 .. N /\ k \in 0 .. N
  BY <1>1
<1>6. used[N] <= budget
  <2> DEFINE G == {k \in 0 .. N : used[k] <= budget}
  <2>1. 0 \in G
    BY <1>1, <1>2
  <2>2. ASSUME NEW k \in 1 .. N, k - 1 \in G
        PROVE  k \in G
    <3>1. used[k] = Fitted(sorted, budget, k, used[k - 1])
      BY <1>2
    <3>2. used[k - 1] \in Nat /\ used[k - 1] <= budget /\ sorted[k].size \in Nat
      BY <2>2, <1>1, <1>2, <1>5
    <3>3. used[k] <= budget
      BY <3>1, <3>2 DEF Fitted
    <3> QED BY <3>3, <1>5
  <2> HIDE DEF G
  <2>3. 0 .. N \subseteq G
    BY <2>1, <2>2, <1>1, Climb
  <2> QED BY <2>3, <1>1 DEF G
<1>7. \A k \in 0 .. N : used[k] <= sum[k]
  <2> DEFINE G == {k \in 0 .. N : used[k] <= sum[k]}
  <2>1. 0 \in G
    BY <1>1, <1>2, <1>3
  <2>2. ASSUME NEW k \in 1 .. N, k - 1 \in G
        PROVE  k \in G
    <3>1. /\ used[k] = Fitted(sorted, budget, k, used[k - 1])
          /\ sum[k] = sum[k - 1] + sorted[k].size
      BY <1>2, <1>3
    <3>2. /\ used[k - 1] \in Nat /\ sum[k - 1] \in Nat /\ sorted[k].size \in Nat
          /\ used[k - 1] <= sum[k - 1]
      BY <2>2, <1>1, <1>2, <1>3, <1>5
    <3> QED BY <3>1, <3>2, <1>5 DEF Fitted
  <2> HIDE DEF G
  <2>3. 0 .. N \subseteq G
    BY <2>1, <2>2, <1>1, Climb
  <2> QED BY <2>3 DEF G
<1>8. \A k \in 0 .. N : sum[k] <= sum[N]
  <2> DEFINE G == {n \in 0 .. N : \A k \in 0 .. n : sum[k] <= sum[n]}
  <2>1. 0 \in G
    BY <1>1, <1>3
  <2>2. ASSUME NEW n \in 1 .. N, n - 1 \in G
        PROVE  n \in G
    <3>1. /\ sum[n] = sum[n - 1] + sorted[n].size /\ sorted[n].size \in Nat
          /\ sum[n - 1] \in Nat /\ n \in 0 .. N
      BY <1>1, <1>3, <1>5
    <3>2. ASSUME NEW k \in 0 .. n
          PROVE  sum[k] <= sum[n]
      <4>1. CASE k = n
        BY <4>1, <3>1
      <4>2. CASE k # n
        <5>1. k \in 0 .. n - 1 /\ k \in 0 .. N
          BY <4>2, <1>1
        <5>2. sum[k] <= sum[n - 1] /\ sum[k] \in Nat
          BY <5>1, <2>2, <1>3
        <5> QED BY <5>2, <3>1
      <4> QED BY <4>1, <4>2
    <3> QED BY <3>1, <3>2
  <2> HIDE DEF G
  <2>3. 0 .. N \subseteq G
    BY <2>1, <2>2, <1>1, Climb
  <2>4. N \in G
    BY <2>3, <1>1
  <2> QED BY <2>4 DEF G
<1>9. ASSUME budget >= Total(sorted), NEW k \in 1 .. N
      PROVE  used[k - 1] + sorted[k].size <= budget
  <2>1. /\ used[k - 1] <= sum[k - 1] /\ sum[k] <= sum[N]
        /\ sum[k] = sum[k - 1] + sorted[k].size
    BY <1>3, <1>5, <1>7, <1>8
  <2>2. /\ used[k - 1] \in Nat /\ sum[k - 1] \in Nat /\ sorted[k].size \in Nat
        /\ sum[N] \in Nat /\ sum[N] <= budget
    BY <1>1, <1>2, <1>3, <1>5, <1>9
  <2> QED BY <2>1, <2>2
<1>10. budget >= Total(sorted) => Kept(sorted, budget) = DOMAIN sorted
  BY <1>1, <1>4, <1>9
<1> QED BY <1>6, <1>10 DEF used, N

-----------------------------------------------------------------------------
(* Prompts.                                                                 *)

\* Each marker of a session hides a message that no other marker hides.
LEMMA FewSections ==
  ASSUME Padded, Inv, NEW s
  PROVE  VisibleCount(s) + MarkerCount(s) <= Len(messages)
<1> USE DEF Inv
<1> DEFINE hidden == Of(s) \ Visible(s)
           f == [k \in MarkersOf(s) |->
                   CHOOSE p \in hidden : messages[p].id = markers[k].from]
<1>1. ASSUME NEW k \in MarkersOf(s)
      PROVE  \E p \in hidden : messages[p].id = markers[k].from
  <2>1. k \in DOMAIN markers /\ markers[k].session = s /\ markers[k] \in Marker
    BY MarkersAre DEF MarkersOf
  <2>2. PICK p \in Of(s), q \in Of(s) :
          /\ messages[p].id = markers[k].from /\ messages[q].id = markers[k].to /\ p < q
    BY <2>1 DEF MarkersSound, Sound, Spans
  <2>3. messages[p].id < messages[q].id
    BY <2>2, IdOrder
  <2>4. p \in DOMAIN messages /\ messages[p].session = s /\ messages[p] \in Message
    BY OfIs DEF Of
  <2>5. Covers(markers[k], messages[p].session, messages[p].id)
    BY <2>1, <2>2, <2>3, <2>4, CoversIs DEF Message
  <2>6. p \in hidden
    BY <2>1, <2>5 DEF Visible, Hidden
  <2> QED BY <2>2, <2>6
<1>2. \A k \in MarkersOf(s) : f[k] \in hidden /\ messages[f[k]].id = markers[k].from
  BY <1>1
<1>3. ASSUME NEW k \in MarkersOf(s), NEW l \in MarkersOf(s), f[k] = f[l]
      PROVE  k = l
  <2>1. markers[k].from = markers[l].from
    BY <1>2, <1>3
  <2>2. /\ k \in DOMAIN markers /\ l \in DOMAIN markers /\ k \in Nat /\ l \in Nat
        /\ markers[k] \in Marker /\ markers[l] \in Marker
        /\ markers[k].session = markers[l].session
    BY MarkersAre DEF MarkersOf
  <2>3. ASSUME NEW i \in DOMAIN markers
        PROVE  markers[i].from < markers[i].to
    <3>1. PICK p \in Of(markers[i].session), q \in Of(markers[i].session) :
            /\ messages[p].id = markers[i].from /\ messages[q].id = markers[i].to /\ p < q
      BY DEF MarkersSound, Sound, Spans
    <3> QED BY <3>1, IdOrder
  <2>4. /\ k < l => markers[k].to <= markers[l].from
        /\ l < k => markers[l].to <= markers[k].from
    BY <2>2 DEF MarkersSound, Apart
  <2>5. markers[k].from < markers[k].to /\ markers[l].from < markers[l].to
    BY <2>2, <2>3
  <2>6. /\ markers[k].from \in Nat /\ markers[k].to \in Nat
        /\ markers[l].from \in Nat /\ markers[l].to \in Nat
    BY <2>2 DEF Marker
  <2> QED BY <2>1, <2>2, <2>4, <2>5, <2>6
<1>4. f \in Injection(MarkersOf(s), hidden)
  <2>1. f \in [MarkersOf(s) -> hidden]
    BY <1>2
  <2> QED BY <2>1, <1>3 DEF Injection, IsInjective
<1>5. /\ IsFiniteSet(hidden)
      /\ Cardinality(hidden) = Cardinality(Of(s)) - Cardinality(Visible(s))
  <2>1. Of(s) \cap Visible(s) = Visible(s) /\ IsFiniteSet(Of(s))
    BY VisibleIs, OfIs
  <2> QED BY <2>1, FS_Difference
<1> HIDE DEF f, hidden
<1>6. Cardinality(MarkersOf(s)) <= Cardinality(hidden)
  BY <1>4, <1>5, FS_Injection
<1>7. /\ Cardinality(Of(s)) \in Nat /\ Cardinality(Of(s)) <= Len(messages)
      /\ Len(messages) \in Nat
      /\ Cardinality(Visible(s)) \in Nat /\ Cardinality(MarkersOf(s)) \in Nat
  BY OfIs, VisibleIs DEF VisibleCount, MarkerCount
<1> QED BY <1>5, <1>6, <1>7 DEF VisibleCount, MarkerCount

\* The sections other than the prompt tell the messages of the session.
LEMMA SectionsTellAll ==
  ASSUME Padded, Inv, NEW s, Of(s) # {}, NEW i
  PROVE  (i \in Of(s) /\ ~messages[i].beat)
           <=> \E u \in DOMAIN Sections(s) :
                 Sections(s)[u].kind # "prompt" /\ i \in Tells(Sections(s)[u])
<1> DEFINE h == VisibleCount(s)
           m == MarkerCount(s)
<1>1. TypeOK /\ h \in Nat /\ m \in Nat
  BY VisibleIs DEF Inv
<1>2. DOMAIN Sections(s) = 1 .. h + m + 1 /\ Sections(s)[h + m + 1].kind = "prompt"
  BY <1>1, SectionsAre, LenProperties
<1>3. /\ \A n \in 1 .. h : /\ n \in DOMAIN Sections(s)
                           /\ Sections(s)[n].kind = "history"
                           /\ Sections(s)[n].lists = {Nth(n, Visible(s))}
      /\ \A n \in 1 .. m : /\ h + n \in DOMAIN Sections(s)
                           /\ Sections(s)[h + n].kind = "summary"
                           /\ Sections(s)[h + n].lists = markers[Nth(n, MarkersOf(s))].lists
  <2>1. \A n \in 1 .. h : n \in DOMAIN Sections(s)
    BY <1>1, <1>2
  <2>2. \A n \in 1 .. m : h + n \in DOMAIN Sections(s)
    BY <1>1, <1>2
  <2> QED BY <2>1, <2>2, <1>1, SectionsAre
<1> HIDE DEF h, m
<1>4. ASSUME NEW u \in DOMAIN Sections(s), Sections(s)[u].kind # "prompt",
             i \in Tells(Sections(s)[u])
      PROVE  i \in Of(s) /\ ~messages[i].beat
  <2>1. ~messages[i].beat
    BY <1>4 DEF Tells
  <2>2. u # h + m + 1
    BY <1>2, <1>4
  <2>3. u \in 1 .. h \/ (u - h \in 1 .. m /\ h + (u - h) = u)
    BY <2>2, <1>1, <1>2
  <2>4. CASE u \in 1 .. h
    BY <2>1, <2>4, <1>1, <1>4, HistoryTells DEF h
  <2>5. CASE u - h \in 1 .. m /\ h + (u - h) = u
    BY <2>1, <2>5, <1>4, SummaryTells DEF h, m
  <2> QED BY <2>3, <2>4, <2>5
<1>5. ASSUME i \in Of(s), ~messages[i].beat, ~Hidden(i)
      PROVE  \E u \in DOMAIN Sections(s) :
               Sections(s)[u].kind # "prompt" /\ i \in Tells(Sections(s)[u])
  <2>1. i \in Visible(s)
    BY <1>5 DEF Visible
  <2>2. PICK n \in 1 .. h : Nth(n, Visible(s)) = i
    BY <2>1, <1>1, VisibleIs, NthIs DEF h, VisibleCount
  <2>3. /\ n \in DOMAIN Sections(s) /\ Sections(s)[n].kind = "history"
        /\ Sections(s)[n].lists = {i}
    BY <2>2, <1>3
  <2>4. i \in Tells(Sections(s)[n])
    BY <2>3, <1>5 DEF Tells
  <2> QED BY <2>3, <2>4
<1>6. ASSUME i \in Of(s), ~messages[i].beat, Hidden(i)
      PROVE  \E u \in DOMAIN Sections(s) :
               Sections(s)[u].kind # "prompt" /\ i \in Tells(Sections(s)[u])
  <2>1. PICK k \in DOMAIN markers : Covers(markers[k], messages[i].session, messages[i].id)
    BY <1>6 DEF Hidden
  <2>2. i \in DOMAIN messages /\ messages[i].session = s
    BY <1>6 DEF Of
  <2>3. k \in MarkersOf(s) /\ i \in markers[k].lists
    BY <2>1, <2>2, <1>6 DEF Covers, MarkersOf, Inv, MarkersSound, Sound, Covered
  <2>4. PICK n \in 1 .. m : Nth(n, MarkersOf(s)) = k
    BY <2>3, <1>1, VisibleIs, NthIs DEF m, MarkerCount
  <2>5. /\ h + n \in DOMAIN Sections(s) /\ Sections(s)[h + n].kind = "summary"
        /\ Sections(s)[h + n].lists = markers[k].lists
    BY <2>4, <1>3
  <2>6. i \in Tells(Sections(s)[h + n])
    BY <2>3, <2>5, <1>6 DEF Tells
  <2> QED BY <2>5, <2>6
<1> QED BY <1>4, <1>5, <1>6

\* With room for everything, a prompt tells the whole session.
LEMMA PromptTellsAll ==
  ASSUME Padded, Inv, NEW s, Of(s) # {}, Len(Sections(s)) <= InsertionMax,
         NEW sorted \in Sorted(Sections(s)), NEW budget \in Nat, budget >= Total(sorted)
  PROVE  LET c == Conversation(sorted, budget) IN
         UNION {Tells(c[k]) : k \in DOMAIN c} = {i \in Of(s) : ~messages[i].beat}
<1> DEFINE input == Sections(s)
           order == StableOrder(input)
           P     == Spoken(sorted, budget)
           c     == Conversation(sorted, budget)
<1>1. input \in Seq(SectionType)
  BY SectionsAre DEF Inv
<1>2. /\ sorted \in Seq(SectionType) /\ DOMAIN sorted = DOMAIN input
      /\ \A n \in DOMAIN input : sorted[n] = input[order[n]]
  BY <1>1, SortedIs
<1>3. P = {n \in DOMAIN sorted : sorted[n].kind # "prompt"}
  BY <1>2, FitKeepsToBudget DEF Spoken
<1>4. /\ P \in SUBSET Nat /\ IsFiniteSet(P) /\ DOMAIN c = 1 .. Cardinality(P)
      /\ \A k \in 1 .. Cardinality(P) : Nth(k, P) \in P /\ c[k] = sorted[Nth(k, P)]
  BY <1>2, ConversationIs
<1>5. /\ \A n \in DOMAIN input : order[n] \in DOMAIN input
      /\ \A u \in DOMAIN input : \E n \in DOMAIN input : order[n] = u
  BY <1>1, StableOrderIs
<1>6. \A i : (i \in Of(s) /\ ~messages[i].beat)
               <=> \E u \in DOMAIN input : input[u].kind # "prompt" /\ i \in Tells(input[u])
  BY SectionsTellAll
<1> HIDE DEF input, order, P, c
<1>7. ASSUME NEW k \in DOMAIN c, NEW i \in Tells(c[k])
      PROVE  i \in Of(s) /\ ~messages[i].beat
  <2> DEFINE n == Nth(k, P)
  <2>1. n \in P /\ c[k] = sorted[n]
    BY <1>4
  <2> HIDE DEF n
  <2>2. /\ order[n] \in DOMAIN input /\ input[order[n]].kind # "prompt"
        /\ i \in Tells(input[order[n]])
    BY <2>1, <1>2, <1>3, <1>5
  <2> QED BY <2>2, <1>6
<1>8. ASSUME NEW i \in Of(s), ~messages[i].beat
      PROVE  \E k \in DOMAIN c : i \in Tells(c[k])
  <2>1. PICK u \in DOMAIN input : input[u].kind # "prompt" /\ i \in Tells(input[u])
    BY <1>6, <1>8
  <2>2. PICK n \in DOMAIN input : order[n] = u
    BY <1>5
  <2>3. n \in P /\ i \in Tells(sorted[n])
    BY <2>1, <2>2, <1>2, <1>3
  <2>4. PICK k \in 1 .. Cardinality(P) : Nth(k, P) = n
    BY <2>3, <1>4, NthIs
  <2> QED BY <2>3, <2>4, <1>4
<1> QED BY <1>7, <1>8 DEF c

LEMMA ShortPromptRetells ==
  ASSUME Padded, Inv, NEW s, Of(s) # {}, Len(Sections(s)) <= InsertionMax
  PROVE  Retells(s)
<1> SUFFICES ASSUME NEW sorted \in Sorted(Sections(s)),
                    NEW budget \in Budgets \cup {Total(sorted)}
             PROVE  LET c == Conversation(sorted, budget) IN
                    /\ \A j, k \in DOMAIN c : j < k =>
                         \A x \in Tells(c[j]), y \in Tells(c[k]) : x < y
                    /\ budget >= Total(sorted) =>
                         UNION {Tells(c[k]) : k \in DOMAIN c} = {i \in Of(s) : ~messages[i].beat}
  BY DEF Retells
<1>1. sorted \in Seq(SectionType)
  BY SectionsAre, SortedIs DEF Inv
<1>2. Total(sorted) \in Nat
  <2>1. PICK sum \in [0 .. Len(sorted) -> Nat] : sum[Len(sorted)] = Total(sorted)
    BY <1>1, TotalIs
  <2>2. Len(sorted) \in 0 .. Len(sorted)
    BY <1>1, SizesAre
  <2> QED BY <2>1, <2>2
<1>3. budget \in Nat
  BY <1>2, Constants
<1> QED BY <1>3, PromptTellsInOrder, PromptTellsAll

(* While a session has no more sections than pdq sorts by insertion, its     *)
(* prompts tell it in order, and wholly if there is room, however many      *)
(* other sessions the engine holds.                                         *)
THEOREM ShortPromptsRetell ==
  ASSUME Padded
  PROVE  Spec => [](\A s \in Sessions : Of(s) # {} /\ Len(Sections(s)) <= InsertionMax
                                          => Retells(s))
<1>1. Inv => \A s \in Sessions : Of(s) # {} /\ Len(Sections(s)) <= InsertionMax => Retells(s)
  BY ShortPromptRetells
<1> QED BY <1>1, Invariant, PTL

(* An engine that never holds as many messages as pdq sorts by insertion     *)
(* tells every session in order: compaction never makes more sections.      *)
THEOREM PromptsRetell ==
  ASSUME Padded, MaxMessages < InsertionMax
  PROVE  Spec => []PromptRetellsSession
<1>1. Inv => PromptRetellsSession
  <2> SUFFICES ASSUME Inv, NEW s \in Sessions, Of(s) # {}
               PROVE  Retells(s)
    BY DEF PromptRetellsSession
  <2>1. TypeOK /\ Len(messages) <= MaxMessages
    BY DEF Inv, TypeOK
  <2>2. Len(Sections(s)) = VisibleCount(s) + MarkerCount(s) + 1
    BY <2>1, SectionsAre
  <2>3. Len(Sections(s)) <= InsertionMax
    <3>1. /\ VisibleCount(s) + MarkerCount(s) <= Len(messages)
          /\ VisibleCount(s) \in Nat /\ MarkerCount(s) \in Nat /\ Len(messages) \in Nat
      BY <2>1, FewSections, VisibleIs, OfIs
    <3> QED BY <2>1, <2>2, <3>1, Constants
  <2> QED BY <2>3, ShortPromptRetells
<1> QED BY <1>1, Invariant, PTL

-----------------------------------------------------------------------------
(* The user's turn.                                                         *)

LEMMA GreatestIsLast ==
  ASSUME NEW S \in SUBSET Nat, IsFiniteSet(S), NEW x \in S, \A y \in S : y <= x
  PROVE  /\ Cardinality(S) \in 1 .. Cardinality(S) /\ Cardinality(S) \in Nat
         /\ Nth(Cardinality(S), S) = x
<1> DEFINE n == Cardinality(S)
<1>1. PICK k \in 1 .. n : Nth(k, S) = x
  BY NthIs
<1>2. n \in Nat /\ k \in Nat /\ n \in 1 .. n
  BY <1>1, NthIs
<1>3. Nth(n, S) \in S
  BY <1>2, NthIs
<1>4. ~(k < n)
  <2>1. k < n => Nth(k, S) < Nth(n, S)
    BY <1>2, NthIs
  <2>2. Nth(n, S) <= x /\ Nth(n, S) \in Nat /\ x \in Nat
    BY <1>3
  <2> QED BY <2>1, <2>2, <1>1
<1>5. k = n
  BY <1>1, <1>2, <1>4
<1> QED BY <1>1, <1>2, <1>5

LastOf(s) == Nth(Cardinality(Of(s)), Of(s))

LEMMA LastIs ==
  ASSUME TypeOK, NEW s, Of(s) # {}
  PROVE  LastOf(s) \in Of(s) /\ \A i \in Of(s) : i <= LastOf(s)
<1> DEFINE n == Cardinality(Of(s))
<1>1. Of(s) \in SUBSET Nat /\ IsFiniteSet(Of(s)) /\ n \in Nat /\ n # 0
  BY OfIs, FS_EmptySet
<1>2. n \in 1 .. n
  BY <1>1
<1>3. LastOf(s) \in Of(s)
  BY <1>1, <1>2, NthIs DEF LastOf
<1>4. ASSUME NEW i \in Of(s)
      PROVE  i <= LastOf(s)
  <2>1. PICK k \in 1 .. n : Nth(k, Of(s)) = i
    BY <1>1, NthIs
  <2>2. k = n \/ k < n
    BY <1>1
  <2>3. k < n => i < LastOf(s)
    BY <2>1, <1>1, <1>2, NthIs DEF LastOf
  <2>4. i \in Nat /\ LastOf(s) \in Nat
    BY <1>1, <1>3
  <2> QED BY <2>1, <2>2, <2>3, <2>4 DEF LastOf
<1> QED BY <1>3, <1>4

\* Unless it is a heartbeat, the last message is the last section of history.
LEMMA LastIsVisible ==
  ASSUME Padded, Inv, NEW s, Of(s) # {}, ~messages[LastOf(s)].beat
  PROVE  /\ VisibleCount(s) \in 1 .. VisibleCount(s)
         /\ Nth(VisibleCount(s), Visible(s)) = LastOf(s)
<1> USE DEF Inv
<1> DEFINE x == LastOf(s)
<1>1. x \in Of(s) /\ \A i \in Of(s) : i <= x
  BY LastIs
<1> HIDE DEF x
<1>2. x \in DOMAIN messages /\ messages[x].session = s
  BY <1>1 DEF Of
<1>3. ASSUME Hidden(x)
      PROVE  FALSE
  <2>1. PICK k \in DOMAIN markers : Covers(markers[k], messages[x].session, messages[x].id)
    BY <1>3 DEF Hidden
  <2>2. markers[k].session = s
    BY <2>1, <1>2 DEF Covers
  <2>3. Spans(markers[k]) /\ markers[k] \in Marker
    BY MarkersAre DEF MarkersSound, Sound
  <2>4. PICK q \in Of(s) : messages[q].id = markers[k].to
    BY <2>2, <2>3 DEF Spans
  <2>5. markers[k].to <= messages[q].id
    BY <2>3, <2>4 DEF Marker
  <2>6. x < q
    BY <2>1, <2>4, <2>5, <1>2, HiddenIsBefore
  <2> QED BY <2>6, <1>1, OfIs
<1>4. x \in Visible(s) /\ \A i \in Visible(s) : i <= x
  BY <1>1, <1>3 DEF Visible
<1> QED BY <1>4, VisibleIs, GreatestIsLast DEF VisibleCount, x

LEMMA UserTurnClosesPrompt ==
  ASSUME Padded, Inv, NEW s, Of(s) # {}, Len(Sections(s)) <= InsertionMax,
         ~messages[LastOf(s)].beat,
         NEW sorted \in Sorted(Sections(s)), NEW budget \in Nat, budget >= Total(sorted)
  PROVE  LET c == Conversation(sorted, budget) IN
         c # <<>> /\ c[Len(c)].lists = {LastOf(s)}
<1> DEFINE input == Sections(s)
           order == StableOrder(input)
           P     == Spoken(sorted, budget)
           c     == Conversation(sorted, budget)
           h     == VisibleCount(s)
           m     == MarkerCount(s)
<1>1. TypeOK /\ h \in Nat /\ m \in Nat
  BY VisibleIs DEF Inv
<1>2. /\ input \in Seq(SectionType) /\ DOMAIN input = 1 .. h + m + 1
      /\ input[h + m + 1].kind = "prompt"
      /\ \A n \in 1 .. h : /\ input[n].kind = "history"
                           /\ input[n].lists = {Nth(n, Visible(s))}
      /\ \A n \in 1 .. m : input[h + n].kind = "summary"
  BY <1>1, SectionsAre, LenProperties
<1>3. /\ sorted \in Seq(SectionType) /\ DOMAIN sorted = DOMAIN input
      /\ \A n \in DOMAIN input : sorted[n] = input[order[n]]
  BY <1>2, SortedIs
<1>4. P = {n \in DOMAIN sorted : sorted[n].kind # "prompt"}
  BY <1>3, FitKeepsToBudget DEF Spoken
<1>5. /\ P \in SUBSET Nat /\ IsFiniteSet(P) /\ Len(c) = Cardinality(P)
      /\ c \in Seq(SectionType)
      /\ \A k \in 1 .. Cardinality(P) : c[k] = sorted[Nth(k, P)]
  BY <1>3, ConversationIs
<1>6. /\ \A n \in DOMAIN input : order[n] \in DOMAIN input
      /\ \A u \in DOMAIN input : \E n \in DOMAIN input : order[n] = u
      /\ \A k, n \in DOMAIN input : k < n =>
           order[k] # order[n] /\ Before(input, order[k], order[n])
  BY <1>2, StableOrderIs
<1>7. h \in 1 .. h /\ Nth(h, Visible(s)) = LastOf(s)
  BY LastIsVisible
<1> HIDE DEF input, order, P, c, h, m
<1>8. h \in DOMAIN input /\ input[h].kind = "history" /\ input[h].lists = {LastOf(s)}
  BY <1>1, <1>2, <1>7
<1>9. PICK n \in DOMAIN input : order[n] = h
  BY <1>6, <1>8
<1>10. n \in P /\ sorted[n].lists = {LastOf(s)}
  BY <1>3, <1>4, <1>8, <1>9
<1>11. ASSUME NEW k \in P
       PROVE  k <= n
  <2> DEFINE u == order[k]
  <2>1. k \in DOMAIN input /\ u \in DOMAIN input /\ input[u].kind # "prompt"
    BY <1>3, <1>4, <1>6
  <2>2. k \in Nat /\ n \in Nat
    BY <1>5, <1>10
  <2>3. ASSUME n < k
        PROVE  FALSE
    <3>1. u # h /\ Before(input, h, u)
      BY <2>1, <2>3, <1>6, <1>9
    <3> HIDE DEF u
    <3>2. u # h + m + 1
      BY <2>1, <1>2
    <3>3. u \in 1 .. h \/ (u - h \in 1 .. m /\ h + (u - h) = u)
      BY <2>1, <3>2, <1>1, <1>2
    <3>4. CASE u \in 1 .. h
      <4>1. Priority(input[u]) = 50 /\ Priority(input[h]) = 50
        BY <3>4, <1>2, <1>8 DEF Priority
      <4> QED BY <3>1, <3>4, <4>1, <1>1 DEF Before
    <3>5. CASE u - h \in 1 .. m /\ h + (u - h) = u
      <4>1. input[u].kind = "summary"
        BY <3>5, <1>2
      <4>2. Priority(input[u]) = 40 /\ Priority(input[h]) = 50
        BY <4>1, <1>8 DEF Priority
      <4> QED BY <3>1, <4>2 DEF Before
    <3> QED BY <3>3, <3>4, <3>5
  <2> QED BY <2>2, <2>3
<1>12. /\ Cardinality(P) \in 1 .. Cardinality(P) /\ Cardinality(P) \in Nat
       /\ Nth(Cardinality(P), P) = n
  BY <1>5, <1>10, <1>11, GreatestIsLast
<1>13. c[Len(c)] = sorted[n] /\ Len(c) # 0
  BY <1>5, <1>12
<1> QED BY <1>10, <1>13, EmptySeq DEF c

\* With room for everything, the prompts of a session end with its last message.
EndsWithLast(s) ==
  \A sorted \in Sorted(Sections(s)), budget \in Nat :
    budget >= Total(sorted) =>
      LET c == Conversation(sorted, budget) IN
      c # <<>> /\ c[Len(c)].lists = {LastOf(s)}

(* live_runner.zig:620 says the user's message ends the prompt.  It does so  *)
(* with room for everything; a budget that leaves sections out may leave    *)
(* this one out.                                                            *)
THEOREM UserTurnIsLastGivenRoom ==
  ASSUME Padded
  PROVE  Spec => [](\A s \in Sessions :
                      /\ Of(s) # {} /\ Len(Sections(s)) <= InsertionMax
                      /\ ~messages[LastOf(s)].beat
                      => EndsWithLast(s))
<1>1. Inv => \A s \in Sessions :
                /\ Of(s) # {} /\ Len(Sections(s)) <= InsertionMax
                /\ ~messages[LastOf(s)].beat
                => EndsWithLast(s)
  BY UserTurnClosesPrompt DEF EndsWithLast
<1> QED BY <1>1, Invariant, PTL

-----------------------------------------------------------------------------
(* The engine keeps transcripts.                                            *)

Said(s)   == {i \in Of(s) : ~messages[i].beat}
Folded(s) == {i \in Of(s) : ~messages[i].beat /\ Hidden(i)}

\* A new message is outside every marker when it comes.
LEMMA NewIsVisible ==
  ASSUME Padded, Inv, UNCHANGED markers, NEW s \in Sessions, Len(messages) < MaxMessages,
         NEW m, IsNew(m, s), messages' = Append(messages, m),
         NEW new, new = Len(messages) + 1
  PROVE  ~Hidden(new)'
<1> USE DEF Inv
<1>1. m \in Message /\ m.session = s /\ m.id \in 1 .. MaxMessages
  BY DEF IsNew, Message
<1>2. messages'[new] = m /\ new \in DOMAIN messages'
  BY <1>1, Grown
<1>3. ASSUME NEW k \in DOMAIN markers, Covers(markers[k], s, m.id)
      PROVE  FALSE
  <2>1. markers[k].session = s
    BY <1>3 DEF Covers
  <2>2. PICK q \in Of(s) : messages[q].id = markers[k].to
    BY <2>1 DEF MarkersSound, Sound, Spans
  <2>3. markers[k].to < m.id /\ markers[k].to \in 1 .. MaxMessages
    BY <2>2, MarkersAre DEF IsNew, Marker
  <2>4. /\ Rank[markers[k].to] < Rank[m.id]
        /\ Rank[markers[k].to] \in Nat /\ Rank[m.id] \in Nat
    BY <1>1, <2>3, Constants DEF Padded
  <2> QED BY <2>4, <1>3 DEF Covers
<1>4. ~ \E k \in DOMAIN markers : Covers(markers[k], s, m.id)
  BY <1>3
<1> QED BY <1>1, <1>2, <1>4 DEF Hidden, Covers

\* An ingested message is said, unless it is a heartbeat.
LEMMA IngestSays ==
  ASSUME Padded, Inv, NEW s \in Sessions, UNCHANGED markers, Len(messages) < MaxMessages,
         NEW m, IsNew(m, s), messages' = Append(messages, m)
  PROVE  \/ Transcript!Say(s)
         \/ \A t \in Sessions : Said(t)' = Said(t) /\ Folded(t)' = Folded(t)
<1> USE DEF Inv
<1>0. PICK new : new = Len(messages) + 1
  OBVIOUS
<1>1. m \in Message /\ m.session = s /\ m.beat \in BOOLEAN
  BY DEF IsNew, Message
<1>2. /\ new \notin DOMAIN messages
      /\ \A i \in DOMAIN messages : i < new
      /\ \A i \in DOMAIN messages : messages'[i] = messages[i]
      /\ messages'[new] = m
      /\ \A t : Of(t)' = IF t = s THEN Of(t) \cup {new} ELSE Of(t)
  BY <1>0, <1>1, Grown
<1>3. ~Hidden(new)'
  BY <1>0, NewIsVisible
<1>4. new \in 1 .. MaxMessages
  BY <1>0, OfIs, Constants
<1>5. ASSUME NEW i \in DOMAIN messages
      PROVE  Hidden(i)' <=> Hidden(i)
  <2>1. messages'[i] = messages[i]
    BY <1>2
  <2> QED BY <2>1 DEF Hidden, Covers
<1>6. \A t : Of(t) \in SUBSET (DOMAIN messages)
  BY OfIs
<1>7. \A t : Folded(t)' = Folded(t)
  <2> TAKE t
  <2>1. \A i \in Of(t) : i \in Folded(t)' <=> i \in Folded(t)
    BY <1>2, <1>5, <1>6 DEF Folded
  <2>2. new \notin Folded(t)' /\ new \notin Of(t)
    BY <1>2, <1>3, <1>6 DEF Folded
  <2>3. Folded(t) \in SUBSET Of(t) /\ Folded(t)' \in SUBSET (Of(t)')
    BY DEF Folded
  <2> QED BY <2>1, <2>2, <2>3, <1>2
<1>8. \A t : Said(t)' = IF t = s /\ ~m.beat THEN Said(t) \cup {new} ELSE Said(t)
  <2> TAKE t
  <2>1. \A i \in Of(t) : i \in Said(t)' <=> i \in Said(t)
    BY <1>2, <1>6 DEF Said
  <2>2. new \in Said(t)' <=> t = s /\ ~m.beat
    BY <1>1, <1>2, <1>6 DEF Said
  <2>3. Said(t) \in SUBSET Of(t) /\ Said(t)' \in SUBSET (Of(t)') /\ new \notin Of(t)
    BY <1>2, <1>6 DEF Said
  <2>4. CASE t = s /\ ~m.beat
    BY <2>1, <2>2, <2>3, <2>4, <1>2
  <2>5. CASE ~(t = s /\ ~m.beat)
    <3>1. Of(t)' \in SUBSET (Of(t) \cup {new}) /\ Of(t) \in SUBSET (Of(t)')
      BY <1>2
    <3>2. new \notin Said(t)'
      BY <2>2, <2>5
    <3>3. \A i : i \in Said(t)' <=> i \in Said(t)
      BY <2>1, <2>3, <3>1, <3>2
    <3> QED BY <2>5, <3>3
  <2> QED BY <2>4, <2>5
<1>9. CASE m.beat
  BY <1>7, <1>8, <1>9
<1>10. CASE ~m.beat
  <2>1. \A t \in Sessions : \A j \in Said(t) : j < new
    BY <1>2, <1>6 DEF Said
  <2>2. [t \in Sessions |-> Said(t)'] =
          [[t \in Sessions |-> Said(t)] EXCEPT ![s] = @ \cup {new}]
    BY <1>8, <1>10
  <2>3. [t \in Sessions |-> Folded(t)'] = [t \in Sessions |-> Folded(t)]
    BY <1>7
  <2> QED BY <2>1, <2>2, <2>3, <1>4 DEF Transcript!Say, Said, Folded
<1> QED BY <1>9, <1>10

\* The transcript counts as the engine does.
LEMMA SameCount == \A S : Transcript!Cardinality(S) = Cardinality(S)
  BY DEF Transcript!Cardinality, Cardinality

\* A new marker folds up all but the last messages of its session.
LEMMA CompactFolds ==
  ASSUME Padded, Inv, NEW s \in Sessions,
         NEW p \in Eligible(s), NEW q \in Eligible(s),
         p < q, \A i \in Eligible(s) : p <= i,
         Cardinality({i \in Eligible(s) : q <= i}) = Keep,
         UNCHANGED messages, NEW marker \in Marker, marker = NewMarker(s, p, q),
         markers' = Append(markers, marker)
  PROVE  Transcript!Fold(s)
<1> USE DEF Inv
<1>0. PICK latest : latest = {i \in Eligible(s) : q <= i}
  OBVIOUS
<1>1. marker.session = s /\ marker.from = messages[p].id /\ marker.to = messages[q].id
  BY DEF NewMarker
<1>2. /\ p \in Of(s) /\ q \in Of(s)
      /\ \A i \in Of(s) : i \in DOMAIN messages /\ messages[i].session = s /\ i \in Nat
      /\ \A t : Of(t)' = Of(t)
  BY OfIs DEF Eligible, Of
<1>3. ASSUME NEW i \in DOMAIN messages
      PROVE  Covers(marker, messages[i].session, messages[i].id) <=> i \in Of(s) /\ p <= i /\ i < q
  <2>1. i \in Of(s) <=> messages[i].session = s
    BY DEF Of
  <2>2. CASE i \in Of(s)
    BY <2>1, <2>2, <1>1, <1>2, IdOrder, CoversIs
  <2>3. CASE i \notin Of(s)
    BY <2>1, <2>3, <1>1 DEF Covers
  <2> QED BY <2>2, <2>3
<1>4. ASSUME NEW i \in DOMAIN messages
      PROVE  Hidden(i)' <=> Hidden(i) \/ (i \in Of(s) /\ p <= i /\ i < q)
  <2>1. /\ DOMAIN markers' = DOMAIN markers \cup {Len(markers) + 1}
        /\ \A k \in DOMAIN markers : markers'[k] = markers[k]
        /\ markers'[Len(markers) + 1] = marker
    <3>1. markers \in Seq(Marker) /\ markers' \in Seq(Marker)
      BY AppendProperties DEF TypeOK
    <3> QED BY <3>1, MarkersAre, AppendProperties, LenProperties
  <2>2. Hidden(i)' <=> \E k \in DOMAIN markers' :
                         Covers(markers'[k], messages[i].session, messages[i].id)
    BY DEF Hidden, Covers
  <2>3. Hidden(i)' <=> Hidden(i) \/ Covers(marker, messages[i].session, messages[i].id)
    BY <2>1, <2>2 DEF Hidden
  <2> QED BY <2>3, <1>3
<1>5. \A t : Said(t)' = Said(t)
  BY <1>2 DEF Said
<1>6. \A t \in Sessions : t # s => Folded(t)' = Folded(t)
  <2> TAKE t \in Sessions
  <2> HAVE t # s
  <2>1. \A i \in Of(t) : i \in DOMAIN messages /\ i \notin Of(s)
    BY DEF Of
  <2>2. \A i \in Of(t) : Hidden(i)' <=> Hidden(i)
    BY <2>1, <1>4
  <2> QED BY <2>2, <1>2 DEF Folded
<1>7. Eligible(s) = Said(s) \ Folded(s)
  BY DEF Eligible, Said, Folded
<1>8. Folded(s)' = Said(s) \ latest
  <2>1. ASSUME NEW i \in Of(s), ~messages[i].beat
        PROVE  Hidden(i)' <=> i \notin latest
    <3>1. i \in Eligible(s) <=> ~Hidden(i)
      BY <2>1 DEF Eligible
    <3>2. i \in Eligible(s) => p <= i
      OBVIOUS
    <3>3. i \in Nat /\ p \in Nat /\ q \in Nat /\ i \in DOMAIN messages
      BY <1>2
    <3> QED BY <3>1, <3>2, <3>3, <1>0, <1>4
  <2>2. Folded(s)' = {i \in Of(s) : ~messages[i].beat /\ Hidden(i)'}
    BY <1>2 DEF Folded
  <2> QED BY <2>1, <2>2 DEF Said
<1>9. ASSUME NEW i \in Said(s) \ latest, NEW j \in latest
      PROVE  i < j
  <2>1. i \in Of(s) /\ ~messages[i].beat /\ j \in Of(s) /\ j \in Eligible(s) /\ q <= j /\ p <= j
    BY <1>0 DEF Said, Eligible
  <2>2. CASE Hidden(i)
    <3>1. i \in DOMAIN messages /\ messages[i].session = s
      BY <2>1, <1>2
    <3>2. PICK k \in DOMAIN markers : Covers(markers[k], messages[i].session, messages[i].id)
      BY <2>2 DEF Hidden
    <3>3. markers[k].session = s
      BY <3>1, <3>2 DEF Covers
    <3>4. markers[k].to <= messages[j].id
      BY <2>1, <3>3, MarkersPrecede
    <3> QED BY <2>1, <3>1, <3>2, <3>4, HiddenIsBefore
  <2>3. CASE ~Hidden(i)
    <3>1. i \in Eligible(s) /\ ~(q <= i)
      BY <1>0, <2>1, <2>3 DEF Eligible
    <3> QED BY <1>0, <2>1, <3>1, <1>2
  <2> QED BY <2>2, <2>3
<1>10. /\ latest \in SUBSET (Said(s) \ Folded(s)) /\ Cardinality(latest) = Keep
       /\ latest # Said(s) \ Folded(s)
  <2>1. p \notin latest
    BY <1>0, <1>2
  <2> QED BY <1>0, <2>1, <1>7
<1>11. [t \in Sessions |-> Folded(t)'] =
         [[t \in Sessions |-> Folded(t)] EXCEPT ![s] = Said(s) \ latest]
  BY <1>6, <1>8
<1>12. [t \in Sessions |-> Said(t)'] = [t \in Sessions |-> Said(t)]
  BY <1>5
<1> DEFINE saidOf   == [t \in Sessions |-> Said(t)]
           foldedOf == [t \in Sessions |-> Folded(t)]
<1>13. saidOf[s] = Said(s) /\ foldedOf[s] = Folded(s)
  OBVIOUS
<1> HIDE DEF saidOf, foldedOf
<1>14. /\ latest \in SUBSET (saidOf[s] \ foldedOf[s])
       /\ Transcript!Cardinality(latest) = Keep /\ latest # saidOf[s] \ foldedOf[s]
       /\ \A i \in saidOf[s] \ latest, j \in latest : i < j
  BY <1>9, <1>10, <1>13, SameCount
<1>15. foldedOf' = [foldedOf EXCEPT ![s] = saidOf[s] \ latest] /\ saidOf' = saidOf
  BY <1>11, <1>12, <1>13 DEF saidOf, foldedOf
<1> QED BY <1>14, <1>15 DEF Transcript!Fold, saidOf, foldedOf, Said, Folded

(* Whatever is ingested and compacted, in any session, the engine keeps     *)
(* transcripts: ingesting says a message at the end of its session or       *)
(* nothing, compacting folds up all but the last messages or nothing.       *)
THEOREM EngineKeepsTranscripts ==
  ASSUME Padded
  PROVE  Spec => ImplementsTranscript
<1>1. Init => Transcript!Init
  <2> SUFFICES ASSUME Init PROVE Transcript!Init
    OBVIOUS
  <2>1. \A s : Of(s) = {}
    BY DEF Init, Of
  <2> QED BY <2>1 DEF Transcript!Init
<1>2. Inv /\ [Next]_vars => [Transcript!Next]_(Transcript!vars)
  <2> SUFFICES ASSUME Inv, [Next]_vars
               PROVE  Transcript!Next \/ UNCHANGED Transcript!vars
    OBVIOUS
  <2>1. ASSUME \A t \in Sessions : Said(t)' = Said(t) /\ Folded(t)' = Folded(t)
        PROVE  UNCHANGED Transcript!vars
    BY <2>1 DEF Transcript!vars, Said, Folded
  <2>2. ASSUME UNCHANGED messages, UNCHANGED markers
        PROVE  UNCHANGED Transcript!vars
    BY <2>1, <2>2 DEF Said, Folded, Of, Hidden, Covers
  <2>3. ASSUME NEW s \in Sessions, IngestNew(s) \/ IngestAgain(s)
        PROVE  Transcript!Next \/ UNCHANGED Transcript!vars
    <3>1. CASE UNCHANGED messages
      BY <3>1, <2>2, <2>3, IngestIs
    <3>2. CASE ~UNCHANGED messages
      <4>1. PICK m : IsNew(m, s) /\ messages' = Append(messages, m)
        BY <3>2, <2>3, IngestIs
      <4>2. Len(messages) < MaxMessages /\ UNCHANGED markers
        BY <3>2, <2>3, IngestIs
      <4>3. Transcript!Say(s) \/ \A t \in Sessions : Said(t)' = Said(t) /\ Folded(t)' = Folded(t)
        BY <4>1, <4>2, IngestSays
      <4> QED BY <4>3, <2>1 DEF Transcript!Next
    <3> QED BY <3>1, <3>2
  <2>4. ASSUME NEW s \in Sessions, Compact(s)
        PROVE  Transcript!Next \/ UNCHANGED Transcript!vars
    <3>1. PICK p \in Eligible(s), q \in Eligible(s) :
            /\ p < q /\ \A i \in Eligible(s) : p <= i
            /\ Cardinality({i \in Eligible(s) : q <= i}) = Keep
            /\ UNCHANGED messages
            /\ \/ markers' = markers
               \/ markers' = Append(markers, NewMarker(s, p, q))
      BY <2>4, CompactIs DEF Inv
    <3>2. CASE markers' = markers
      BY <3>1, <3>2, <2>2
    <3>3. CASE markers' = Append(markers, NewMarker(s, p, q))
      <4>1. PICK marker : marker = NewMarker(s, p, q)
        OBVIOUS
      <4>2. marker \in Marker
        BY <4>1, NewMarkerIs DEF Inv
      <4>3. Transcript!Fold(s)
        BY <3>1, <3>3, <4>1, <4>2, CompactFolds
      <4> QED BY <4>3 DEF Transcript!Next
    <3> QED BY <3>1, <3>2, <3>3
  <2>5. CASE UNCHANGED vars
    BY <2>5, <2>2 DEF vars
  <2> QED BY <2>3, <2>4, <2>5 DEF Next
<1> QED BY <1>1, <1>2, Invariant, PTL DEF Spec, ImplementsTranscript, Transcript!Spec
=============================================================================
