---------------------------- MODULE OutboxProofs ----------------------------
(***************************************************************************)
(* Proofs about the reply queue, for any replies, delays and faults.       *)
(***************************************************************************)
EXTENDS Outbox, SequenceTheorems, FiniteSetTheorems, TLAPS

Line == Record \cup {Torn}

Busy == {"sending", "acking", "failing", "rewriting"}

\* What a log shows of the acks of a reply.
AckedIn(lines, id) == \E i \in Place(lines, id) : lines[i].ack
AllAcked(lines, id) == \A i \in Place(lines, id) : lines[i].ack

\* The same replies in the same places, with the same acks.
SameAcks(s, t) ==
  \A id \in Replies :
    Place(t, id) = Place(s, id) /\ \A i \in Place(s, id) : t[i].ack = s[i].ack

-----------------------------------------------------------------------------
(* Logs.                                                                    *)

LEMMA SeqOf ==
  ASSUME NEW S, NEW n \in Nat, NEW t \in [1 .. n -> S]
  PROVE  t \in Seq(S) /\ Len(t) = n /\ DOMAIN t = 1 .. n
<1>1. t \in Seq(S)
  BY SeqDef
<1>2. DOMAIN t = 1 .. Len(t) /\ Len(t) \in Nat /\ DOMAIN t = 1 .. n
  BY <1>1, LenProperties
<1> QED BY <1>1, <1>2

\* A log that loads has only records.
LEMMA Loaded ==
  ASSUME NEW lines \in Seq(Line), Readable(lines)
  PROVE  lines \in Seq(Record)
<1>1. Len(lines) \in Nat /\ lines \in [1 .. Len(lines) -> Line] /\ DOMAIN lines = 1 .. Len(lines)
  BY LenProperties
<1>2. lines \in [1 .. Len(lines) -> Record]
  BY <1>1 DEF Readable, Line
<1> QED BY <1>1, <1>2, SeqOf

LEMMA SameShown ==
  ASSUME NEW s, NEW t, SameAcks(s, t), NEW id \in Replies
  PROVE  /\ Place(t, id) = Place(s, id)
         /\ AckedIn(t, id) <=> AckedIn(s, id)
         /\ AllAcked(t, id) <=> AllAcked(s, id)
BY DEF SameAcks, AckedIn, AllAcked

LEMMA RecordsAreLines ==
  ASSUME NEW s \in Seq(Record)
  PROVE  /\ s \in Seq(Line) /\ Readable(s)
         /\ \A i \in DOMAIN s : s[i] \in Record /\ s[i] # Torn
<1>1. Len(s) \in Nat /\ s \in [1 .. Len(s) -> Record] /\ DOMAIN s = 1 .. Len(s)
  BY LenProperties
<1>2. s \in [1 .. Len(s) -> Line]
  BY <1>1 DEF Line
<1> QED BY <1>1, <1>2, SeqOf, TornAssumption DEF Readable

LEMMA EmptyLog ==
  /\ << >> \in Seq(Record) /\ << >> \in Seq(Line) /\ Len(<< >>) = 0
  /\ \A id : Place(<< >>, id) = {}
BY EmptySeq DEF Place

\* Rewriting a log with an ack.
LEMMA AckedKeeps ==
  ASSUME NEW s \in Seq(Record), NEW id \in Replies
  PROVE  /\ Acked(s, id) \in Seq(Record) /\ Len(Acked(s, id)) = Len(s)
         /\ \A e \in Replies :
              /\ Place(Acked(s, id), e) = Place(s, e)
              /\ \A i \in Place(s, e) : Acked(s, id)[i].ack = (s[i].ack \/ e = id)
<1>1. Len(s) \in Nat /\ DOMAIN s = 1 .. Len(s) /\ \A i \in 1 .. Len(s) : s[i] \in Record
  BY LenProperties, ElementOfSeq
<1> DEFINE t == Acked(s, id)
<1>2. t = [i \in 1 .. Len(s) |->
             IF s[i].id = id THEN [s[i] EXCEPT !.ack = TRUE] ELSE s[i]]
  BY <1>1 DEF Acked
<1>3. \A i \in 1 .. Len(s) : /\ t[i] \in Record
                             /\ t[i].id = s[i].id
                             /\ t[i].ack = (s[i].ack \/ s[i].id = id)
  <2> SUFFICES ASSUME NEW i \in 1 .. Len(s)
               PROVE  t[i] \in Record /\ t[i].id = s[i].id /\ t[i].ack = (s[i].ack \/ s[i].id = id)
    OBVIOUS
  <2>1. t[i] = IF s[i].id = id THEN [s[i] EXCEPT !.ack = TRUE] ELSE s[i]
    BY <1>2
  <2>2. s[i] \in Record
    BY <1>1
  <2> QED BY <2>1, <2>2 DEF Record
<1>4. t \in [1 .. Len(s) -> Record]
  BY <1>2, <1>3
<1>5. t \in Seq(Record) /\ Len(t) = Len(s) /\ DOMAIN t = 1 .. Len(s)
  BY <1>1, <1>4, SeqOf
<1>6. \A i \in 1 .. Len(s) : t[i] # Torn /\ s[i] # Torn
  BY <1>1, <1>3, TornAssumption
<1>7. \A e \in Replies : Place(t, e) = Place(s, e)
  BY <1>1, <1>3, <1>5, <1>6 DEF Place
<1> QED BY <1>1, <1>3, <1>5, <1>7 DEF Place

\* Rewriting a log with a failure.
LEMMA PostponedKeeps ==
  ASSUME NEW s \in Seq(Record), NEW id \in Replies
  PROVE  /\ Postponed(s, id) \in Seq(Record) /\ Len(Postponed(s, id)) = Len(s)
         /\ SameAcks(s, Postponed(s, id))
<1>1. Len(s) \in Nat /\ DOMAIN s = 1 .. Len(s) /\ \A i \in 1 .. Len(s) : s[i] \in Record
  BY LenProperties, ElementOfSeq
<1> DEFINE t == Postponed(s, id)
<1>2. t = [i \in 1 .. Len(s) |->
             IF s[i].id = id THEN [s[i] EXCEPT !.wait = Backoff(@), !.due = s[i].wait]
                             ELSE s[i]]
  BY <1>1 DEF Postponed
<1>3. \A i \in 1 .. Len(s) : /\ t[i] \in Record
                             /\ t[i].id = s[i].id /\ t[i].ack = s[i].ack
  <2> SUFFICES ASSUME NEW i \in 1 .. Len(s)
               PROVE  t[i] \in Record /\ t[i].id = s[i].id /\ t[i].ack = s[i].ack
    OBVIOUS
  <2>1. t[i] = IF s[i].id = id
               THEN [s[i] EXCEPT !.wait = Backoff(s[i].wait), !.due = s[i].wait] ELSE s[i]
    BY <1>2
  <2>2. s[i] \in Record /\ s[i].wait \in 1 .. BackoffCap /\ s[i].wait \in 0 .. BackoffCap
    BY <1>1, OutboxAssumption DEF Record
  <2>3. Backoff(s[i].wait) \in 1 .. BackoffCap
    BY <2>2, OutboxAssumption DEF Backoff
  <2> QED BY <2>1, <2>2, <2>3 DEF Record
<1>4. t \in [1 .. Len(s) -> Record]
  BY <1>2, <1>3
<1>5. t \in Seq(Record) /\ Len(t) = Len(s) /\ DOMAIN t = 1 .. Len(s)
  BY <1>1, <1>4, SeqOf
<1>6. \A i \in 1 .. Len(s) : t[i] # Torn /\ s[i] # Torn
  BY <1>1, <1>3, TornAssumption
<1>7. \A e \in Replies : Place(t, e) = Place(s, e)
  BY <1>1, <1>3, <1>5, <1>6 DEF Place
<1> QED BY <1>1, <1>3, <1>5, <1>7 DEF Place, SameAcks

\* Time passes over a log.
LEMMA AgeKeeps ==
  ASSUME NEW s \in Seq(Line)
  PROVE  /\ Age(s) \in Seq(Line) /\ Len(Age(s)) = Len(s)
         /\ s \in Seq(Record) => Age(s) \in Seq(Record)
         /\ Readable(s) => Readable(Age(s))
         /\ SameAcks(s, Age(s))
<1>1. Len(s) \in Nat /\ DOMAIN s = 1 .. Len(s) /\ \A i \in 1 .. Len(s) : s[i] \in Line
  BY LenProperties, ElementOfSeq
<1> DEFINE t == Age(s)
<1>2. t = [i \in 1 .. Len(s) |->
             IF s[i] = Torn THEN Torn ELSE [s[i] EXCEPT !.due = Sooner(@)]]
  BY <1>1 DEF Age
<1>3. \A i \in 1 .. Len(s) : /\ s[i] = Torn => t[i] = Torn
                             /\ s[i] # Torn => /\ t[i] \in Record /\ t[i] # Torn
                                               /\ t[i].id = s[i].id /\ t[i].ack = s[i].ack
  <2> SUFFICES ASSUME NEW i \in 1 .. Len(s), s[i] # Torn
               PROVE  t[i] \in Record /\ t[i].id = s[i].id /\ t[i].ack = s[i].ack
    BY <1>2, TornAssumption
  <2>1. t[i] = [s[i] EXCEPT !.due = Sooner(s[i].due)]
    BY <1>2
  <2>2. s[i] \in Record /\ s[i].due \in 0 .. BackoffCap
    BY <1>1 DEF Line, Record
  <2>3. Sooner(s[i].due) \in 0 .. BackoffCap
    BY <2>2, OutboxAssumption DEF Sooner
  <2> QED BY <2>1, <2>2, <2>3 DEF Record
<1>4. t \in [1 .. Len(s) -> Line]
  BY <1>2, <1>3 DEF Line
<1>5. t \in Seq(Line) /\ Len(t) = Len(s) /\ DOMAIN t = 1 .. Len(s)
  BY <1>1, <1>4, SeqOf
<1>6. ASSUME s \in Seq(Record) PROVE t \in Seq(Record)
  <2>1. \A i \in 1 .. Len(s) : s[i] # Torn
    BY <1>1, <1>6, RecordsAreLines
  <2>2. t \in [1 .. Len(s) -> Record]
    BY <1>2, <1>3, <2>1
  <2> QED BY <1>1, <2>2, SeqOf
<1>7. Readable(s) => Readable(t)
  BY <1>1, <1>3, <1>5 DEF Readable
<1>8. \A e \in Replies : Place(t, e) = Place(s, e)
  BY <1>1, <1>3, <1>5 DEF Place
<1> QED BY <1>1, <1>3, <1>5, <1>6, <1>7, <1>8 DEF Place, SameAcks

\* Writing a line: what the log shows afterwards it showed before, or it is
\* the line.
LEMMA PutKeeps ==
  ASSUME file \in Seq(Line), unfinished \in BOOLEAN, NEW line \in Line, PutLine(line)
  PROVE  /\ file' \in Seq(Line) /\ unfinished' \in BOOLEAN
         /\ \A id \in Replies : \A i \in Place(file', id) :
              \/ i \in Place(file, id) /\ file'[i] = file[i]
              \/ file'[i] = line /\ line # Torn /\ line.id = id
         /\ writer.live /\ ~unfinished /\ line # Torn =>
              /\ Readable(file) => Readable(file')
              /\ \A id \in Replies : Place(file, id) \subseteq Place(file', id)
              /\ line.id \in Replies => Place(file', line.id) # {}
<1>1. /\ Len(file) \in Nat /\ DOMAIN file = 1 .. Len(file)
      /\ file \in [1 .. Len(file) -> Line]
  BY LenProperties
<1>2. CASE ~writer.live
  BY <1>2 DEF PutLine, logVars
<1>3. CASE writer.live /\ unfinished
  <2>1. file' = [file EXCEPT ![Len(file)] = Torn] /\ unfinished' = TRUE
    BY <1>3 DEF PutLine
  <2>2. file' \in [1 .. Len(file) -> Line]
    BY <1>1, <2>1 DEF Line
  <2>3. file' \in Seq(Line) /\ DOMAIN file' = 1 .. Len(file)
    BY <1>1, <2>2, SeqOf
  <2>4. \A i \in 1 .. Len(file) : file'[i] = Torn \/ file'[i] = file[i]
    BY <1>1, <2>1
  <2> QED BY <1>1, <1>3, <2>1, <2>3, <2>4 DEF Place
<1>4. CASE writer.live /\ ~unfinished
  <2>1. file' = Append(file, line) /\ unfinished' = TRUE
    BY <1>4 DEF PutLine
  <2>2. /\ file' \in Seq(Line) /\ Len(file') = Len(file) + 1
        /\ file'[Len(file) + 1] = line
        /\ \A i \in 1 .. Len(file) : file'[i] = file[i]
    BY <2>1, AppendProperties
  <2>3. DOMAIN file' = 1 .. Len(file) + 1
    BY <2>2, LenProperties
  <2>4. \A i \in DOMAIN file' : i = Len(file) + 1 \/ i \in DOMAIN file
    BY <1>1, <2>3
  <2>5. \A id \in Replies : \A i \in Place(file', id) :
              \/ i \in Place(file, id) /\ file'[i] = file[i]
              \/ file'[i] = line /\ line # Torn /\ line.id = id
    BY <1>1, <2>2, <2>4 DEF Place
  <2>6. DOMAIN file \subseteq DOMAIN file' /\ Len(file) + 1 \in DOMAIN file'
    BY <1>1, <2>3
  <2>7. \A id \in Replies : Place(file, id) \subseteq Place(file', id)
    BY <1>1, <2>2, <2>6 DEF Place
  <2>8. line # Torn /\ Readable(file) => Readable(file')
    BY <1>1, <2>2, <2>4 DEF Readable
  <2>9. line # Torn => Place(file', line.id) # {}
    BY <2>2, <2>6 DEF Place
  <2> QED BY <2>1, <2>2, <2>5, <2>7, <2>8, <2>9
<1> QED BY <1>2, <1>3, <1>4

-----------------------------------------------------------------------------
(* The invariant.                                                           *)

\* What the sender and the worker hold fits what they are doing.
Control ==
  /\ sender \in Busy => current \in Replies
  /\ writer.pc # "idle" => writer.id \in Replies \ unsent
  /\ sender = "rewriting" => Place(reloaded, current) # {}
  /\ sender # "rewriting" => reloaded = << >>

\* Replies that no log can show yet.
Unseen == unsent \cup (IF writer.pc = "opened" THEN {writer.id} ELSE {})

Fresh ==
  \A id \in Unseen :
    /\ Place(file, id) = {} /\ Place(snapshot, id) = {} /\ Place(reloaded, id) = {}
    /\ id \notin delivered
    /\ sender \in Busy => current # id

\* A delivered reply that was not forgotten cannot be yielded again: it is in
\* failed_acks, or acked wherever it is written, or its ack is due.
Remembered ==
  \A id \in delivered \ (forgotten \cup failedAcks) :
    \/ sender = "acking" /\ current = id
    \/ AllAcked(file, id) /\ AllAcked(snapshot, id) /\ AllAcked(reloaded, id)

NotAgain == sender \in {"sending", "failing", "rewriting"} => current \notin delivered \ forgotten

\* An ack on disk is in every copy that a rewrite may come from.
Agreed ==
  \A id \in Replies :
    /\ AckedIn(file, id) => AllAcked(file, id) /\ AllAcked(snapshot, id) /\ AllAcked(reloaded, id)
    /\ AckedIn(snapshot, id) => AllAcked(snapshot, id)
    /\ AckedIn(reloaded, id) => AllAcked(reloaded, id) /\ AllAcked(snapshot, id)

IInv == TypeOK /\ Control /\ Fresh /\ Remembered /\ NotAgain /\ NoRepeatWhileRemembered /\ Agreed

LEMMA Constants ==
  /\ BackoffCap \in Nat \ {0} /\ MaxRemembered \in Nat /\ NoReply \notin Replies
  /\ IsFiniteSet(Replies)
BY OutboxAssumption

LEMMA Types ==
  ASSUME TypeOK
  PROVE  /\ file \in Seq(Line) /\ snapshot \in Seq(Record) /\ reloaded \in Seq(Record)
         /\ unfinished \in BOOLEAN
         /\ Len(snapshot) \in Nat
         /\ writer \in [pc : {"idle", "opened", "written", "terminated"},
                        id : Replies \cup {NoReply}, live : BOOLEAN]
BY LenProperties DEF TypeOK, Line

LEMMA InitHolds == Init => IInv
<1> SUFFICES ASSUME Init PROVE IInv
  OBVIOUS
<1> USE Constants, EmptyLog
<1>1. TypeOK
  <2>1. /\ file \in Seq(Record \cup {Torn}) /\ snapshot \in Seq(Record) /\ reloaded \in Seq(Record)
        /\ index \in 1 .. Len(snapshot) + 1
    BY DEF Init, Line
  <2>2. /\ embargo \in [Replies -> 0 .. BackoffCap] /\ unsent \subseteq Replies
        /\ writer \in [pc : {"idle", "opened", "written", "terminated"},
                       id : Replies \cup {NoReply}, live : BOOLEAN]
    BY DEF Init, Idle
  <2> QED BY <2>1, <2>2 DEF Init, TypeOK
<1>2. Control /\ Fresh
  BY DEF Init, Control, Fresh, Unseen, Busy, Idle
<1>3. Remembered /\ NotAgain /\ NoRepeatWhileRemembered
  BY DEF Init, Remembered, NotAgain, NoRepeatWhileRemembered
<1>4. Agreed
  BY DEF Init, Agreed, AckedIn, AllAcked
<1> QED BY <1>1, <1>2, <1>3, <1>4 DEF IInv

-----------------------------------------------------------------------------
(* The worker.                                                              *)

LEMMA OpenForAppendStep ==
  ASSUME IInv, NEW id \in Replies, OpenForAppend(id)
  PROVE  IInv'
<1>1. /\ writer.pc = "idle" /\ id \in unsent /\ unsent' = unsent \ {id}
      /\ writer' = [pc |-> "opened", id |-> id, live |-> TRUE]
      /\ UNCHANGED <<file, unfinished, sender, current, snapshot, index, reloaded, failedAcks,
                     accepted, settled, delivered, repeated, forgotten, embargo>>
  BY DEF OpenForAppend, logVars, passVars, histVars
<1>2. TypeOK'
  BY <1>1 DEF IInv, TypeOK
<1>3. Control'
  BY <1>1 DEF IInv, Control, Busy, Place
<1>4. Unseen' \subseteq Unseen
  BY <1>1 DEF Unseen
<1>5. Fresh' /\ Remembered' /\ NotAgain' /\ NoRepeatWhileRemembered' /\ Agreed'
  BY <1>1, <1>4 DEF IInv, Fresh, Remembered, NotAgain, NoRepeatWhileRemembered, Agreed, Place,
                    AckedIn, AllAcked, Busy
<1> QED BY <1>2, <1>3, <1>5 DEF IInv

\* A write of the worker, of a new record or of part of it.
LEMMA PutStep ==
  ASSUME IInv, NEW line \in Line, PutLine(line),
         line = Torn \/ line = NewRecord(writer.id),
         writer.pc = "opened", writer' = Idle \/ writer' = [writer EXCEPT !.pc = "written"],
         UNCHANGED <<unsent, passVars, failedAcks, accepted, histVars, embargo>>
  PROVE  IInv'
<1>1. /\ UNCHANGED <<unsent, sender, current, snapshot, index, reloaded, failedAcks,
                     accepted, settled, delivered, repeated, forgotten, embargo>>
      /\ writer \in [pc : {"idle", "opened", "written", "terminated"},
                     id : Replies \cup {NoReply}, live : BOOLEAN]
      /\ writer.id \in Replies \ unsent /\ writer.id \in Unseen
      /\ file \in Seq(Line) /\ unfinished \in BOOLEAN
  BY Types DEF passVars, histVars, IInv, Control, Unseen
<1>2. /\ file' \in Seq(Line) /\ unfinished' \in BOOLEAN
      /\ \A id \in Replies : \A i \in Place(file', id) :
           \/ i \in Place(file, id) /\ file'[i] = file[i]
           \/ file'[i] = line /\ line # Torn /\ line.id = id
  BY <1>1, PutKeeps
<1>3. \A id \in Replies : \A i \in Place(file', id) :
        \/ i \in Place(file, id) /\ file'[i] = file[i]
        \/ id = writer.id /\ ~file'[i].ack
  BY <1>2 DEF NewRecord
<1>4. /\ writer' \in [pc : {"idle", "opened", "written", "terminated"},
                      id : Replies \cup {NoReply}, live : BOOLEAN]
      /\ writer'.pc # "opened"
      /\ writer'.pc # "idle" => writer'.id = writer.id
  <2>1. CASE writer' = Idle
    BY <2>1 DEF Idle
  <2>2. CASE writer' = [writer EXCEPT !.pc = "written"]
    BY <1>1, <2>2
  <2> QED BY <2>1, <2>2
<1>5. TypeOK'
  BY <1>1, <1>2, <1>4 DEF IInv, TypeOK, Line
<1>6. Control'
  BY <1>1, <1>4 DEF IInv, Control, Busy, Place
<1>7. Unseen' = unsent /\ writer.id \notin Unseen' /\ Unseen' \subseteq Unseen
  BY <1>1, <1>4 DEF Unseen
<1>8. unsent \subseteq Replies
  BY DEF IInv, TypeOK
<1>9. Fresh'
  BY <1>1, <1>3, <1>7, <1>8 DEF IInv, Fresh, Place, Busy
<1>10. writer.id \notin delivered /\ Place(file, writer.id) = {}
  BY <1>1 DEF IInv, Fresh
<1>11. delivered \subseteq Replies
  BY DEF IInv, TypeOK
<1>12. \A id \in Replies \ {writer.id} : AllAcked(file, id) => AllAcked(file', id)
  BY <1>3 DEF AllAcked
<1>13. \A id \in Replies : AckedIn(file', id) => AckedIn(file, id) /\ id # writer.id
  BY <1>3, <1>10 DEF AckedIn
<1>14. Remembered'
  BY <1>1, <1>10, <1>11, <1>12 DEF IInv, Remembered, AllAcked, Place
<1>15. Agreed'
  BY <1>1, <1>12, <1>13 DEF IInv, Agreed, AckedIn, AllAcked, Place
<1>16. NotAgain' /\ NoRepeatWhileRemembered'
  BY <1>1 DEF IInv, NotAgain, NoRepeatWhileRemembered
<1> QED BY <1>5, <1>6, <1>9, <1>14, <1>15, <1>16 DEF IInv

\* The steps of the worker that leave the lines alone.
LEMMA WorkerElse ==
  ASSUME IInv,
         UNCHANGED <<file, unsent, passVars, failedAcks, histVars, embargo>>,
         unfinished' \in BOOLEAN,
         accepted' = accepted \/ (writer.pc # "idle" /\ accepted' = accepted \cup {writer.id}),
         writer' = Idle \/ (writer.pc = "written" /\ writer' = [writer EXCEPT !.pc = "terminated"])
  PROVE  IInv'
<1>1. /\ UNCHANGED <<file, unsent, sender, current, snapshot, index, reloaded, failedAcks,
                     settled, delivered, repeated, forgotten, embargo>>
      /\ writer \in [pc : {"idle", "opened", "written", "terminated"},
                     id : Replies \cup {NoReply}, live : BOOLEAN]
      /\ writer.pc # "idle" => writer.id \in Replies \ unsent
  BY Types DEF passVars, histVars, IInv, Control
<1>2. /\ writer' \in [pc : {"idle", "opened", "written", "terminated"},
                      id : Replies \cup {NoReply}, live : BOOLEAN]
      /\ writer'.pc # "opened"
      /\ writer'.pc # "idle" => writer.pc # "idle" /\ writer'.id = writer.id
  <2>1. CASE writer' = Idle
    BY <2>1 DEF Idle
  <2>2. CASE writer.pc = "written" /\ writer' = [writer EXCEPT !.pc = "terminated"]
    BY <1>1, <2>2
  <2> QED BY <2>1, <2>2
<1>3. TypeOK'
  BY <1>1, <1>2 DEF IInv, TypeOK
<1>4. Control'
  BY <1>1, <1>2 DEF IInv, Control, Busy, Place
<1>5. Unseen' \subseteq Unseen
  BY <1>1, <1>2 DEF Unseen
<1>6. Fresh' /\ Remembered' /\ NotAgain' /\ NoRepeatWhileRemembered' /\ Agreed'
  BY <1>1, <1>5 DEF IInv, Fresh, Remembered, NotAgain, NoRepeatWhileRemembered, Agreed, Place,
                    AckedIn, AllAcked, Busy
<1> QED BY <1>3, <1>4, <1>6 DEF IInv

LEMMA WorkerStep ==
  ASSUME IInv, Worker
  PROVE  IInv'
<1>1. CASE \E id \in Replies : OpenForAppend(id)
  BY <1>1, OpenForAppendStep
<1>2. CASE WriteLine
  <2>1. writer.id \in Replies
    BY <1>2 DEF WriteLine, IInv, Control
  <2>2. NewRecord(writer.id) \in Line
    BY <2>1, Constants DEF NewRecord, Line, Record
  <2> QED BY <1>2, <2>2, PutStep DEF WriteLine
<1>3. CASE WriteNewline \/ Sync
  <2>1. unfinished' \in BOOLEAN
    BY <1>3, Types DEF WriteNewline, Sync, logVars, IInv
  <2> QED BY <1>3, <2>1, WorkerElse DEF WriteNewline, Sync, logVars
<1>4. CASE AppendFails
  <2>1. CASE writer.pc = "opened" /\ PutLine(Torn)
    BY <1>4, <2>1, PutStep DEF AppendFails, Line
  <2>2. CASE UNCHANGED logVars
    <3>1. unfinished' \in BOOLEAN
      BY <2>2, Types DEF logVars, IInv
    <3> QED BY <1>4, <2>2, <3>1, WorkerElse DEF AppendFails, logVars
  <2> QED BY <1>4, <2>1, <2>2 DEF AppendFails
<1> QED BY <1>1, <1>2, <1>3, <1>4 DEF Worker

-----------------------------------------------------------------------------
(* The sender.                                                              *)

\* The steps that change neither the logs nor the histories, nor pick a
\* reply: the sender only gets somewhere else.
LEMMA MoveStep ==
  ASSUME IInv,
         UNCHANGED <<logVars, writerVars, failedAcks, accepted, histVars, embargo>>,
         snapshot' \in {snapshot, << >>}, index' \in 1 .. Len(snapshot') + 1,
         \/ /\ sender' \in {"walking", "refused", "idle"} /\ sender # "acking"
            /\ reloaded' = << >> /\ current' \in {current, NoReply}
         \/ /\ sender' = "failing" /\ sender = "sending"
            /\ reloaded' = reloaded /\ current' = current
  PROVE  IInv'
<1>1. /\ UNCHANGED <<file, unfinished, unsent, writer, failedAcks, accepted, settled,
                     delivered, repeated, forgotten, embargo>>
      /\ snapshot' \in Seq(Record) /\ current \in Replies \cup {NoReply}
  BY Types, EmptyLog DEF logVars, writerVars, histVars, IInv, TypeOK
<1>2. /\ sender' \in {"walking", "refused", "idle", "failing"} /\ sender # "acking"
      /\ current' \in Replies \cup {NoReply}
      /\ sender' \in Busy => sender \in Busy /\ current' = current
                             /\ sender' = "failing" /\ sender = "sending"
      /\ reloaded' \in {reloaded, << >>}
  BY <1>1 DEF Busy
<1>3. reloaded' = << >>
  BY <1>2 DEF IInv, Control
<1>4. TypeOK'
  BY <1>1, <1>2, <1>3, EmptyLog DEF IInv, TypeOK
<1>5. Control'
  BY <1>1, <1>2, <1>3 DEF IInv, Control
<1>6. Unseen' = Unseen
  BY <1>1 DEF Unseen
<1>7. /\ \A id : Place(file', id) = Place(file, id)
      /\ \A id : Place(reloaded', id) = {}
      /\ snapshot' = snapshot \/ \A id : Place(snapshot', id) = {}
  <2>1. snapshot' = snapshot \/ snapshot' = << >>
    OBVIOUS
  <2>2. snapshot' = << >> => \A id : Place(snapshot', id) = {}
    BY EmptyLog
  <2>3. \A id : Place(reloaded', id) = {}
    BY <1>3, EmptyLog
  <2>4. \A id : Place(file', id) = Place(file, id)
    BY <1>1 DEF Place
  <2> QED BY <2>1, <2>2, <2>3, <2>4
<1>8. Fresh'
  BY <1>1, <1>2, <1>6, <1>7 DEF IInv, Fresh
<1>9. Remembered'
  BY <1>1, <1>2, <1>7 DEF IInv, Remembered, AllAcked
<1>10. Agreed'
  BY <1>1, <1>2, <1>7 DEF IInv, Agreed, AllAcked, AckedIn
<1>11. NotAgain' /\ NoRepeatWhileRemembered'
  BY <1>1, <1>2 DEF IInv, NotAgain, NoRepeatWhileRemembered, Busy
<1> QED BY <1>4, <1>5, <1>8, <1>9, <1>10, <1>11 DEF IInv

\* A pass starts from what the file shows, or a failure from a copy of it.
LEMMA CopyStep ==
  ASSUME IInv, OpenCursor \/ ReloadForFailure
  PROVE  IInv'
<1>1. /\ UNCHANGED <<file, unfinished, unsent, writer, current, failedAcks, accepted,
                     settled, delivered, repeated, forgotten, embargo>>
      /\ file \in Seq(Record)
      /\ sender # "acking" /\ sender' # "acking"
      /\ \/ /\ sender = "idle" /\ sender' = "walking"
            /\ snapshot' = file /\ index' = 1 /\ reloaded' = reloaded
         \/ /\ sender = "failing" /\ sender' = "rewriting"
            /\ reloaded' = file /\ Place(file, current) # {}
            /\ snapshot' = snapshot /\ index' = index
  BY Types, Loaded DEF OpenCursor, ReloadForFailure, logVars, writerVars, histVars, IInv
<1>2. /\ snapshot' \in Seq(Record) /\ reloaded' \in Seq(Record)
      /\ index' \in 1 .. Len(snapshot') + 1
      /\ sender' \in {"walking", "rewriting"}
  <2>1. Len(file) \in Nat
    BY <1>1, LenProperties
  <2> QED BY <1>1, <2>1 DEF IInv, TypeOK
<1>3. TypeOK'
  BY <1>1, <1>2 DEF IInv, TypeOK
<1>4. Control'
  BY <1>1 DEF IInv, Control, Busy, Place
<1>5. Unseen' = Unseen
  BY <1>1 DEF Unseen
<1>6. Fresh'
  BY <1>1, <1>5 DEF IInv, Fresh, Busy, Place
<1>7. Remembered'
  BY <1>1 DEF IInv, Remembered, AllAcked, Place
<1>8. Agreed'
  <2>1. \A id \in Replies : AckedIn(file, id) => AllAcked(file, id) /\ AllAcked(snapshot, id)
    BY DEF IInv, Agreed
  <2>2. file' = file
    BY <1>1
  <2>3. CASE snapshot' = file /\ reloaded' = << >>
    BY <2>1, <2>2, <2>3, EmptyLog DEF Agreed, AckedIn, AllAcked
  <2>4. CASE snapshot' = snapshot /\ reloaded' = file
    BY <2>1, <2>2, <2>4 DEF IInv, Agreed, AckedIn, AllAcked, Place
  <2> QED BY <1>1, <2>3, <2>4 DEF IInv, Control
<1>9. NotAgain' /\ NoRepeatWhileRemembered'
  BY <1>1 DEF IInv, NotAgain, NoRepeatWhileRemembered
<1> QED BY <1>3, <1>4, <1>6, <1>7, <1>8, <1>9 DEF IInv

LEMMA YieldStep ==
  ASSUME IInv, Yield
  PROVE  IInv'
<1>1. /\ UNCHANGED <<file, unfinished, unsent, writer, snapshot, reloaded, failedAcks, accepted,
                     settled, delivered, repeated, forgotten, embargo>>
      /\ sender = "walking" /\ sender' = "sending" /\ index' = index + 1
      /\ index \in 1 .. Len(snapshot) /\ Len(snapshot) \in Nat
      /\ snapshot \in Seq(Record)
      /\ Yields(snapshot[index]) /\ current' = snapshot[index].id
  BY Types DEF Yield, logVars, writerVars, histVars, IInv, TypeOK
<1>2. snapshot[index] \in Record /\ snapshot[index] # Torn /\ index \in DOMAIN snapshot
  BY <1>1, ElementOfSeq, LenProperties, TornAssumption
<1>3. /\ current' \in Replies /\ index \in Place(snapshot, current')
      /\ ~snapshot[index].ack /\ current' \notin failedAcks
  BY <1>1, <1>2 DEF Place, Record, Yields
<1>4. TypeOK'
  BY <1>1, <1>3 DEF IInv, TypeOK
<1>5. Control'
  BY <1>1, <1>3 DEF IInv, Control, Place
<1>6. Unseen' = Unseen /\ current' \notin Unseen
  BY <1>1, <1>3 DEF Unseen, IInv, Fresh
<1>7. Fresh'
  BY <1>1, <1>6 DEF IInv, Fresh, Place
<1>8. Remembered' /\ NoRepeatWhileRemembered'
  BY <1>1 DEF IInv, Remembered, AllAcked, NoRepeatWhileRemembered, Place
<1>9. current' \notin delivered \ forgotten
  BY <1>1, <1>3 DEF IInv, Remembered, AllAcked
<1>10. NotAgain' /\ Agreed'
  BY <1>1, <1>9 DEF IInv, NotAgain, Agreed, AllAcked, AckedIn, Place
<1> QED BY <1>4, <1>5, <1>7, <1>8, <1>10 DEF IInv

LEMMA SettleStep ==
  ASSUME IInv, SendOk \/ SendRefused
  PROVE  IInv'
<1>1. /\ UNCHANGED <<file, unfinished, unsent, writer, current, snapshot, index, reloaded,
                     failedAcks, accepted, forgotten, embargo>>
      /\ sender = "sending" /\ sender' = "acking"
      /\ settled' = settled \cup {current}
      /\ delivered' \in {delivered, delivered \cup {current}}
      /\ repeated' \in {repeated, IF current \in delivered THEN repeated \cup {current} ELSE repeated}
      /\ current \in Replies
  BY DEF SendOk, SendRefused, logVars, writerVars, IInv, Control, Busy
<1>2. repeated' \subseteq delivered'
  BY <1>1 DEF IInv, TypeOK, SendOk, SendRefused
<1>3. TypeOK'
  BY <1>1, <1>2 DEF IInv, TypeOK
<1>4. Control'
  BY <1>1 DEF IInv, Control, Busy, Place
<1>5. Unseen' = Unseen /\ current \notin Unseen
  BY <1>1 DEF Unseen, IInv, Fresh, Busy
<1>6. Fresh'
  BY <1>1, <1>5 DEF IInv, Fresh, Place, Busy
<1>7. Remembered' /\ NotAgain' /\ Agreed'
  BY <1>1 DEF IInv, Remembered, NotAgain, Agreed, AllAcked, AckedIn, Place
<1>8. NoRepeatWhileRemembered'
  BY <1>1 DEF IInv, NoRepeatWhileRemembered, NotAgain
<1> QED BY <1>3, <1>4, <1>6, <1>7, <1>8 DEF IInv

LEMMA AckStep ==
  ASSUME IInv, Ack \/ AckFails
  PROVE  IInv'
<1>1. /\ UNCHANGED <<unsent, index, reloaded, accepted, settled, delivered, repeated, embargo>>
      /\ sender = "acking" /\ sender' = "walking" /\ current' = NoReply
      /\ snapshot' = Acked(snapshot, current) /\ reloaded = << >>
      /\ current \in Replies /\ snapshot \in Seq(Record)
      /\ \/ /\ file' = snapshot' /\ unfinished' = FALSE
            /\ writer' = [writer EXCEPT !.live = FALSE]
            /\ UNCHANGED <<failedAcks, forgotten>>
         \/ /\ UNCHANGED <<file, unfinished, writer>>
            /\ \/ failedAcks' = failedAcks \cup {current} /\ UNCHANGED forgotten
               \/ forgotten' = forgotten \cup {current} /\ UNCHANGED failedAcks
  BY Types DEF Ack, AckFails, Rewrite, logVars, writerVars, histVars, IInv, Control, Busy
<1>2. /\ snapshot' \in Seq(Record) /\ Len(snapshot') = Len(snapshot)
      /\ \A e \in Replies :
           /\ Place(snapshot', e) = Place(snapshot, e)
           /\ \A i \in Place(snapshot, e) : snapshot'[i].ack = (snapshot[i].ack \/ e = current)
  BY <1>1, AckedKeeps
<1>3. /\ writer' \in [pc : {"idle", "opened", "written", "terminated"},
                      id : Replies \cup {NoReply}, live : BOOLEAN]
      /\ writer'.pc = writer.pc /\ writer'.id = writer.id
  BY <1>1, Types DEF IInv
<1>4. TypeOK'
  <2>1. file' \in Seq(Record \cup {Torn}) /\ unfinished' \in BOOLEAN
    BY <1>1, <1>2, RecordsAreLines, Types DEF Line, IInv
  <2>2. failedAcks' \subseteq Replies /\ forgotten' \subseteq Replies
    BY <1>1 DEF IInv, TypeOK
  <2> QED BY <1>1, <1>2, <1>3, <2>1, <2>2 DEF IInv, TypeOK
<1>5. Control'
  BY <1>1, <1>3 DEF IInv, Control, Busy
<1>6. Unseen' = Unseen /\ Unseen \subseteq Replies
  BY <1>1, <1>3 DEF Unseen, IInv, Control, TypeOK
<1>7. Fresh'
  BY <1>1, <1>2, <1>6 DEF IInv, Fresh, Busy, Place
<1>8. \A e \in Replies : /\ AllAcked(snapshot, e) => AllAcked(snapshot', e)
                         /\ AckedIn(snapshot', e) => AckedIn(snapshot, e) \/ e = current
                         /\ AllAcked(snapshot', current)
  BY <1>1, <1>2 DEF AllAcked, AckedIn
<1>9. \A e : AllAcked(reloaded, e) /\ ~AckedIn(reloaded, e)
             /\ AllAcked(reloaded', e) /\ ~AckedIn(reloaded', e)
  BY <1>1, EmptyLog DEF AllAcked, AckedIn
<1>10. \/ file' = snapshot'
       \/ file' = file
  BY <1>1
<1>11. delivered \subseteq Replies
  BY DEF IInv, TypeOK
<1>12. Remembered'
  <2> SUFFICES ASSUME NEW id \in delivered \ (forgotten' \cup failedAcks')
               PROVE  AllAcked(file', id) /\ AllAcked(snapshot', id)
    BY <1>1, <1>9 DEF Remembered, AllAcked, Place
  <2>1. id \in Replies /\ id \in delivered \ (forgotten \cup failedAcks)
    BY <1>1, <1>11
  <2>2. CASE id = current
    BY <1>1, <1>8, <2>2 DEF AllAcked, Place
  <2>3. CASE id # current
    BY <1>8, <1>10, <2>1, <2>3 DEF IInv, Remembered
  <2> QED BY <2>2, <2>3
<1>13. Agreed'
  <2> SUFFICES ASSUME NEW id \in Replies
               PROVE  /\ AckedIn(file', id) => AllAcked(file', id) /\ AllAcked(snapshot', id)
                      /\ AckedIn(snapshot', id) => AllAcked(snapshot', id)
    BY <1>9 DEF Agreed, AllAcked, AckedIn, Place
  <2>1. AckedIn(snapshot', id) => AllAcked(snapshot', id)
    BY <1>8 DEF IInv, Agreed
  <2>2. CASE file' = snapshot'
    BY <2>1, <2>2
  <2>3. CASE file' = file
    BY <1>8, <2>3 DEF IInv, Agreed
  <2> QED BY <1>10, <2>1, <2>2, <2>3
<1>14. NotAgain' /\ NoRepeatWhileRemembered'
  BY <1>1 DEF IInv, NotAgain, NoRepeatWhileRemembered
<1> QED BY <1>4, <1>5, <1>7, <1>12, <1>13, <1>14 DEF IInv

LEMMA RecordFailureStep ==
  ASSUME IInv, RecordFailure
  PROVE  IInv'
<1>1. /\ UNCHANGED <<unsent, snapshot, index, failedAcks, accepted, settled, delivered,
                     repeated, forgotten>>
      /\ sender = "rewriting" /\ sender' = "walking" /\ current' = NoReply
      /\ file' = Postponed(reloaded, current) /\ unfinished' = FALSE /\ reloaded' = << >>
      /\ writer' = [writer EXCEPT !.live = FALSE]
      /\ current \in Replies /\ reloaded \in Seq(Record)
  BY Types DEF RecordFailure, Rewrite, histVars, IInv, Control, Busy
<1>2. file' \in Seq(Record) /\ SameAcks(reloaded, file')
  BY <1>1, PostponedKeeps
<1>3. /\ writer' \in [pc : {"idle", "opened", "written", "terminated"},
                      id : Replies \cup {NoReply}, live : BOOLEAN]
      /\ writer'.pc = writer.pc /\ writer'.id = writer.id
  BY <1>1, Types DEF IInv
<1>4. embargo' \in [Replies -> 0 .. BackoffCap]
  <2> DEFINE i == CHOOSE j \in Place(reloaded, current) : TRUE
  <2>1. i \in Place(reloaded, current)
    BY <1>1 DEF IInv, Control
  <2>2. reloaded[i] \in Record
    BY <1>1, <2>1, ElementOfSeq, LenProperties DEF Place
  <2>3. reloaded[i].wait \in 0 .. BackoffCap
    BY <2>2, Constants DEF Record
  <2>4. embargo' = [embargo EXCEPT ![current] = reloaded[i].wait]
    BY DEF RecordFailure
  <2> HIDE DEF i
  <2> QED BY <2>3, <2>4 DEF IInv, TypeOK
<1>5. TypeOK'
  <2>1. file' \in Seq(Record \cup {Torn})
    BY <1>2, RecordsAreLines DEF Line
  <2> QED BY <1>1, <1>3, <1>4, <2>1, EmptyLog DEF IInv, TypeOK
<1>6. Control'
  BY <1>1, <1>3 DEF IInv, Control, Busy
<1>7. Unseen' = Unseen /\ Unseen \subseteq Replies
  BY <1>1, <1>3 DEF Unseen, IInv, Control, TypeOK
<1>8. \A e \in Replies : /\ Place(file', e) = Place(reloaded, e)
                         /\ AllAcked(file', e) <=> AllAcked(reloaded, e)
                         /\ AckedIn(file', e) <=> AckedIn(reloaded, e)
  BY <1>2 DEF SameAcks, AllAcked, AckedIn
<1>9. \A e : /\ Place(snapshot', e) = Place(snapshot, e) /\ Place(reloaded', e) = {}
             /\ AllAcked(snapshot', e) <=> AllAcked(snapshot, e)
             /\ AckedIn(snapshot', e) <=> AckedIn(snapshot, e)
             /\ AllAcked(reloaded', e) /\ ~AckedIn(reloaded', e)
  BY <1>1, EmptyLog DEF AllAcked, AckedIn
<1>10. Fresh'
  BY <1>1, <1>7, <1>8, <1>9 DEF IInv, Fresh, Busy
<1>11. delivered \subseteq Replies
  BY DEF IInv, TypeOK
<1>12. Remembered'
  BY <1>1, <1>8, <1>9, <1>11 DEF IInv, Remembered
<1>13. Agreed'
  BY <1>8, <1>9 DEF IInv, Agreed
<1>14. NotAgain' /\ NoRepeatWhileRemembered'
  BY <1>1 DEF IInv, NotAgain, NoRepeatWhileRemembered
<1> QED BY <1>5, <1>6, <1>10, <1>12, <1>13, <1>14 DEF IInv

LEMMA SenderStep ==
  ASSUME IInv, Sender
  PROVE  IInv'
<1> USE DEF IInv
<1>1. CASE CursorRefused \/ Skip \/ EndPass
  BY <1>1, MoveStep, Types DEF CursorRefused, Skip, EndPass, Control, TypeOK, logVars, writerVars
<1>2. CASE SendAgain \/ RecordFailureFails
  BY <1>2, MoveStep, Types DEF SendAgain, RecordFailureFails, Control, TypeOK
<1> QED BY <1>1, <1>2, CopyStep, YieldStep, SettleStep, AckStep, RecordFailureStep
        DEF Sender, Send

-----------------------------------------------------------------------------
(* Time, and the daemon.                                                    *)

LEMMA TickStep ==
  ASSUME IInv, Tick
  PROVE  IInv'
<1>1. /\ UNCHANGED <<unfinished, unsent, writer, sender, current, index, failedAcks,
                     accepted, settled, delivered, repeated, forgotten>>
      /\ file' = Age(file) /\ snapshot' = Age(snapshot) /\ reloaded' = Age(reloaded)
      /\ embargo' = [id \in Replies |-> Sooner(embargo[id])]
  BY DEF Tick, writerVars, histVars
<1>2. /\ file' \in Seq(Line) /\ snapshot' \in Seq(Record) /\ reloaded' \in Seq(Record)
      /\ Len(snapshot') = Len(snapshot) /\ Len(reloaded') = Len(reloaded)
      /\ SameAcks(file, file') /\ SameAcks(snapshot, snapshot') /\ SameAcks(reloaded, reloaded')
  BY <1>1, Types, RecordsAreLines, AgeKeeps DEF IInv
<1>3. embargo' \in [Replies -> 0 .. BackoffCap]
  BY <1>1, Constants DEF Sooner, IInv, TypeOK
<1>4. TypeOK'
  BY <1>1, <1>2, <1>3 DEF IInv, TypeOK, Line
<1>5. \A e \in Replies :
        /\ Place(file', e) = Place(file, e) /\ Place(snapshot', e) = Place(snapshot, e)
        /\ Place(reloaded', e) = Place(reloaded, e)
        /\ AllAcked(file', e) <=> AllAcked(file, e)
        /\ AckedIn(file', e) <=> AckedIn(file, e)
        /\ AllAcked(snapshot', e) <=> AllAcked(snapshot, e)
        /\ AckedIn(snapshot', e) <=> AckedIn(snapshot, e)
        /\ AllAcked(reloaded', e) <=> AllAcked(reloaded, e)
        /\ AckedIn(reloaded', e) <=> AckedIn(reloaded, e)
  BY <1>2, SameShown
<1>6. reloaded = << >> => reloaded' = << >>
  BY <1>2, EmptyLog, EmptySeq, Types DEF IInv
<1>7. Control'
  BY <1>1, <1>5, <1>6 DEF IInv, Control, Busy
<1>8. Unseen' = Unseen /\ Unseen \subseteq Replies /\ delivered \subseteq Replies
  BY <1>1 DEF Unseen, IInv, Control, TypeOK
<1>9. Fresh'
  BY <1>1, <1>5, <1>8 DEF IInv, Fresh
<1>10. Remembered'
  BY <1>1, <1>5, <1>8 DEF IInv, Remembered
<1>11. Agreed'
  BY <1>5 DEF IInv, Agreed
<1>12. NotAgain' /\ NoRepeatWhileRemembered'
  BY <1>1 DEF IInv, NotAgain, NoRepeatWhileRemembered
<1> QED BY <1>4, <1>7, <1>9, <1>10, <1>11, <1>12 DEF IInv

LEMMA CrashStep ==
  ASSUME IInv, Crash
  PROVE  IInv'
<1>1. /\ UNCHANGED <<file, unfinished, unsent, accepted, settled, embargo>>
      /\ writer' = Idle /\ sender' = "idle" /\ current' = NoReply
      /\ snapshot' = << >> /\ index' = 1 /\ reloaded' = << >> /\ failedAcks' = {}
      /\ delivered' = {} /\ repeated' = {} /\ forgotten' = {}
  BY DEF Crash, logVars
<1>2. writer' \in [pc : {"idle", "opened", "written", "terminated"},
                   id : Replies \cup {NoReply}, live : BOOLEAN]
  BY <1>1 DEF Idle
<1>3. TypeOK'
  BY <1>1, <1>2, EmptyLog DEF IInv, TypeOK
<1>4. Control'
  BY <1>1 DEF Control, Busy, Idle
<1>5. Unseen' \subseteq Unseen
  BY <1>1 DEF Unseen, Idle
<1>6. \A id : /\ Place(file', id) = Place(file, id)
              /\ Place(snapshot', id) = {} /\ Place(reloaded', id) = {}
  BY <1>1, EmptyLog
<1>7. Fresh'
  BY <1>1, <1>5, <1>6 DEF IInv, Fresh, Busy
<1>8. Remembered' /\ NotAgain' /\ NoRepeatWhileRemembered'
  BY <1>1 DEF Remembered, NotAgain, NoRepeatWhileRemembered
<1>9. Agreed'
  BY <1>1, <1>6 DEF IInv, Agreed, AllAcked, AckedIn
<1> QED BY <1>3, <1>4, <1>7, <1>8, <1>9 DEF IInv

LEMMA Inductive ==
  ASSUME IInv, [Next]_vars
  PROVE  IInv'
<1>1. CASE UNCHANGED vars
  BY <1>1 DEF vars, logVars, writerVars, passVars, histVars, IInv, TypeOK, Control, Fresh, Unseen,
              Remembered, NotAgain, NoRepeatWhileRemembered, Agreed, AllAcked, AckedIn, Place, Busy
<1> QED BY <1>1, WorkerStep, SenderStep, TickStep, CrashStep DEF Next

LEMMA Invariant == Spec => []IInv
BY InitHolds, Inductive, PTL DEF Spec

(* Every state is of its type: the records of every log stay records, and  *)
(* the sender's index never leaves its snapshot by more than one, whatever *)
(* rewrites and appends do to the file under it (outbox.zig).              *)
THEOREM TypeCorrect == Spec => []TypeOK
<1>1. IInv => TypeOK
  BY DEF IInv
<1> QED BY <1>1, Invariant, PTL

(* A reply that a send reported delivered is not sent again while the      *)
(* daemon lives, under every interleaving of appends and passes, torn      *)
(* lines and failed rewrites, unless failed_acks was full                  *)
(* (outbox_sender.zig, deliverOne and rememberFailedAck).                  *)
THEOREM DeliveredOnce == Spec => []NoRepeatWhileRemembered
<1>1. IInv => NoRepeatWhileRemembered
  BY DEF IInv
<1> QED BY <1>1, Invariant, PTL

-----------------------------------------------------------------------------
(* Acks on disk.                                                            *)

LEMMA AckSurvives ==
  ASSUME IInv, [Next]_vars, NEW id \in Replies, AckedIn(file, id)
  PROVE  AllAcked(file', id)
<1>1. AllAcked(file, id) /\ AllAcked(snapshot, id) /\ AllAcked(reloaded, id)
  BY DEF IInv, Agreed
<1>2. CASE UNCHANGED file
  BY <1>1, <1>2 DEF AllAcked, Place
<1>3. CASE WriteLine \/ (AppendFails /\ PutLine(Torn) /\ writer.pc = "opened")
  <2>1. PICK line \in Line : PutLine(line) /\ (line = Torn \/ line.id = writer.id)
    <3>1. writer.pc = "opened" /\ writer.id \in Replies
      BY <1>3 DEF WriteLine, IInv, Control
    <3>2. NewRecord(writer.id) \in Line /\ NewRecord(writer.id).id = writer.id /\ Torn \in Line
      BY <3>1, Constants DEF NewRecord, Line, Record
    <3> QED BY <1>3, <3>2 DEF WriteLine
  <2>2. Place(file, writer.id) = {}
    BY <1>3 DEF WriteLine, IInv, Fresh, Unseen
  <2>3. \A i \in Place(file', id) : \/ i \in Place(file, id) /\ file'[i] = file[i]
                                    \/ writer.id = id
    BY <2>1, PutKeeps, Types DEF IInv
  <2> QED BY <1>1, <2>2, <2>3 DEF AllAcked, AckedIn
<1>4. CASE Ack
  <2>1. file' = Acked(snapshot, current) /\ current \in Replies /\ snapshot \in Seq(Record)
    BY <1>4, Types DEF Ack, Rewrite, IInv, Control, Busy
  <2>2. /\ Place(file', id) = Place(snapshot, id)
        /\ \A i \in Place(snapshot, id) : file'[i].ack = (snapshot[i].ack \/ id = current)
    BY <2>1, AckedKeeps
  <2> QED BY <1>1, <2>2 DEF AllAcked
<1>5. CASE RecordFailure
  <2>1. file' = Postponed(reloaded, current) /\ current \in Replies /\ reloaded \in Seq(Record)
    BY <1>5, Types DEF RecordFailure, Rewrite, IInv, Control, Busy
  <2>2. SameAcks(reloaded, file')
    BY <2>1, PostponedKeeps
  <2> QED BY <1>1, <2>2 DEF AllAcked, SameAcks
<1>6. CASE Tick
  BY <1>1, <1>6, Types, AgeKeeps DEF Tick, AllAcked, SameAcks, IInv
<1>7. CASE Worker
  <2>1. CASE AppendFails
    BY <1>2, <1>3, <2>1 DEF AppendFails, logVars
  <2> QED BY <1>2, <1>3, <1>7, <2>1 DEF Worker, OpenForAppend, WriteNewline, Sync, logVars
<1>8. CASE Sender
  BY <1>2, <1>4, <1>5, <1>8
     DEF Sender, Send, OpenCursor, CursorRefused, Skip, Yield, EndPass, SendOk, SendRefused,
         SendAgain, AckFails, ReloadForFailure, RecordFailureFails, logVars
<1> QED BY <1>2, <1>6, <1>7, <1>8 DEF Next, Crash, vars, logVars

(* Once an ack is on disk no rewrite brings the reply back: the copies     *)
(* Cursor.ack and recordFailure write the file from have every ack it has  *)
(* (outbox.zig, Cursor.ack and recordFailure).                             *)
THEOREM AcksAreFinal == Spec => AckIsFinal
<1>1. IInv /\ [Next]_vars =>
        [\A id \in Replies :
           (\E i \in Place(file, id) : file[i].ack)
             => (\A i \in Place(file', id) : file'[i].ack)]_vars
  BY AckSurvives DEF AckedIn, AllAcked
<1> QED BY <1>1, Invariant, PTL DEF Spec, AckIsFinal

-----------------------------------------------------------------------------
(* Replay, when appends and passes never overlap and every write is whole.  *)

\* The worker has the file to itself, and ends the line it began.
OneAtATime ==
  /\ writer.pc # "idle" => sender = "idle" /\ writer.live
  /\ Readable(file)
  /\ unfinished => writer.pc = "written"

\* The sender's copies hold the replies the file holds.
CopiesAreFull ==
  /\ sender \notin {"idle", "refused"} =>
       \A id \in Replies : Place(snapshot, id) = Place(file, id)
  /\ sender = "rewriting" => \A id \in Replies : Place(reloaded, id) = Place(file, id)

AckedIsSettled ==
  /\ \A id \in Replies :
       AckedIn(file, id) \/ AckedIn(snapshot, id) \/ AckedIn(reloaded, id) => id \in settled
  /\ sender = "acking" => current \in settled

AcceptedIsLogged ==
  /\ \A id \in accepted : Place(file, id) # {}
  /\ writer.pc \in {"written", "terminated"} => Place(file, writer.id) # {}

ReplayInv == OneAtATime /\ CopiesAreFull /\ AckedIsSettled /\ AcceptedIsLogged

\* The header's contract, and the faults it allows for.
Contract == OneThread /\ Faults \subseteq {"crash", "rewrite fails"}

LEMMA ReplayInit ==
  ASSUME Init
  PROVE  ReplayInv
BY EmptyLog DEF Init, Idle, ReplayInv, OneAtATime, CopiesAreFull, AckedIsSettled,
                AcceptedIsLogged, AckedIn, Readable

LEMMA ReplayWorker ==
  ASSUME IInv, ReplayInv, Contract, Worker
  PROVE  ReplayInv'
<1> USE DEF ReplayInv
<1>1. /\ UNCHANGED <<sender, current, snapshot, index, reloaded, settled>>
      /\ writer \in [pc : {"idle", "opened", "written", "terminated"},
                     id : Replies \cup {NoReply}, live : BOOLEAN]
      /\ file \in Seq(Line) /\ unfinished \in BOOLEAN
      /\ ~AppendFails
  BY Types DEF Worker, OpenForAppend, WriteLine, WriteNewline, Sync, AppendFails, passVars,
               histVars, IInv, Contract
<1>2. sender = "idle"
  BY <1>1 DEF Worker, OpenForAppend, WriteLine, WriteNewline, Sync, OneAtATime, Contract
<1>3. CopiesAreFull'
  BY <1>1, <1>2 DEF CopiesAreFull
<1>4. CASE \E id \in Replies : OpenForAppend(id)
  <2>1. PICK id \in Replies : OpenForAppend(id)
    BY <1>4
  <2>2. /\ writer' = [pc |-> "opened", id |-> id, live |-> TRUE] /\ writer.pc = "idle"
        /\ UNCHANGED <<file, unfinished, accepted>>
    BY <2>1 DEF OpenForAppend, logVars
  <2> QED BY <1>1, <1>2, <1>3, <2>2
          DEF OneAtATime, AckedIsSettled, AcceptedIsLogged, AckedIn, Place, Readable
<1>5. CASE WriteLine
  <2> DEFINE line == NewRecord(writer.id)
  <2>1. /\ writer.pc = "opened" /\ writer.live /\ ~unfinished /\ writer.id \in Replies
        /\ writer' = [writer EXCEPT !.pc = "written"] /\ PutLine(line)
        /\ accepted' = accepted
    BY <1>5 DEF WriteLine, OneAtATime, IInv, Control
  <2>2. line \in Record /\ line \in Line /\ line # Torn /\ line.id = writer.id /\ ~line.ack
    <3>1. line \in Record
      BY <2>1, Constants DEF NewRecord, Record
    <3>2. line.id = writer.id /\ ~line.ack
      BY DEF NewRecord
    <3> QED BY <3>1, <3>2, TornAssumption DEF Line
  <2>3. writer'.pc = "written" /\ writer'.live /\ writer'.id = writer.id
    BY <1>1, <2>1
  <2> HIDE DEF line
  <2>4. /\ \A id \in Replies : \A i \in Place(file', id) :
              (i \in Place(file, id) /\ file'[i] = file[i]) \/ file'[i] = line
        /\ Readable(file) => Readable(file')
        /\ \A id \in Replies : Place(file, id) \subseteq Place(file', id)
        /\ Place(file', writer.id) # {}
    BY <1>1, <2>1, <2>2, PutKeeps
  <2>5. OneAtATime'
    BY <1>1, <1>2, <2>3, <2>4 DEF OneAtATime
  <2>6. AckedIsSettled'
    BY <1>1, <2>2, <2>4 DEF AckedIsSettled, AckedIn, Place
  <2>7. accepted \subseteq Replies
    BY DEF IInv, TypeOK
  <2>8. AcceptedIsLogged'
    BY <2>1, <2>3, <2>4, <2>7 DEF AcceptedIsLogged
  <2> QED BY <1>3, <2>5, <2>6, <2>8
<1>6. CASE WriteNewline
  <2>1. /\ writer.pc = "written" /\ writer.live
        /\ writer' = [writer EXCEPT !.pc = "terminated"]
        /\ file' = file /\ accepted' = accepted /\ unfinished' = FALSE
    BY <1>6 DEF WriteNewline, OneAtATime
  <2>2. writer'.pc = "terminated" /\ writer'.live /\ writer'.id = writer.id
    BY <1>1, <2>1
  <2> QED BY <1>1, <1>2, <1>3, <2>1, <2>2
          DEF OneAtATime, AckedIsSettled, AcceptedIsLogged, AckedIn, Place, Readable
<1>7. CASE Sync
  <2>1. /\ writer.pc = "terminated" /\ writer' = Idle
        /\ file' = file /\ unfinished' = unfinished /\ accepted' = accepted \cup {writer.id}
    BY <1>7 DEF Sync, logVars
  <2>2. writer'.pc = "idle"
    BY <2>1 DEF Idle
  <2> QED BY <1>1, <1>2, <1>3, <2>1, <2>2
          DEF OneAtATime, AckedIsSettled, AcceptedIsLogged, AckedIn, Place, Readable
<1> QED BY <1>1, <1>4, <1>5, <1>6, <1>7 DEF Worker

\* The steps of the sender that write no log.
LEMMA ReplayMove ==
  ASSUME IInv, ReplayInv, Contract,
         OpenCursor \/ CursorRefused \/ Skip \/ Yield \/ EndPass \/ Send
           \/ ReloadForFailure \/ RecordFailureFails
  PROVE  ReplayInv'
<1> USE DEF ReplayInv
<1>1. /\ UNCHANGED <<file, unfinished, writer, accepted>>
      /\ settled' \in {settled, settled \cup {current}}
      /\ sender' = "acking" => current' = current /\ current \in settled'
      /\ sender \in {"idle"} => writer.pc = "idle"
      /\ sender # "acking"
  BY DEF OpenCursor, CursorRefused, Skip, Yield, EndPass, Send, SendOk, SendRefused, SendAgain,
         ReloadForFailure, RecordFailureFails, logVars, writerVars, histVars, Contract
<1>2. writer.pc = "idle"
  BY <1>1 DEF OneAtATime
<1>3. OneAtATime'
  BY <1>1, <1>2 DEF OneAtATime, Readable
<1>4. AcceptedIsLogged'
  BY <1>1 DEF AcceptedIsLogged, Place
<1>5. \/ snapshot' = snapshot /\ sender \notin {"idle", "refused"}
      \/ snapshot' = file
      \/ snapshot' \in {snapshot, << >>} /\ sender' \in {"idle", "refused"}
  BY DEF OpenCursor, CursorRefused, Skip, Yield, EndPass, Send, SendOk, SendRefused, SendAgain,
         ReloadForFailure, RecordFailureFails
<1>6. \/ reloaded' = << >> /\ sender' # "rewriting"
      \/ reloaded' = file
  BY DEF OpenCursor, CursorRefused, Skip, Yield, EndPass, Send, SendOk, SendRefused, SendAgain,
         ReloadForFailure, RecordFailureFails, IInv, Control
<1>7. CopiesAreFull'
  <2>1. sender' \notin {"idle", "refused"} =>
          \A id \in Replies : Place(snapshot', id) = Place(file, id)
    BY <1>5 DEF CopiesAreFull
  <2>2. sender' = "rewriting" => \A id \in Replies : Place(reloaded', id) = Place(file, id)
    BY <1>6
  <2> QED BY <1>1, <2>1, <2>2 DEF CopiesAreFull, Place
<1>8. AckedIsSettled'
  <2>1. \A id \in Replies : AckedIn(snapshot', id) => AckedIn(snapshot, id) \/ AckedIn(file, id)
    <3>1. snapshot' = snapshot \/ snapshot' = file \/ snapshot' = << >>
      BY <1>5
    <3> QED BY <3>1, EmptyLog DEF AckedIn
  <2>2. \A id \in Replies : AckedIn(reloaded', id) => AckedIn(file, id)
    BY <1>6, EmptyLog DEF AckedIn
  <2>3. \A id \in Replies : AckedIn(file', id) => AckedIn(file, id)
    BY <1>1 DEF AckedIn, Place
  <2> QED BY <1>1, <2>1, <2>2, <2>3 DEF AckedIsSettled
<1> QED BY <1>3, <1>4, <1>7, <1>8

\* The steps that rewrite the file, or fail to.
LEMMA ReplayRewrite ==
  ASSUME IInv, ReplayInv, Contract, Ack \/ AckFails \/ RecordFailure
  PROVE  ReplayInv'
<1> USE DEF ReplayInv
<1>1. /\ sender \in {"acking", "rewriting"} /\ sender' = "walking"
      /\ UNCHANGED <<accepted, settled>> /\ reloaded' = << >>
      /\ current \in Replies /\ snapshot \in Seq(Record) /\ reloaded \in Seq(Record)
      /\ writer' = [writer EXCEPT !.live = FALSE] \/ writer' = writer
      /\ writer \in [pc : {"idle", "opened", "written", "terminated"},
                     id : Replies \cup {NoReply}, live : BOOLEAN]
      /\ sender = "acking" => current \in settled /\ reloaded = << >>
  BY Types DEF Ack, AckFails, RecordFailure, Rewrite, histVars, writerVars, IInv, Control, Busy,
               AckedIsSettled
<1>2. writer.pc = "idle" /\ writer'.pc = "idle"
  <2>1. writer.pc = "idle"
    BY <1>1 DEF OneAtATime
  <2> QED BY <1>1, <2>1
<1>3. /\ file' \in Seq(Line) /\ Readable(file') /\ ~unfinished'
      /\ \A id \in Replies : /\ Place(file', id) = Place(file, id)
                             /\ Place(snapshot', id) = Place(file, id)
                             /\ AckedIn(file', id) => id \in settled
                             /\ AckedIn(snapshot', id) => id \in settled
  <2>1. CASE Ack \/ AckFails
    <3>1. sender = "acking" /\ snapshot' = Acked(snapshot, current)
      BY <2>1 DEF Ack, AckFails
    <3>2. /\ snapshot' \in Seq(Record)
          /\ \A id \in Replies :
               /\ Place(snapshot', id) = Place(snapshot, id)
               /\ \A i \in Place(snapshot, id) :
                    snapshot'[i].ack = (snapshot[i].ack \/ id = current)
      <4>1. current \in Replies /\ snapshot \in Seq(Record)
        BY <1>1
      <4> QED BY <3>1, <4>1, AckedKeeps
    <3>3. \A id \in Replies : Place(snapshot, id) = Place(file, id)
      BY <3>1 DEF CopiesAreFull
    <3>4. \A id \in Replies : AckedIn(snapshot', id) => id \in settled
      BY <1>1, <3>1, <3>2 DEF AckedIn, AckedIsSettled
    <3>5. snapshot' \in Seq(Line) /\ Readable(snapshot')
      BY <3>2, RecordsAreLines
    <3>6. CASE file' = snapshot' /\ unfinished' = FALSE
      BY <3>2, <3>3, <3>4, <3>5, <3>6
    <3>7. CASE file' = file /\ unfinished' = unfinished
      BY <1>2, <3>2, <3>3, <3>4, <3>7, Types
         DEF IInv, OneAtATime, Readable, AckedIn, AckedIsSettled, Place
    <3> QED BY <2>1, <3>6, <3>7 DEF Ack, AckFails, Rewrite, logVars
  <2>2. CASE RecordFailure
    <3>1. /\ sender = "rewriting" /\ file' = Postponed(reloaded, current) /\ unfinished' = FALSE
          /\ snapshot' = snapshot
      BY <2>2 DEF RecordFailure, Rewrite
    <3>2. file' \in Seq(Record) /\ SameAcks(reloaded, file')
      BY <1>1, <3>1, PostponedKeeps
    <3>3. file' \in Seq(Line) /\ Readable(file')
      BY <3>2, RecordsAreLines
    <3>4. \A id \in Replies : /\ Place(reloaded, id) = Place(file, id)
                              /\ Place(snapshot, id) = Place(file, id)
      BY <3>1 DEF CopiesAreFull
    <3>5. \A id \in Replies : AckedIn(file', id) => AckedIn(reloaded, id)
      BY <3>2 DEF SameAcks, AckedIn
    <3> QED BY <3>1, <3>2, <3>3, <3>4, <3>5 DEF SameAcks, AckedIsSettled, AckedIn, Place
  <2> QED BY <2>1, <2>2
<1>4. OneAtATime' /\ CopiesAreFull' /\ AckedIsSettled'
  BY <1>1, <1>2, <1>3, EmptyLog DEF OneAtATime, CopiesAreFull, AckedIsSettled, AckedIn
<1>5. AcceptedIsLogged'
  BY <1>1, <1>2, <1>3 DEF AcceptedIsLogged, IInv, TypeOK
<1> QED BY <1>4, <1>5

LEMMA ReplayRest ==
  ASSUME IInv, ReplayInv, Contract, Tick \/ Crash
  PROVE  ReplayInv'
<1> USE DEF ReplayInv
<1>1. CASE Tick
  <2>1. /\ UNCHANGED <<unfinished, writer, sender, current, accepted, settled>>
        /\ file' = Age(file) /\ snapshot' = Age(snapshot) /\ reloaded' = Age(reloaded)
    BY <1>1 DEF Tick, writerVars, histVars
  <2>2. /\ Readable(file') /\ SameAcks(file, file') /\ SameAcks(snapshot, snapshot')
        /\ SameAcks(reloaded, reloaded')
    BY <2>1, Types, RecordsAreLines, AgeKeeps DEF IInv, OneAtATime
  <2>3. \A id \in Replies : /\ Place(file', id) = Place(file, id)
                            /\ Place(snapshot', id) = Place(snapshot, id)
                            /\ Place(reloaded', id) = Place(reloaded, id)
                            /\ AckedIn(file', id) <=> AckedIn(file, id)
                            /\ AckedIn(snapshot', id) <=> AckedIn(snapshot, id)
                            /\ AckedIn(reloaded', id) <=> AckedIn(reloaded, id)
    BY <2>2, SameShown
  <2>4. OneAtATime'
    BY <2>1, <2>2 DEF OneAtATime
  <2>5. CopiesAreFull' /\ AckedIsSettled'
    BY <2>1, <2>3 DEF CopiesAreFull, AckedIsSettled
  <2>6. accepted \subseteq Replies /\ (writer.pc # "idle" => writer.id \in Replies)
    BY DEF IInv, TypeOK, Control
  <2>7. AcceptedIsLogged'
    <3>1. \A id \in accepted' : Place(file', id) # {}
      BY <2>1, <2>3, <2>6 DEF AcceptedIsLogged
    <3>2. writer.pc \in {"written", "terminated"} => Place(file', writer.id) # {}
      BY <2>3, <2>6 DEF AcceptedIsLogged
    <3> QED BY <2>1, <3>1, <3>2 DEF AcceptedIsLogged
  <2> QED BY <2>4, <2>5, <2>7
<1>2. CASE Crash
  <2>1. /\ writer.pc = "idle" /\ writer'.pc = "idle" /\ sender' = "idle"
        /\ UNCHANGED <<file, unfinished, accepted, settled>>
        /\ snapshot' = << >> /\ reloaded' = << >>
    BY <1>2 DEF Crash, Idle, Contract, logVars
  <2>2. OneAtATime' /\ CopiesAreFull' /\ AcceptedIsLogged'
    BY <2>1 DEF OneAtATime, CopiesAreFull, AcceptedIsLogged, Readable, Place
  <2>3. \A id : /\ AckedIn(file', id) <=> AckedIn(file, id)
                /\ ~AckedIn(snapshot', id) /\ ~AckedIn(reloaded', id)
    BY <2>1, EmptyLog DEF AckedIn, Place
  <2> QED BY <2>1, <2>2, <2>3 DEF AckedIsSettled
<1> QED BY <1>1, <1>2

LEMMA ReplayInductive ==
  ASSUME IInv, ReplayInv, Contract, [Next]_vars
  PROVE  ReplayInv'
<1>1. CASE UNCHANGED vars
  BY <1>1 DEF vars, logVars, writerVars, passVars, histVars, ReplayInv, OneAtATime, CopiesAreFull,
              AckedIsSettled, AcceptedIsLogged, Place, AckedIn, Readable
<1> QED BY <1>1, ReplayWorker, ReplayMove, ReplayRewrite, ReplayRest DEF Next, Sender

(* With appends and passes on one thread, and writes that are whole or not *)
(* made, every reply that append returned an id for stays readable and     *)
(* unacked in the log until it is delivered or refused, through crashes    *)
(* between appends and failed rewrites (outbox.zig, lines 7-15).           *)
THEOREM Replayed ==
  ASSUME Contract
  PROVE  Spec => []AcceptedIsReplayed
<1>1. Init => ReplayInv
  BY ReplayInit
<1>2. IInv /\ ReplayInv /\ [Next]_vars => ReplayInv'
  BY ReplayInductive
<1>3. IInv /\ ReplayInv => AcceptedIsReplayed
  BY DEF IInv, TypeOK, ReplayInv, OneAtATime, AckedIsSettled, AcceptedIsLogged, AckedIn,
         AcceptedIsReplayed, OnDisk
<1> QED BY <1>1, <1>2, <1>3, Invariant, PTL DEF Spec
=============================================================================
