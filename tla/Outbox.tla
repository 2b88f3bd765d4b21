------------------------------- MODULE Outbox -------------------------------
(***************************************************************************)
(* The durable reply queue of one channel kind: the JSONL log of           *)
(* src/channels/outbox.zig, the dispatch worker that appends to it and the *)
(* sender thread of src/channels/outbox_sender.zig that walks it.          *)
(*                                                                         *)
(* The log is a sequence of lines and a bit saying whether the last line   *)
(* has its newline.  A line is a record or Torn: bytes loadRecords cannot  *)
(* parse.  The payload of a record plays no part, so a record is its id,   *)
(* the delay its attempts lead to, the time left until next_due_unix_ms    *)
(* and its ack bit.                                                        *)
(* Keeping the due time relative to the clock makes Tick the only thing    *)
(* that time does, and needs no bound on it.                               *)
(***************************************************************************)
EXTENDS Integers, Sequences, FiniteSets

CONSTANTS
  Replies,        \* the replies the worker will append, one id each
  OneThread,      \* the header's contract: appends and passes never overlap
  Faults,         \* which of AllFaults the environment may inject
  MaxRemembered,  \* slots of Sender.failed_acks (1024 in the code)
  BackoffCap,     \* the cap of `backoff`, in units of its first delay
  Torn,           \* a line loadRecords cannot parse
  NoReply         \* no reply in hand

AllFaults == {"crash", "crash in append", "short write", "rewrite fails"}

ASSUME OutboxAssumption ==
  /\ IsFiniteSet(Replies)
  /\ OneThread \in BOOLEAN
  /\ Faults \subseteq AllFaults
  /\ MaxRemembered \in Nat
  /\ BackoffCap \in Nat \ {0}
  /\ NoReply \notin Replies

VARIABLES
  file,        \* the lines of <channel>.jsonl
  unfinished,  \* the last line has no newline
  unsent,      \* replies whose turn has not completed yet
  writer,      \* where the worker is in `append`, its reply, and whether its
               \* handle is still the live file
  sender,      \* where the sender is in drainOnce
  current,     \* the reply the sender is delivering
  snapshot,    \* Cursor.records
  index,       \* Cursor.index
  reloaded,    \* the records recordFailure loaded
  failedAcks,  \* Sender.failed_acks
  accepted,    \* history: replies for which append returned an id
  settled,     \* history: replies delivered, or refused for good
  delivered,   \* history: replies a send of this process reported delivered
  repeated,    \* history: replies it reported delivered more than once
  forgotten,   \* history: replies rememberFailedAck had no slot for
  embargo      \* history: time left before a retry recordFailure scheduled

logVars    == <<file, unfinished>>
writerVars == <<unsent, writer>>
passVars   == <<sender, current, snapshot, index, reloaded>>
histVars   == <<settled, delivered, repeated, forgotten>>
vars == <<logVars, writerVars, passVars, failedAcks, accepted, histVars, embargo>>

-----------------------------------------------------------------------------
(* A variant of Backoff that forgets the cap. *)
BackoffUncapped(wait) == 2 * wait

(* The delay after the next failure: doubled, up to the cap. *)
Backoff(wait) == IF 2 * wait < BackoffCap THEN 2 * wait ELSE BackoffCap

(* attempts is only ever the argument of `backoff`, so a record carries    *)
(* the delay that its next failure leads to: one unit at first. *)
Record == [id : Replies, wait : 1 .. BackoffCap, due : 0 .. BackoffCap, ack : BOOLEAN]

ASSUME TornAssumption == Torn \notin Record

NewRecord(id) == [id |-> id, wait |-> 1, due |-> 0, ack |-> FALSE]

(* loadRecords: any unparsable line fails the whole load. *)
Readable(lines) == \A i \in DOMAIN lines : lines[i] # Torn

Place(lines, id) == {i \in DOMAIN lines : lines[i] # Torn /\ lines[i].id = id}

(* rewriteFile on success: the records replace the file, every line ended; *)
(* a handle the worker opened before now refers to an unlinked file. *)
Rewrite(records) ==
  /\ file' = records
  /\ unfinished' = FALSE
  /\ writer' = [writer EXCEPT !.live = FALSE]

-----------------------------------------------------------------------------
Idle == [pc |-> "idle", id |-> NoReply, live |-> FALSE]

Init ==
  /\ file = << >>
  /\ unfinished = FALSE
  /\ unsent = Replies
  /\ writer = Idle
  /\ sender = "idle"
  /\ current = NoReply
  /\ snapshot = << >>
  /\ index = 1
  /\ reloaded = << >>
  /\ failedAcks = {}
  /\ accepted = {}
  /\ settled = {}
  /\ delivered = {}
  /\ repeated = {}
  /\ forgotten = {}
  /\ embargo = [id \in Replies |-> 0]

-----------------------------------------------------------------------------
(* append, on the worker's thread: open the file without truncating and    *)
(* take its length as the offset. *)
OpenForAppend(id) ==
  /\ writer.pc = "idle"
  /\ OneThread => sender = "idle"
  /\ id \in unsent
  /\ unsent' = unsent \ {id}
  /\ writer' = [pc |-> "opened", id |-> id, live |-> TRUE]
  /\ UNCHANGED <<logVars, passVars, failedAcks, accepted, histVars, embargo>>

(* What writing `line` at the end of the live file leaves: on a file whose *)
(* last line was never ended it runs into that line. *)
PutLine(line) ==
  IF ~writer.live
  THEN UNCHANGED logVars
  ELSE /\ file' = IF unfinished THEN [file EXCEPT ![Len(file)] = Torn]
                                ELSE Append(file, line)
       /\ unfinished' = TRUE

(* The first writePositionalAll: the JSON object. *)
WriteLine ==
  /\ writer.pc = "opened"
  /\ PutLine(NewRecord(writer.id))
  /\ writer' = [writer EXCEPT !.pc = "written"]
  /\ UNCHANGED <<unsent, passVars, failedAcks, accepted, histVars, embargo>>

(* The second writePositionalAll: its newline. *)
WriteNewline ==
  /\ writer.pc = "written"
  /\ unfinished' = (unfinished /\ ~writer.live)
  /\ writer' = [writer EXCEPT !.pc = "terminated"]
  /\ UNCHANGED <<file, unsent, passVars, failedAcks, accepted, histVars, embargo>>

(* fsync, and append returns the id. *)
Sync ==
  /\ writer.pc = "terminated"
  /\ accepted' = accepted \cup {writer.id}
  /\ writer' = Idle
  /\ UNCHANGED <<logVars, unsent, passVars, failedAcks, histVars, embargo>>

(* Either write, or the fsync, fails: append returns IoFailure with        *)
(* whatever reached the file left in place, and the worker drops the       *)
(* reply. *)
AppendFails ==
  /\ "short write" \in Faults
  /\ writer.pc # "idle"
  /\ IF writer.pc = "opened" THEN UNCHANGED logVars \/ PutLine(Torn)
                             ELSE UNCHANGED logVars
  /\ writer' = Idle
  /\ UNCHANGED <<unsent, passVars, failedAcks, accepted, histVars, embargo>>

-----------------------------------------------------------------------------
(* drainOnce, on the sender's thread.  Opening the cursor copies the       *)
(* records of the file; a load error ends the pass at once. *)
OpenCursor ==
  /\ sender = "idle"
  /\ OneThread => writer.pc = "idle"
  /\ Readable(file)
  /\ sender' = "walking"
  /\ snapshot' = file
  /\ index' = 1
  /\ UNCHANGED <<logVars, writerVars, current, reloaded, failedAcks, accepted, histVars, embargo>>

CursorRefused ==
  /\ sender = "idle"
  /\ OneThread => writer.pc = "idle"
  /\ ~Readable(file)
  /\ sender' = "refused"
  /\ UNCHANGED <<logVars, writerVars, current, snapshot, index, reloaded,
                 failedAcks, accepted, histVars, embargo>>

(* Variants of Yields: one that forgets the acks that could not be         *)
(* persisted, one that never yields a record again once a send failed. *)
YieldsForgetful(record) == ~record.ack /\ record.due = 0

YieldsOnce(record) ==
  ~record.ack /\ record.due = 0 /\ record.id \notin failedAcks /\ record.wait = 1

(* Cursor.next looks at the next record of the snapshot and passes over    *)
(* the acked and the not yet due; drainOnce passes over those whose ack    *)
(* could not be persisted. *)
Yields(record) == ~record.ack /\ record.due = 0 /\ record.id \notin failedAcks

Skip ==
  /\ sender = "walking"
  /\ index <= Len(snapshot)
  /\ ~Yields(snapshot[index])
  /\ index' = index + 1
  /\ UNCHANGED <<logVars, writerVars, sender, current, snapshot, reloaded,
                 failedAcks, accepted, histVars, embargo>>

Yield ==
  /\ sender = "walking"
  /\ index <= Len(snapshot)
  /\ Yields(snapshot[index])
  /\ current' = snapshot[index].id
  /\ index' = index + 1
  /\ sender' = "sending"
  /\ UNCHANGED <<logVars, writerVars, snapshot, reloaded, failedAcks,
                 accepted, histVars, embargo>>

(* The end of the snapshot, or of a refused pass: close the cursor, sleep. *)
EndPass ==
  /\ \/ sender = "walking" /\ index > Len(snapshot)
     \/ sender = "refused"
  /\ sender' = "idle"
  /\ snapshot' = << >>
  /\ index' = 1
  /\ UNCHANGED <<logVars, writerVars, current, reloaded, failedAcks, accepted, histVars, embargo>>

(* channel.send succeeds. *)
SendOk ==
  /\ sender = "sending"
  /\ sender' = "acking"
  /\ settled' = settled \cup {current}
  /\ repeated' = IF current \in delivered THEN repeated \cup {current} ELSE repeated
  /\ delivered' = delivered \cup {current}
  /\ UNCHANGED <<logVars, writerVars, current, snapshot, index, reloaded,
                 failedAcks, accepted, forgotten, embargo>>

(* Unauthorized or BadRequest: given up, and acked like a success. *)
SendRefused ==
  /\ sender = "sending"
  /\ sender' = "acking"
  /\ settled' = settled \cup {current}
  /\ UNCHANGED <<logVars, writerVars, current, snapshot, index, reloaded,
                 failedAcks, accepted, delivered, repeated, forgotten, embargo>>

(* RateLimited or TransportFailure. *)
SendAgain ==
  /\ sender = "sending"
  /\ sender' = "failing"
  /\ UNCHANGED <<logVars, writerVars, current, snapshot, index, reloaded,
                 failedAcks, accepted, histVars, embargo>>

(* Variants of Acked: one that writes the outcome of the comparison to     *)
(* every record, one that acks everything up to the target. *)
AckedExclusive(records, id) ==
  [i \in DOMAIN records |-> [records[i] EXCEPT !.ack = (records[i].id = id)]]

AckedUpTo(records, id) ==
  [i \in DOMAIN records |->
     IF \E j \in i .. Len(records) : records[j].id = id
     THEN [records[i] EXCEPT !.ack = TRUE] ELSE records[i]]

(* Cursor.ack: flip the bit in the snapshot, then rewrite the file from    *)
(* the snapshot. *)
Acked(records, id) ==
  [i \in DOMAIN records |->
     IF records[i].id = id THEN [records[i] EXCEPT !.ack = TRUE] ELSE records[i]]

Ack ==
  /\ sender = "acking"
  /\ snapshot' = Acked(snapshot, current)
  /\ Rewrite(snapshot')
  /\ sender' = "walking"
  /\ current' = NoReply
  /\ UNCHANGED <<unsent, index, reloaded, failedAcks, accepted, histVars, embargo>>

(* The rewrite fails and the old file stays; the bit in the snapshot stays *)
(* too, and rememberFailedAck keeps the id if it has a slot. *)
AckFails ==
  /\ "rewrite fails" \in Faults
  /\ sender = "acking"
  /\ snapshot' = Acked(snapshot, current)
  /\ IF Cardinality(failedAcks) < MaxRemembered
     THEN /\ failedAcks' = failedAcks \cup {current}
          /\ UNCHANGED forgotten
     ELSE /\ forgotten' = forgotten \cup {current}
          /\ UNCHANGED failedAcks
  /\ sender' = "walking"
  /\ current' = NoReply
  /\ UNCHANGED <<logVars, writerVars, index, reloaded, accepted, settled, delivered,
                 repeated, embargo>>

(* recordFailure loads the file afresh ... *)
ReloadForFailure ==
  /\ sender = "failing"
  /\ Readable(file)
  /\ Place(file, current) # {}
  /\ reloaded' = file
  /\ sender' = "rewriting"
  /\ UNCHANGED <<logVars, writerVars, current, snapshot, index, failedAcks,
                 accepted, histVars, embargo>>

(* ... and rewrites it with one attempt more and a later due time. *)
Postponed(records, id) ==
  [i \in DOMAIN records |->
     IF records[i].id = id
     THEN [records[i] EXCEPT
             !.wait = Backoff(@), !.due = records[i].wait]
     ELSE records[i]]

RecordFailure ==
  /\ sender = "rewriting"
  /\ Rewrite(Postponed(reloaded, current))
  /\ LET i == CHOOSE i \in Place(reloaded, current) : TRUE
     IN  embargo' = [embargo EXCEPT ![current] = reloaded[i].wait]
  /\ sender' = "walking"
  /\ current' = NoReply
  /\ reloaded' = << >>
  /\ UNCHANGED <<unsent, snapshot, index, failedAcks, accepted, histVars>>

(* An unreadable file, an unknown id or a failed rewrite: recordFailure    *)
(* changes nothing and the sender only logs it. *)
RecordFailureFails ==
  /\ \/ sender = "failing" /\ (~Readable(file) \/ Place(file, current) = {})
     \/ sender = "rewriting" /\ "rewrite fails" \in Faults
  /\ sender' = "walking"
  /\ current' = NoReply
  /\ reloaded' = << >>
  /\ UNCHANGED <<logVars, writerVars, snapshot, index, failedAcks, accepted,
                 histVars, embargo>>

-----------------------------------------------------------------------------
(* One unit of time: every due time comes one closer. *)
Sooner(n) == IF n > 0 THEN n - 1 ELSE 0

Age(lines) == [i \in DOMAIN lines |->
                 IF lines[i] = Torn THEN Torn ELSE [lines[i] EXCEPT !.due = Sooner(@)]]

Tick ==
  /\ file' = Age(file)
  /\ snapshot' = Age(snapshot)
  /\ reloaded' = Age(reloaded)
  /\ embargo' = [id \in Replies |-> Sooner(embargo[id])]
  /\ UNCHANGED <<unfinished, writerVars, sender, current, index, failedAcks,
                 accepted, histVars>>

(* The daemon dies and is started again: what is in memory is gone, the    *)
(* file is what the completed writes left. *)
Crash ==
  /\ \/ "crash" \in Faults /\ writer.pc = "idle"
     \/ "crash in append" \in Faults
  /\ writer' = Idle
  /\ sender' = "idle"
  /\ current' = NoReply
  /\ snapshot' = << >>
  /\ index' = 1
  /\ reloaded' = << >>
  /\ failedAcks' = {}
  /\ delivered' = {}
  /\ repeated' = {}
  /\ forgotten' = {}
  /\ UNCHANGED <<logVars, unsent, accepted, settled, embargo>>

Worker ==
  \/ \E id \in Replies : OpenForAppend(id)
  \/ WriteLine \/ WriteNewline \/ Sync \/ AppendFails

Send == SendOk \/ SendRefused \/ SendAgain

Sender ==
  \/ OpenCursor \/ CursorRefused \/ Skip \/ Yield \/ EndPass
  \/ Send
  \/ Ack \/ AckFails \/ ReloadForFailure \/ RecordFailure \/ RecordFailureFails

Next == Worker \/ Sender \/ Tick \/ Crash

Spec == Init /\ [][Next]_vars

(* Threads keep running, the clock keeps going, the daemon is not crashed  *)
(* for ever, and a reply that is sent again and again is in the end        *)
(* delivered or refused. *)
Fairness ==
  /\ <>[][~Crash]_vars
  /\ WF_vars(Worker)
  /\ WF_vars(Sender)
  /\ WF_vars(Tick)
  /\ \A id \in Replies : SF_vars(current = id /\ (SendOk \/ SendRefused))

FairSpec == Spec /\ Fairness

-----------------------------------------------------------------------------
TypeOK ==
  /\ file \in Seq(Record \cup {Torn})
  /\ unfinished \in BOOLEAN
  /\ unsent \subseteq Replies
  /\ writer \in [pc : {"idle", "opened", "written", "terminated"},
                 id : Replies \cup {NoReply}, live : BOOLEAN]
  /\ sender \in {"idle", "walking", "refused", "sending", "acking", "failing", "rewriting"}
  /\ current \in Replies \cup {NoReply}
  /\ snapshot \in Seq(Record)
  /\ index \in 1 .. Len(snapshot) + 1
  /\ reloaded \in Seq(Record)
  /\ failedAcks \subseteq Replies
  /\ accepted \subseteq Replies
  /\ settled \subseteq Replies
  /\ delivered \subseteq settled
  /\ repeated \subseteq delivered
  /\ forgotten \subseteq Replies
  /\ embargo \in [Replies -> 0 .. BackoffCap]

(* The file, as loadRecords would return it, shows a reply in some line.   *)
OnDisk(id) == Readable(file) /\ Place(file, id) # {}

(* "If the process dies mid-send the reply is still on disk; on restart    *)
(* the queue replays what was never acked" (outbox.zig, lines 7-9): a      *)
(* reply append returned an id for stays readable in the log, unacked,     *)
(* until it is delivered or refused, through failed rewrites and crashes.  *)
AcceptedIsReplayed ==
  \A id \in accepted \ settled :
    OnDisk(id) /\ \A i \in Place(file, id) : ~file[i].ack

(* No reply that a send reported as delivered is sent again in the same    *)
(* life of the daemon, even while acks cannot be persisted, unless         *)
(* failed_acks had no slot left for it (outbox_sender.zig, lines 45-50 and *)
(* 161-166).  Three things have to agree for that: the bit on disk, the    *)
(* bit in the open snapshot, and the list in memory.                       *)
NoRepeatWhileRemembered == repeated \subseteq forgotten

(* Once an ack is on disk no later rewrite, from whatever snapshot, brings *)
(* the record back to life: Cursor.ack and recordFailure both rewrite the  *)
(* whole file from copies taken earlier.                                   *)
AckIsFinal ==
  [][\A id \in Replies :
       (\E i \in Place(file, id) : file[i].ack)
         => (\A i \in Place(file', id) : file'[i].ack)]_vars

(* "The next drainOnce pass will retry once next_due_unix_ms is in the     *)
(* past" (outbox_sender.zig, lines 205-207): a failure recordFailure       *)
(* persisted keeps the reply back for the delay it scheduled.              *)
RetryWaits == sender = "sending" => embargo[current] = 0

(* "A corrupted tail line ... is treated by the reader as end-of-log"      *)
(* (outbox.zig, lines 16-18): a pass is refused only for damage further    *)
(* up the file.                                                            *)
CorruptTailIsEndOfLog ==
  sender = "refused" =>
    \E i \in DOMAIN file : i < Len(file) /\ file[i] = Torn

(* Every reply the worker put in the log is in the end delivered or        *)
(* refused, however often sends fail first.                                *)
AcceptedIsSettled == \A id \in Replies : id \in accepted ~> id \in settled
=============================================================================
