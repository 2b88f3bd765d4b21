------------------------------ MODULE Context -------------------------------
(***************************************************************************)
(* The default context engine: the history of every session in one list,   *)
(* the compaction markers over it, and the sections assembled into a       *)
(* prompt under a token budget (src/context/default_engine.zig, compact.zig *)
(* and assemble.zig), with the use src/cli/commands/live_runner.zig makes  *)
(* of the sections.                                                        *)
(*                                                                         *)
(* A message is its session, its id, whether it is a heartbeat and what    *)
(* its text is estimated at.  A summary's text is the set of positions of  *)
(* the messages it lists.  Ids are minted in order, and Rank is where an   *)
(* id stands in the byte order that a marker's range is tested with: the   *)
(* order of minting if ids are padded, as compact.zig presumes, and        *)
(* another one if they are not.                                            *)
(***************************************************************************)
EXTENDS Naturals, Sequences, FiniteSets, TLC

CONSTANTS
  Sessions,
  Sizes,         \* token estimates of a message
  Budgets,       \* token budgets of a prompt
  Rank,          \* the byte order of ids
  InsertionMax,  \* pdq sorts up to here by insertion, which is stable
  MaxMessages    \* bound of the model: messages, and their ids

ASSUME ContextAssumption ==
  /\ Sizes \subseteq Nat /\ Budgets \subseteq Nat
  /\ {InsertionMax, MaxMessages} \subseteq Nat
  /\ Rank \in [1 .. MaxMessages -> Nat] /\ \A i, j \in 1 .. MaxMessages : Rank[i] = Rank[j] => i = j

VARIABLES
  messages,  \* DefaultEngine.messages, all sessions in order of arrival
  markers    \* DefaultEngine.markers

vars == <<messages, markers>>

\* keep_recent_messages
Keep == 2

Message == [session: Sessions, id: 1 .. MaxMessages, beat: BOOLEAN, size: Sizes]

Marker == [session: Sessions, from: 1 .. MaxMessages, to: 1 .. MaxMessages,
           lists: SUBSET (1 .. MaxMessages)]

TypeOK ==
  /\ messages \in Seq(Message) /\ Len(messages) <= MaxMessages
  /\ markers \in Seq(Marker)

Init == messages = <<>> /\ markers = <<>>

-----------------------------------------------------------------------------
(* What the engine reads off its lists.                                     *)

Of(s) == {i \in DOMAIN messages : messages[i].session = s}

\* CompactionMarker ranges are half open, and compared byte by byte.
Covers(marker, s, id) ==
  /\ marker.session = s
  /\ Rank[marker.from] <= Rank[id]
  /\ Rank[id] < Rank[marker.to]

Hidden(i) ==
  \E k \in DOMAIN markers : Covers(markers[k], messages[i].session, messages[i].id)

\* Variant: messages under a marker are compacted again.
EligibleAgain(s) == {i \in Of(s) : ~messages[i].beat}

Eligible(s) == {i \in Of(s) : ~messages[i].beat /\ ~Hidden(i)}

\* The n-th smallest of a set of positions.
Nth(n, S) == CHOOSE i \in S : Cardinality({j \in S : j <= i}) = n

\* Variant: the range ends after the first message to keep.
CompactableRangeLonger(s) ==
  [start |-> Nth(1, Eligible(s)),
   end   |-> Nth(Cardinality(Eligible(s)) - Keep + 2, Eligible(s))]

\* compactableRange: all but the last Keep, half open.
CompactableRange(s) ==
  [start |-> Nth(1, Eligible(s)),
   end   |-> Nth(Cardinality(Eligible(s)) - Keep + 1, Eligible(s))]

-----------------------------------------------------------------------------
(* Operations.                                                              *)

\* Variant: the id is not looked up.
IngestUnchecked(s, id, beat, size) ==
  /\ messages' = Append(messages, [session |-> s, id |-> id, beat |-> beat, size |-> size])
  /\ UNCHANGED markers

\* The id is skipped if the session has it.
Ingest(s, id, beat, size) ==
  /\ messages' = IF \E i \in Of(s) : messages[i].id = id THEN messages
                 ELSE Append(messages, [session |-> s, id |-> id,
                                        beat |-> beat, size |-> size])
  /\ UNCHANGED markers

(* A new message: the runner counts ids over all its sessions, and an ingest *)
(* that fails uses one up.                                                  *)
IngestNew(s) ==
  /\ Len(messages) < MaxMessages
  /\ \E id \in 1 .. MaxMessages, beat \in BOOLEAN, size \in Sizes :
       /\ \A i \in DOMAIN messages : messages[i].id < id
       /\ Ingest(s, id, beat, size)

\* A message that was ingested already.
IngestAgain(s) ==
  \E i \in Of(s) : Ingest(s, messages[i].id, messages[i].beat, messages[i].size)

(* compactFn.  Callers may force it, so the token count is no guard.  A      *)
(* range that has a marker gets no second one (MarkerLog.append).           *)
Compact(s) ==
  /\ Cardinality(Eligible(s)) > Keep
  /\ LET range == CompactableRange(s)
         marker == [session |-> s,
                    from |-> messages[range.start].id,
                    to |-> messages[range.end].id,
                    lists |-> {i \in Eligible(s) : range.start <= i /\ i < range.end}]
         known == \E k \in DOMAIN markers :
                    /\ markers[k].session = s
                    /\ markers[k].from = marker.from
                    /\ markers[k].to = marker.to
     IN markers' = IF known THEN markers ELSE Append(markers, marker)
  /\ UNCHANGED messages

Next == \E s \in Sessions : IngestNew(s) \/ IngestAgain(s) \/ Compact(s)

Spec == Init /\ [][Next]_vars

-----------------------------------------------------------------------------
(* Assembly, which changes nothing.                                         *)

Section(kind, lists, size) == [kind |-> kind, lists |-> lists, size |-> size]

\* A heading, and a line for each message.
SummarySize(lists) == 1 + Cardinality(lists)

\* What a sequence has at some of its positions, in order.
Pick(seq, positions) == [n \in 1 .. Cardinality(positions) |-> seq[Nth(n, positions)]]

Visible(s) == {i \in Of(s) : ~Hidden(i)}

MarkersOf(s) == {k \in DOMAIN markers : markers[k].session = s}

\* History, summaries and the prompt itself, which is the text of the last
\* message over again.
Sections(s) ==
  LET history   == [i \in DOMAIN messages |-> Section("history", {i}, messages[i].size)]
      summaries == [k \in DOMAIN markers |->
                      Section("summary", markers[k].lists, SummarySize(markers[k].lists))]
      last      == Nth(Cardinality(Of(s)), Of(s))
  IN Pick(history, Visible(s)) \o Pick(summaries, MarkersOf(s))
       \o <<Section("prompt", {}, messages[last].size)>>

\* Variant: summaries are sorted in after the history.
PrioritySummaryLast(section) ==
  CASE section.kind = "prompt"  -> 0
    [] section.kind = "summary" -> 60
    [] section.kind = "history" -> 50

Priority(section) ==
  CASE section.kind = "prompt"  -> 0
    [] section.kind = "summary" -> 40
    [] section.kind = "history" -> 50

\* The order of a stable sort.
Before(input, i, j) ==
  \/ Priority(input[i]) < Priority(input[j])
  \/ Priority(input[i]) = Priority(input[j]) /\ i <= j

StableOrder(input) ==
  [n \in DOMAIN input |-> CHOOSE i \in DOMAIN input :
     Cardinality({j \in DOMAIN input : Before(input, j, i)}) = n]

\* The orders sortSections may leave the sections in: pdq is not stable, and
\* sections of one kind compare equal.
Orders(input) ==
  IF Len(input) <= InsertionMax THEN {StableOrder(input)}
  ELSE {order \in Permutations(DOMAIN input) :
          \A m, n \in DOMAIN input :
            m < n => Priority(input[order[m]]) <= Priority(input[order[n]])}

Sorted(input) == {[n \in DOMAIN input |-> input[order[n]]] : order \in Orders(input)}

\* The tokens in use once fit has been through the first sections: it keeps what
\* still fits and goes on behind what does not.
Used(sorted, budget) ==
  LET used[k \in 0 .. Len(sorted)] ==
        IF k = 0 THEN 0
        ELSE used[k - 1] + (IF used[k - 1] + sorted[k].size <= budget THEN sorted[k].size ELSE 0)
  IN used

Kept(sorted, budget) ==
  LET used == Used(sorted, budget)
  IN {k \in DOMAIN sorted : used[k - 1] + sorted[k].size <= budget}

\* The sections liveRun turns into messages: all but the prompt, as the last
\* message of the history carries its text.
Conversation(sorted, budget) ==
  Pick(sorted, {k \in Kept(sorted, budget) : sorted[k].kind # "prompt"})

-----------------------------------------------------------------------------
(* Properties.                                                              *)

(* Compaction loses no message and tells none twice: what no prompt shows    *)
(* any more stands in exactly one summary, and what is shown in none.       *)
HiddenIsSummarised ==
  \A i \in DOMAIN messages : ~messages[i].beat =>
    Cardinality({k \in DOMAIN markers : i \in markers[k].lists})
      = IF Hidden(i) THEN 1 ELSE 0

(* The latest messages of a session stay in the history, whatever other     *)
(* sessions hold and however often it is compacted.                         *)
RecentStaysVisible ==
  \A s \in Sessions, i \in DOMAIN messages :
    /\ i \in Of(s) /\ ~messages[i].beat
    /\ Cardinality({j \in Of(s) : j > i /\ ~messages[j].beat}) < Keep
    => ~Hidden(i)

(* Heartbeats apart, a session is a transcript: whatever is ingested and     *)
(* compacted, in any session, folds it up from its oldest message on.       *)
Transcript == INSTANCE Transcript WITH
  Positions <- 1 .. MaxMessages,
  said      <- [s \in Sessions |-> {i \in Of(s) : ~messages[i].beat}],
  folded    <- [s \in Sessions |-> {i \in Of(s) : ~messages[i].beat /\ Hidden(i)}]
ImplementsTranscript == Transcript!Spec

\* The messages that a section tells, or that its text lists.
Tells(section) == {i \in section.lists : ~messages[i].beat}

Total(sections) ==
  LET sum[k \in 0 .. Len(sections)] ==
        IF k = 0 THEN 0 ELSE sum[k - 1] + sections[k].size
  IN sum[Len(sections)]

\* The prompts of a session tell it in order, and wholly if there is room.
Retells(s) ==
  \A sorted \in Sorted(Sections(s)) : \A budget \in Budgets \cup {Total(sorted)} :
    LET conversation == Conversation(sorted, budget) IN
    /\ \A j, k \in DOMAIN conversation : j < k =>
         \A x \in Tells(conversation[j]), y \in Tells(conversation[k]) : x < y
    /\ budget >= Total(sorted) =>
         UNION {Tells(conversation[k]) : k \in DOMAIN conversation}
           = {i \in Of(s) : ~messages[i].beat}

(* A prompt tells the session in the order it happened and nothing twice,   *)
(* however it is compacted and whatever the budget leaves out; with room    *)
(* for everything, it tells all of it.                                      *)
PromptRetellsSession == \A s \in Sessions : Of(s) # {} => Retells(s)

(* live_runner.zig:620: the user's message is recorded before assembling    *)
(* "so it shows up as the final user turn in the history section list".     *)
UserTurnIsLast ==
  \A s \in Sessions : Of(s) # {} =>
    \A sorted \in Sorted(Sections(s)), budget \in Budgets :
      LET conversation == Conversation(sorted, budget)
          last         == Nth(Cardinality(Of(s)), Of(s))
      IN ~messages[last].beat =>
           /\ conversation # <<>>
           /\ conversation[Len(conversation)].lists = {last}

=============================================================================
