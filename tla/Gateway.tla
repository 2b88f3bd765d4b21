------------------------------ MODULE Gateway ------------------------------
(***************************************************************************)
(* The way of a message through the daemon: the updates waiting at         *)
(* Telegram, one receive thread per binding (src/channels/manager.zig      *)
(* driving extensions/channel-telegram/channel.zig), the dispatch queue,   *)
(* the dispatch worker (src/channels/dispatch_worker.zig), the outbox it   *)
(* appends to, and the drain of src/gateway/boot.zig that stops them in    *)
(* order.                                                                  *)
(*                                                                         *)
(* The queue is the drop-oldest FIFO that Dispatch is proved to implement; *)
(* of the outbox only its contents matter here, Outbox has the rest.  A    *)
(* message is the agent whose bot received it and the update's id; ids are *)
(* the positions of updates in upstream.  Responses and batches come in    *)
(* the order of ids, so each is the set of its ids.                        *)
(***************************************************************************)
EXTENDS Integers, Sequences, FiniteSets

CONSTANTS
  Agents,         \* the agents bound to the telegram channel, one bot each
  FirstAgent,     \* the agent whose binding was registered first
  MaxUpdates,     \* bound: updates the bots receive between them
  ResponseLimit,  \* the most updates one getUpdates response carries
  BatchSize,      \* Manager.batch_size
  Capacity,       \* Dispatch.buffer.len
  MaxLives,       \* bound: times the daemon is started
  Events,         \* which of AllEvents may happen
  NoMessage       \* no message dequeued yet

AllEvents == {"stop", "crash", "hang", "oom"}

ASSUME GatewayAssumption ==
  /\ IsFiniteSet(Agents) /\ FirstAgent \in Agents
  /\ MaxUpdates \in Nat
  /\ {ResponseLimit, BatchSize, Capacity, MaxLives} \subseteq Nat \ {0}
  /\ Events \subseteq AllEvents
  /\ NoMessage \notin Agents \X (1 .. MaxUpdates)

VARIABLES
  upstream,    \* per bot, the updates sent to it, "text" or "other"
  confirmed,   \* per bot, the id up to which Telegram forgot them
  nextOffset,  \* TelegramChannel.next_offset, 0 for null
  receiver,    \* where each receive thread is, and the ids it holds
  queue, enqueued, dropped, drained, popped,   \* the dispatch queue
  worker,      \* where the dispatch worker is with `popped`
  outbox,      \* replies appended to the log
  sender,      \* whether the outbox sender is running
  sent,        \* replies sent, with the binding they went through
  stage,       \* how far Boot.run and Boot.drain have come
  lives,       \* times the daemon was started
  turned,      \* history: messages a turn was begun for
  lastTurn,    \* history: per agent, id of the last turn of this life
  evicted,     \* history: messages the queue dropped
  overflowed,  \* history: texts passed over because the batch was full
  abandoned    \* history: messages in memory when the daemon ended

pollVars    == <<upstream, confirmed, nextOffset, receiver>>
queueVars   == <<queue, enqueued, dropped, drained, popped>>
replyVars   == <<outbox, sender, sent>>
daemonVars  == <<stage, lives>>
historyVars == <<turned, lastTurn, evicted, overflowed, abandoned>>
vars == <<pollVars, queueVars, worker, replyVars, daemonVars, historyVars>>

Queue == INSTANCE DropOldestQueue
           WITH Messages <- Agents \X (1 .. MaxUpdates), Undefined <- NoMessage

-----------------------------------------------------------------------------
AtTop   == [pc |-> "top", ids |-> {}]
AtStart == [pc |-> "start", ids |-> {}]

Later(i, j) == IF i < j THEN j ELSE i

First(ids) == CHOOSE id \in ids : \A other \in ids : id <= other
Last(ids)  == CHOOSE id \in ids : \A other \in ids : other <= id

(* What each thread's cancel flag says, by how far the drain has come. *)
ReceiversCancelled == stage \notin {"serving", "waiting"}
WorkerCancelled    == stage \in {"worker_told", "sender_told", "down"}
SenderCancelled    == stage \in {"sender_told", "down"}

(* The runner's in-flight counter. *)
InFlight == IF worker \in {"turn", "hung"} THEN 1 ELSE 0

Init ==
  /\ upstream = [a \in Agents |-> << >>]
  /\ confirmed = [a \in Agents |-> 0]
  /\ nextOffset = [a \in Agents |-> 0]
  /\ receiver = [a \in Agents |-> AtStart]
  /\ Queue!Init
  /\ worker = "top"
  /\ outbox = {}
  /\ sender = "running"
  /\ sent = {}
  /\ stage = "serving"
  /\ lives = 1
  /\ turned = {}
  /\ lastTurn = [a \in Agents |-> 0]
  /\ evicted = {}
  /\ overflowed = {}
  /\ abandoned = {}

-----------------------------------------------------------------------------
(* Somebody writes to a bot, whether or not the daemon is up. *)
Arrive(a) ==
  /\ Cardinality(UNION {{b} \X DOMAIN upstream[b] : b \in Agents}) < MaxUpdates
  /\ \E kind \in {"text", "other"} :
       upstream' = [upstream EXCEPT ![a] = Append(@, kind)]
  /\ UNCHANGED <<confirmed, nextOffset, receiver, queueVars, worker, replyVars,
                 daemonVars, historyVars>>

(* receiveLoop allocates its batch buffer, and ends without a word if it   *)
(* cannot. *)
EnterReceiveLoop(a) ==
  /\ receiver[a].pc = "start"
  /\ \/ receiver' = [receiver EXCEPT ![a].pc = "top"]
     \/ /\ "oom" \in Events
        /\ receiver' = [receiver EXCEPT ![a].pc = "stopped"]
  /\ UNCHANGED <<upstream, confirmed, nextOffset, queueVars, worker, replyVars,
                 daemonVars, historyVars>>

(* receiveLoop, the head of its while: leave when cancelled, else call     *)
(* receive. *)
LoopReceive(a) ==
  /\ receiver[a].pc = "top"
  /\ receiver' = [receiver EXCEPT ![a].pc =
                    IF ReceiversCancelled THEN "stopped" ELSE "poll"]
  /\ UNCHANGED <<upstream, confirmed, nextOffset, queueVars, worker, replyVars,
                 daemonVars, historyVars>>

(* receiveFn returns 0 when it finds itself cancelled, before a request or *)
(* with the updates of one in hand. *)
ReceiveCancelled(a) ==
  /\ receiver[a].pc \in {"poll", "got"}
  /\ ReceiversCancelled
  /\ receiver' = [receiver EXCEPT ![a] = AtTop]
  /\ UNCHANGED <<upstream, confirmed, nextOffset, queueVars, worker, replyVars,
                 daemonVars, historyVars>>

(* getUpdates goes out, asking for what follows next_offset. *)
Ask(a) ==
  /\ receiver[a].pc = "poll"
  /\ ~ReceiversCancelled
  /\ receiver' = [receiver EXCEPT ![a].pc = "asking"]
  /\ UNCHANGED <<upstream, confirmed, nextOffset, queueVars, worker, replyVars,
                 daemonVars, historyVars>>

(* Telegram takes the offset for a confirmation of everything below it ... *)
Confirm(a) == confirmed' = [confirmed EXCEPT ![a] = Later(@, nextOffset[a])]

(* ... and answers with the oldest updates it still has, or with none when *)
(* the long poll runs out. *)
Answer(a) ==
  /\ receiver[a].pc = "asking"
  /\ Confirm(a)
  /\ LET left == Len(upstream[a]) - confirmed'[a]
         n    == IF left < ResponseLimit THEN left ELSE ResponseLimit
     IN  receiver' = [receiver EXCEPT ![a] =
           [pc  |-> IF n > 0 THEN "got" ELSE "poll",
            ids |-> confirmed'[a] + 1 .. confirmed'[a] + n]]
  /\ UNCHANGED <<upstream, nextOffset, queueVars, worker, replyVars, daemonVars,
                 historyVars>>

(* Variant: a failed request forgets how far the bot was read. *)
AskFailsForgetful(a) ==
  /\ receiver[a].pc = "asking"
  /\ receiver' = [receiver EXCEPT ![a] = AtTop]
  /\ nextOffset' = [nextOffset EXCEPT ![a] = 0]
  /\ UNCHANGED <<upstream, confirmed, queueVars, worker, replyVars, daemonVars,
                 historyVars>>

(* The request fails on its way there or back; receive reports a           *)
(* TransportFailure and the loop tries again after a while. *)
AskFails(a) ==
  /\ receiver[a].pc = "asking"
  /\ Confirm(a) \/ UNCHANGED confirmed
  /\ receiver' = [receiver EXCEPT ![a] = AtTop]
  /\ UNCHANGED <<upstream, nextOffset, queueVars, worker, replyVars, daemonVars,
                 historyVars>>

(* receiveFn walks the updates: the loop ends at the first one it reaches  *)
(* with the buffer full, after counting that one as seen. *)
IsText(a, id) == upstream[a][id] = "text"

Texts(a, ids) == {id \in ids : IsText(a, id)}

FullAt(a, ids, id) == Cardinality({text \in Texts(a, ids) : text < id}) >= BatchSize

Seen(a, ids) == {id \in ids : \A before \in ids : before < id => ~FullAt(a, ids, before)}

Written(a, ids) == {text \in Texts(a, ids) : ~FullAt(a, ids, text)}

Members(s) == {s[i] : i \in DOMAIN s}

(* receiveFn advances next_offset over what it saw, and returns the batch  *)
(* if it holds a text. *)
Batch(a) ==
  /\ receiver[a].pc = "got"
  /\ ~ReceiversCancelled
  /\ LET seen  == Seen(a, receiver[a].ids)
         batch == Written(a, receiver[a].ids)
     IN  /\ nextOffset' = [nextOffset EXCEPT ![a] = Last(seen)]
         /\ receiver' = [receiver EXCEPT ![a] =
              [pc |-> IF batch = {} THEN "poll" ELSE "delivering", ids |-> batch]]
         /\ overflowed' = overflowed \cup ({a} \X (Texts(a, seen) \ batch))
  /\ UNCHANGED <<upstream, confirmed, queueVars, worker, replyVars, daemonVars,
                 turned, lastTurn, evicted, abandoned>>

(* Variant: next_offset is advanced before the texts are built. *)
BatchFailsAdvanced(a) ==
  /\ "oom" \in Events
  /\ receiver[a].pc = "got"
  /\ ~ReceiversCancelled
  /\ Texts(a, receiver[a].ids) # {}
  /\ receiver' = [receiver EXCEPT ![a] = AtTop]
  /\ nextOffset' = [nextOffset EXCEPT ![a] = Last(Seen(a, receiver[a].ids))]
  /\ UNCHANGED <<upstream, confirmed, queueVars, worker, replyVars, daemonVars,
                 historyVars>>

(* buildInbound runs out of memory: a TransportFailure, next_offset as it  *)
(* was. *)
BatchFails(a) ==
  /\ "oom" \in Events
  /\ receiver[a].pc = "got"
  /\ ~ReceiversCancelled
  /\ Texts(a, receiver[a].ids) # {}
  /\ receiver' = [receiver EXCEPT ![a] = AtTop]
  /\ UNCHANGED <<upstream, confirmed, nextOffset, queueVars, worker, replyVars,
                 daemonVars, historyVars>>

(* Variant: the queue takes a message without looking at its capacity. *)
DeliverUnbounded(a) ==
  /\ receiver[a].pc = "delivering"
  /\ LET id   == First(receiver[a].ids)
         rest == receiver[a].ids \ {id}
     IN  /\ queue' = Append(queue, <<a, id>>)
         /\ enqueued' = enqueued + 1
         /\ receiver' = [receiver EXCEPT ![a] =
              [pc |-> IF rest = {} THEN "top" ELSE "delivering", ids |-> rest]]
  /\ UNCHANGED <<upstream, confirmed, nextOffset, dropped, drained, popped, worker,
                 replyVars, daemonVars, historyVars>>

(* receiveLoop enqueues the batch, one message after the other. *)
Deliver(a) ==
  /\ receiver[a].pc = "delivering"
  /\ LET id   == First(receiver[a].ids)
         rest == receiver[a].ids \ {id}
     IN  /\ \/ Queue!Accept(<<a, id>>) /\ UNCHANGED evicted
            \/ Queue!Displace(<<a, id>>) /\ evicted' = evicted \cup {Head(queue)}
         /\ receiver' = [receiver EXCEPT ![a] =
              [pc |-> IF rest = {} THEN "top" ELSE "delivering", ids |-> rest]]
  /\ UNCHANGED <<upstream, confirmed, nextOffset, worker, replyVars, daemonVars,
                 turned, lastTurn, overflowed, abandoned>>

Receive(a) ==
  \/ EnterReceiveLoop(a) \/ LoopReceive(a) \/ ReceiveCancelled(a)
  \/ Ask(a) \/ Answer(a) \/ AskFails(a) \/ Batch(a) \/ BatchFails(a) \/ Deliver(a)

-----------------------------------------------------------------------------
(* The worker's loop: leave when cancelled, else call dequeue. *)
LoopWork ==
  /\ worker = "top"
  /\ worker' = IF WorkerCancelled THEN "stopped" ELSE "dequeue"
  /\ UNCHANGED <<pollVars, queueVars, replyVars, daemonVars, historyVars>>

Dequeue ==
  /\ worker = "dequeue"
  /\ Queue!Take
  /\ worker' = "taken"
  /\ UNCHANGED <<pollVars, replyVars, daemonVars, historyVars>>

DequeueEmpty ==
  /\ worker = "dequeue"
  /\ queue = << >>
  /\ worker' = "unlocked"
  /\ UNCHANGED <<pollVars, queueVars, replyVars, daemonVars, historyVars>>

(* Variant: dequeue never looks at the cancel flag. *)
DequeueUncancelled ==
  /\ worker = "unlocked"
  /\ worker' = "dequeue"
  /\ UNCHANGED <<pollVars, queueVars, replyVars, daemonVars, historyVars>>

DequeueCancelled ==
  /\ worker = "unlocked"
  /\ worker' = IF WorkerCancelled THEN "stopped" ELSE "dequeue"
  /\ UNCHANGED <<pollVars, queueVars, replyVars, daemonVars, historyVars>>

(* processOne: the runner begins a turn for the message ... *)
BeginTurn ==
  /\ worker = "taken"
  /\ worker' = "turn"
  /\ turned' = turned \cup {popped}
  /\ lastTurn' = [lastTurn EXCEPT ![popped[1]] = popped[2]]
  /\ UNCHANGED <<pollVars, queueVars, replyVars, daemonVars, evicted, overflowed,
                 abandoned>>

(* Variant: a turn that fails ends the worker's loop. *)
EndTurnStopping ==
  /\ worker = "turn"
  /\ worker' \in {"stopped", "append"}
  /\ UNCHANGED <<pollVars, queueVars, replyVars, daemonVars, historyVars>>

(* ... which ends with an error, incomplete or without output, or with a   *)
(* reply to append. *)
EndTurn ==
  /\ worker = "turn"
  /\ worker' \in {"top", "append"}
  /\ UNCHANGED <<pollVars, queueVars, replyVars, daemonVars, historyVars>>

(* A provider or a tool that never returns. *)
Hang ==
  /\ "hang" \in Events
  /\ worker = "turn"
  /\ worker' = "hung"
  /\ UNCHANGED <<pollVars, queueVars, replyVars, daemonVars, historyVars>>

(* The append succeeds, or fails and the reply is lost. *)
AppendReply ==
  /\ worker = "append"
  /\ outbox' \in {outbox, outbox \cup {popped}}
  /\ worker' = "top"
  /\ UNCHANGED <<pollVars, queueVars, sender, sent, daemonVars, historyVars>>

Work ==
  \/ LoopWork \/ Dequeue \/ DequeueEmpty \/ DequeueCancelled
  \/ BeginTurn \/ EndTurn \/ Hang \/ AppendReply

-----------------------------------------------------------------------------
(* The sender finds the binding for a record with firstBinding: the first  *)
(* entry of the manager with the record's channel kind. *)
Binding(msg) == FirstAgent

SendReply(msg) ==
  /\ sender = "running"
  /\ msg \in outbox
  /\ <<msg, Binding(msg)>> \notin sent
  /\ sent' = sent \cup {<<msg, Binding(msg)>>}
  /\ UNCHANGED <<pollVars, queueVars, worker, outbox, sender, daemonVars, historyVars>>

(* The sender's loop sees its cancel flag between two passes. *)
StopSending ==
  /\ sender = "running"
  /\ SenderCancelled
  /\ sender' = "stopped"
  /\ UNCHANGED <<pollVars, queueVars, worker, outbox, sent, daemonVars, historyVars>>

-----------------------------------------------------------------------------
(* serve returns, and drain begins. *)
RequestStop ==
  /\ "stop" \in Events
  /\ stage = "serving"
  /\ stage' = "waiting"
  /\ UNCHANGED <<pollVars, queueVars, worker, replyVars, lives, historyVars>>

(* waitFor sees no turn in flight, or gives up; manager.stop sets its      *)
(* flag. *)
StopReceivers ==
  /\ stage = "waiting"
  /\ \/ InFlight = 0
     \/ InFlight > 0   \* drain_deadline_ns has passed
  /\ stage' = "receivers_told"
  /\ UNCHANGED <<pollVars, queueVars, worker, replyVars, lives, historyVars>>

(* Variant: one joined thread is taken for all of them. *)
OneReceiverJoined == \E a \in Agents : receiver[a].pc = "stopped"

(* manager.stop has joined every receive thread; worker.stop sets its      *)
(* flag. *)
ReceiversJoined == \A a \in Agents : receiver[a].pc = "stopped"

StopWorker ==
  /\ stage = "receivers_told"
  /\ ReceiversJoined
  /\ stage' = "worker_told"
  /\ UNCHANGED <<pollVars, queueVars, worker, replyVars, lives, historyVars>>

(* worker.stop has joined; sender.stop sets its flag. *)
StopSender ==
  /\ stage = "worker_told"
  /\ worker = "stopped"
  /\ stage' = "sender_told"
  /\ UNCHANGED <<pollVars, queueVars, worker, replyVars, lives, historyVars>>

(* sender.stop has joined: drain returns. *)
Finish ==
  /\ stage = "sender_told"
  /\ sender = "stopped"
  /\ stage' = "down"
  /\ UNCHANGED <<pollVars, queueVars, worker, replyVars, lives, historyVars>>

(* The messages in the memory of the daemon that no turn was begun for. *)
InMemory ==
  (UNION {{a} \X Texts(a, receiver[a].ids) : a \in Agents})
    \cup Members(queue) \cup (IF worker = "taken" THEN {popped} ELSE {})

(* The daemon is started again, after a drain or a crash.  Only the outbox *)
(* outlived it. *)
Restart ==
  /\ lives < MaxLives
  /\ stage = "down" \/ "crash" \in Events
  /\ lives' = lives + 1
  /\ stage' = "serving"
  /\ nextOffset' = [a \in Agents |-> 0]
  /\ receiver' = [a \in Agents |-> AtStart]
  /\ queue' = << >>
  /\ enqueued' = 0
  /\ dropped' = 0
  /\ drained' = 0
  /\ popped' = NoMessage
  /\ worker' = "top"
  /\ sender' = "running"
  /\ lastTurn' = [a \in Agents |-> 0]
  /\ abandoned' = abandoned \cup InMemory
  /\ UNCHANGED <<upstream, confirmed, outbox, sent, turned, evicted, overflowed>>

Drain == StopReceivers \/ StopWorker \/ StopSender \/ Finish

Next ==
  \/ \E a \in Agents : Arrive(a) \/ Receive(a)
  \/ Work
  \/ \E msg \in outbox : SendReply(msg)
  \/ StopSending
  \/ RequestStop
  \/ Drain
  \/ Restart

Spec == Init /\ [][Next]_vars

(* Every thread keeps running, and a bot that is polled again and again is *)
(* answered in the end. *)
Fairness ==
  /\ \A a \in Agents : WF_vars(Receive(a)) /\ SF_vars(Answer(a))
  /\ WF_vars(Work)
  /\ WF_vars(StopSending)
  /\ WF_vars(Drain)

FairSpec == Spec /\ Fairness

-----------------------------------------------------------------------------
TypeOK ==
  /\ upstream \in [Agents -> Seq({"text", "other"})]
  /\ confirmed \in [Agents -> 0 .. MaxUpdates]
  /\ nextOffset \in [Agents -> 0 .. MaxUpdates]
  /\ receiver \in [Agents -> [pc : {"start", "top", "poll", "asking", "got", "delivering",
                                    "stopped"},
                              ids : SUBSET (1 .. MaxUpdates)]]
  /\ queue \in Seq(Agents \X (1 .. MaxUpdates)) /\ Len(queue) <= Capacity
  /\ {enqueued, dropped, drained, lives} \subseteq Nat
  /\ popped \in Agents \X (1 .. MaxUpdates) \cup {NoMessage}
  /\ worker \in {"top", "dequeue", "unlocked", "taken", "turn", "hung", "append", "stopped"}
  /\ sender \in {"running", "stopped"}
  /\ stage \in {"serving", "waiting", "receivers_told", "worker_told", "sender_told", "down"}
  /\ outbox \subseteq turned
  /\ sent \subseteq outbox \X Agents
  /\ turned \cup evicted \cup overflowed \cup abandoned \subseteq Agents \X (1 .. MaxUpdates)
  /\ lastTurn \in [Agents -> 0 .. MaxUpdates]

(* What receive has moved next_offset past, or Telegram was already told   *)
(* to forget, is not gone: every text up to there had its turn, waits in   *)
(* a thread or in the queue, or was lost in one of three places the code   *)
(* has for it: the queue's eviction, the full batch, the end of a life.    *)
(* A transport failure, a failed allocation or a cancel between fetching   *)
(* and enqueueing loses nothing.                                           *)
ForgottenIsAccountedFor ==
  \A a \in Agents : \A id \in 1 .. Later(confirmed[a], nextOffset[a]) :
    IsText(a, id) =>
      <<a, id>> \in turned \cup InMemory \cup evicted \cup overflowed \cup abandoned

(* Within one life of the daemon the turns of an agent follow the order of *)
(* its updates, and no update gets two: polls that fail and are repeated,  *)
(* evictions and full batches never make the worker see one again.         *)
TurnsInOrder ==
  [][\A a \in Agents : lives' = lives => lastTurn'[a] >= lastTurn[a]
       /\ (worker = "taken" /\ popped[1] = a /\ worker' = "turn"
             => lastTurn'[a] > lastTurn[a])]_vars

(* "No receiver is mid-call when we return" (boot.zig, lines 23-25) and    *)
(* "no new outbox records land after the sender has been told to quit"     *)
(* (lines 496-498): once the drain has joined a stage, nothing comes from  *)
(* it any more.                                                            *)
QuietOnceJoined ==
  [][lives' = lives =>
       /\ WorkerCancelled => enqueued' = enqueued
       /\ SenderCancelled => outbox' = outbox /\ worker' = worker]_vars

(* A requested stop ends with the daemon down, whatever the receive        *)
(* threads and the worker are in the middle of.  Of a hanging turn,        *)
(* boot.zig says (lines 20-22 and 479-481) that it does not veto shutdown. *)
StopEndsDown == stage = "waiting" ~> stage = "down"

(* Every text a bot receives while the daemon runs gets its turn, however  *)
(* often polls fail, unless the queue evicts it, the full batch passes it  *)
(* over, or somebody stops the daemon.                                     *)
TextsGetTurns ==
  \A a \in Agents : \A id \in 1 .. MaxUpdates :
    (id <= Len(upstream[a]) /\ IsText(a, id))
      ~> <<a, id>> \in turned \cup evicted \cup overflowed \/ stage # "serving"

(* "Callers that care should drain the manager (stop its receive threads)  *)
(* before calling us" (dispatch_worker.zig, lines 121-124): with the       *)
(* receivers joined first, the worker leaves no message unprocessed.       *)
NothingLeftBehind == SenderCancelled => queue = << >>

(* "Advance past everything in this batch even if we dropped some          *)
(* (non-text, buf-full)" (channel.zig, lines 139-142). *)
BatchIsPassed ==
  [][\A a \in Agents :
       receiver[a].pc = "got" /\ nextOffset'[a] > nextOffset[a]
         => nextOffset'[a] = Last(receiver[a].ids)]_vars

(* "Multiple agents MAY share the same ChannelId kind; each gets its own   *)
(* receive thread and its own outbox partition" (manager.zig, lines        *)
(* 74-75): a reply leaves through the bot its message came in by.          *)
RepliesThroughOwnBot == \A delivery \in sent : delivery[2] = delivery[1][1]
=============================================================================
