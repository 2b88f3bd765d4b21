------------------------------- MODULE Turns -------------------------------
(***************************************************************************)
(* Turns over HTTP.  The server (src/gateway/tcp_server.zig) starts a      *)
(* detached thread per connection; the handler in it                       *)
(* (src/gateway/routes.zig) runs the turn of a session on the agent        *)
(* registry (src/cli/commands/agent_registry.zig), which passes it to the  *)
(* agent's LiveAgentRunner (src/cli/commands/live_runner.zig).  A runner   *)
(* has one cancel flag, one buffer for the last output and one             *)
(* conversation history per session, without locks: turns that overlap on  *)
(* it share them.  DELETE of a session's current turn sets the flag of     *)
(* every runner, from a thread of its own.                                 *)
(*                                                                         *)
(* Agents and sessions are numbers: session n belongs to agent n, and a    *)
(* session without an agent to agent 1, the registry's default.  A client  *)
(* waits for its answer before it sends the next message.                  *)
(***************************************************************************)
EXTENDS Integers, Sequences, FiniteSets

CONSTANTS
  Agents,      \* loaded agents, 1 .. Agents, in the order of the registry
  Clients,     \* programs that talk to the gateway
  SessionOf,   \* per client, the session it uses
  MaxTurns,    \* bound: messages sent
  MaxRounds,   \* bound: answers of a turn that call tools
  MaxCalls,    \* bound: tool calls in one answer
  MaxCancels,  \* bound: DELETE requests
  Events       \* which of AllEvents may happen

AllEvents == {"stop", "out of memory"}

ASSUME TurnsAssumption ==
  /\ Agents \in Nat \ {0}
  /\ IsFiniteSet(Clients)
  /\ SessionOf \in [Clients -> Nat \ {0}]
  /\ {MaxTurns, MaxRounds, MaxCalls, MaxCancels} \subseteq Nat
  /\ Events \subseteq AllEvents

VARIABLES
  stage,       \* "serving", "stopping" once serve returned, "settled" after waitFor
  conn,        \* per client, where the thread of its connection is
  turns,       \* messages sent
  inFlight,    \* AgentRegistry.in_flight
  cancelFlag,  \* per agent, LiveAgentRunner.cancel_flag
  lastOutput,  \* per agent, the turn whose text last_output holds, 0 for none
  freed,       \* turns whose text has been freed
  history,     \* per session, the messages of the context engine
  fanout,      \* next agent registryCancel visits, 0 when none is running
  cancels,     \* DELETE requests so far
  asked,       \* history: turns a DELETE of their session was sent for
  overlapped,  \* history: turns in flight while some DELETE was
  struck,      \* history: turns whose flag was set in the present round
  cancelled    \* history: turns that found themselves cancelled

runnerVars  == <<cancelFlag, lastOutput, freed, history>>
cancelVars  == <<fanout, cancels, asked, overlapped, struck, cancelled>>
vars == <<stage, conn, turns, inFlight, runnerVars, cancelVars>>

-----------------------------------------------------------------------------
Sessions == {SessionOf[c] : c \in Clients}

Runner(s) == IF s \in 1 .. Agents THEN s ELSE 1

AgentOf(c) == Runner(SessionOf[c])

Idle == [pc |-> "idle", id |-> 0, round |-> 0, calls |-> 0, call |-> 0,
         hit |-> FALSE, text |-> FALSE, output |-> 0]

(* Between begin and end of the registry's counter ... *)
Running(c) == conn[c].pc \notin {"idle", "accepted", "rendering"}

(* ... and where cancelling still means something. *)
Cancellable(c) == conn[c].pc \in {"cleared", "rotated", "chat", "tool", "running"}

Ids(cs) == {conn[c].id : c \in cs}

Entry(kind, c, n) == [kind |-> kind, turn |-> conn[c].id, round |-> conn[c].round, n |-> n]

Ingest(c, kind, n) ==
  history' = [history EXCEPT ![SessionOf[c]] = Append(@, Entry(kind, c, n))]

Goto(c, pc) == conn' = [conn EXCEPT ![c].pc = pc]

Init ==
  /\ stage = "serving"
  /\ conn = [c \in Clients |-> Idle]
  /\ turns = 0
  /\ inFlight = 0
  /\ cancelFlag = [a \in 1 .. Agents |-> FALSE]
  /\ lastOutput = [a \in 1 .. Agents |-> 0]
  /\ freed = {}
  /\ history = [s \in Sessions |-> << >>]
  /\ fanout = 0
  /\ cancels = 0
  /\ asked = {}
  /\ overlapped = {}
  /\ struck = {}
  /\ cancelled = {}

-----------------------------------------------------------------------------
(* serve accepts a connection with a message and starts its thread. *)
Accept(c) ==
  /\ stage = "serving"
  /\ conn[c].pc = "idle"
  /\ turns < MaxTurns
  /\ turns' = turns + 1
  /\ conn' = [conn EXCEPT ![c] = [Idle EXCEPT !.pc = "accepted", !.id = turns + 1]]
  /\ UNCHANGED <<stage, inFlight, runnerVars, cancelVars>>

(* The handler calls registryRun, which counts the turn. *)
Enter(c) ==
  /\ conn[c].pc = "accepted"
  /\ inFlight' = inFlight + 1
  /\ Goto(c, "entered")
  /\ overlapped' = IF fanout = 0 THEN overlapped ELSE overlapped \cup {conn[c].id}
  /\ UNCHANGED <<stage, turns, runnerVars, fanout, cancels, asked, struck, cancelled>>

(* Variant: the flag is left as the turn before left it. *)
KeepFlag(c) ==
  /\ conn[c].pc = "entered"
  /\ Goto(c, "cleared")
  /\ UNCHANGED <<stage, turns, inFlight, runnerVars, cancelVars>>

(* liveRun: "Fresh turn - clear any stale cancel flag". *)
ClearFlag(c) ==
  /\ conn[c].pc = "entered"
  /\ cancelFlag' = [cancelFlag EXCEPT ![AgentOf(c)] = FALSE]
  /\ Goto(c, "cleared")
  /\ UNCHANGED <<stage, turns, inFlight, lastOutput, freed, history, cancelVars>>

(* Variant: the buffer is freed and still pointed to. *)
RotateDangling(c) ==
  /\ conn[c].pc = "cleared"
  /\ freed' = freed \cup ({lastOutput[AgentOf(c)]} \ {0})
  /\ Goto(c, "rotated")
  /\ UNCHANGED <<stage, turns, inFlight, cancelFlag, lastOutput, history, cancelVars>>

(* liveRun frees the output of the turn before. *)
RotateOutput(c) ==
  /\ conn[c].pc = "cleared"
  /\ freed' = freed \cup ({lastOutput[AgentOf(c)]} \ {0})
  /\ lastOutput' = [lastOutput EXCEPT ![AgentOf(c)] = 0]
  /\ Goto(c, "rotated")
  /\ UNCHANGED <<stage, turns, inFlight, cancelFlag, history, cancelVars>>

(* liveRun ingests the message and assembles the prompt from the history. *)
Prompt(c) ==
  /\ conn[c].pc = "rotated"
  /\ Ingest(c, "user", 0)
  /\ Goto(c, "chat")
  /\ UNCHANGED <<stage, turns, inFlight, cancelFlag, lastOutput, freed, cancelVars>>

(* The provider's answer calls tools: the intent goes into the history.    *)
(* A provider that polls the flag may have stopped reading at it.          *)
AnswerTools(c) ==
  /\ conn[c].pc = "chat"
  /\ conn[c].round < MaxRounds
  /\ \E n \in 1 .. MaxCalls :
       /\ Ingest(c, "uses", n)
       /\ conn' = [conn EXCEPT ![c].pc = "tool", ![c].calls = n, ![c].call = 1,
                               ![c].hit = FALSE]
  /\ UNCHANGED <<stage, turns, inFlight, cancelFlag, lastOutput, freed, cancelVars>>

(* The answer is final: words, silence, or the marker of a cancelled or    *)
(* refused turn.                                                           *)
AnswerText(c) ==
  /\ conn[c].pc = "chat"
  /\ \E said, text, stopped \in BOOLEAN :
       /\ stopped => cancelFlag[AgentOf(c)]
       /\ said \/ stopped => text
       /\ IF said THEN Ingest(c, "text", 0) ELSE UNCHANGED history
       /\ conn' = [conn EXCEPT ![c].pc = "done", ![c].text = text]
       /\ cancelled' = IF stopped THEN cancelled \cup {conn[c].id} ELSE cancelled
  /\ UNCHANGED <<stage, turns, inFlight, cancelFlag, lastOutput, freed, fanout, cancels,
                 asked, overlapped, struck>>

-----------------------------------------------------------------------------
MoreCalls(c) == conn[c].pc = "tool" /\ conn[c].call <= conn[c].calls

(* Variant: a skipped call gets no result. *)
SkipToolSilently(c) ==
  /\ MoreCalls(c)
  /\ cancelFlag[AgentOf(c)]
  /\ conn' = [conn EXCEPT ![c].call = @ + 1, ![c].hit = TRUE]
  /\ UNCHANGED <<stage, turns, inFlight, runnerVars, cancelVars>>

(* Variant: the skipped call spends the cancel at once. *)
SkipToolSpending(c) ==
  /\ MoreCalls(c)
  /\ cancelFlag[AgentOf(c)]
  /\ Ingest(c, "result", conn[c].call)
  /\ cancelFlag' = [cancelFlag EXCEPT ![AgentOf(c)] = FALSE]
  /\ conn' = [conn EXCEPT ![c].call = @ + 1, ![c].hit = TRUE]
  /\ UNCHANGED <<stage, turns, inFlight, lastOutput, freed, cancelVars>>

(* A call that finds the flag set gets a synthetic result ... *)
SkipTool(c) ==
  /\ MoreCalls(c)
  /\ cancelFlag[AgentOf(c)]
  /\ Ingest(c, "result", conn[c].call)
  /\ conn' = [conn EXCEPT ![c].call = @ + 1, ![c].hit = TRUE]
  /\ cancelled' = cancelled \cup {conn[c].id}
  /\ UNCHANGED <<stage, turns, inFlight, cancelFlag, lastOutput, freed, fanout, cancels,
                 asked, overlapped, struck>>

(* ... any other is dispatched: a tool has started once the flag was read  *)
(* for it ... *)
StartTool(c) ==
  /\ MoreCalls(c)
  /\ ~cancelFlag[AgentOf(c)]
  /\ Goto(c, "running")
  /\ UNCHANGED <<stage, turns, inFlight, runnerVars, cancelVars>>

(* ... and its result, or its error, is ingested. *)
FinishTool(c) ==
  /\ conn[c].pc = "running"
  /\ Ingest(c, "result", conn[c].call)
  /\ conn' = [conn EXCEPT ![c].pc = "tool", ![c].call = @ + 1,
                          ![c].hit = @ \/ cancelFlag[AgentOf(c)]]
  /\ cancelled' = IF cancelFlag[AgentOf(c)] THEN cancelled \cup {conn[c].id} ELSE cancelled
  /\ UNCHANGED <<stage, turns, inFlight, cancelFlag, lastOutput, freed, fanout, cancels,
                 asked, overlapped, struck>>

(* With all results in, a cancel that a tool saw is spent, and the         *)
(* provider is asked again. *)
NextRound(c) ==
  /\ conn[c].pc = "tool"
  /\ conn[c].call > conn[c].calls
  /\ cancelFlag' = [cancelFlag EXCEPT ![AgentOf(c)] = @ /\ ~conn[c].hit]
  /\ conn' = [conn EXCEPT ![c].pc = "chat", ![c].round = @ + 1]
  /\ struck' = struck \ {conn[c].id}
  /\ UNCHANGED <<stage, turns, inFlight, lastOutput, freed, history, fanout, cancels,
                 asked, overlapped, cancelled>>

(* last_output takes the final text. *)
StoreOutput(c) ==
  /\ conn[c].pc = "done"
  /\ lastOutput' = [lastOutput EXCEPT ![AgentOf(c)] = IF conn[c].text THEN conn[c].id ELSE 0]
  /\ Goto(c, "stored")
  /\ UNCHANGED <<stage, turns, inFlight, cancelFlag, freed, history, cancelVars>>

(* liveRun returns a slice of last_output, and registryRun counts down. *)
Return(c) ==
  /\ conn[c].pc = "stored"
  /\ conn' = [conn EXCEPT ![c].pc = "rendering", ![c].output = lastOutput[AgentOf(c)]]
  /\ inFlight' = inFlight - 1
  /\ UNCHANGED <<stage, turns, runnerVars, cancelVars>>

(* The handler has written the response. *)
Render(c) ==
  /\ conn[c].pc = "rendering"
  /\ conn' = [conn EXCEPT ![c] = Idle]
  /\ UNCHANGED <<stage, turns, inFlight, runnerVars, cancelVars>>

(* Variant: a turn that fails stays counted. *)
FailCounted(c) ==
  /\ conn[c].pc \in {"rotated", "chat", "tool", "running"}
  /\ conn' = [conn EXCEPT ![c] = Idle]
  /\ UNCHANGED <<stage, turns, inFlight, runnerVars, cancelVars>>

(* The provider cannot be built or reached, or the engine cannot take a    *)
(* message: liveRun returns an error. *)
Fail(c) ==
  /\ \/ conn[c].pc \in {"rotated", "chat"}
     \/ "out of memory" \in Events /\ conn[c].pc \in {"tool", "running"}
  /\ conn' = [conn EXCEPT ![c] = Idle]
  /\ inFlight' = inFlight - 1
  /\ UNCHANGED <<stage, turns, runnerVars, cancelVars>>

Handle(c) ==
  \/ Enter(c) \/ ClearFlag(c) \/ RotateOutput(c) \/ Prompt(c)
  \/ AnswerTools(c) \/ AnswerText(c) \/ SkipTool(c) \/ StartTool(c) \/ FinishTool(c)
  \/ NextRound(c) \/ StoreOutput(c) \/ Return(c) \/ Render(c) \/ Fail(c)

-----------------------------------------------------------------------------
(* DELETE of the current turn of session s calls registryCancel ... *)
Delete(s) ==
  /\ fanout = 0
  /\ cancels < MaxCancels
  /\ fanout' = 1
  /\ cancels' = cancels + 1
  /\ asked' = asked \cup Ids({c \in Clients : Running(c) /\ SessionOf[c] = s})
  /\ overlapped' = overlapped \cup Ids({c \in Clients : Running(c)})
  /\ UNCHANGED <<stage, conn, turns, inFlight, runnerVars, struck, cancelled>>

(* ... which sets the flag of one agent after the other. *)
FanOut ==
  /\ fanout # 0
  /\ cancelFlag' = [cancelFlag EXCEPT ![fanout] = TRUE]
  /\ struck' = struck \cup Ids({c \in Clients : Cancellable(c) /\ AgentOf(c) = fanout})
  /\ fanout' = IF fanout < Agents THEN fanout + 1 ELSE 0
  /\ UNCHANGED <<stage, conn, turns, inFlight, lastOutput, freed, history, cancels, asked,
                 overlapped, cancelled>>

(* serve returns. *)
RequestStop ==
  /\ "stop" \in Events
  /\ stage = "serving"
  /\ stage' = "stopping"
  /\ UNCHANGED <<conn, turns, inFlight, runnerVars, cancelVars>>

(* waitFor finds the counter at zero.  (Its deadline is in Gateway.) *)
Settle ==
  /\ stage = "stopping"
  /\ inFlight = 0
  /\ stage' = "settled"
  /\ UNCHANGED <<conn, turns, inFlight, runnerVars, cancelVars>>

Next ==
  \/ \E c \in Clients : Accept(c) \/ Handle(c)
  \/ \E s \in Sessions : Delete(s)
  \/ FanOut
  \/ RequestStop
  \/ Settle

Spec == Init /\ [][Next]_vars

(* Providers answer or time out, tools end, threads are scheduled. *)
Fairness == WF_vars(Settle) /\ \A c \in Clients : WF_vars(Handle(c))

FairSpec == Spec /\ Fairness

-----------------------------------------------------------------------------
Pcs == {"idle", "accepted", "entered", "cleared", "rotated", "chat", "tool", "running", "done",
        "stored", "rendering"}

TypeOK ==
  /\ stage \in {"serving", "stopping", "settled"}
  /\ conn \in [Clients -> [pc : Pcs, id : 0 .. MaxTurns, round : 0 .. MaxRounds,
                           calls : 0 .. MaxCalls, call : 0 .. MaxCalls + 1,
                           hit : BOOLEAN, text : BOOLEAN, output : 0 .. MaxTurns]]
  /\ turns \in 0 .. MaxTurns
  /\ inFlight = Cardinality({c \in Clients : Running(c)})
  /\ cancelFlag \in [1 .. Agents -> BOOLEAN]
  /\ lastOutput \in [1 .. Agents -> 0 .. MaxTurns]
  /\ freed \subseteq 1 .. turns
  /\ history \in [Sessions -> Seq([kind : {"user", "text", "uses", "result"},
                                   turn : 1 .. MaxTurns, round : 0 .. MaxRounds,
                                   n : 0 .. MaxCalls])]
  /\ fanout \in 0 .. Agents
  /\ cancels \in 0 .. MaxCancels
  /\ asked \cup overlapped \cup struck \cup cancelled \subseteq 1 .. turns

(* "The handler that consumed the previous result has long since written   *)
(* it to the wire" (live_runner.zig, lines 572-574): what a handler        *)
(* renders is the output of its own turn and is still there, and no        *)
(* buffer is freed twice.                                                  *)
HandlersHoldTheirOutput ==
  /\ \A c \in Clients : conn[c].pc = "rendering" =>
       /\ conn[c].output = IF conn[c].text THEN conn[c].id ELSE 0
       /\ conn[c].output \notin freed
  /\ \A a \in 1 .. Agents : lastOutput[a] \notin freed

Answered(h) ==
  \A i \in DOMAIN h : h[i].kind = "uses" =>
    \A k \in 1 .. h[i].n :
      /\ i + k <= Len(h)
      /\ h[i + k] = [h[i] EXCEPT !.kind = "result", !.n = k]

(* The history a prompt is assembled from has the results of every tool    *)
(* use right behind it, as the provider requires ("correlate its own calls *)
(* with the next turn's tool_result blocks", live_runner.zig, lines        *)
(* 783-786). *)
PromptsArePaired ==
  [][\A c \in Clients : conn[c].pc = "rotated" /\ conn'[c].pc = "chat"
        => Answered(history'[SessionOf[c]])]_vars

(* "A tool that already started runs to completion, but the next never     *)
(* starts" (live_runner.zig, lines 130-132): once the flag was set during  *)
(* a turn, no tool of the present round is dispatched.                     *)
NoToolAfterCancel ==
  [][\A c \in Clients : conn[c].pc = "tool" /\ conn'[c].pc = "running"
        => conn[c].id \notin struck]_vars

(* "Reset to false at the start of every turn so a stale ESC from a        *)
(* previous turn doesn't poison the next one" (live_runner.zig, lines      *)
(* 136-137): only a turn that was in flight during a DELETE is cancelled,  *)
(* even where turns of one agent overlap.                                  *)
StaleCancelIsDropped == cancelled \subseteq overlapped

(* "Cancels the in-flight turn for :id" (GATEWAY.md, line 167). *)
CancelsOnlyItsSession == cancelled \subseteq asked

(* Once serve has returned, the wait for the in-flight turns ends without  *)
(* its deadline: every path through a turn counts down again.              *)
StopSettles == stage = "stopping" ~> stage = "settled"

(* "Stop accepting new HTTP requests", then "wait for the gateway's        *)
(* in-flight turn counter to reach zero" (boot.zig, lines 17-20): when the *)
(* wait is over no turn runs, and none begins.                             *)
NoTurnOnceSettled == stage = "settled" => inFlight = 0
=============================================================================
