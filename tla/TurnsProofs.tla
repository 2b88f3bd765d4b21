----------------------------- MODULE TurnsProofs -----------------------------
(***************************************************************************)
(* Proofs about turns over HTTP, for any agents, clients and sessions.     *)
(***************************************************************************)
EXTENDS Turns, FiniteSetTheorems, SequenceTheorems, TLAPS

Thread == [pc : Pcs, id : 0 .. MaxTurns, round : 0 .. MaxRounds,
           calls : 0 .. MaxCalls, call : 0 .. MaxCalls + 1,
           hit : BOOLEAN, text : BOOLEAN, output : 0 .. MaxTurns]

Message == [kind : {"user", "text", "uses", "result"}, turn : 1 .. MaxTurns,
            round : 0 .. MaxRounds, n : 0 .. MaxCalls]

\* A thread works for a turn that was sent, within the bounds of its loops.
Fits(t, sent) ==
  /\ t.pc # "idle" => t.id \in 1 .. sent
  /\ t.pc \in {"tool", "running"} => t.round < MaxRounds
  /\ t.pc = "running" => t.call <= t.calls

Threads == \A c \in Clients : Fits(conn[c], turns)

Buffers == \A a \in 1 .. Agents : lastOutput[a] \in 0 .. turns

\* The registry counts the turns that run.
RunningSet == {c \in Clients : Running(c)}

-----------------------------------------------------------------------------
LEMMA Constants ==
  /\ Agents \in Nat \ {0} /\ MaxTurns \in Nat /\ MaxRounds \in Nat /\ MaxCalls \in Nat
  /\ MaxCancels \in Nat
  /\ IsFiniteSet(Clients)
  /\ \A c \in Clients : AgentOf(c) \in 1 .. Agents /\ SessionOf[c] \in Sessions
BY TurnsAssumption DEF AgentOf, Runner, Sessions

\* A thread may go anywhere.
LEMMA GotoTypes ==
  ASSUME conn \in [Clients -> Thread], NEW c \in Clients, NEW pc \in Pcs, Goto(c, pc)
  PROVE  conn' \in [Clients -> Thread]
<1>1. [conn[c] EXCEPT !.pc = pc] \in Thread
  BY DEF Thread
<1>2. conn' = [conn EXCEPT ![c] = [conn[c] EXCEPT !.pc = pc]]
  BY DEF Goto
<1> QED BY <1>1, <1>2

LEMMA IdleTypes == Idle \in Thread
BY Constants DEF Idle, Thread, Pcs

\* A step of a client keeps the shape of its thread ...
LEMMA ThreadTypes ==
  ASSUME conn \in [Clients -> Thread], turns \in 0 .. MaxTurns,
         lastOutput \in [1 .. Agents -> 0 .. MaxTurns],
         NEW c \in Clients, Fits(conn[c], turns), Accept(c) \/ Handle(c)
  PROVE  conn' \in [Clients -> Thread]
<1> USE Constants
<1>1. CASE Accept(c)
  <2>1. conn' = [conn EXCEPT ![c] = [Idle EXCEPT !.pc = "accepted", !.id = turns + 1]]
        /\ turns + 1 \in 0 .. MaxTurns
    BY <1>1 DEF Accept
  <2>2. Idle \in Thread /\ "accepted" \in Pcs
    BY IdleTypes DEF Pcs
  <2>3. [Idle EXCEPT !.pc = "accepted", !.id = turns + 1] \in Thread
    BY <2>1, <2>2 DEF Thread
  <2> QED BY <2>1, <2>3
<1>2. CASE Enter(c)
  BY <1>2, GotoTypes DEF Enter, Pcs
<1>3. CASE ClearFlag(c)
  BY <1>3, GotoTypes DEF ClearFlag, Pcs
<1>4. CASE RotateOutput(c)
  BY <1>4, GotoTypes DEF RotateOutput, Pcs
<1>5. CASE Prompt(c)
  BY <1>5, GotoTypes DEF Prompt, Pcs
<1>6. CASE AnswerTools(c)
  <2>1. PICK n \in 1 .. MaxCalls :
          conn' = [conn EXCEPT ![c].pc = "tool", ![c].calls = n, ![c].call = 1,
                               ![c].hit = FALSE]
    BY <1>6 DEF AnswerTools
  <2>2. n \in 0 .. MaxCalls /\ 1 \in 0 .. MaxCalls + 1 /\ "tool" \in Pcs
    BY DEF Pcs
  <2>3. [conn[c] EXCEPT !.pc = "tool", !.calls = n, !.call = 1, !.hit = FALSE] \in Thread
    BY <2>2 DEF Thread
  <2> QED BY <2>1, <2>3
<1>7. CASE AnswerText(c)
  <2>1. PICK text \in BOOLEAN : conn' = [conn EXCEPT ![c].pc = "done", ![c].text = text]
    BY <1>7 DEF AnswerText
  <2>2. "done" \in Pcs
    BY DEF Pcs
  <2>3. [conn[c] EXCEPT !.pc = "done", !.text = text] \in Thread
    BY <2>2 DEF Thread
  <2> QED BY <2>1, <2>3
<1>8. CASE SkipTool(c)
  <2>1. /\ conn' = [conn EXCEPT ![c].call = @ + 1, ![c].hit = TRUE]
        /\ conn[c].call <= conn[c].calls
    BY <1>8 DEF SkipTool, MoreCalls
  <2>2. conn[c].call + 1 \in 0 .. MaxCalls + 1
    BY <2>1 DEF Thread
  <2>3. [conn[c] EXCEPT !.call = @ + 1, !.hit = TRUE] \in Thread
    BY <2>2 DEF Thread
  <2> QED BY <2>1, <2>3
<1>9. CASE StartTool(c)
  BY <1>9, GotoTypes DEF StartTool, Pcs
<1>10. CASE FinishTool(c)
  <2>1. /\ conn' = [conn EXCEPT ![c].pc = "tool", ![c].call = @ + 1,
                               ![c].hit = @ \/ cancelFlag[AgentOf(c)]]
        /\ conn[c].call <= conn[c].calls
    BY <1>10 DEF FinishTool, Fits
  <2>2. conn[c].call + 1 \in 0 .. MaxCalls + 1 /\ "tool" \in Pcs
    BY <2>1 DEF Thread, Pcs
  <2>3. (conn[c].hit \/ cancelFlag[AgentOf(c)]) \in BOOLEAN
    OBVIOUS
  <2>4. [conn[c] EXCEPT !.pc = "tool", !.call = @ + 1,
                        !.hit = @ \/ cancelFlag[AgentOf(c)]] \in Thread
    BY <2>2, <2>3 DEF Thread
  <2> QED BY <2>1, <2>4
<1>11. CASE NextRound(c)
  <2>1. /\ conn' = [conn EXCEPT ![c].pc = "chat", ![c].round = @ + 1]
        /\ conn[c].round < MaxRounds
    BY <1>11 DEF NextRound, Fits
  <2>2. conn[c].round + 1 \in 0 .. MaxRounds /\ "chat" \in Pcs
    BY <2>1 DEF Thread, Pcs
  <2>3. [conn[c] EXCEPT !.pc = "chat", !.round = @ + 1] \in Thread
    BY <2>2 DEF Thread
  <2> QED BY <2>1, <2>3
<1>12. CASE StoreOutput(c)
  BY <1>12, GotoTypes DEF StoreOutput, Pcs
<1>13. CASE Return(c)
  <2>1. conn' = [conn EXCEPT ![c].pc = "rendering", ![c].output = lastOutput[AgentOf(c)]]
    BY <1>13 DEF Return
  <2>2. lastOutput[AgentOf(c)] \in 0 .. MaxTurns /\ "rendering" \in Pcs
    BY DEF Pcs
  <2>3. [conn[c] EXCEPT !.pc = "rendering", !.output = lastOutput[AgentOf(c)]] \in Thread
    BY <2>2 DEF Thread
  <2> QED BY <2>1, <2>3
<1>14. CASE Render(c)
  BY <1>14, IdleTypes DEF Render
<1>15. CASE Fail(c)
  BY <1>15, IdleTypes DEF Fail
<1> QED BY <1>1, <1>2, <1>3, <1>4, <1>5, <1>6, <1>7, <1>8, <1>9, <1>10, <1>11, <1>12, <1>13, <1>14, <1>15 DEF Handle

\* ... and touches no other ...
LEMMA ThreadFrame ==
  ASSUME conn \in [Clients -> Thread], NEW c \in Clients, Accept(c) \/ Handle(c)
  PROVE  \A d \in Clients \ {c} : conn'[d] = conn[d]
<1>1. CASE Accept(c)
  BY <1>1 DEF Accept, Idle, Thread
<1>2. CASE Enter(c)
  BY <1>2 DEF Enter, Goto, Thread
<1>3. CASE ClearFlag(c)
  BY <1>3 DEF ClearFlag, Goto, Thread
<1>4. CASE RotateOutput(c)
  BY <1>4 DEF RotateOutput, Goto, Thread
<1>5. CASE Prompt(c)
  BY <1>5 DEF Prompt, Goto, Thread
<1>6. CASE AnswerTools(c)
  BY <1>6 DEF AnswerTools, Thread
<1>7. CASE AnswerText(c)
  BY <1>7 DEF AnswerText, Thread
<1>8. CASE SkipTool(c)
  BY <1>8 DEF SkipTool, MoreCalls, Thread
<1>9. CASE StartTool(c)
  BY <1>9 DEF StartTool, MoreCalls, Goto, Thread
<1>10. CASE FinishTool(c)
  BY <1>10 DEF FinishTool, Thread
<1>11. CASE NextRound(c)
  BY <1>11 DEF NextRound, Thread
<1>12. CASE StoreOutput(c)
  BY <1>12 DEF StoreOutput, Goto, Thread
<1>13. CASE Return(c)
  BY <1>13 DEF Return, Thread
<1>14. CASE Render(c)
  BY <1>14 DEF Render, Idle, Thread
<1>15. CASE Fail(c)
  BY <1>15 DEF Fail, Idle, Thread
<1> QED BY <1>1, <1>2, <1>3, <1>4, <1>5, <1>6, <1>7, <1>8, <1>9, <1>10, <1>11, <1>12, <1>13, <1>14, <1>15 DEF Handle

\* ... and its loops stay within their bounds.
LEMMA ThreadFits ==
  ASSUME conn \in [Clients -> Thread], turns \in 0 .. MaxTurns,
         NEW c \in Clients, Fits(conn[c], turns), Handle(c)
  PROVE  /\ Fits(conn'[c], turns)
         /\ conn'[c].pc # "idle" => conn'[c].id = conn[c].id
<1> USE Constants
<1>1. CASE Enter(c)
  BY <1>1 DEF Enter, Goto, Thread, Fits, Pcs
<1>2. CASE ClearFlag(c)
  BY <1>2 DEF ClearFlag, Goto, Thread, Fits, Pcs
<1>3. CASE RotateOutput(c)
  BY <1>3 DEF RotateOutput, Goto, Thread, Fits, Pcs
<1>4. CASE Prompt(c)
  BY <1>4 DEF Prompt, Goto, Thread, Fits, Pcs
<1>5. CASE AnswerTools(c)
  BY <1>5 DEF AnswerTools, Thread, Fits, Pcs
<1>6. CASE AnswerText(c)
  BY <1>6 DEF AnswerText, Thread, Fits, Pcs
<1>7. CASE SkipTool(c)
  BY <1>7 DEF SkipTool, MoreCalls, Thread, Fits, Pcs
<1>8. CASE StartTool(c)
  BY <1>8 DEF StartTool, MoreCalls, Goto, Thread, Fits, Pcs
<1>9. CASE FinishTool(c)
  BY <1>9 DEF FinishTool, Thread, Fits, Pcs
<1>10. CASE NextRound(c)
  BY <1>10 DEF NextRound, Thread, Fits, Pcs
<1>11. CASE StoreOutput(c)
  BY <1>11 DEF StoreOutput, Goto, Thread, Fits, Pcs
<1>12. CASE Return(c)
  BY <1>12 DEF Return, Thread, Fits, Pcs
<1>13. CASE Render(c)
  BY <1>13 DEF Render, Idle, Thread, Fits, Pcs
<1>14. CASE Fail(c)
  BY <1>14 DEF Fail, Idle, Thread, Fits, Pcs
<1> QED BY <1>1, <1>2, <1>3, <1>4, <1>5, <1>6, <1>7, <1>8, <1>9, <1>10, <1>11, <1>12, <1>13, <1>14 DEF Handle

-----------------------------------------------------------------------------
(* Types.                                                                   *)

\* Only the thread of c can join or leave those that run.
LEMMA RunningChange ==
  ASSUME NEW c \in Clients, \A d \in Clients \ {c} : conn'[d] = conn[d]
  PROVE  /\ IsFiniteSet(RunningSet) /\ Cardinality(RunningSet) \in Nat
         /\ (Running(c)' <=> Running(c))
              => Cardinality(RunningSet') = Cardinality(RunningSet)
         /\ ~Running(c) /\ Running(c)'
              => Cardinality(RunningSet') = Cardinality(RunningSet) + 1
         /\ Running(c) /\ ~Running(c)'
              => Cardinality(RunningSet') = Cardinality(RunningSet) - 1
<1>1. IsFiniteSet(RunningSet)
  BY Constants, FS_Subset DEF RunningSet
<1>2. (Running(c)' <=> Running(c)) => RunningSet' = RunningSet
  BY DEF RunningSet, Running
<1>3. ~Running(c) /\ Running(c)' => RunningSet' = RunningSet \cup {c} /\ c \notin RunningSet
  BY DEF RunningSet, Running
<1>4. Running(c) /\ ~Running(c)' => RunningSet' = RunningSet \ {c} /\ c \in RunningSet
  BY DEF RunningSet, Running
<1> QED BY <1>1, <1>2, <1>3, <1>4, FS_AddElement, FS_RemoveElement, FS_CardinalityType

Counted == inFlight = Cardinality(RunningSet)

\* Every way into a turn counts it, and every way out counts down.
LEMMA CountedStep ==
  ASSUME conn \in [Clients -> Thread], Counted, NEW c \in Clients, Accept(c) \/ Handle(c)
  PROVE  Counted'
<1>1. \A d \in Clients \ {c} : conn'[d] = conn[d]
  BY ThreadFrame
<1>2. CASE Enter(c)
  <2>1. ~Running(c) /\ Running(c)' /\ inFlight' = inFlight + 1
    BY <1>2 DEF Enter, Goto, Running, Thread
  <2> QED BY <1>1, <2>1, RunningChange DEF Counted
<1>3. CASE Return(c) \/ Fail(c)
  <2>1. Running(c) /\ ~Running(c)' /\ inFlight' = inFlight - 1
    <3>1. CASE Return(c)
      BY <3>1 DEF Return, Running, Thread
    <3>2. CASE Fail(c)
      <4>1. conn' = [conn EXCEPT ![c] = Idle] /\ inFlight' = inFlight - 1
            /\ conn[c].pc \in {"rotated", "chat", "tool", "running"}
        BY <3>2 DEF Fail
      <4> QED BY <4>1 DEF Idle, Running
    <3> QED BY <1>3, <3>1, <3>2
  <2> QED BY <1>1, <2>1, RunningChange DEF Counted
<1>4. CASE ~Enter(c) /\ ~Return(c) /\ ~Fail(c)
  <2>1. inFlight' = inFlight
    BY <1>4 DEF Accept, Handle, ClearFlag, RotateOutput, Prompt, AnswerTools, AnswerText,
                SkipTool, StartTool, FinishTool, NextRound, StoreOutput, Render
  <2>2. Running(c)' <=> Running(c)
    <3>1. CASE Accept(c)
      BY <3>1 DEF Accept, Idle, Running, Thread
    <3>2. CASE ClearFlag(c) \/ RotateOutput(c) \/ Prompt(c) \/ StartTool(c) \/ StoreOutput(c)
      BY <3>2 DEF ClearFlag, RotateOutput, Prompt, StartTool, MoreCalls, StoreOutput, Goto,
                  Running, Thread
    <3>3. CASE AnswerTools(c) \/ AnswerText(c)
      <4>1. conn[c].pc = "chat" /\ conn'[c].pc \in {"tool", "done"}
        <5>1. CASE AnswerTools(c)
          BY <5>1 DEF AnswerTools, Thread
        <5>2. CASE AnswerText(c)
          BY <5>2 DEF AnswerText, Thread
        <5> QED BY <3>3, <5>1, <5>2
      <4> QED BY <4>1 DEF Running
    <3>4. CASE SkipTool(c) \/ FinishTool(c) \/ NextRound(c)
      BY <3>4 DEF SkipTool, MoreCalls, FinishTool, NextRound, Running, Thread
    <3>5. CASE Render(c)
      BY <3>5 DEF Render, Idle, Running, Thread
    <3> QED BY <1>4, <3>1, <3>2, <3>3, <3>4, <3>5 DEF Handle
  <2> QED BY <1>1, <2>1, <2>2, RunningChange DEF Counted
<1> QED BY <1>2, <1>3, <1>4

\* What is ingested is a message of a turn that was sent.
LEMMA IngestTypes ==
  ASSUME history \in [Sessions -> Seq(Message)], NEW c \in Clients,
         conn \in [Clients -> Thread], turns \in 0 .. MaxTurns, Fits(conn[c], turns),
         conn[c].pc # "idle",
         NEW kind \in {"user", "text", "uses", "result"}, NEW n \in 0 .. MaxCalls,
         Ingest(c, kind, n)
  PROVE  history' \in [Sessions -> Seq(Message)]
<1>1. Entry(kind, c, n) \in Message
  BY Constants DEF Entry, Message, Thread, Fits
<1>2. SessionOf[c] \in Sessions /\ history[SessionOf[c]] \in Seq(Message)
  BY Constants
<1>3. Append(history[SessionOf[c]], Entry(kind, c, n)) \in Seq(Message)
  BY <1>1, <1>2
<1> QED BY <1>2, <1>3 DEF Ingest

LEMMA HistoryTypes ==
  ASSUME history \in [Sessions -> Seq(Message)], NEW c \in Clients,
         conn \in [Clients -> Thread], turns \in 0 .. MaxTurns, Fits(conn[c], turns),
         Accept(c) \/ Handle(c)
  PROVE  history' \in [Sessions -> Seq(Message)]
<1>1. CASE Prompt(c)
  <2>1. conn[c].pc # "idle" /\ Ingest(c, "user", 0) /\ 0 \in 0 .. MaxCalls
    BY <1>1, Constants DEF Prompt
  <2> QED BY <2>1, IngestTypes
<1>2. CASE AnswerTools(c)
  <2>1. PICK n \in 1 .. MaxCalls : Ingest(c, "uses", n)
    BY <1>2 DEF AnswerTools
  <2>2. conn[c].pc # "idle" /\ n \in 0 .. MaxCalls
    BY <1>2, Constants DEF AnswerTools
  <2> QED BY <2>1, <2>2, IngestTypes
<1>3. CASE AnswerText(c)
  <2>1. history' = history \/ Ingest(c, "text", 0)
    BY <1>3 DEF AnswerText
  <2>2. conn[c].pc # "idle" /\ 0 \in 0 .. MaxCalls
    BY <1>3, Constants DEF AnswerText
  <2> QED BY <2>1, <2>2, IngestTypes
<1>4. CASE SkipTool(c) \/ FinishTool(c)
  <2>1. conn[c].pc # "idle" /\ Ingest(c, "result", conn[c].call) /\ conn[c].call <= conn[c].calls
    BY <1>4 DEF SkipTool, MoreCalls, FinishTool, Fits
  <2>2. conn[c].call \in 0 .. MaxCalls
    BY <2>1, Constants DEF Thread
  <2> QED BY <2>1, <2>2, IngestTypes
<1>5. CASE ~(Prompt(c) \/ AnswerTools(c) \/ AnswerText(c) \/ SkipTool(c) \/ FinishTool(c))
  <2>1. history' = history
    BY <1>5 DEF Accept, Handle, runnerVars, Enter, ClearFlag, RotateOutput, StartTool, NextRound,
                StoreOutput, Return, Render, Fail
  <2> QED BY <2>1
<1> QED BY <1>1, <1>2, <1>3, <1>4, <1>5

-----------------------------------------------------------------------------
(* The invariant.                                                           *)

\* While registryCancel visits the agents, every turn that runs is noted.
Watched == fanout # 0 => Ids(RunningSet) \subseteq overlapped

\* A turn past its ClearFlag that finds the flag set ran while a DELETE did.
FlagsAreFresh ==
  \A c \in Clients :
    Cancellable(c) /\ cancelFlag[AgentOf(c)] => conn[c].id \in overlapped

IInv == TypeOK /\ Threads /\ Buffers /\ Watched /\ FlagsAreFresh /\ StaleCancelIsDropped

LEMMA InitHolds == Init => IInv
<1> SUFFICES ASSUME Init PROVE IInv
  OBVIOUS
<1> USE Constants
<1>1. conn \in [Clients -> Thread]
  BY DEF Init, Idle, Thread, Pcs
<1>2. \A c \in Clients : conn[c].pc = "idle"
  BY DEF Init, Idle
<1>3. RunningSet = {} /\ inFlight = 0
  BY <1>2 DEF Init, RunningSet, Running
<1>4. Counted
  BY <1>3, FS_EmptySet DEF Counted
<1>5. history \in [Sessions -> Seq(Message)]
  BY DEF Init
<1>6. TypeOK
  BY <1>1, <1>4, <1>5 DEF Init, TypeOK, Thread, Message, Counted, RunningSet
<1>7. Threads /\ Buffers /\ Watched /\ FlagsAreFresh /\ StaleCancelIsDropped
  BY <1>2 DEF Init, Threads, Fits, Buffers, Watched, FlagsAreFresh, Cancellable,
              StaleCancelIsDropped
<1> QED BY <1>6, <1>7 DEF IInv

\* The parts of TypeOK in the words of these proofs.
LEMMA Types ==
  ASSUME TypeOK
  PROVE  /\ conn \in [Clients -> Thread] /\ history \in [Sessions -> Seq(Message)]
         /\ turns \in 0 .. MaxTurns /\ turns \in Int
         /\ Counted
         /\ cancelFlag \in [1 .. Agents -> BOOLEAN]
         /\ lastOutput \in [1 .. Agents -> 0 .. MaxTurns]
         /\ fanout \in 0 .. Agents
         /\ freed \subseteq 1 .. turns
<1>1. conn \in [Clients -> Thread]
  BY DEF TypeOK, Thread
<1>2. history \in [Sessions -> Seq(Message)]
  BY DEF TypeOK, Message
<1>3. Counted
  BY DEF TypeOK, Counted, RunningSet
<1>4. /\ turns \in 0 .. MaxTurns /\ fanout \in 0 .. Agents /\ freed \subseteq 1 .. turns
      /\ cancelFlag \in [1 .. Agents -> BOOLEAN]
      /\ lastOutput \in [1 .. Agents -> 0 .. MaxTurns]
  BY DEF TypeOK
<1> QED BY <1>1, <1>2, <1>3, <1>4, Constants

\* The variables that a client's step changes besides its thread, the counter
\* and the history.
LEMMA OtherTypes ==
  ASSUME TypeOK, Threads, Buffers, NEW c \in Clients, Accept(c) \/ Handle(c)
  PROVE  /\ stage' = stage /\ fanout' = fanout /\ cancels' = cancels /\ asked' = asked
         /\ turns' \in turns .. MaxTurns
         /\ cancelFlag' \in [1 .. Agents -> BOOLEAN]
         /\ lastOutput' \in [1 .. Agents -> 0 .. MaxTurns]
         /\ Buffers'
         /\ freed' \subseteq 1 .. turns'
         /\ overlapped' \subseteq overlapped \cup {conn[c].id}
         /\ overlapped \subseteq overlapped'
         /\ struck' \subseteq struck
         /\ cancelled' \subseteq cancelled \cup {conn[c].id}
         /\ conn[c].pc = "idle" => overlapped' = overlapped /\ cancelled' = cancelled
<1> USE Constants, Types
<1>1. CASE Accept(c)
  BY <1>1 DEF Accept, runnerVars, cancelVars, Buffers
<1>2. CASE Enter(c)
  BY <1>2 DEF Enter, runnerVars, Buffers
<1>3. CASE ClearFlag(c)
  BY <1>3 DEF ClearFlag, cancelVars, Buffers
<1>4. CASE RotateOutput(c)
  BY <1>4 DEF RotateOutput, cancelVars, Buffers
<1>5. CASE Prompt(c)
  BY <1>5 DEF Prompt, cancelVars, Buffers
<1>13. CASE AnswerTools(c)
  BY <1>13 DEF AnswerTools, cancelVars, Buffers
<1>6. CASE AnswerText(c)
  BY <1>6 DEF AnswerText, Buffers
<1>7. CASE SkipTool(c)
  BY <1>7 DEF SkipTool, MoreCalls, Buffers
<1>8. CASE StartTool(c)
  BY <1>8 DEF StartTool, runnerVars, cancelVars, Buffers
<1>9. CASE FinishTool(c)
  BY <1>9 DEF FinishTool, Buffers
<1>10. CASE NextRound(c)
  BY <1>10 DEF NextRound, Buffers
<1>11. CASE StoreOutput(c)
  <2>1. conn[c].id \in 0 .. turns
    BY <1>11 DEF StoreOutput, Threads, Fits
  <2> QED BY <1>11, <2>1 DEF StoreOutput, cancelVars, Buffers
<1>12. CASE Return(c)
  BY <1>12 DEF Return, runnerVars, cancelVars, Buffers
<1>14. CASE Render(c)
  BY <1>14 DEF Render, runnerVars, cancelVars, Buffers
<1>15. CASE Fail(c)
  <2>1. UNCHANGED <<stage, turns, runnerVars, cancelVars>>
    BY <1>15 DEF Fail
  <2> QED BY <2>1 DEF runnerVars, cancelVars, Buffers
<1> QED BY <1>1, <1>2, <1>3, <1>4, <1>5, <1>6, <1>7, <1>8, <1>9, <1>10, <1>11, <1>12, <1>13,
           <1>14, <1>15 DEF Handle

\* A step of a client keeps the types and the bounds.
LEMMA ClientTypes ==
  ASSUME TypeOK, Threads, Buffers, NEW c \in Clients, Accept(c) \/ Handle(c)
  PROVE  TypeOK' /\ Threads' /\ Buffers'
<1> USE Constants, Types, OtherTypes
<1>1. Fits(conn[c], turns)
  BY DEF Threads
<1>2. conn' \in [Clients -> Thread] /\ history' \in [Sessions -> Seq(Message)] /\ Counted'
  BY <1>1, ThreadTypes, HistoryTypes, CountedStep
<1>3. \A d \in Clients \ {c} : conn'[d] = conn[d]
  BY ThreadFrame
<1>4. Fits(conn'[c], turns')
  <2>1. CASE Accept(c)
    BY <2>1 DEF Accept, Idle, Fits, Thread
  <2>2. CASE Handle(c)
    <3>1. turns' = turns
      BY <2>2 DEF Handle, Enter, ClearFlag, RotateOutput, Prompt, AnswerTools, AnswerText,
                  SkipTool, StartTool, FinishTool, NextRound, StoreOutput, Return, Render, Fail
    <3> QED BY <1>1, <2>2, <3>1, ThreadFits
  <2> QED BY <2>1, <2>2
<1>5. \A d \in Clients : Fits(conn[d], turns) => Fits(conn[d], turns')
  BY DEF Fits
<1>6. Threads'
  BY <1>3, <1>4, <1>5 DEF Threads
<1>7. conn[c].pc # "idle" => conn[c].id \in 1 .. turns'
  BY <1>1 DEF Fits
<1>8. asked' \cup overlapped' \cup struck' \cup cancelled' \subseteq 1 .. turns'
  <2>1. asked \cup overlapped \cup struck \cup cancelled \subseteq 1 .. turns
    BY DEF TypeOK
  <2>3. 1 .. turns \subseteq 1 .. turns'
    BY OtherTypes, Types
  <2>2. /\ overlapped' \subseteq overlapped \cup {conn[c].id}
        /\ cancelled' \subseteq cancelled \cup {conn[c].id}
        /\ struck' \subseteq struck /\ asked' = asked
        /\ conn[c].pc = "idle" => overlapped' = overlapped /\ cancelled' = cancelled
    BY OtherTypes
  <2> QED BY <1>7, <2>1, <2>2, <2>3
<1>9. TypeOK'
  <2>1. conn' \in [Clients -> [pc : Pcs, id : 0 .. MaxTurns, round : 0 .. MaxRounds,
                               calls : 0 .. MaxCalls, call : 0 .. MaxCalls + 1,
                               hit : BOOLEAN, text : BOOLEAN, output : 0 .. MaxTurns]]
    BY <1>2 DEF Thread
  <2>2. history' \in [Sessions -> Seq([kind : {"user", "text", "uses", "result"},
                                       turn : 1 .. MaxTurns, round : 0 .. MaxRounds,
                                       n : 0 .. MaxCalls])]
    BY <1>2 DEF Message
  <2>3. inFlight' = Cardinality({d \in Clients : Running(d)})'
    BY <1>2 DEF Counted, RunningSet
  <2>4. /\ stage' \in {"serving", "stopping", "settled"}
        /\ cancels' \in 0 .. MaxCancels
    BY DEF TypeOK
  <2>5. /\ turns' \in 0 .. MaxTurns /\ fanout' \in 0 .. Agents
        /\ cancelFlag' \in [1 .. Agents -> BOOLEAN]
        /\ lastOutput' \in [1 .. Agents -> 0 .. MaxTurns]
        /\ freed' \subseteq 1 .. turns'
    OBVIOUS
  <2> QED BY <1>8, <2>1, <2>2, <2>3, <2>4, <2>5 DEF TypeOK
<1> QED BY <1>6, <1>9

-----------------------------------------------------------------------------
(* Stale cancels.                                                           *)

\* A client's step sets no flag, a turn becomes cancellable by clearing its
\* own, and is noted as cancelled only if it finds the flag set.
LEMMA CancelEffects ==
  ASSUME TypeOK, NEW c \in Clients, Accept(c) \/ Handle(c)
  PROVE  /\ \A a \in 1 .. Agents : cancelFlag'[a] => cancelFlag[a]
         /\ Cancellable(c)' => Cancellable(c) \/ ~cancelFlag'[AgentOf(c)]
         /\ Running(c)' => Running(c) \/ Enter(c)
         /\ cancelled' # cancelled =>
              /\ Cancellable(c) /\ cancelFlag[AgentOf(c)]
              /\ cancelled' = cancelled \cup {conn[c].id}
<1> USE Constants, Types DEF Cancellable, Running, Thread
<1>1. CASE Accept(c)
  BY <1>1 DEF Accept, runnerVars, cancelVars, Idle
<1>2. CASE Enter(c)
  BY <1>2 DEF Enter, Goto, runnerVars
<1>3. CASE ClearFlag(c)
  BY <1>3 DEF ClearFlag, Goto, cancelVars
<1>4. CASE RotateOutput(c)
  BY <1>4 DEF RotateOutput, Goto, cancelVars
<1>5. CASE Prompt(c)
  BY <1>5 DEF Prompt, Goto, cancelVars
<1>6. CASE AnswerTools(c)
  BY <1>6 DEF AnswerTools, cancelVars
<1>7. CASE AnswerText(c)
  BY <1>7 DEF AnswerText
<1>8. CASE SkipTool(c)
  BY <1>8 DEF SkipTool, MoreCalls
<1>9. CASE StartTool(c)
  BY <1>9 DEF StartTool, MoreCalls, Goto, runnerVars, cancelVars
<1>10. CASE FinishTool(c)
  BY <1>10 DEF FinishTool
<1>11. CASE NextRound(c)
  BY <1>11 DEF NextRound
<1>12. CASE StoreOutput(c)
  BY <1>12 DEF StoreOutput, Goto, cancelVars
<1>13. CASE Return(c)
  BY <1>13 DEF Return, runnerVars, cancelVars
<1>14. CASE Render(c)
  BY <1>14 DEF Render, Idle, runnerVars, cancelVars
<1>15. CASE Fail(c)
  <2>1. conn'[c] = Idle /\ UNCHANGED <<stage, turns, runnerVars, cancelVars>>
    BY <1>15 DEF Fail
  <2> QED BY <2>1 DEF Idle, runnerVars, cancelVars
<1> QED BY <1>1, <1>2, <1>3, <1>4, <1>5, <1>6, <1>7, <1>8, <1>9, <1>10, <1>11, <1>12, <1>13,
           <1>14, <1>15 DEF Handle

LEMMA ClientCancels ==
  ASSUME IInv, NEW c \in Clients, Accept(c) \/ Handle(c)
  PROVE  Watched' /\ FlagsAreFresh' /\ StaleCancelIsDropped'
<1>1. /\ TypeOK /\ Threads /\ Buffers /\ Watched /\ FlagsAreFresh /\ StaleCancelIsDropped
      /\ conn \in [Clients -> Thread] /\ turns \in 0 .. MaxTurns
  BY Types DEF IInv
<1>2. \A d \in Clients \ {c} : conn'[d] = conn[d]
  BY <1>1, ThreadFrame
<1>3. fanout' = fanout /\ overlapped \subseteq overlapped'
  BY <1>1, OtherTypes
<1>4. Running(c) => conn'[c].pc = "idle" \/ conn'[c].id = conn[c].id
  <2>1. CASE Accept(c)
    BY <2>1 DEF Accept, Running
  <2>2. CASE Handle(c)
    BY <1>1, <2>2, ThreadFits DEF Threads
  <2> QED BY <2>1, <2>2
<1>5. Watched'
  <2> SUFFICES ASSUME fanout' # 0, NEW d \in Clients, Running(d)'
               PROVE  conn'[d].id \in overlapped'
    BY DEF Watched, Ids, RunningSet
  <2>1. \A e \in Clients : Running(e) => conn[e].id \in overlapped
    BY <1>1, <1>3 DEF Watched, Ids, RunningSet
  <2>2. CASE d # c
    BY <1>2, <1>3, <2>1, <2>2 DEF Running
  <2>3. CASE d = c /\ Running(c)
    BY <1>3, <1>4, <2>1, <2>3 DEF Running
  <2>4. CASE d = c /\ Enter(c)
    BY <1>1, <1>3, <2>4 DEF Enter, Goto, Thread
  <2> QED BY <1>1, <2>2, <2>3, <2>4, CancelEffects
<1>6. FlagsAreFresh'
  <2> SUFFICES ASSUME NEW d \in Clients, Cancellable(d)', cancelFlag'[AgentOf(d)]
               PROVE  conn'[d].id \in overlapped'
    BY DEF FlagsAreFresh, AgentOf
  <2>1. cancelFlag[AgentOf(d)]
    BY <1>1, CancelEffects, Constants
  <2>2. CASE d # c
    BY <1>1, <1>2, <1>3, <2>1, <2>2 DEF FlagsAreFresh, Cancellable
  <2>3. CASE d = c
    <3>1. Cancellable(c)
      BY <1>1, <2>3, CancelEffects
    <3>2. conn'[c].id = conn[c].id
      BY <1>4, <2>3, <3>1 DEF Cancellable, Running
    <3> QED BY <1>1, <1>3, <2>1, <2>3, <3>1, <3>2 DEF FlagsAreFresh
  <2> QED BY <2>2, <2>3
<1>7. StaleCancelIsDropped'
  <2>1. CASE cancelled' = cancelled
    BY <1>1, <1>3, <2>1 DEF StaleCancelIsDropped
  <2>2. CASE cancelled' # cancelled
    <3>1. conn[c].id \in overlapped /\ cancelled' = cancelled \cup {conn[c].id}
      BY <1>1, <2>2, CancelEffects DEF FlagsAreFresh
    <3> QED BY <1>1, <1>3, <3>1 DEF StaleCancelIsDropped
  <2> QED BY <2>1, <2>2
<1> QED BY <1>5, <1>6, <1>7

\* The steps of a DELETE and of a stop leave the threads alone.
Outside == (\E s \in Sessions : Delete(s)) \/ FanOut \/ RequestStop \/ Settle

LEMMA OutsideStep ==
  ASSUME IInv, Outside
  PROVE  IInv'
<1>1. /\ TypeOK /\ Threads /\ Buffers /\ Watched /\ FlagsAreFresh /\ StaleCancelIsDropped
      /\ conn \in [Clients -> Thread] /\ turns \in 0 .. MaxTurns /\ fanout \in 0 .. Agents
      /\ cancelFlag \in [1 .. Agents -> BOOLEAN]
  BY Types DEF IInv
<1>2. /\ UNCHANGED <<conn, turns, inFlight, lastOutput, freed, history, cancelled>>
      /\ overlapped \subseteq overlapped'
  BY DEF Outside, Delete, FanOut, RequestStop, Settle, runnerVars, cancelVars
<1>3. Threads' /\ Buffers' /\ StaleCancelIsDropped'
  BY <1>1, <1>2 DEF Threads, Buffers, StaleCancelIsDropped
<1>4. \A cs \in SUBSET Clients :
        (\A c \in cs : conn[c].pc # "idle") => Ids(cs) \subseteq 1 .. turns
  BY <1>1 DEF Ids, Threads, Fits
<1>5. CASE \E s \in Sessions : Delete(s)
  <2> PICK s \in Sessions : Delete(s)
    BY <1>5
  <2>1. /\ fanout' = 1 /\ cancelFlag' = cancelFlag /\ stage' = stage /\ struck' = struck
        /\ cancels' \in 0 .. MaxCancels
        /\ asked' = asked \cup Ids({c \in Clients : Running(c) /\ SessionOf[c] = s})
        /\ overlapped' = overlapped \cup Ids(RunningSet)
    BY <1>1, Constants DEF Delete, runnerVars, TypeOK, RunningSet
  <2>2. /\ Ids({c \in Clients : Running(c) /\ SessionOf[c] = s}) \subseteq 1 .. turns
        /\ Ids(RunningSet) \subseteq 1 .. turns
    BY <1>4 DEF RunningSet, Running
  <2>3. TypeOK'
    <3>1. asked' \cup overlapped' \cup struck' \cup cancelled' \subseteq 1 .. turns'
      BY <1>1, <1>2, <2>1, <2>2 DEF TypeOK
    <3>2. fanout' \in 0 .. Agents
      BY <2>1, Constants
    <3> QED BY <1>1, <1>2, <2>1, <3>1, <3>2 DEF TypeOK, Running
  <2>4. Watched'
    BY <1>2, <2>1 DEF Watched, Ids, RunningSet, Running
  <2>5. FlagsAreFresh'
    BY <1>1, <1>2, <2>1 DEF FlagsAreFresh, Cancellable
  <2> QED BY <1>3, <2>3, <2>4, <2>5 DEF IInv
<1>6. CASE FanOut
  <2>1. /\ fanout \in 1 .. Agents /\ fanout' \in 0 .. Agents
        /\ cancelFlag' = [cancelFlag EXCEPT ![fanout] = TRUE]
        /\ UNCHANGED <<stage, cancels, asked, overlapped>>
        /\ struck' = struck \cup Ids({c \in Clients : Cancellable(c) /\ AgentOf(c) = fanout})
    BY <1>1, <1>6, Constants DEF FanOut
  <2>2. Ids({c \in Clients : Cancellable(c) /\ AgentOf(c) = fanout}) \subseteq 1 .. turns
    BY <1>4 DEF Cancellable
  <2>3. \A c \in Clients : Running(c) => conn[c].id \in overlapped
    BY <1>1, <2>1 DEF Watched, Ids, RunningSet
  <2>4. TypeOK'
    <3>1. asked' \cup overlapped' \cup struck' \cup cancelled' \subseteq 1 .. turns'
      BY <1>1, <1>2, <2>1, <2>2 DEF TypeOK
    <3> QED BY <1>1, <1>2, <2>1, <3>1 DEF TypeOK, Running
  <2>5. Watched'
    BY <1>2, <2>1, <2>3 DEF Watched, Ids, RunningSet, Running
  <2>6. FlagsAreFresh'
    BY <1>2, <2>1, <2>3 DEF FlagsAreFresh, Cancellable, Running
  <2> QED BY <1>3, <2>4, <2>5, <2>6 DEF IInv
<1>7. CASE RequestStop \/ Settle
  <2>1. /\ UNCHANGED <<cancelFlag, cancelVars>> /\ stage' \in {"stopping", "settled"}
    BY <1>7 DEF RequestStop, Settle, runnerVars
  <2>2. TypeOK'
    BY <1>1, <1>2, <2>1 DEF TypeOK, cancelVars, Running
  <2>3. Watched' /\ FlagsAreFresh'
    BY <1>1, <1>2, <2>1 DEF Watched, Ids, RunningSet, Running, FlagsAreFresh, Cancellable,
                            cancelVars
  <2> QED BY <1>3, <2>2, <2>3 DEF IInv
<1> QED BY <1>5, <1>6, <1>7 DEF Outside

LEMMA NextHolds == IInv /\ [Next]_vars => IInv'
<1> SUFFICES ASSUME IInv, [Next]_vars PROVE IInv'
  OBVIOUS
<1>1. CASE \E c \in Clients : Accept(c) \/ Handle(c)
  <2> PICK c \in Clients : Accept(c) \/ Handle(c)
    BY <1>1
  <2>1. TypeOK' /\ Threads' /\ Buffers'
    BY ClientTypes DEF IInv
  <2>2. Watched' /\ FlagsAreFresh' /\ StaleCancelIsDropped'
    BY ClientCancels
  <2> QED BY <2>1, <2>2 DEF IInv
<1>2. CASE Outside
  BY <1>2, OutsideStep
<1>3. CASE UNCHANGED vars
  BY <1>3 DEF vars, runnerVars, cancelVars, IInv, TypeOK, Threads, Fits, Buffers, Watched,
              FlagsAreFresh, StaleCancelIsDropped, Ids, RunningSet, Running, Cancellable
<1> QED BY <1>1, <1>2, <1>3 DEF Next, Outside

LEMMA Inductive == Spec => []IInv
BY InitHolds, NextHolds, PTL DEF Spec

(* Turns are counted as they begin and end, on every path (agent_registry.zig, *)
(* registryRun), and every field of a turn keeps its range.                    *)
THEOREM TypeCorrect == Spec => []TypeOK
<1>1. IInv => TypeOK
  BY DEF IInv
<1> QED BY <1>1, Inductive, PTL

(* A cancel never reaches a turn that was not in flight while a DELETE was:    *)
(* liveRun clears the flag that an earlier one left, even where turns of one   *)
(* agent overlap.                                                              *)
THEOREM StaleCancels == Spec => []StaleCancelIsDropped
<1>1. IInv => StaleCancelIsDropped
  BY DEF IInv
<1> QED BY <1>1, Inductive, PTL

-----------------------------------------------------------------------------
(* Where every client has an agent to itself, turns of an agent do not      *)
(* overlap, and what a runner keeps belongs to the turn that uses it.       *)

OneClientEach == \A c, d \in Clients : AgentOf(c) = AgentOf(d) => c = d

\* Before its output is stored.
Working(c) == conn[c].pc \notin {"idle", "stored", "rendering"}

Text(t) == IF t.text THEN t.id ELSE 0

\* No two connections work for the same turn.
OwnTurns ==
  \A c, d \in Clients :
    c # d /\ conn[c].pc # "idle" /\ conn[d].pc # "idle" => conn[c].id # conn[d].id

\* A turn that was struck finds its flag set, and one that has not cleared
\* the flag was not struck.
StruckIsFlagged ==
  \A c \in Clients :
    /\ Cancellable(c) /\ conn[c].id \in struck => cancelFlag[AgentOf(c)]
    /\ conn[c].pc \in {"accepted", "entered"} => conn[c].id \notin struck

\* What a runner holds is not freed, nor held by another, nor of another's
\* client, nor of a turn that has yet to store it ...
BuffersAreOwn ==
  \A a \in 1 .. Agents :
    /\ lastOutput[a] \notin freed
    /\ \A b \in 1 .. Agents \ {a} : lastOutput[b] = lastOutput[a] => lastOutput[a] = 0
    /\ \A c \in Clients : conn[c].pc # "idle" /\ (a # AgentOf(c) \/ Working(c))
                            => lastOutput[a] # conn[c].id

\* ... and a turn's text is where the turn expects it.
TextsAreHeld ==
  \A c \in Clients :
    /\ Working(c) \/ conn[c].pc = "stored" => conn[c].id \notin freed
    /\ conn[c].pc = "stored" => lastOutput[AgentOf(c)] = Text(conn[c])
    /\ conn[c].pc = "rendering" =>
         conn[c].output = Text(conn[c]) /\ conn[c].output \notin freed

AloneInv == OwnTurns /\ StruckIsFlagged /\ BuffersAreOwn /\ TextsAreHeld

LEMMA AloneInit == Init => AloneInv
BY DEF Init, Idle, AloneInv, OwnTurns, StruckIsFlagged, BuffersAreOwn, TextsAreHeld, Cancellable,
       Working

\* Ids are given out once.
LEMMA OwnTurnsStep ==
  ASSUME IInv, OwnTurns, NEW c \in Clients, Accept(c) \/ Handle(c)
  PROVE  OwnTurns'
<1>1. /\ conn \in [Clients -> Thread] /\ turns \in 0 .. MaxTurns /\ turns \in Int
      /\ \A d \in Clients : conn[d].pc # "idle" => conn[d].id \in 1 .. turns
  BY Types DEF IInv, Threads, Fits
<1>2. \A d \in Clients \ {c} : conn'[d] = conn[d]
  BY <1>1, ThreadFrame
<1>3. CASE Accept(c)
  <2>1. conn'[c].id = turns + 1
    BY <1>1, <1>3 DEF Accept, Idle, Thread
  <2>2. \A d \in Clients \ {c} : conn[d].pc # "idle" => conn[d].id # turns + 1
    BY <1>1
  <2> QED BY <1>2, <2>1, <2>2 DEF OwnTurns
<1>4. CASE Handle(c)
  <2>1. conn[c].pc # "idle"
    BY <1>4 DEF Handle, Enter, ClearFlag, RotateOutput, Prompt, AnswerTools, AnswerText, SkipTool,
                StartTool, MoreCalls, FinishTool, NextRound, StoreOutput, Return, Render, Fail
  <2>2. conn'[c].pc # "idle" => conn'[c].id = conn[c].id
    BY <1>1, <1>4, ThreadFits DEF IInv, Threads
  <2> QED BY <1>2, <2>1, <2>2 DEF OwnTurns
<1> QED BY <1>3, <1>4

\* What a step of c does to the thread of c, to the flag and to who is struck.
LEMMA StruckEffects ==
  ASSUME IInv, NEW c \in Clients, Accept(c) \/ Handle(c)
  PROVE  /\ struck' \subseteq struck
         /\ \A a \in 1 .. Agents : a # AgentOf(c) => cancelFlag'[a] = cancelFlag[a]
         /\ Accept(c) => conn'[c].id \notin struck
         /\ conn'[c].pc = "accepted" => Accept(c)
         /\ conn'[c].pc = "entered" => conn[c].pc = "accepted"
         /\ Cancellable(c)' => \/ conn[c].pc = "entered"
                               \/ NextRound(c) /\ conn[c].id \notin struck'
                               \/ Cancellable(c) /\ cancelFlag' = cancelFlag
<1>1. /\ TypeOK /\ conn \in [Clients -> Thread] /\ turns \in 0 .. MaxTurns /\ turns \in Int
      /\ cancelFlag \in [1 .. Agents -> BOOLEAN]
      /\ struck \subseteq 1 .. turns
  BY Types DEF IInv, TypeOK
<1> USE Constants, <1>1 DEF Cancellable, Thread
<1>2. CASE Accept(c)
  <2>1. conn'[c].pc = "accepted" /\ conn'[c].id = turns + 1
        /\ UNCHANGED <<runnerVars, cancelVars>>
    BY <1>2 DEF Accept, Idle
  <2> QED BY <1>2, <2>1 DEF runnerVars, cancelVars
<1>3. CASE Enter(c)
  BY <1>3 DEF Enter, Accept, Goto, runnerVars
<1>4. CASE ClearFlag(c)
  BY <1>4 DEF ClearFlag, Accept, Goto, cancelVars
<1>5. CASE RotateOutput(c)
  BY <1>5 DEF RotateOutput, Accept, Goto, cancelVars
<1>6. CASE Prompt(c)
  BY <1>6 DEF Prompt, Accept, Goto, cancelVars
<1>7. CASE AnswerTools(c)
  BY <1>7 DEF AnswerTools, Accept, cancelVars
<1>8. CASE AnswerText(c)
  BY <1>8 DEF AnswerText, Accept
<1>9. CASE SkipTool(c)
  BY <1>9 DEF SkipTool, Accept, MoreCalls
<1>10. CASE StartTool(c)
  BY <1>10 DEF StartTool, Accept, MoreCalls, Goto, runnerVars, cancelVars
<1>11. CASE FinishTool(c)
  BY <1>11 DEF FinishTool, Accept
<1>12. CASE NextRound(c)
  <2>1. /\ conn[c].pc = "tool" /\ conn'[c].pc = "chat" /\ struck' = struck \ {conn[c].id}
        /\ cancelFlag' = [cancelFlag EXCEPT ![AgentOf(c)] = @ /\ ~conn[c].hit]
    BY <1>12 DEF NextRound
  <2> QED BY <1>12, <2>1 DEF Accept
<1>13. CASE StoreOutput(c)
  BY <1>13 DEF StoreOutput, Accept, Goto, cancelVars
<1>14. CASE Return(c)
  BY <1>14 DEF Return, Accept, runnerVars, cancelVars
<1>15. CASE Render(c) \/ Fail(c)
  <2>1. conn'[c] = Idle /\ UNCHANGED <<runnerVars, cancelVars>> /\ conn[c].pc # "idle"
    BY <1>15 DEF Fail, Render
  <2> QED BY <2>1 DEF Idle, Accept, runnerVars, cancelVars
<1> QED BY <1>2, <1>3, <1>4, <1>5, <1>6, <1>7, <1>8, <1>9, <1>10, <1>11, <1>12, <1>13,
           <1>14, <1>15 DEF Handle

LEMMA StruckStep ==
  ASSUME IInv, OwnTurns, StruckIsFlagged, OneClientEach, NEW c \in Clients, Accept(c) \/ Handle(c)
  PROVE  StruckIsFlagged'
<1>1. /\ conn \in [Clients -> Thread] /\ turns \in 0 .. MaxTurns
      /\ \A d \in Clients : Fits(conn[d], turns)
  BY Types DEF IInv, Threads
<1>2. \A d \in Clients \ {c} : conn'[d] = conn[d]
  BY <1>1, ThreadFrame
<1>3. conn'[c].pc = "idle" \/ Accept(c) \/ conn'[c].id = conn[c].id
  BY <1>1, ThreadFits
<1> SUFFICES ASSUME NEW d \in Clients
             PROVE  /\ Cancellable(d)' /\ conn'[d].id \in struck' => cancelFlag'[AgentOf(d)]
                    /\ conn'[d].pc \in {"accepted", "entered"} => conn'[d].id \notin struck'
  BY DEF StruckIsFlagged, AgentOf
<1>4. CASE d # c
  <2>1. AgentOf(d) # AgentOf(c)
    BY <1>4 DEF OneClientEach
  <2>2. cancelFlag'[AgentOf(d)] = cancelFlag[AgentOf(d)] /\ struck' \subseteq struck
    BY <2>1, StruckEffects, Constants
  <2> QED BY <1>2, <1>4, <2>2 DEF StruckIsFlagged, Cancellable
<1>5. CASE d = c
  <2>1. ASSUME Cancellable(c)', conn'[c].id \in struck' PROVE cancelFlag'[AgentOf(c)]
    <3>1. ~Accept(c) /\ conn'[c].id = conn[c].id
      BY <1>3, <2>1, StruckEffects DEF Cancellable
    <3>2. Cancellable(c) /\ cancelFlag' = cancelFlag /\ conn[c].id \in struck
      BY <2>1, <3>1, StruckEffects DEF StruckIsFlagged
    <3> QED BY <3>2 DEF StruckIsFlagged
  <2>2. conn'[c].pc \in {"accepted", "entered"} => conn'[c].id \notin struck'
    BY <1>3, StruckEffects DEF StruckIsFlagged
  <2> QED BY <1>5, <2>1, <2>2
<1> QED BY <1>4, <1>5

\* The steps of a turn that use no buffer keep it where it is in its life.
LEMMA BufferEffects ==
  ASSUME IInv, NEW c \in Clients, Handle(c), ~RotateOutput(c), ~StoreOutput(c), ~Return(c)
  PROVE  /\ lastOutput' = lastOutput /\ freed' = freed
         /\ conn'[c].pc = "idle" \/ (Working(c) /\ Working(c)' /\ conn'[c].id = conn[c].id)
<1>1. /\ conn \in [Clients -> Thread] /\ turns \in 0 .. MaxTurns /\ Fits(conn[c], turns)
  BY Types DEF IInv, Threads
<1>2. conn'[c].pc # "idle" => conn'[c].id = conn[c].id
  BY <1>1, ThreadFits
<1> USE <1>1, <1>2 DEF Working, Thread
<1>3. CASE Enter(c)
  BY <1>3 DEF Enter, Goto, runnerVars
<1>4. CASE ClearFlag(c)
  BY <1>4 DEF ClearFlag, Goto
<1>5. CASE Prompt(c)
  BY <1>5 DEF Prompt, Goto
<1>6. CASE AnswerTools(c)
  BY <1>6 DEF AnswerTools
<1>7. CASE AnswerText(c)
  BY <1>7 DEF AnswerText
<1>8. CASE SkipTool(c)
  BY <1>8 DEF SkipTool, MoreCalls
<1>9. CASE StartTool(c)
  BY <1>9 DEF StartTool, MoreCalls, Goto, runnerVars
<1>10. CASE FinishTool(c)
  BY <1>10 DEF FinishTool
<1>11. CASE NextRound(c)
  BY <1>11 DEF NextRound
<1>12. CASE Render(c) \/ Fail(c)
  <2>1. conn'[c] = Idle /\ UNCHANGED runnerVars
    BY <1>12 DEF Fail, Render
  <2> QED BY <2>1 DEF Idle, runnerVars
<1> QED BY <1>3, <1>4, <1>5, <1>6, <1>7, <1>8, <1>9, <1>10, <1>11, <1>12 DEF Handle

LEMMA BufferStep ==
  ASSUME IInv, OwnTurns, BuffersAreOwn, TextsAreHeld, OneClientEach,
         NEW c \in Clients, Accept(c) \/ Handle(c)
  PROVE  BuffersAreOwn' /\ TextsAreHeld'
<1> DEFINE A == AgentOf(c)
<1>1. /\ conn \in [Clients -> Thread] /\ turns \in 0 .. MaxTurns /\ turns \in Int
      /\ \A d \in Clients : Fits(conn[d], turns)
      /\ freed \subseteq 1 .. turns /\ 0 \notin freed
      /\ lastOutput \in [1 .. Agents -> 0 .. MaxTurns]
      /\ \A a \in 1 .. Agents : lastOutput[a] \in 0 .. turns
      /\ A \in 1 .. Agents
  BY Types, Constants DEF IInv, Threads, Buffers
<1>2. \A d \in Clients \ {c} : conn'[d] = conn[d] /\ AgentOf(d) # A
  BY <1>1, ThreadFrame DEF OneClientEach
<1>3. \A d \in Clients : AgentOf(d)' = AgentOf(d) /\ AgentOf(d) \in 1 .. Agents
  BY Constants DEF AgentOf
<1>4. \A d \in Clients : conn[d].pc # "idle" => conn[d].id \in 1 .. turns
  BY <1>1 DEF Fits
<1>5. CASE Accept(c)
  <2>1. /\ conn'[c].id = turns + 1 /\ conn'[c].pc = "accepted"
        /\ lastOutput' = lastOutput /\ freed' = freed
    BY <1>1, <1>5 DEF Accept, Idle, runnerVars
  <2>2. turns + 1 \notin freed /\ \A a \in 1 .. Agents : lastOutput[a] # turns + 1
    BY <1>1
  <2>3. BuffersAreOwn'
    BY <1>2, <1>3, <2>1, <2>2 DEF BuffersAreOwn, Working
  <2>4. TextsAreHeld'
    BY <1>2, <1>3, <2>1, <2>2 DEF TextsAreHeld, Working, Text
  <2> QED BY <2>3, <2>4
<1>6. CASE RotateOutput(c)
  <2>1. /\ conn[c].pc = "cleared" /\ conn'[c].pc = "rotated" /\ conn'[c].id = conn[c].id
        /\ freed' = freed \cup ({lastOutput[A]} \ {0})
        /\ lastOutput' = [lastOutput EXCEPT ![A] = 0]
    BY <1>1, <1>6 DEF RotateOutput, Goto, Thread
  <2>2. lastOutput'[A] = 0 /\ \A a \in 1 .. Agents \ {A} : lastOutput'[a] = lastOutput[a]
    BY <1>1, <2>1
  <2>3. 0 \notin freed'
    BY <1>1, <2>1
  <2>4. \A a \in 1 .. Agents \ {A} : lastOutput[a] \notin freed'
    BY <1>1, <2>1 DEF BuffersAreOwn
  <2>5. conn[c].id \notin freed'
    BY <1>1, <2>1 DEF BuffersAreOwn, TextsAreHeld, Working
  <2>6. \A d \in Clients \ {c} :
          conn[d].pc # "idle" /\ conn[d].id \notin freed => conn[d].id \notin freed'
    BY <1>1, <1>2, <2>1 DEF BuffersAreOwn
  <2>7. BuffersAreOwn'
    <3> SUFFICES ASSUME NEW a \in 1 .. Agents
                 PROVE  /\ lastOutput'[a] \notin freed'
                        /\ \A b \in 1 .. Agents \ {a} :
                             lastOutput'[b] = lastOutput'[a] => lastOutput'[a] = 0
                        /\ \A d \in Clients :
                             conn'[d].pc # "idle" /\ (a # AgentOf(d) \/ Working(d)')
                               => lastOutput'[a] # conn'[d].id
      BY <1>3 DEF BuffersAreOwn
    <3>1. lastOutput'[a] \notin freed'
      BY <2>2, <2>3, <2>4
    <3>2. \A b \in 1 .. Agents \ {a} : lastOutput'[b] = lastOutput'[a] => lastOutput'[a] = 0
      BY <2>2 DEF BuffersAreOwn
    <3>3. ASSUME NEW d \in Clients, conn'[d].pc # "idle", a # AgentOf(d) \/ Working(d)'
          PROVE  lastOutput'[a] # conn'[d].id
      <4>1. conn[d].pc # "idle" /\ conn'[d].id = conn[d].id /\ (Working(d)' => Working(d))
        BY <1>2, <2>1, <3>3 DEF Working
      <4>2. conn[d].id # 0
        BY <1>4, <4>1
      <4> QED BY <2>2, <3>3, <4>1, <4>2 DEF BuffersAreOwn
    <3> QED BY <3>1, <3>2, <3>3
  <2>8. TextsAreHeld'
    <3> SUFFICES ASSUME NEW d \in Clients
                 PROVE  /\ Working(d)' \/ conn'[d].pc = "stored" => conn'[d].id \notin freed'
                        /\ conn'[d].pc = "stored" => lastOutput'[AgentOf(d)] = Text(conn'[d])
                        /\ conn'[d].pc = "rendering" =>
                             conn'[d].output = Text(conn'[d]) /\ conn'[d].output \notin freed'
      BY <1>3 DEF TextsAreHeld
    <3>1. CASE d = c
      BY <2>1, <2>5, <3>1 DEF Working
    <3>2. CASE d # c
      <4>1. conn'[d] = conn[d] /\ lastOutput'[AgentOf(d)] = lastOutput[AgentOf(d)]
        BY <1>2, <1>3, <2>2, <3>2
      <4>2. conn[d].pc = "rendering" => conn[d].output \notin freed'
        BY <1>1, <2>3, <2>6, <3>2 DEF TextsAreHeld, Text
      <4> QED BY <2>6, <3>2, <4>1, <4>2 DEF TextsAreHeld, Working
    <3> QED BY <3>1, <3>2
  <2> QED BY <2>7, <2>8
<1>7. CASE StoreOutput(c)
  <2>1. /\ conn[c].pc = "done" /\ conn'[c].pc = "stored" /\ conn'[c].id = conn[c].id
        /\ Text(conn'[c]) = Text(conn[c])
        /\ freed' = freed
        /\ lastOutput' = [lastOutput EXCEPT ![A] = Text(conn[c])]
    BY <1>1, <1>7 DEF StoreOutput, Goto, Thread, Text
  <2>2. /\ lastOutput'[A] = Text(conn[c])
        /\ \A a \in 1 .. Agents \ {A} : lastOutput'[a] = lastOutput[a]
    BY <1>1, <2>1
  <2>3. /\ Working(c) /\ conn[c].id \notin freed /\ Text(conn[c]) \in {0, conn[c].id}
        /\ Text(conn[c]) \notin freed
        /\ \A a \in 1 .. Agents : lastOutput[a] # conn[c].id
    BY <1>1, <2>1 DEF BuffersAreOwn, TextsAreHeld, Working, Text
  <2>4. \A d \in Clients \ {c} :
          conn[d].pc # "idle" => conn[d].id # 0 /\ conn[d].id # conn[c].id
    BY <1>4, <2>1 DEF OwnTurns
  <2>5. BuffersAreOwn'
    <3> SUFFICES ASSUME NEW a \in 1 .. Agents
                 PROVE  /\ lastOutput'[a] \notin freed'
                        /\ \A b \in 1 .. Agents \ {a} :
                             lastOutput'[b] = lastOutput'[a] => lastOutput'[a] = 0
                        /\ \A d \in Clients :
                             conn'[d].pc # "idle" /\ (a # AgentOf(d) \/ Working(d)')
                               => lastOutput'[a] # conn'[d].id
      BY <1>3 DEF BuffersAreOwn
    <3>1. lastOutput'[a] \notin freed'
      BY <2>1, <2>2, <2>3 DEF BuffersAreOwn
    <3>2. \A b \in 1 .. Agents \ {a} : lastOutput'[b] = lastOutput'[a] => lastOutput'[a] = 0
      BY <2>2, <2>3 DEF BuffersAreOwn
    <3>3. ASSUME NEW d \in Clients, conn'[d].pc # "idle", a # AgentOf(d) \/ Working(d)'
          PROVE  lastOutput'[a] # conn'[d].id
      <4>1. CASE d = c
        BY <2>1, <2>2, <2>3, <3>3, <4>1 DEF Working
      <4>2. CASE d # c /\ a = A
        BY <1>2, <2>2, <2>3, <2>4, <3>3, <4>2
      <4>3. CASE d # c /\ a # A
        BY <1>2, <2>2, <3>3, <4>3 DEF BuffersAreOwn, Working
      <4> QED BY <4>1, <4>2, <4>3
    <3> QED BY <3>1, <3>2, <3>3
  <2>6. TextsAreHeld'
    BY <1>2, <1>3, <2>1, <2>2, <2>3 DEF TextsAreHeld, Working
  <2> QED BY <2>5, <2>6
<1>8. CASE Return(c)
  <2>1. /\ conn[c].pc = "stored" /\ conn'[c].pc = "rendering" /\ conn'[c].id = conn[c].id
        /\ Text(conn'[c]) = Text(conn[c]) /\ conn'[c].output = lastOutput[A]
        /\ freed' = freed /\ lastOutput' = lastOutput
    BY <1>1, <1>8 DEF Return, Thread, Text, runnerVars
  <2>2. BuffersAreOwn'
    BY <1>2, <1>3, <2>1 DEF BuffersAreOwn, Working
  <2>3. TextsAreHeld'
    BY <1>1, <1>2, <1>3, <2>1 DEF TextsAreHeld, BuffersAreOwn, Working
  <2> QED BY <2>2, <2>3
<1>9. CASE Handle(c) /\ ~RotateOutput(c) /\ ~StoreOutput(c) /\ ~Return(c)
  <2>1. /\ lastOutput' = lastOutput /\ freed' = freed
        /\ conn'[c].pc = "idle" \/ (Working(c) /\ Working(c)' /\ conn'[c].id = conn[c].id)
    BY <1>9, BufferEffects
  <2>2. BuffersAreOwn'
    BY <1>2, <1>3, <2>1 DEF BuffersAreOwn, Working
  <2>3. TextsAreHeld'
    BY <1>2, <1>3, <2>1 DEF TextsAreHeld, Working
  <2> QED BY <2>2, <2>3
<1> QED BY <1>5, <1>6, <1>7, <1>8, <1>9

LEMMA AloneOutside ==
  ASSUME IInv, AloneInv, OneClientEach, Outside
  PROVE  AloneInv'
<1>1. UNCHANGED <<conn, lastOutput, freed>>
  BY DEF Outside, Delete, FanOut, RequestStop, Settle, runnerVars, cancelVars
<1>2. OwnTurns' /\ BuffersAreOwn' /\ TextsAreHeld'
  BY <1>1 DEF AloneInv, OwnTurns, BuffersAreOwn, TextsAreHeld, Working
<1>3. CASE FanOut
  <2>1. /\ cancelFlag' = [cancelFlag EXCEPT ![fanout] = TRUE]
        /\ struck' = struck \cup Ids({c \in Clients : Cancellable(c) /\ AgentOf(c) = fanout})
        /\ cancelFlag \in [1 .. Agents -> BOOLEAN]
    BY <1>3, Types DEF FanOut, IInv
  <2>2. \A c \in Clients : conn[c].pc # "idle" /\ conn[c].id \in struck' =>
          conn[c].id \in struck \/ (Cancellable(c) /\ AgentOf(c) = fanout)
    BY <2>1 DEF Ids, AloneInv, OwnTurns, Cancellable
  <2>3. \A a \in 1 .. Agents : (cancelFlag[a] => cancelFlag'[a]) /\ (a = fanout => cancelFlag'[a])
    BY <2>1
  <2>4. StruckIsFlagged'
    BY <1>1, <2>2, <2>3, Constants DEF AloneInv, StruckIsFlagged, Cancellable
  <2> QED BY <1>2, <2>4 DEF AloneInv
<1>4. CASE ~FanOut
  <2>1. UNCHANGED <<cancelFlag, struck>>
    BY <1>4 DEF Outside, Delete, RequestStop, Settle, runnerVars, cancelVars
  <2>2. StruckIsFlagged'
    BY <1>1, <2>1 DEF AloneInv, StruckIsFlagged, Cancellable
  <2> QED BY <1>2, <2>2 DEF AloneInv
<1> QED BY <1>3, <1>4

LEMMA AloneNext ==
  ASSUME OneClientEach
  PROVE  IInv /\ AloneInv /\ [Next]_vars => AloneInv'
<1> SUFFICES ASSUME IInv, AloneInv, [Next]_vars PROVE AloneInv'
  OBVIOUS
<1>1. CASE \E c \in Clients : Accept(c) \/ Handle(c)
  BY <1>1, OwnTurnsStep, StruckStep, BufferStep DEF AloneInv
<1>2. CASE Outside
  BY <1>2, AloneOutside
<1>3. CASE UNCHANGED vars
  BY <1>3 DEF vars, runnerVars, cancelVars, AloneInv, OwnTurns, StruckIsFlagged, BuffersAreOwn,
              TextsAreHeld, Working, Cancellable
<1> QED BY <1>1, <1>2, <1>3 DEF Next, Outside

LEMMA AloneInductive ==
  ASSUME OneClientEach
  PROVE  Spec => [](IInv /\ AloneInv)
<1>1. Init => IInv /\ AloneInv
  BY InitHolds, AloneInit
<1>2. IInv /\ AloneInv /\ [Next]_vars => (IInv /\ AloneInv)'
  BY NextHolds, AloneNext
<1> QED BY <1>1, <1>2, PTL DEF Spec

(* The slice of last_output that liveRun returns is the text of its own turn   *)
(* and still there while the handler writes it to the wire (live_runner.zig,   *)
(* lines 572-574), where no two clients talk to one agent.                     *)
THEOREM OutputsAreHeld ==
  ASSUME OneClientEach
  PROVE  Spec => []HandlersHoldTheirOutput
<1>1. IInv /\ AloneInv => HandlersHoldTheirOutput
  <2> SUFFICES ASSUME IInv, AloneInv PROVE HandlersHoldTheirOutput
    OBVIOUS
  <2>1. \A c \in Clients : conn[c].pc = "rendering" =>
          /\ conn[c].output = IF conn[c].text THEN conn[c].id ELSE 0
          /\ conn[c].output \notin freed
    BY DEF AloneInv, TextsAreHeld, Text
  <2>2. \A a \in 1 .. Agents : lastOutput[a] \notin freed
    BY DEF AloneInv, BuffersAreOwn
  <2> QED BY <2>1, <2>2 DEF HandlersHoldTheirOutput
<1> QED BY <1>1, AloneInductive, PTL

(* "A tool that already started runs to completion, but the next never starts" *)
(* (live_runner.zig, lines 130-132), where no two clients talk to one agent:   *)
(* dispatchTool reads the flag last before it starts a tool, and a flag set in *)
(* the present round is still set then.                                        *)
THEOREM CancelStopsTools ==
  ASSUME OneClientEach
  PROVE  Spec => NoToolAfterCancel
<1>1. IInv /\ AloneInv /\ [Next]_vars =>
        [\A c \in Clients : conn[c].pc = "tool" /\ conn'[c].pc = "running"
           => conn[c].id \notin struck]_vars
  <2> SUFFICES ASSUME IInv, AloneInv, Next, NEW d \in Clients,
                      conn[d].pc = "tool", conn'[d].pc = "running"
               PROVE  conn[d].id \notin struck
    OBVIOUS
  <2>1. conn \in [Clients -> Thread]
    BY Types DEF IInv
  <2>2. \A c \in Clients : Accept(c) \/ Handle(c) => c = d
    BY <2>1, ThreadFrame
  <2>3. ~Outside
    BY DEF Outside, Delete, FanOut, RequestStop, Settle
  <2>4. Accept(d) \/ Handle(d)
    BY <2>2, <2>3 DEF Next, Outside
  <2>5. StartTool(d)
    <3>1. ~Accept(d) /\ ~Render(d) /\ ~Fail(d)
      <4>1. conn'[d] # Idle
        BY DEF Idle
      <4> QED BY <2>1, <4>1 DEF Accept, Render, Fail
    <3>2. ~Enter(d) /\ ~ClearFlag(d) /\ ~RotateOutput(d) /\ ~Prompt(d) /\ ~StoreOutput(d)
      BY <2>1 DEF Enter, ClearFlag, RotateOutput, Prompt, StoreOutput
    <3>3. ~AnswerTools(d) /\ ~AnswerText(d) /\ ~FinishTool(d) /\ ~Return(d)
      BY <2>1 DEF AnswerTools, AnswerText, FinishTool, Return
    <3>4. ~SkipTool(d) /\ ~NextRound(d)
      BY <2>1 DEF SkipTool, NextRound, Thread
    <3> QED BY <2>4, <3>1, <3>2, <3>3, <3>4 DEF Handle
  <2> QED BY <2>5 DEF StartTool, AloneInv, StruckIsFlagged, Cancellable
<1> QED BY <1>1, AloneInductive, PTL DEF Spec, NoToolAfterCancel

-----------------------------------------------------------------------------
(* Tool uses and their results in the history of a session.                    *)

\* No two clients use one session.
OneSessionEach == \A c, d \in Clients : SessionOf[c] = SessionOf[d] => c = d

\* The context engine does not run out of memory in the middle of a round.
EngineTakesMessages == "out of memory" \notin Events

Result(e, k) == [e EXCEPT !.kind = "result", !.n = k]

\* The uses among the first messages have their results among them.
AnsweredTo(h, last) ==
  \A i \in 1 .. last : h[i].kind = "uses" =>
    \A k \in 1 .. h[i].n : i + k <= last /\ h[i + k] = Result(h[i], k)

\* The use e is behind u messages, and its first m - 1 results end the history.
Open(h, u, e, m) ==
  /\ Len(h) = u + m
  /\ AnsweredTo(h, u)
  /\ h[u + 1] = e
  /\ \A k \in 1 .. m - 1 : h[u + 1 + k] = Result(e, k)

Use(t) == [kind |-> "uses", turn |-> t.id, round |-> t.round, n |-> t.calls]

Paired(h, t) ==
  IF t.pc \in {"tool", "running"}
  THEN t.call \in 1 .. t.calls + 1 /\ \E u \in Nat : Open(h, u, Use(t), t.call)
  ELSE AnsweredTo(h, Len(h))

PairedInv == \A c \in Clients : Paired(history[SessionOf[c]], conn[c])

LEMMA ResultOfUse ==
  ASSUME NEW id, NEW round, NEW n, NEW k
  PROVE  Result([kind |-> "uses", turn |-> id, round |-> round, n |-> n], k) =
           [kind |-> "result", turn |-> id, round |-> round, n |-> k]
<1> DEFINE e == [[kind |-> "uses", turn |-> id, round |-> round, n |-> n]
                   EXCEPT !.kind = "result"]
<1>1. e = [kind |-> "result", turn |-> id, round |-> round, n |-> n]
  OBVIOUS
<1> HIDE DEF e
<1>2. [e EXCEPT !.n = k] = [kind |-> "result", turn |-> id, round |-> round, n |-> k]
  BY <1>1
<1> QED BY <1>2 DEF e, Result

LEMMA Fields ==
  /\ \A e \in Message : e.n \in Nat
  /\ \A t \in Thread : /\ t.calls \in Nat /\ t.calls \in 0 .. MaxCalls /\ t.call \in Nat
                      /\ t.round \in 0 .. MaxRounds /\ t.id \in Nat
  /\ 0 \in 0 .. MaxCalls /\ (1 .. MaxCalls) \subseteq 0 .. MaxCalls
<1>1. MaxTurns \in Nat /\ MaxRounds \in Nat /\ MaxCalls \in Nat
  BY Constants
<1>2. \A e \in Message : e.n \in 0 .. MaxCalls
  BY DEF Message
<1>3. \A t \in Thread : /\ t.calls \in 0 .. MaxCalls /\ t.call \in 0 .. MaxCalls + 1
                       /\ t.round \in 0 .. MaxRounds /\ t.id \in 0 .. MaxTurns
  BY DEF Thread
<1> QED BY <1>1, <1>2, <1>3

LEMMA Appending ==
  ASSUME NEW h \in Seq(Message), NEW e \in Message
  PROVE  /\ Len(h) \in Nat /\ Len(Append(h, e)) = Len(h) + 1
         /\ \A i \in 1 .. Len(h) : Append(h, e)[i] = h[i]
         /\ \A i \in 1 .. Len(h) : h[i] \in Message /\ h[i].n \in Nat
         /\ Append(h, e)[Len(h) + 1] = e
<1> QED BY Fields, AppendProperties, LenProperties, ElementOfSeq

LEMMA AnsweredIs ==
  ASSUME NEW h \in Seq(Message), AnsweredTo(h, Len(h))
  PROVE  Answered(h)
<1>1. DOMAIN h = 1 .. Len(h)
  BY LenProperties
<1> QED BY <1>1 DEF Answered, AnsweredTo, Result

\* What is answered stays so.
LEMMA AppendKeeps ==
  ASSUME NEW h \in Seq(Message), NEW e \in Message, NEW last \in 0 .. Len(h), AnsweredTo(h, last)
  PROVE  AnsweredTo(Append(h, e), last)
<1> DEFINE g == Append(h, e)
<1>1. /\ Len(h) \in Nat /\ \A i \in 1 .. Len(h) : g[i] = h[i] /\ h[i].n \in Nat
  BY Appending
<1> HIDE DEF g
<1>2. ASSUME NEW i \in 1 .. last, g[i].kind = "uses", NEW k \in 1 .. g[i].n
      PROVE  i + k <= last /\ g[i + k] = Result(g[i], k)
  <2>1. i \in 1 .. Len(h)
    BY <1>1
  <2>2. g[i] = h[i] /\ h[i].n \in Nat
    BY <1>1, <2>1
  <2>3. i + k <= last /\ h[i + k] = Result(h[i], k)
    BY <1>2, <2>2 DEF AnsweredTo
  <2>4. i + k \in 1 .. Len(h)
    BY <1>1, <1>2, <2>2, <2>3
  <2> QED BY <1>1, <2>2, <2>3, <2>4
<1>3. AnsweredTo(g, last)
  BY <1>2 DEF AnsweredTo
<1> QED BY <1>3 DEF g

\* Any message but a use is answered itself.
LEMMA AppendAnswered ==
  ASSUME NEW h \in Seq(Message), NEW e \in Message, e.kind # "uses", AnsweredTo(h, Len(h))
  PROVE  AnsweredTo(Append(h, e), Len(Append(h, e)))
<1> DEFINE g == Append(h, e)
<1>1. Len(h) \in Nat /\ Len(g) = Len(h) + 1 /\ g[Len(h) + 1] = e
      /\ \A i \in 1 .. Len(h) : g[i] = h[i] /\ h[i].n \in Nat
  BY Appending
<1>2. AnsweredTo(g, Len(h))
  BY <1>1, AppendKeeps
<1> HIDE DEF g
<1>3. ASSUME NEW i \in 1 .. Len(g), g[i].kind = "uses", NEW k \in 1 .. g[i].n
      PROVE  i + k <= Len(g) /\ g[i + k] = Result(g[i], k)
  <2>1. i # Len(h) + 1
    BY <1>1, <1>3
  <2>2. i \in 1 .. Len(h)
    BY <1>1, <2>1
  <2>3. i + k <= Len(h) /\ g[i + k] = Result(g[i], k) /\ k \in Nat
    BY <1>1, <1>2, <1>3, <2>2 DEF AnsweredTo
  <2> QED BY <1>1, <2>2, <2>3
<1>4. AnsweredTo(g, Len(g))
  BY <1>3 DEF AnsweredTo
<1> QED BY <1>4 DEF g

\* A tool use opens ...
LEMMA AppendUses ==
  ASSUME NEW h \in Seq(Message), AnsweredTo(h, Len(h)), NEW e \in Message
  PROVE  Len(h) \in Nat /\ Open(Append(h, e), Len(h), e, 1)
<1>1. /\ Len(h) \in Nat /\ Len(Append(h, e)) = Len(h) + 1 /\ Append(h, e)[Len(h) + 1] = e
  BY Appending
<1>2. AnsweredTo(Append(h, e), Len(h))
  BY <1>1, AppendKeeps
<1>3. \A k \in 1 .. 1 - 1 : FALSE
  OBVIOUS
<1> QED BY <1>1, <1>2, <1>3 DEF Open

\* ... each result continues it ...
LEMMA AppendResult ==
  ASSUME NEW h \in Seq(Message), NEW e \in Message, NEW u \in Nat, NEW m \in Nat \ {0},
         Open(h, u, e, m), Result(e, m) \in Message
  PROVE  Open(Append(h, Result(e, m)), u, e, m + 1)
<1> DEFINE g == Append(h, Result(e, m))
<1>1. /\ Len(h) \in Nat /\ Len(g) = Len(h) + 1 /\ g[Len(h) + 1] = Result(e, m)
      /\ \A i \in 1 .. Len(h) : g[i] = h[i]
  BY Appending
<1>2. /\ Len(h) = u + m /\ AnsweredTo(h, u) /\ h[u + 1] = e
      /\ \A k \in 1 .. m - 1 : h[u + 1 + k] = Result(e, k)
  BY DEF Open
<1>3. AnsweredTo(g, u)
  <2>1. u \in 0 .. Len(h)
    BY <1>2
  <2> QED BY <1>2, <2>1, AppendKeeps
<1> HIDE DEF g
<1>4. g[u + 1] = e
  BY <1>1, <1>2
<1>5. ASSUME NEW k \in 1 .. (m + 1) - 1
      PROVE  g[u + 1 + k] = Result(e, k)
  <2>1. CASE k = m
    <3>1. u + 1 + k = Len(h) + 1
      BY <1>2, <2>1
    <3> QED BY <1>1, <2>1, <3>1
  <2>2. CASE k # m
    <3>1. k \in 1 .. m - 1 /\ u + 1 + k \in 1 .. Len(h)
      BY <1>2, <2>2
    <3> QED BY <1>1, <1>2, <3>1
  <2> QED BY <2>1, <2>2
<1>6. Len(g) = u + (m + 1)
  BY <1>1, <1>2
<1>7. Open(g, u, e, m + 1)
  BY <1>3, <1>4, <1>5, <1>6 DEF Open
<1> QED BY <1>7 DEF g

\* ... and the last one answers it.
LEMMA AllResultsIn ==
  ASSUME NEW h \in Seq(Message), NEW e \in Message, NEW u \in Nat, Open(h, u, e, e.n + 1)
  PROVE  AnsweredTo(h, Len(h))
<1> DEFINE n == e.n
<1>1. n \in Nat /\ Len(h) \in Nat /\ \A i \in 1 .. Len(h) : h[i].n \in Nat
  BY Appending, Fields
<1>2. /\ Len(h) = u + (n + 1) /\ AnsweredTo(h, u) /\ h[u + 1] = e
      /\ \A k \in 1 .. (n + 1) - 1 : h[u + 1 + k] = Result(e, k)
  BY DEF Open
<1>n. e.n = n
  OBVIOUS
<1> HIDE DEF n
<1>3. ASSUME NEW i \in 1 .. Len(h), h[i].kind = "uses", NEW k \in 1 .. h[i].n
      PROVE  i + k <= Len(h) /\ h[i + k] = Result(h[i], k)
  <2>k. k \in Nat
    BY <1>1
  <2>1. CASE i <= u
    <3>1. i + k <= u /\ h[i + k] = Result(h[i], k)
      BY <1>2, <1>3, <2>1 DEF AnsweredTo
    <3> QED BY <1>1, <1>2, <2>k, <3>1
  <2>2. CASE i = u + 1
    <3>1. k \in 1 .. n
      BY <1>2, <1>3, <1>n, <2>2
    <3>2. i + k <= Len(h) /\ h[i + k] = Result(e, k)
      BY <1>1, <1>2, <2>2, <3>1
    <3> QED BY <1>2, <2>2, <3>2
  <2>3. CASE i > u + 1
    <3> DEFINE l == i - (u + 1)
    <3>1. l \in 1 .. (n + 1) - 1 /\ u + 1 + l = i
      BY <1>1, <1>2, <2>3
    <3> HIDE DEF l
    <3>2. h[i] = Result(e, l)
      BY <1>2, <3>1
    <3>3. h[i].kind = "result"
      BY <3>2 DEF Result, Message
    <3> QED BY <1>3, <3>3
  <2> QED BY <1>1, <2>1, <2>2, <2>3
<1> QED BY <1>3 DEF AnsweredTo

\* e is the message a step of c puts into the history.
Ingested(c, e) == history' = [history EXCEPT ![SessionOf[c]] = Append(@, e)]

LEMMA PairedStep ==
  ASSUME OneSessionEach, EngineTakesMessages,
         IInv, IInv', PairedInv, NEW c \in Clients, Accept(c) \/ Handle(c)
  PROVE  PairedInv'
<1> DEFINE s == SessionOf[c]
           h == history[s]
           t == conn[c]
           r == conn'[c]
<1>1. /\ conn \in [Clients -> Thread] /\ t \in Thread /\ r \in Thread
      /\ Fits(t, turns) /\ turns \in 0 .. MaxTurns
  <2>1. conn \in [Clients -> Thread] /\ turns \in 0 .. MaxTurns
    BY Types DEF IInv
  <2>2. conn' \in [Clients -> Thread]
    BY DEF IInv, TypeOK, Thread
  <2> QED BY <2>1, <2>2 DEF IInv, Threads
<1>2. history \in [Sessions -> Seq(Message)] /\ s \in Sessions /\ h \in Seq(Message)
  BY Types, Constants DEF IInv
<1>3. Paired(h, t)
  BY DEF PairedInv
<1>4. ASSUME Paired(history'[s], r), \A x \in Sessions \ {s} : history'[x] = history[x]
      PROVE  PairedInv'
  <2>1. \A d \in Clients \ {c} : conn'[d] = conn[d] /\ SessionOf[d] # s /\ SessionOf[d] \in Sessions
    BY <1>1, ThreadFrame, Constants DEF OneSessionEach
  <2>2. ASSUME NEW d \in Clients PROVE Paired(history'[SessionOf[d]], conn'[d])
    BY <1>4, <2>1 DEF PairedInv
  <2> QED BY <2>2 DEF PairedInv
<1>5. ASSUME NEW e, Ingested(c, e), Paired(Append(h, e), r)
      PROVE  PairedInv'
  <2>1. history'[s] = Append(h, e) /\ \A x \in Sessions \ {s} : history'[x] = history[x]
    BY <1>2, <1>5 DEF Ingested
  <2> QED BY <1>4, <1>5, <2>1
<1>6. ASSUME history' = history, Paired(h, r)
      PROVE  PairedInv'
  BY <1>4, <1>6
<1>7. ASSUME NEW kind \in {"user", "text", "uses", "result"}, NEW n \in 0 .. MaxCalls, t.pc # "idle"
      PROVE  Entry(kind, c, n) \in Message /\ Entry(kind, c, n).kind = kind
  <2>1. t.id \in 1 .. turns /\ t.round \in 0 .. MaxRounds
    BY <1>1, <1>7, Fields DEF Fits
  <2>2. t.id \in 1 .. MaxTurns
    BY <1>1, <2>1, Constants
  <2> QED BY <2>1, <2>2 DEF Entry, Message
<1>8. CASE Accept(c) \/ Enter(c) \/ ClearFlag(c) \/ RotateOutput(c) \/ StoreOutput(c)
           \/ Return(c) \/ Render(c) \/ Fail(c)
  <2>1. history' = history /\ t.pc \notin {"tool", "running"}
    BY <1>8 DEF Accept, Enter, ClearFlag, RotateOutput, StoreOutput, Return, Render, Fail, runnerVars,
                EngineTakesMessages
  <2>2. r.pc \notin {"tool", "running"}
    <3>1. CASE Accept(c) \/ Render(c) \/ Fail(c)
      <4>1. conn' = [conn EXCEPT ![c] = Idle] \/ Accept(c)
        BY <3>1 DEF Render, Fail
      <4>2. CASE Accept(c)
        BY <1>1, <4>2 DEF Accept, Idle
      <4>3. CASE conn' = [conn EXCEPT ![c] = Idle]
        <5>1. r = Idle
          BY <1>1, <4>3
        <5> QED BY <5>1 DEF Idle
      <4> QED BY <4>1, <4>2, <4>3
    <3>2. CASE Enter(c) \/ ClearFlag(c) \/ RotateOutput(c)
      BY <1>1, <3>2 DEF Enter, ClearFlag, RotateOutput, Goto, Thread
    <3>3. CASE StoreOutput(c) \/ Return(c)
      BY <1>1, <3>3 DEF StoreOutput, Return, Goto, Thread
    <3> QED BY <1>8, <3>1, <3>2, <3>3
  <2>3. Paired(h, r)
    BY <1>3, <2>1, <2>2 DEF Paired
  <2> QED BY <1>6, <2>1, <2>3
<1>9. CASE Prompt(c)
  <2>1. t.pc = "rotated" /\ r.pc = "chat" /\ Ingested(c, Entry("user", c, 0))
    BY <1>1, <1>9 DEF Prompt, Ingest, Ingested, Goto, Thread
  <2>2. Entry("user", c, 0) \in Message /\ Entry("user", c, 0).kind # "uses"
    <3>1. t.pc # "idle"
      BY <2>1
    <3> QED BY <1>7, <3>1, Fields
  <2>3. Paired(Append(h, Entry("user", c, 0)), r)
    BY <1>2, <1>3, <2>1, <2>2, AppendAnswered DEF Paired
  <2> QED BY <1>5, <2>1, <2>3
<1>10. CASE AnswerText(c)
  <2>1. t.pc = "chat" /\ r.pc = "done"
    <3>1. PICK text \in BOOLEAN : conn' = [conn EXCEPT ![c].pc = "done", ![c].text = text]
      BY <1>10 DEF AnswerText
    <3> QED BY <1>1, <1>10, <3>1 DEF AnswerText, Thread
  <2>2. Ingested(c, Entry("text", c, 0)) \/ history' = history
    BY <1>10 DEF AnswerText, Ingest, Ingested
  <2>3. Entry("text", c, 0) \in Message /\ Entry("text", c, 0).kind # "uses"
    <3>1. t.pc # "idle"
      BY <2>1
    <3> QED BY <1>7, <3>1, Fields
  <2>4. Paired(Append(h, Entry("text", c, 0)), r) /\ Paired(h, r)
    BY <1>2, <1>3, <2>1, <2>3, AppendAnswered DEF Paired
  <2> QED BY <1>5, <1>6, <2>2, <2>4
<1>11. CASE AnswerTools(c)
  <2>1. PICK n \in 1 .. MaxCalls :
          /\ Ingested(c, Entry("uses", c, n))
          /\ conn' = [conn EXCEPT ![c].pc = "tool", ![c].calls = n, ![c].call = 1,
                                  ![c].hit = FALSE]
    BY <1>11 DEF AnswerTools, Ingest, Ingested
  <2>2. t.pc = "chat"
    BY <1>11 DEF AnswerTools
  <2>3. r.pc = "tool" /\ r.call = 1 /\ r.calls = n /\ r.id = t.id /\ r.round = t.round
    BY <1>1, <2>1 DEF Thread
  <2>4. Entry("uses", c, n) \in Message /\ Entry("uses", c, n) = Use(r)
    <3>1. t.pc # "idle" /\ n \in 0 .. MaxCalls
      BY <2>2, Fields
    <3>2. Entry("uses", c, n) \in Message
      BY <1>7, <3>1
    <3> QED BY <2>3, <3>2 DEF Entry, Use
  <2>5. AnsweredTo(h, Len(h))
    BY <1>3, <2>2 DEF Paired
  <2>6. Len(h) \in Nat /\ Open(Append(h, Use(r)), Len(h), Use(r), 1)
    BY <1>2, <2>4, <2>5, AppendUses
  <2>7. r.call \in 1 .. r.calls + 1
    <3>1. 1 \in 1 .. n + 1
      OBVIOUS
    <3> QED BY <2>3, <3>1
  <2>8. Paired(Append(h, Use(r)), r)
    BY <2>3, <2>6, <2>7 DEF Paired
  <2> QED BY <1>5, <2>1, <2>4, <2>8
<1>12. CASE SkipTool(c) \/ FinishTool(c)
  <2>1. /\ Ingested(c, Entry("result", c, t.call))
        /\ t.pc \in {"tool", "running"}
    BY <1>12 DEF SkipTool, FinishTool, MoreCalls, Ingest, Ingested
  <2>2. t.call <= t.calls
    <3>1. CASE SkipTool(c)
      BY <3>1 DEF SkipTool, MoreCalls
    <3>2. CASE FinishTool(c)
      BY <1>1, <3>2 DEF FinishTool, Fits
    <3> QED BY <1>12, <3>1, <3>2
  <2>3. /\ r.pc = "tool" /\ r.call = t.call + 1 /\ r.calls = t.calls /\ r.id = t.id
        /\ r.round = t.round
    <3>1. CASE SkipTool(c)
      BY <1>1, <3>1 DEF SkipTool, MoreCalls, Thread
    <3>2. CASE FinishTool(c)
      BY <1>1, <3>2 DEF FinishTool, Thread
    <3> QED BY <1>12, <3>1, <3>2
  <2>4. PICK u \in Nat : Open(h, u, Use(t), t.call)
    BY <1>3, <2>1 DEF Paired
  <2>5. /\ t.calls \in Nat /\ t.calls \in 0 .. MaxCalls
        /\ t.call \in 0 .. MaxCalls /\ t.call \in Nat \ {0}
    <3>1. t.calls \in Nat /\ t.calls \in 0 .. MaxCalls /\ t.call \in Nat
      BY <1>1, Fields
    <3>2. t.call \in 1 .. t.calls + 1
      BY <1>3, <2>1 DEF Paired
    <3> HIDE DEF t
    <3>3. t.call # 0 /\ t.call <= MaxCalls
      BY <2>2, <3>1, <3>2, Constants
    <3> QED BY <3>1, <3>3, Constants
  <2>6. Entry("result", c, t.call) \in Message /\ Entry("result", c, t.call) = Result(Use(t), t.call)
    <3>1. t.pc # "idle"
      BY <2>1
    <3>2. Entry("result", c, t.call) \in Message
      BY <1>7, <2>5, <3>1
    <3>3. Result(Use(t), t.call) =
            [kind |-> "result", turn |-> t.id, round |-> t.round, n |-> t.call]
      BY ResultOfUse DEF Use
    <3> QED BY <3>2, <3>3 DEF Entry
  <2>7. Use(t) \in Message /\ Use(r) = Use(t)
    <3>1. t.pc # "idle" /\ t.calls \in 0 .. MaxCalls
      BY <2>1, <2>5
    <3>2. Entry("uses", c, t.calls) \in Message
      BY <1>7, <3>1
    <3> QED BY <2>3, <3>2 DEF Entry, Use
  <2>8. Open(Append(h, Result(Use(t), t.call)), u, Use(t), t.call + 1)
    BY <1>2, <2>4, <2>5, <2>6, <2>7, AppendResult
  <2>9. r.call \in 1 .. r.calls + 1
    <3> HIDE DEF t, r
    <3>1. t.call + 1 \in 1 .. t.calls + 1
      BY <2>2, <2>5
    <3> QED BY <2>3, <3>1
  <2>10. Paired(Append(h, Result(Use(t), t.call)), r)
    BY <2>3, <2>7, <2>8, <2>9 DEF Paired
  <2> QED BY <1>5, <2>1, <2>6, <2>10
<1>13. CASE StartTool(c)
  <2>1. /\ history' = history /\ t.pc = "tool" /\ r.pc = "running"
        /\ r.call = t.call /\ r.calls = t.calls /\ r.id = t.id /\ r.round = t.round
    BY <1>1, <1>13 DEF StartTool, MoreCalls, Goto, runnerVars, Thread
  <2>2. Paired(h, r)
    BY <1>3, <2>1 DEF Paired, Use
  <2> QED BY <1>6, <2>1, <2>2
<1>14. CASE NextRound(c)
  <2>1. history' = history /\ t.pc = "tool" /\ r.pc = "chat" /\ t.call > t.calls
    BY <1>1, <1>14 DEF NextRound, Thread
  <2>2. t.call \in 1 .. t.calls + 1 /\ t.calls \in Nat /\ t.calls \in 0 .. MaxCalls
    <3>1. t.call \in 1 .. t.calls + 1
      BY <1>3, <2>1 DEF Paired
    <3> QED BY <1>1, <3>1, Fields
  <2>3. t.call = Use(t).n + 1
    <3>1. t.call = t.calls + 1
      <4> HIDE DEF t
      <4> QED BY <2>1, <2>2
    <3> QED BY <3>1 DEF Use
  <2>4. PICK u \in Nat : Open(h, u, Use(t), t.call)
    BY <1>3, <2>1 DEF Paired
  <2>5. Use(t) \in Message
    <3>1. t.pc # "idle"
      BY <2>1
    <3>2. Entry("uses", c, t.calls) \in Message
      BY <1>7, <2>2, <3>1
    <3> QED BY <3>2 DEF Entry, Use
  <2>6. AnsweredTo(h, Len(h))
    BY <1>2, <2>3, <2>4, <2>5, AllResultsIn
  <2>7. Paired(h, r)
    BY <2>1, <2>6 DEF Paired
  <2> QED BY <1>6, <2>1, <2>7
<1> QED BY <1>8, <1>9, <1>10, <1>11, <1>12, <1>13, <1>14 DEF Handle

LEMMA PairedInductive ==
  ASSUME OneSessionEach, EngineTakesMessages
  PROVE  Spec => [](IInv /\ PairedInv)
<1>1. Init => PairedInv
  <2> SUFFICES ASSUME Init, NEW c \in Clients PROVE Paired(history[SessionOf[c]], conn[c])
    BY DEF PairedInv
  <2>1. history[SessionOf[c]] = << >> /\ conn[c].pc = "idle"
    BY Constants DEF Init, Idle
  <2>2. AnsweredTo(<< >>, Len(<< >>))
    <3>1. Len(<< >>) = 0
      BY EmptySeq
    <3> QED BY <3>1 DEF AnsweredTo
  <2> QED BY <2>1, <2>2 DEF Paired
<1>2. IInv /\ PairedInv /\ [Next]_vars => PairedInv'
  <2> SUFFICES ASSUME IInv, PairedInv, [Next]_vars PROVE PairedInv'
    OBVIOUS
  <2>1. CASE \E c \in Clients : Accept(c) \/ Handle(c)
    BY <2>1, NextHolds, PairedStep
  <2>2. CASE Outside \/ UNCHANGED vars
    <3>1. history' = history /\ conn' = conn
      BY <2>2 DEF Outside, Delete, FanOut, RequestStop, Settle, runnerVars, vars
    <3> QED BY <3>1 DEF PairedInv
  <2> QED BY <2>1, <2>2 DEF Next, Outside
<1> QED BY <1>1, <1>2, InitHolds, NextHolds, PTL DEF Spec

(* The provider gets every tool use with the results of its calls right behind *)
(* it ("correlate its own calls with the next turn's tool_result blocks",      *)
(* live_runner.zig, lines 783-786), through any rounds, cancels and failures,  *)
(* where no two clients use one session and the engine can take its messages.  *)
THEOREM ToolUsesAreAnswered ==
  ASSUME OneSessionEach, EngineTakesMessages
  PROVE  Spec => PromptsArePaired
<1>1. IInv /\ PairedInv /\ [Next]_vars =>
        [\A c \in Clients : conn[c].pc = "rotated" /\ conn'[c].pc = "chat"
           => Answered(history'[SessionOf[c]])]_vars
  <2> SUFFICES ASSUME IInv, PairedInv, Next, NEW c \in Clients, conn'[c].pc = "chat"
               PROVE  Answered(history'[SessionOf[c]])
    OBVIOUS
  <2>1. PairedInv'
    <3>1. CASE \E d \in Clients : Accept(d) \/ Handle(d)
      BY <3>1, NextHolds, PairedStep
    <3>2. CASE Outside
      <4>1. history' = history /\ conn' = conn
        BY <3>2 DEF Outside, Delete, FanOut, RequestStop, Settle, runnerVars
      <4> QED BY <4>1 DEF PairedInv
    <3> QED BY <3>1, <3>2 DEF Next, Outside
  <2>2. AnsweredTo(history'[SessionOf[c]], Len(history'[SessionOf[c]]))
    BY <2>1 DEF PairedInv, Paired
  <2>3. history'[SessionOf[c]] \in Seq(Message)
    <3>1. history' \in [Sessions -> Seq(Message)]
      BY NextHolds DEF IInv, TypeOK, Message
    <3> QED BY <3>1, Constants
  <2> QED BY <2>2, <2>3, AnsweredIs
<1> QED BY <1>1, PairedInductive, PTL DEF Spec, PromptsArePaired
=============================================================================
