------------------------------- MODULE Plugs -------------------------------
(***************************************************************************)
(* The life of the plugs (src/lifecycle.zig): the owner sorts them by what *)
(* they require (src/dep_graph.zig), starts them in that order or takes    *)
(* back a start that failed, installs snapshots of the registry, drains    *)
(* and stops.  Readers of the registry (Snapshots) go on meanwhile.        *)
(*                                                                         *)
(* One step of the owner is one turn of a loop, with the hook it calls.    *)
(* topoSort breaks ties by start_order and then by id, so plugs are named  *)
(* by their place in that order.  No list of a manifest repeats itself.    *)
(***************************************************************************)
EXTENDS Snapshots, Integers, Sequences

CONSTANTS
  NumPlugs,
  Capabilities,
  Manifests        \* the sets of manifests that the owner may be given

Plug == 1 .. NumPlugs

Manifest == [provides : SUBSET Capabilities, requires : SUBSET Capabilities,
             conflicts : SUBSET Capabilities, exclusive : BOOLEAN]

ASSUME PlugsAssumption ==
  /\ NumPlugs \in Nat
  /\ IsFiniteSet(Capabilities)
  /\ Manifests \subseteq [Plug -> Manifest]

VARIABLES
  manifests,     \* what topoSort is given
  phase,         \* as in the code; idle while topoSort runs, "refused" when
                 \* init returned its error
  inDegree, order,
  startedCount,
  call,          \* the call the owner is in
  left,          \* its loop counter, counting down
  running,       \* calls of onStart that succeeded less calls of onStop
  drained        \* plugs whose onDrain was called

lifeVars == <<manifests, phase, inDegree, order, startedCount, call, left, running, drained>>
vars == <<regVars, lifeVars>>

-----------------------------------------------------------------------------
(* dep_graph.zig                                                            *)

Provided == UNION {manifests[p].provides : p \in Plug}

\* What a plug needs of others.
Needs(p) == manifests[p].requires \ manifests[p].provides

Missing == \E p \in Plug : ~(manifests[p].requires \subseteq Provided)

Conflicting ==
  \E p, q \in Plug : p # q /\ manifests[p].conflicts \cap manifests[q].provides # {}

\* Variant: what is placed is not crossed out.
RemainingAll == Plug

Remaining == {p \in Plug : \A k \in 1 .. Len(order) : order[k] # p}

Ready(p) == inDegree[p] = 0

\* By how much placing p lowers the in-degree of q.
Less(p, q) == Cardinality(Needs(q) \cap manifests[p].provides)

-----------------------------------------------------------------------------

TypeOK ==
  /\ RegistryTypeOK
  /\ manifests \in Manifests
  /\ phase \in {"idle", "refused", "registered", "started", "draining", "stopped"}
  /\ inDegree \in [Plug -> 0 .. Cardinality(Capabilities)]
  /\ order \in Seq(Plug) /\ Len(order) <= NumPlugs
  /\ startedCount \in 0 .. Len(order)
  /\ call \in {"none", "sort", "start", "rollback", "drain", "stop"}
  /\ left \in 0 .. Len(order)
  /\ running \in [Plug -> Int]
  /\ drained \subseteq Plug

Init ==
  /\ RegistryInit
  /\ manifests \in Manifests
  /\ phase = "idle" /\ call = "none"
  /\ inDegree = [p \in Plug |-> 0]
  /\ order = <<>>
  /\ startedCount = 0 /\ left = 0
  /\ running = [p \in Plug |-> 0]
  /\ drained = {}

\* The owner is between two calls.
Resting == call = "none" /\ hand[Writer] = Free

\* Lifecycle.init calls topoSort, which checks the manifests and counts.
Sort ==
  /\ Resting /\ phase = "idle"
  /\ IF Missing \/ Conflicting
     THEN phase' = "refused" /\ UNCHANGED <<inDegree, call>>
     ELSE /\ inDegree' = [p \in Plug |-> Cardinality(Needs(p))]
          /\ call' = "sort"
          /\ UNCHANGED phase
  /\ UNCHANGED <<regVars, manifests, order, startedCount, left, running, drained>>

\* The first of the plugs that are ready comes next.
Place(p) ==
  /\ call = "sort"
  /\ p \in Remaining /\ Ready(p)
  /\ \A q \in Remaining : Ready(q) => p <= q
  /\ order' = Append(order, p)
  /\ inDegree' = [q \in Plug |->
       IF q \in Remaining \ {p}
       THEN IF inDegree[q] < Less(p, q) THEN 0 ELSE inDegree[q] - Less(p, q)
       ELSE inDegree[q]]
  /\ UNCHANGED <<regVars, manifests, phase, startedCount, call, left, running, drained>>

\* All are placed, or none is ready: a cycle.
SortEnds ==
  /\ call = "sort"
  /\ \A p \in Remaining : ~Ready(p)
  /\ phase' = IF Remaining = {} THEN "registered" ELSE "refused"
  /\ call' = "none"
  /\ UNCHANGED <<regVars, manifests, inDegree, order, startedCount, left, running, drained>>

-----------------------------------------------------------------------------
(* lifecycle.zig                                                            *)

Quiet == UNCHANGED <<manifests, inDegree, order>>

Start ==
  /\ Resting /\ phase = "registered"
  /\ startedCount' = 0
  /\ call' = "start"
  /\ Quiet /\ UNCHANGED <<regVars, phase, left, running, drained>>

\* onStart of the next plug succeeds.
StartNext ==
  /\ call = "start" /\ startedCount < Len(order)
  /\ running' = [running EXCEPT ![order[startedCount + 1]] = @ + 1]
  /\ startedCount' = startedCount + 1
  /\ Quiet /\ UNCHANGED <<regVars, phase, call, left, drained>>

\* Variant: the plug is counted before its hook returns.
StartFailsCounted ==
  /\ call = "start" /\ startedCount < Len(order)
  /\ call' = "rollback"
  /\ startedCount' = startedCount + 1
  /\ left' = startedCount + 1
  /\ Quiet /\ UNCHANGED <<regVars, phase, running, drained>>

\* It fails, and errdefer takes the start back.
StartFails ==
  /\ call = "start" /\ startedCount < Len(order)
  /\ call' = "rollback"
  /\ left' = startedCount
  /\ Quiet /\ UNCHANGED <<regVars, phase, startedCount, running, drained>>

StartEnds ==
  /\ call = "start" /\ startedCount = Len(order)
  /\ phase' = "started"
  /\ call' = "none"
  /\ Quiet /\ UNCHANGED <<regVars, startedCount, left, running, drained>>

\* Variant: plugs are stopped in the order they were started.
StopFirst ==
  /\ call \in {"rollback", "stop"} /\ left > 0
  /\ left' = left - 1
  /\ running' = [running EXCEPT ![order[startedCount - left + 1]] = @ - 1]
  /\ Quiet /\ UNCHANGED <<regVars, phase, startedCount, call, drained>>

\* rollbackStart and stop call onStop, last plug first.
StopNext ==
  /\ call \in {"rollback", "stop"} /\ left > 0
  /\ left' = left - 1
  /\ running' = [running EXCEPT ![order[left]] = @ - 1]
  /\ Quiet /\ UNCHANGED <<regVars, phase, startedCount, call, drained>>

StopEnds ==
  /\ call \in {"rollback", "stop"} /\ left = 0
  /\ startedCount' = 0
  /\ phase' = IF call = "stop" THEN "stopped" ELSE "registered"
  /\ call' = "none"
  /\ Quiet /\ UNCHANGED <<regVars, left, running, drained>>

\* installSnapshot, unless two entries of a capability claim an exclusive slot.
Install ==
  /\ Resting /\ phase = "started"
  /\ \A p, q \in Plug : p # q /\ manifests[p].exclusive =>
       manifests[p].provides \cap manifests[q].provides = {}
  /\ Swap
  /\ UNCHANGED lifeVars

Drain ==
  /\ Resting /\ phase = "started"
  /\ phase' = "draining"
  /\ left' = startedCount
  /\ call' = "drain"
  /\ Quiet /\ UNCHANGED <<regVars, startedCount, running, drained>>

\* onDrain returns, with or without Timeout, which is reported at the end.
DrainNext ==
  /\ call = "drain" /\ left > 0
  /\ left' = left - 1
  /\ drained' = drained \cup {order[left]}
  /\ Quiet /\ UNCHANGED <<regVars, phase, startedCount, call, running>>

\* The loop is over, or onDrain returned another error, which ends it.
DrainEnds(failed) ==
  /\ call = "drain"
  /\ IF failed THEN /\ left > 0
                    /\ drained' = drained \cup {order[left]}
               ELSE /\ left = 0
                    /\ UNCHANGED drained
  /\ call' = "none"
  /\ left' = 0
  /\ Quiet /\ UNCHANGED <<regVars, phase, startedCount, running>>

Stop ==
  /\ Resting /\ phase \in {"draining", "started"}
  /\ left' = startedCount
  /\ call' = "stop"
  /\ Quiet /\ UNCHANGED <<regVars, phase, startedCount, running, drained>>

Lifecycle ==
  \/ Sort \/ (\E p \in Plug : Place(p)) \/ SortEnds
  \/ Start \/ StartNext \/ StartFails \/ StartEnds
  \/ StopNext \/ StopEnds \/ Install
  \/ Drain \/ DrainNext \/ (\E failed \in BOOLEAN : DrainEnds(failed)) \/ Stop

Next == Lifecycle \/ (RegistryStep /\ UNCHANGED lifeVars)

Spec == Init /\ [][Next]_vars

-----------------------------------------------------------------------------

OneProvider ==
  \A p, q \in Plug : p # q => manifests[p].provides \cap manifests[q].provides = {}

MetBy(c, p) ==
  \E q \in Plug : /\ c \in manifests[q].provides /\ running[q] = 1
                  /\ (q \in drained => p \in drained)

\* A plug that runs finds what it requires running, through a failed start and
\* its rollback, a drain with timeouts and errors, and a stop, and what it
\* requires is not drained before it.  "every plug's `requires` edges point at
\* capabilities already provided by earlier plugs in the order"
\* (src/dep_graph.zig:4), where a capability has one provider.
RequirementsRun ==
  OneProvider => \A p \in Plug : running[p] = 1 => \A c \in Needs(p) : MetBy(c, p)

\* The same without that condition: shared slots have several providers, and
\* each that is placed lowers the in-degree once more.
RequirementsAlwaysRun ==
  \A p \in Plug : running[p] = 1 => \A c \in Needs(p) : MetBy(c, p)

\* Every plug whose onStart succeeded has its onStop called once, and no other
\* has: after a failed start as after a stop none is left running.  "Partial
\* failure rolls back: any already-started plug is stopped in reverse order"
\* (src/lifecycle.zig:9).
StopsMatchStarts ==
  /\ \A p \in Plug : running[p] \in {0, 1}
  /\ call \in {"none", "sort"} /\ phase \in {"registered", "stopped"} =>
       \A p \in Plug : running[p] = 0
  /\ phase \in {"started", "draining"} /\ call # "stop" =>
       \A p \in Plug : running[p] = 1

=============================================================================
