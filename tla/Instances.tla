------------------------------ MODULE Instances ------------------------------
(***************************************************************************)
(* The registry of connected clients: the `instances` table of             *)
(* src/db/instances_repo.zig, the /instances handlers of                   *)
(* src/gateway/routes.zig that register, refresh and delete its rows, the  *)
(* sweeper thread of src/instances/sweeper.zig and the reconciliation at   *)
(* startup in src/gateway/boot.zig.                                        *)
(*                                                                         *)
(* Every statement runs under the database's mutex and is one step.  What  *)
(* is not atomic is a handler, which authorises, reads the clock and       *)
(* updates in separate steps, and a sweep, which reads the clock once and  *)
(* runs two statements with it.  Times are kept relative to the clock: a   *)
(* row carries the age of its heartbeat and of its eviction, and a reading *)
(* in hand carries its lag.  Tick is then all that time does, and needs no *)
(* bound on the clock; ages stop counting at Old, past every comparison.   *)
(***************************************************************************)
EXTENDS Naturals, FiniteSets

CONSTANTS
  Clients,     \* the processes that register
  Ids,         \* instance ids
  Grace,       \* Options.grace_ns
  PurgeAfter,  \* Options.purge_after_ns
  MaxLag,      \* how long a step may stall after it read the clock
  Faults,      \* which of AllFaults the environment may inject
  MaxFaults,   \* how many of them
  None         \* no row, no id, not evicted

AllFaults == {"crash", "db error"}

ASSUME InstancesAssumption ==
  /\ {Grace, PurgeAfter, MaxLag, MaxFaults} \subseteq Nat
  /\ Faults \subseteq AllFaults
  /\ None \notin Ids /\ None \notin Nat

VARIABLES
  rows,     \* the table
  client,   \* what each client is doing, the id it was told and the age of
            \* the last stamp it was answered for
  request,  \* the handler serving each client, and its clock reading
  sweep,    \* where sweepOnce is, and its clock reading
  up,       \* the gateway process runs
  faults    \* faults so far

vars == <<rows, client, request, sweep, up, faults>>

\* An age that no comparison tells from a greater one.
Old == Grace + PurgeAfter + MaxLag + 3
Age == 0 .. Old
Lag == 0 .. MaxLag

Row == [pulse: BOOLEAN,          \* heartbeat_interval_ms > 0
        token: BOOLEAN,          \* token_hash is not empty
        age: Age,                \* of last_heartbeat_at_ns
        evicted: Age \cup {None}]

ASSUME NoRowAssumption == None \notin Row

NoRequest == [at |-> "none", id |-> None, pulse |-> FALSE, lag |-> 0]
Asleep    == [at |-> "asleep", lag |-> 0]

TypeOK ==
  /\ rows \in [Ids -> Row \cup {None}]
  /\ client \in [Clients -> [at: {"out", "in", "gone"},
                             id: Ids \cup {None}, beat: Age]]
  /\ request \in [Clients -> [at: {"none", "insert", "token", "beat", "delete"},
                              id: Ids \cup {None}, pulse: BOOLEAN, lag: Lag]]
  /\ sweep \in [at: {"asleep", "evict", "purge"}, lag: Lag]
  /\ up \in BOOLEAN
  /\ faults \in 0 .. MaxFaults

Init ==
  /\ rows = [i \in Ids |-> None]
  /\ client = [c \in Clients |-> [at |-> "out", id |-> None, beat |-> Old]]
  /\ request = [c \in Clients |-> NoRequest]
  /\ sweep = Asleep
  /\ up = TRUE
  /\ faults = 0

\* A fault happens: one of the kinds allowed, within the bound.
Fault(kind) ==
  /\ kind \in Faults
  /\ faults < MaxFaults
  /\ faults' = faults + 1

-----------------------------------------------------------------------------
(* Clients and the handlers that serve them.  A client has one request at a *)
(* time; one that dies leaves its handler running.                          *)

Serving(c, at) == up /\ request[c].at = at

Done(c) == request' = [request EXCEPT ![c] = NoRequest]

\* The client learns nothing once it is gone.
Told(c, at, id, beat) ==
  client' = IF client[c].at = "gone" THEN client
            ELSE [client EXCEPT ![c] = [at |-> at, id |-> id, beat |-> beat]]

\* 32 random bits: an id nobody holds.
Fresh(i) ==
  /\ rows[i] = None
  /\ \A c \in Clients : i \notin {client[c].id, request[c].id}

\* instancesRegisterHandler up to the first statement: id, token and clock.
Register(c) ==
  /\ Serving(c, "none")
  /\ client[c].at = "out"
  /\ \E i \in Ids, pulse \in BOOLEAN :
       /\ Fresh(i)
       /\ request' = [request EXCEPT
            ![c] = [at |-> "insert", id |-> i, pulse |-> pulse, lag |-> 0]]
  /\ UNCHANGED <<rows, client, sweep, up, faults>>

\* Variant: the answer goes out before the token is stored.
InsertAnswering(c) ==
  /\ Serving(c, "insert")
  /\ rows' = [rows EXCEPT ![request[c].id] =
       [pulse |-> request[c].pulse, token |-> FALSE,
        age |-> request[c].lag, evicted |-> None]]
  /\ request' = [request EXCEPT ![c].at = "token"]
  /\ Told(c, "in", request[c].id, request[c].lag)
  /\ UNCHANGED <<sweep, up, faults>>

\* Variant: last_heartbeat_at_ns keeps its default, the epoch.
InsertUnstamped(c) ==
  /\ Serving(c, "insert")
  /\ rows' = [rows EXCEPT ![request[c].id] =
       [pulse |-> request[c].pulse, token |-> FALSE, age |-> Old, evicted |-> None]]
  /\ request' = [request EXCEPT ![c].at = "token"]
  /\ UNCHANGED <<client, sweep, up, faults>>

\* Variant: last_heartbeat_at_ns stays NULL until the first heartbeat.
InsertNull(c) ==
  /\ Serving(c, "insert")
  /\ rows' = [rows EXCEPT ![request[c].id] =
       [pulse |-> request[c].pulse, token |-> FALSE, age |-> None, evicted |-> None]]
  /\ request' = [request EXCEPT ![c].at = "token"]
  /\ UNCHANGED <<client, sweep, up, faults>>

Insert(c) ==
  /\ Serving(c, "insert")
  /\ rows' = [rows EXCEPT ![request[c].id] =
       [pulse |-> request[c].pulse, token |-> FALSE,
        age |-> request[c].lag, evicted |-> None]]
  /\ request' = [request EXCEPT ![c].at = "token"]
  /\ UNCHANGED <<client, sweep, up, faults>>

\* setTokenHash; its answer, whether there was a row, is dropped.
SetToken(c) ==
  LET i == request[c].id IN
  /\ Serving(c, "token")
  /\ rows' = IF rows[i] = None THEN rows ELSE [rows EXCEPT ![i].token = TRUE]
  /\ Told(c, "in", i, request[c].lag)
  /\ Done(c)
  /\ UNCHANGED <<sweep, up, faults>>

\* resolveInstanceAuth: no row answers 404; the client of a row holds its token.
Authorised(c, at) ==
  /\ Serving(c, "none")
  /\ client[c].at = "in"
  /\ rows[client[c].id] # None
  /\ request' = [request EXCEPT
       ![c] = [at |-> at, id |-> client[c].id, pulse |-> FALSE, lag |-> 0]]
  /\ UNCHANGED <<rows, sweep, up, faults>>

Beat(c)  == Authorised(c, "beat") /\ UNCHANGED client
Leave(c) == Authorised(c, "delete") /\ client' = [client EXCEPT ![c].at = "gone"]

\* 404: the client registers again.
Unknown(c) ==
  /\ Serving(c, "none")
  /\ client[c].at = "in"
  /\ rows[client[c].id] = None
  /\ Told(c, "out", None, Old)
  /\ UNCHANGED <<rows, request, sweep, up, faults>>

\* Variant: the heartbeat of an evicted row leaves it evicted.
BeatUnrevived(c) ==
  LET i == request[c].id IN
  /\ Serving(c, "beat")
  /\ rows' = IF rows[i] = None THEN rows ELSE [rows EXCEPT ![i].age = request[c].lag]
  /\ IF rows[i] = None THEN Told(c, "out", None, Old)
                       ELSE Told(c, "in", i, request[c].lag)
  /\ Done(c)
  /\ UNCHANGED <<sweep, up, faults>>

\* Repo.heartbeat: bumps the stamp and clears a soft eviction.
BeatApply(c) ==
  LET i == request[c].id IN
  /\ Serving(c, "beat")
  /\ \/ /\ rows[i] # None
        /\ rows' = [rows EXCEPT ![i] =
             [pulse |-> @.pulse, token |-> @.token, age |-> request[c].lag, evicted |-> None]]
        /\ Told(c, "in", i, request[c].lag)
     \/ /\ rows[i] = None
        /\ Told(c, "out", None, Old)
        /\ UNCHANGED rows
  /\ Done(c)
  /\ UNCHANGED <<sweep, up, faults>>

Delete(c) ==
  /\ Serving(c, "delete")
  /\ rows' = [rows EXCEPT ![request[c].id] = None]
  /\ Done(c)
  /\ UNCHANGED <<client, sweep, up, faults>>

\* A statement fails: 500.  What the handler did before it stays done.
Fails(c) ==
  /\ up /\ request[c].at # "none"
  /\ Fault("db error")
  /\ Done(c)
  /\ UNCHANGED <<rows, client, sweep, up>>

\* The client process ends without a DELETE.
Die(c) ==
  /\ client[c].at # "gone"
  /\ client' = [client EXCEPT ![c].at = "gone"]
  /\ UNCHANGED <<rows, request, sweep, up, faults>>

-----------------------------------------------------------------------------
(* The sweeper and the process.                                             *)

\* Variant: an evicted row is evicted again and again, with a new stamp.
ExpiredAgain(row, lag) == row # None /\ row.pulse /\ row.age > Grace + lag

\* last_heartbeat_at_ns + grace < now, for a now read `lag` ago.
Expired(row, lag) ==
  /\ row # None
  /\ row.evicted = None
  /\ row.pulse
  /\ row.age > Grace + lag

\* Variant: the purge window starts at the heartbeat.
PurgeableByBeat(row, lag) ==
  row # None /\ row.evicted # None /\ row.age > PurgeAfter + lag

\* evicted_at_ns + purge_after < now.
Purgeable(row, lag) ==
  /\ row # None
  /\ row.evicted # None
  /\ row.evicted > PurgeAfter + lag

EvictExpired(lag) ==
  rows' = [i \in Ids |-> IF Expired(rows[i], lag)
                         THEN [rows[i] EXCEPT !.evicted = lag]
                         ELSE rows[i]]

PurgeEvicted(lag) ==
  rows' = [i \in Ids |-> IF Purgeable(rows[i], lag) THEN None ELSE rows[i]]

SweepStart ==
  /\ up /\ sweep.at = "asleep"
  /\ sweep' = [at |-> "evict", lag |-> 0]
  /\ UNCHANGED <<rows, client, request, up, faults>>

SweepEvict ==
  /\ up /\ sweep.at = "evict"
  /\ EvictExpired(sweep.lag)
  /\ sweep' = [sweep EXCEPT !.at = "purge"]
  /\ UNCHANGED <<client, request, up, faults>>

SweepPurge ==
  /\ up /\ sweep.at = "purge"
  /\ PurgeEvicted(sweep.lag)
  /\ sweep' = Asleep
  /\ UNCHANGED <<client, request, up, faults>>

\* The error ends the pass; the loop goes on.
SweepFails ==
  /\ up /\ sweep.at # "asleep"
  /\ Fault("db error")
  /\ sweep' = Asleep
  /\ UNCHANGED <<rows, client, request, up>>

\* The rows are on disk; handlers and sweeper are not.
Crash ==
  /\ up
  /\ Fault("crash")
  /\ up' = FALSE
  /\ request' = [c \in Clients |-> NoRequest]
  /\ sweep' = Asleep
  /\ UNCHANGED <<rows, client>>

\* Boot.init reconciles with a fresh clock; failing to is only printed.
Boot ==
  /\ ~up
  /\ up' = TRUE
  /\ \/ EvictExpired(0) /\ UNCHANGED faults
     \/ Fault("db error") /\ UNCHANGED rows
  /\ UNCHANGED <<client, request, sweep>>

Older(n) == IF n = Old THEN Old ELSE n + 1

OlderRow(row) ==
  IF row = None THEN None
  ELSE [row EXCEPT !.age = Older(@),
                   !.evicted = IF @ = None THEN None ELSE Older(@)]

\* MaxLag bounds how far a reading of the clock can fall behind it.
Tick ==
  /\ sweep.at # "asleep" => sweep.lag < MaxLag
  /\ \A c \in Clients : request[c].at # "none" => request[c].lag < MaxLag
  /\ rows' = [i \in Ids |-> OlderRow(rows[i])]
  /\ client' = [c \in Clients |-> [client[c] EXCEPT !.beat = Older(@)]]
  /\ request' = [c \in Clients |->
       IF request[c].at = "none" THEN NoRequest
       ELSE [request[c] EXCEPT !.lag = @ + 1]]
  /\ sweep' = IF sweep.at = "asleep" THEN sweep ELSE [sweep EXCEPT !.lag = @ + 1]
  /\ UNCHANGED <<up, faults>>

Handler(c) == Insert(c) \/ SetToken(c) \/ BeatApply(c) \/ Delete(c)

Next ==
  \/ \E c \in Clients :
       \/ Register(c) \/ Beat(c) \/ Leave(c) \/ Unknown(c) \/ Die(c)
       \/ Handler(c) \/ Fails(c)
  \/ SweepStart \/ SweepEvict \/ SweepPurge \/ SweepFails
  \/ Crash \/ Boot \/ Tick

Spec == Init /\ [][Next]_vars

(* Time passes, the threads run, a crashed gateway is started again, and a  *)
(* living client beats and registers.                                       *)
Fairness ==
  /\ WF_vars(Tick) /\ WF_vars(Boot)
  /\ WF_vars(SweepStart) /\ WF_vars(SweepEvict) /\ WF_vars(SweepPurge)
  /\ \A c \in Clients :
       WF_vars(Handler(c)) /\ WF_vars(Register(c)) /\ WF_vars(Beat(c) \/ Unknown(c))

FairSpec == Spec /\ Fairness

-----------------------------------------------------------------------------
(* Properties.                                                              *)

\* The row of an instance as GET /instances shows it.
Listed(i) == i # None /\ rows[i] # None /\ rows[i].evicted = None

(* A client that was answered no more than Grace ago keeps its row, live,   *)
(* whatever the sweeper or a restart does with a clock read before the      *)
(* answer.                                                                  *)
AnsweredStaysListed ==
  \A c \in Clients :
    client[c].at = "in" /\ client[c].beat <= Grace => Listed(client[c].id)

(* A 201 is for a row that carries the token: it is stored before the       *)
(* answer, so only the client that was given it can refresh the row.        *)
RegisteredHoldsToken ==
  \A c \in Clients :
    client[c].at = "in" /\ rows[client[c].id] # None => rows[client[c].id].token

Deleting(i) == \E c \in Clients : request[c].at = "delete" /\ request[c].id = i

(* A row nobody asked to delete leaves the table only if it is one that     *)
(* expires and its last heartbeat is older than both windows together: a    *)
(* heartbeat in the eviction window starts both of them again.              *)
PurgedWasSilent ==
  [][\A i \in Ids :
       rows[i] # None /\ rows'[i] = None /\ ~Deleting(i)
         => rows[i].pulse /\ rows[i].age > Grace + PurgeAfter]_vars

Orphan(i) ==
  /\ rows[i] # None /\ rows[i].pulse
  /\ \A c \in Clients : client[c].at = "gone" /\ request[c].id # i

(* A row whose client is gone, or that a failed registration left behind,   *)
(* is purged in the end.                                                    *)
OrphansArePurged == \A i \in Ids : Orphan(i) ~> rows[i] = None

(* A client that goes on beating is listed again and again, evicted, purged *)
(* or restarted under as it may be: it revives its row or registers anew.   *)
BeatingIsListed ==
  \A c \in Clients : []<>(client[c].at = "gone" \/ Listed(client[c].id))

=============================================================================
