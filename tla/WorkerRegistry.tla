--------------------------- MODULE WorkerRegistry ---------------------------
(***************************************************************************)
(* internal/worker: the table of workers, the calls that change it, and    *)
(* the agent processes behind those calls. A process registers once in its *)
(* life, then runs a heartbeat loop and a poll loop until it ends. Time is *)
(* counted in ticks; a row keeps the age of its last heartbeat.            *)
(*                                                                         *)
(* A request to the control plane is two steps, the authentication and the *)
(* statement it authorises, because the row may change between them. The   *)
(* second statement of Register and of Heartbeat, which writes             *)
(* worker_resources, is part of the step of the first and left out.        *)
(***************************************************************************)
EXTENDS Integers, FiniteSets

CONSTANTS
    Names,              \* worker names, the key of the table
    Agents,             \* agent processes, each of which lives once
    NameOf,             \* the name each process registers under
    HeartbeatInterval,  \* in ticks
    MaxLatency,         \* ticks a heartbeat request may be under way
    MaxMisses,          \* heartbeats of one process lost in a row
    Reports,            \* what processes say of their health
    None                \* SQL NULL

ASSUME RegistryAssumption ==
    /\ NameOf \in [Agents -> Names]
    /\ HeartbeatInterval \in Nat \ {0}
    /\ MaxLatency \in Nat /\ MaxMisses \in Nat
    /\ Reports \subseteq BOOLEAN
    /\ None \notin Agents

VARIABLES
    row,        \* row[w]: state, credential, age of the last heartbeat
    life,       \* life[a]: "new", "up" or "gone"
    due,        \* due[a]: ticks until the heartbeat ticker fires
    beat,       \* beat[a]: the heartbeat request, if one is under way
    misses,     \* misses[a]: heartbeats lost since the last that arrived
    poll,       \* poll[a]: the poll for work, if one is under way
    busy        \* busy[a]: the process is executing a task

vars == <<row, life, due, beat, misses, poll, busy>>

\* Faulty variant of WorkerStaleAfter: one missed beat is enough.
WorkerStaleAfterOne == HeartbeatInterval

\* config.go: a worker is presumed lost after three intervals.
WorkerStaleAfter == 3 * HeartbeatInterval

States == {"absent", "online", "draining", "unhealthy", "offline"}

\* The credential a process holds is named by the process: newCredential never
\* returns the same one twice.
Absent == [state |-> "absent", cred |-> None, age |-> 0]

TypeOK ==
    /\ row \in [Names -> [state : States, cred : Agents \cup {None},
                          age : 0 .. WorkerStaleAfter + 1]]
    /\ life \in [Agents -> {"new", "up", "gone"}]
    /\ due \in [Agents -> 0 .. HeartbeatInterval]
    /\ beat \in [Agents -> [at : {"idle", "sent", "authed"}, wait : 0 .. MaxLatency]]
    /\ misses \in [Agents -> 0 .. MaxMisses]
    /\ poll \in [Agents -> {"idle", "authed"}]
    /\ busy \in [Agents -> BOOLEAN]

NoBeat == [at |-> "idle", wait |-> 0]

Init ==
    /\ row = [w \in Names |-> Absent]
    /\ life = [a \in Agents |-> "new"]
    /\ due = [a \in Agents |-> 0]
    /\ beat = [a \in Agents |-> NoBeat]
    /\ misses = [a \in Agents |-> 0]
    /\ poll = [a \in Agents |-> "idle"]
    /\ busy = [a \in Agents |-> FALSE]

----------------------------------------------------------------------------
(* Registration *)

\* The row Register leaves for the process: online, fresh, with a new credential.
Register(a) ==
    [row[NameOf[a]] EXCEPT !.state = "online", !.cred = a, !.age = 0]

\* handleWorkerRegister, for a process whose token, protocol and name are good.
HandleRegister(a) == row' = [row EXCEPT ![NameOf[a]] = Register(a)]

\* Run: detect, register, then start both loops. A process that does not get the
\* answer to its registration ends.
Run(a) ==
    /\ life[a] = "new"
    /\ HandleRegister(a)
    /\ \/ life' = [life EXCEPT ![a] = "up"] /\ due' = [due EXCEPT ![a] = HeartbeatInterval]
       \/ life' = [life EXCEPT ![a] = "gone"] /\ due' = due
    /\ UNCHANGED <<beat, misses, poll, busy>>

\* A process that ends, cleanly or not. Its requests may still be under way.
Stop(a) ==
    /\ life[a] = "up"
    /\ life' = [life EXCEPT ![a] = "gone"]
    /\ busy' = [busy EXCEPT ![a] = FALSE]
    /\ UNCHANGED <<row, due, beat, misses, poll>>

----------------------------------------------------------------------------
(* Heartbeats *)

\* Authenticate: the worker whose stored credential is the one presented.
Authenticate(a) == {w \in Names : row[w].cred = a}

\* The heartbeat ticker fires; heartbeatLoop has one request under way at a time.
HeartbeatTick(a) ==
    /\ life[a] = "up" /\ due[a] = 0 /\ beat[a] = NoBeat
    /\ beat' = [beat EXCEPT ![a].at = "sent"]
    /\ due' = [due EXCEPT ![a] = HeartbeatInterval]
    /\ UNCHANGED <<row, life, misses, poll, busy>>

\* authenticateWorker for a heartbeat; a refused one changes nothing, and the loop
\* goes on.
AuthenticateBeat(a) ==
    /\ beat[a].at = "sent"
    /\ beat' = [beat EXCEPT ![a] = IF Authenticate(a) # {} THEN [@ EXCEPT !.at = "authed"]
                                                           ELSE NoBeat]
    /\ UNCHANGED <<row, life, due, misses, poll, busy>>

\* Faulty variants of HeartbeatState: offline is kept like draining; the report is
\* stored as it comes.
HeartbeatStateKeepsOffline(state, healthy) ==
    IF state \in {"draining", "offline"} THEN state ELSE IF healthy THEN "online" ELSE "unhealthy"
HeartbeatStateReported(state, healthy) ==
    IF state = "draining" THEN state ELSE IF healthy THEN "healthy" ELSE "unhealthy"

\* The state expression of Heartbeat's UPDATE.
HeartbeatState(state, healthy) ==
    CASE state = "draining" -> "draining"
      [] state # "draining" /\ healthy -> "online"
      [] OTHER -> "unhealthy"

\* Heartbeat: liveness, state and utilisation, by the id authentication found.
Heartbeat(a) ==
    /\ beat[a].at = "authed"
    /\ \E healthy \in Reports :
         row' = [row EXCEPT ![NameOf[a]].state = HeartbeatState(@, healthy), ![NameOf[a]].age = 0]
    /\ beat' = [beat EXCEPT ![a] = NoBeat]
    /\ misses' = [misses EXCEPT ![a] = 0]
    /\ UNCHANGED <<life, due, poll, busy>>

\* A heartbeat that is lost before it has any effect: the loop logs and goes on.
LoseBeat(a) ==
    /\ beat[a] # NoBeat
    /\ misses[a] < MaxMisses
    /\ misses' = [misses EXCEPT ![a] = @ + 1]
    /\ beat' = [beat EXCEPT ![a] = NoBeat]
    /\ UNCHANGED <<row, life, due, poll, busy>>

----------------------------------------------------------------------------
(* Polls for work *)

\* Faulty variant of MayPoll: whoever has a credential.
MayPollAnyState(w) == row[w].state # "absent"

\* The state handleWorkerLease demands of the row that Authenticate returned.
MayPoll(w) == row[w].state = "online"

\* handleWorkerLease up to its state check. A process that is executing does not
\* poll; one that is refused sleeps and polls again.
PollLoop(a) ==
    /\ life[a] = "up" /\ ~busy[a] /\ poll[a] = "idle"
    /\ \E w \in Authenticate(a) : MayPoll(w)
    /\ poll' = [poll EXCEPT ![a] = "authed"]
    /\ UNCHANGED <<row, life, due, beat, misses, busy>>

\* The rest of handleWorkerLease: Lease finds a task, or there is none (or the
\* answer does not arrive, or its process has ended).
LeaseTask(a) ==
    /\ poll[a] = "authed"
    /\ poll' = [poll EXCEPT ![a] = "idle"]
    /\ busy' = [busy EXCEPT ![a] = life[a] = "up"]
    /\ UNCHANGED <<row, life, due, beat, misses>>

NoWork(a) ==
    /\ poll[a] = "authed"
    /\ poll' = [poll EXCEPT ![a] = "idle"]
    /\ UNCHANGED <<row, life, due, beat, misses, busy>>

\* A task ends, one way or another.
Finish(a) ==
    /\ busy[a]
    /\ busy' = [busy EXCEPT ![a] = FALSE]
    /\ UNCHANGED <<row, life, due, beat, misses, poll>>

----------------------------------------------------------------------------
(* Operators, the sweep, time *)

\* SetState, for the states it accepts.
SetState(w, state) ==
    /\ row[w].state # "absent"
    /\ row' = [row EXCEPT ![w].state = state]
    /\ UNCHANGED <<life, due, beat, misses, poll, busy>>

\* The rows MarkStaleOffline updates.
Stale(w) == row[w].state \notin {"absent", "offline"} /\ row[w].age > WorkerStaleAfter

\* One tick of Sweep.
MarkStaleOffline ==
    /\ \E w \in Names : Stale(w)
    /\ row' = [w \in Names |-> IF Stale(w) THEN [row[w] EXCEPT !.state = "offline"] ELSE row[w]]
    /\ UNCHANGED <<life, due, beat, misses, poll, busy>>

\* Time passes, but not past a heartbeat that is due or that has been under way
\* for as long as one may be.
Tick ==
    /\ \A a \in Agents : /\ beat[a] # NoBeat => beat[a].wait < MaxLatency
                         /\ life[a] = "up" => due[a] > 0 \/ beat[a] # NoBeat
    /\ row' = [w \in Names |->
                 IF row[w].state # "absent" /\ row[w].age <= WorkerStaleAfter
                 THEN [row[w] EXCEPT !.age = @ + 1] ELSE row[w]]
    /\ due' = [a \in Agents |-> IF due[a] > 0 THEN due[a] - 1 ELSE 0]
    /\ beat' = [a \in Agents |-> IF beat[a] # NoBeat THEN [beat[a] EXCEPT !.wait = @ + 1] ELSE NoBeat]
    /\ UNCHANGED <<life, misses, poll, busy>>

HeartbeatLoop(a) == HeartbeatTick(a) \/ AuthenticateBeat(a) \/ Heartbeat(a)

Next ==
    \/ \E a \in Agents : Run(a) \/ Stop(a) \/ HeartbeatLoop(a) \/ LoseBeat(a)
                         \/ PollLoop(a) \/ LeaseTask(a) \/ NoWork(a) \/ Finish(a)
    \/ \E w \in Names, s \in {"online", "draining", "offline"} : SetState(w, s)
    \/ MarkStaleOffline
    \/ Tick

Spec == Init /\ [][Next]_vars

(* The loops of a process and of the control plane go on, tasks end, time passes. *)
LiveSpec ==
    /\ Spec
    /\ \A a \in Agents : /\ WF_vars(HeartbeatLoop(a))
                         /\ WF_vars(LeaseTask(a) \/ NoWork(a))
                         /\ WF_vars(Finish(a))
    /\ WF_vars(MarkStaleOffline) /\ WF_vars(Tick)

----------------------------------------------------------------------------
(* Properties *)

\* The process that can act for worker w.
Serving(a, w) == life[a] = "up" /\ row[w].cred = a

\* config.go: "Three missed beats, so one slow tick does not evict a healthy
\* worker." However its heartbeats fall between the ticks, with one lost and the
\* next one late, a worker that is being served never gets old enough for the
\* sweep.
ServedWorkerNotStale ==
    \A a \in Agents, w \in Names :
        Serving(a, w) /\ misses[a] <= 1 => row[w].age <= WorkerStaleAfter

\* A worker nobody serves any more goes offline, and goes offline again after
\* whatever an operator sets, draining included: the fleet does not keep listing
\* machines that are gone.
SilentWorkerGoesOffline ==
    \A w \in Names :
        <>[](row[w].state # "absent" /\ \A a \in Agents : row[w].cred = a => life[a] = "gone")
            => []<>(row[w].state = "offline")

\* A worker that was taken for lost is back in service once its heartbeats arrive
\* again, without anybody's help: the sweep is not a verdict.
OfflineWorkerReturns ==
    \A a \in Agents, w \in Names :
        (Serving(a, w) /\ row[w].state = "offline")
            ~> (~Serving(a, w) \/ row[w].state # "offline")

\* handleSetWorkerState: "Draining lets it finish what it holds." A worker that
\* stays draining ends up empty: polls that were under way end, tasks finish, and
\* nothing is added.
DrainEmpties ==
    \A w \in Names :
        <>[](row[w].state = "draining")
            => <>[](\A a \in Agents : NameOf[a] = w => ~busy[a])

\* The registry is not misled by one lost or late heartbeat.
RegistryInvariant == TypeOK /\ ServedWorkerNotStale

\* Whether a worker is listed as offline follows its heartbeats, in both directions.
StateFollowsHeartbeats == SilentWorkerGoesOffline /\ OfflineWorkerReturns
=============================================================================
