--------------------------- MODULE RegistryProofs ---------------------------
(***************************************************************************)
(* Proofs about WorkerRegistry, for any fleet, interval and number of lost *)
(* heartbeats: a worker whose process is alive does not get old enough for *)
(* the sweep, although one of its heartbeats is lost and the next is late. *)
(*                                                                         *)
(* The argument is a budget of time. A process without a request under way *)
(* sends its next heartbeat when its ticker fires; the age of its row and  *)
(* the time left on the ticker add up to at most one interval, and to one  *)
(* more for the heartbeat that was lost. While a request is under way, the *)
(* age when it was sent takes the place of that sum.                       *)
(***************************************************************************)
EXTENDS WorkerRegistry, TLAPS

USE RegistryAssumption

----------------------------------------------------------------------------
(* Types *)

BeatRecord == [at : {"idle", "sent", "authed"}, wait : 0 .. MaxLatency]
RowRecord == [state : States, cred : Agents \cup {None}, age : 0 .. WorkerStaleAfter + 1]

\* What the bounds are.
LEMMA Bounds ==
    /\ WorkerStaleAfter \in Nat /\ WorkerStaleAfter = 3 * HeartbeatInterval
    /\ NoBeat \in BeatRecord /\ NoBeat.at = "idle" /\ NoBeat.wait = 0
BY DEF WorkerStaleAfter, NoBeat, BeatRecord

\* A heartbeat writes a state the table knows.
LEMMA HeartbeatStateType ==
    ASSUME NEW s \in States, NEW healthy \in BOOLEAN
    PROVE  HeartbeatState(s, healthy) \in States
<1>1. CASE s = "draining"
  BY <1>1 DEF HeartbeatState, States
<1>2. CASE s # "draining" /\ healthy
  BY <1>2 DEF HeartbeatState, States
<1>3. CASE s # "draining" /\ ~healthy
  BY <1>3 DEF HeartbeatState, States
<1> QED
  BY <1>1, <1>2, <1>3

\* What a registration and a heartbeat leave in the table.
LEMMA RegisterRow ==
    ASSUME TypeOK, NEW a \in Agents, HandleRegister(a)
    PROVE  /\ row' \in [Names -> RowRecord]
           /\ row'[NameOf[a]].cred = a /\ row'[NameOf[a]].age = 0
           /\ \A w \in Names : w # NameOf[a] => row'[w] = row[w]
<1>1. NameOf[a] \in Names /\ row \in [Names -> RowRecord]
  BY DEF TypeOK, RowRecord
<1>2. /\ Register(a) \in RowRecord
      /\ Register(a).cred = a /\ Register(a).age = 0
  <2>1. row[NameOf[a]] \in RowRecord /\ 0 \in 0 .. WorkerStaleAfter + 1
    BY <1>1, Bounds
  <2> QED
    BY <2>1 DEF Register, RowRecord, States
<1> QED
  BY <1>1, <1>2 DEF HandleRegister

LEMMA HeartbeatRow ==
    ASSUME TypeOK, NEW a \in Agents, Heartbeat(a)
    PROVE  /\ row' \in [Names -> RowRecord]
           /\ row'[NameOf[a]].cred = row[NameOf[a]].cred /\ row'[NameOf[a]].age = 0
           /\ \A w \in Names : w # NameOf[a] => row'[w] = row[w]
<1>1. NameOf[a] \in Names /\ row \in [Names -> RowRecord] /\ row[NameOf[a]] \in RowRecord
  BY DEF TypeOK, RowRecord
<1>2. PICK s \in States :
        row' = [row EXCEPT ![NameOf[a]] = [row[NameOf[a]] EXCEPT !.state = s, !.age = 0]]
  <2>1. row[NameOf[a]].state \in States
    BY <1>1 DEF RowRecord
  <2>2. PICK healthy \in Reports :
          row' = [row EXCEPT ![NameOf[a]].state = HeartbeatState(@, healthy), ![NameOf[a]].age = 0]
    BY DEF Heartbeat
  <2>3. HeartbeatState(row[NameOf[a]].state, healthy) \in States
    BY <2>1, HeartbeatStateType
  <2> QED
    BY <1>1, <2>2, <2>3
<1> DEFINE new == [row[NameOf[a]] EXCEPT !.state = s, !.age = 0]
<1>3. 0 \in 0 .. WorkerStaleAfter + 1
  BY Bounds
<1>4. new \in RowRecord /\ new.cred = row[NameOf[a]].cred /\ new.age = 0
  BY <1>1, <1>3 DEF RowRecord
<1>5. row' = [row EXCEPT ![NameOf[a]] = new]
  BY <1>2
<1> HIDE DEF new
<1> QED
  BY <1>1, <1>4, <1>5

\* What an operator, the sweep and the clock leave in the table.
LEMMA OtherRows ==
    ASSUME TypeOK
    PROVE  /\ \A w \in Names, s \in {"online", "draining", "offline"} :
                SetState(w, s) => /\ row' \in [Names -> RowRecord]
                                  /\ \A x \in Names : /\ row'[x].cred = row[x].cred
                                                      /\ row'[x].age = row[x].age
           /\ MarkStaleOffline => /\ row' \in [Names -> RowRecord]
                                  /\ \A x \in Names : /\ row'[x].cred = row[x].cred
                                                      /\ row'[x].age = row[x].age
           /\ Tick => /\ row' \in [Names -> RowRecord]
                      /\ \A x \in Names : /\ row'[x].cred = row[x].cred
                                          /\ row'[x].age <= row[x].age + 1
<1>1. row \in [Names -> RowRecord] /\ \A x \in Names : row[x] \in RowRecord
  BY DEF TypeOK, RowRecord
<1>2. ASSUME NEW w \in Names, NEW s \in {"online", "draining", "offline"}, SetState(w, s)
      PROVE  /\ row' \in [Names -> RowRecord]
             /\ \A x \in Names : row'[x].cred = row[x].cred /\ row'[x].age = row[x].age
  <2>1. [row[w] EXCEPT !.state = s] \in RowRecord
    BY <1>1 DEF RowRecord, States
  <2>2. row' = [row EXCEPT ![w] = [row[w] EXCEPT !.state = s]]
    BY <1>2 DEF SetState
  <2>3. row' \in [Names -> RowRecord]
    BY <1>1, <2>1, <2>2
  <2>4. \A x \in Names : row'[x].cred = row[x].cred /\ row'[x].age = row[x].age
    BY <1>1, <2>2 DEF RowRecord
  <2> QED
    BY <2>3, <2>4
<1>3. ASSUME MarkStaleOffline
      PROVE  /\ row' \in [Names -> RowRecord]
             /\ \A x \in Names : row'[x].cred = row[x].cred /\ row'[x].age = row[x].age
  <2>1. \A x \in Names : [row[x] EXCEPT !.state = "offline"] \in RowRecord
    BY <1>1 DEF RowRecord, States
  <2>2. row' = [w \in Names |-> IF Stale(w) THEN [row[w] EXCEPT !.state = "offline"] ELSE row[w]]
    BY <1>3 DEF MarkStaleOffline
  <2>3. row' \in [Names -> RowRecord]
    BY <1>1, <2>1, <2>2
  <2>4. \A x \in Names : row'[x].cred = row[x].cred /\ row'[x].age = row[x].age
    BY <1>1, <2>2 DEF RowRecord
  <2> QED
    BY <2>3, <2>4
<1>4. ASSUME Tick
      PROVE  /\ row' \in [Names -> RowRecord]
             /\ \A x \in Names : row'[x].cred = row[x].cred /\ row'[x].age <= row[x].age + 1
  <2>1. row' = [w \in Names |-> IF row[w].state # "absent" /\ row[w].age <= WorkerStaleAfter
                                THEN [row[w] EXCEPT !.age = @ + 1] ELSE row[w]]
    BY <1>4 DEF Tick
  <2>2. ASSUME NEW x \in Names
        PROVE  /\ row'[x] \in RowRecord
               /\ row'[x].cred = row[x].cred /\ row'[x].age <= row[x].age + 1
    <3>1. row[x].age \in 0 .. WorkerStaleAfter + 1
      BY <1>1 DEF RowRecord
    <3>2. CASE row[x].state # "absent" /\ row[x].age <= WorkerStaleAfter
      <4>1. row'[x] = [row[x] EXCEPT !.age = row[x].age + 1]
        BY <2>1, <3>2
      <4>2. row[x].age + 1 \in 0 .. WorkerStaleAfter + 1
        BY <3>1, <3>2, Bounds
      <4> QED
        BY <1>1, <3>1, <4>1, <4>2 DEF RowRecord
    <3>3. CASE ~(row[x].state # "absent" /\ row[x].age <= WorkerStaleAfter)
      BY <1>1, <2>1, <3>1, <3>3, Bounds
    <3> QED
      BY <3>2, <3>3
  <2>3. row' \in [Names -> RowRecord]
    BY <2>1, <2>2
  <2> QED
    BY <2>2, <2>3
<1> QED
  BY <1>2, <1>3, <1>4

\* One heartbeat request is replaced by another, or by none.
LEMMA SetBeat ==
    ASSUME TypeOK, NEW a \in Agents, NEW b \in BeatRecord, beat' = [beat EXCEPT ![a] = b]
    PROVE  /\ beat' \in [Agents -> BeatRecord] /\ beat'[a] = b
           /\ \A x \in Agents : x # a => beat'[x] = beat[x]
BY DEF TypeOK, BeatRecord

\* What each step of heartbeatLoop does to the request.
LEMMA BeatSteps ==
    ASSUME TypeOK, NEW a \in Agents
    PROVE  /\ HeartbeatTick(a) =>
                /\ beat' \in [Agents -> BeatRecord] /\ beat'[a].at = "sent" /\ beat'[a].wait = 0
                /\ \A x \in Agents : x # a => beat'[x] = beat[x]
           /\ AuthenticateBeat(a) =>
                /\ beat' \in [Agents -> BeatRecord]
                /\ \/ beat'[a] = NoBeat /\ Authenticate(a) = {}
                   \/ beat'[a].at = "authed" /\ beat'[a].wait = beat[a].wait
                /\ \A x \in Agents : x # a => beat'[x] = beat[x]
<1>1. beat[a] \in BeatRecord
  BY DEF TypeOK, BeatRecord
<1>2. ASSUME HeartbeatTick(a)
      PROVE  /\ beat' \in [Agents -> BeatRecord] /\ beat'[a].at = "sent" /\ beat'[a].wait = 0
             /\ \A x \in Agents : x # a => beat'[x] = beat[x]
  <2> DEFINE b == [beat[a] EXCEPT !.at = "sent"]
  <2>1. b \in BeatRecord /\ b.at = "sent" /\ b.wait = 0
    BY <1>1, <1>2, Bounds DEF HeartbeatTick, BeatRecord
  <2>2. beat' = [beat EXCEPT ![a] = b]
    BY <1>2 DEF HeartbeatTick
  <2> HIDE DEF b
  <2> QED
    BY <2>1, <2>2, SetBeat
<1>3. ASSUME AuthenticateBeat(a)
      PROVE  /\ beat' \in [Agents -> BeatRecord]
             /\ \/ beat'[a] = NoBeat /\ Authenticate(a) = {}
                \/ beat'[a].at = "authed" /\ beat'[a].wait = beat[a].wait
             /\ \A x \in Agents : x # a => beat'[x] = beat[x]
  <2> DEFINE b == [beat[a] EXCEPT !.at = "authed"]
  <2>1. b \in BeatRecord /\ b.at = "authed" /\ b.wait = beat[a].wait
    BY <1>1 DEF BeatRecord
  <2>2. \/ beat' = [beat EXCEPT ![a] = NoBeat] /\ Authenticate(a) = {}
        \/ beat' = [beat EXCEPT ![a] = b]
    BY <1>3 DEF AuthenticateBeat
  <2> HIDE DEF b
  <2>3. CASE beat' = [beat EXCEPT ![a] = NoBeat] /\ Authenticate(a) = {}
    BY <2>3, SetBeat, Bounds
  <2>4. CASE beat' = [beat EXCEPT ![a] = b]
    BY <2>1, <2>4, SetBeat
  <2> QED
    BY <2>2, <2>3, <2>4
<1> QED
  BY <1>2, <1>3

\* The type invariant, with the names of the records.
LEMMA TypeOKAgain ==
    TypeOK <=> /\ row \in [Names -> RowRecord]
               /\ life \in [Agents -> {"new", "up", "gone"}]
               /\ due \in [Agents -> 0 .. HeartbeatInterval]
               /\ beat \in [Agents -> BeatRecord]
               /\ misses \in [Agents -> 0 .. MaxMisses]
               /\ poll \in [Agents -> {"idle", "authed"}]
               /\ busy \in [Agents -> BOOLEAN]
BY DEF TypeOK, RowRecord, BeatRecord

LEMMA TypeInit == Init => TypeOK
<1> SUFFICES ASSUME Init PROVE TypeOK
  OBVIOUS
<1>1. Absent \in RowRecord
  BY Bounds DEF Absent, RowRecord, States
<1>2. row \in [Names -> RowRecord] /\ beat \in [Agents -> BeatRecord]
  BY <1>1, Bounds DEF Init
<1> QED
  BY <1>2, TypeOKAgain DEF Init

\* What the clock does to the requests.
LEMMA TickBeats ==
    ASSUME TypeOK, Tick
    PROVE  /\ beat' \in [Agents -> BeatRecord]
           /\ due' \in [Agents -> 0 .. HeartbeatInterval]
           /\ \A a \in Agents :
                /\ due[a] > 0 => due'[a] = due[a] - 1
                /\ due[a] = 0 => due'[a] = 0
                /\ beat[a] = NoBeat => beat'[a] = NoBeat
                /\ beat[a] # NoBeat => /\ beat'[a].at = beat[a].at
                                       /\ beat'[a].wait = beat[a].wait + 1
                                       /\ beat[a].wait < MaxLatency
<1>1. ASSUME NEW a \in Agents
      PROVE  /\ beat'[a] \in BeatRecord /\ due'[a] \in 0 .. HeartbeatInterval
             /\ due[a] > 0 => due'[a] = due[a] - 1
             /\ due[a] = 0 => due'[a] = 0
             /\ beat[a] = NoBeat => beat'[a] = NoBeat
             /\ beat[a] # NoBeat => /\ beat'[a].at = beat[a].at
                                    /\ beat'[a].wait = beat[a].wait + 1
                                    /\ beat[a].wait < MaxLatency
  <2>1. beat[a] \in BeatRecord /\ due[a] \in 0 .. HeartbeatInterval
    BY TypeOKAgain
  <2>2. /\ due'[a] \in 0 .. HeartbeatInterval
        /\ due[a] > 0 => due'[a] = due[a] - 1
        /\ due[a] = 0 => due'[a] = 0
    BY <2>1 DEF Tick
  <2>3. CASE beat[a] = NoBeat
    BY <2>2, <2>3, Bounds DEF Tick
  <2>4. CASE beat[a] # NoBeat
    <3>1. beat[a].wait < MaxLatency /\ beat'[a] = [beat[a] EXCEPT !.wait = beat[a].wait + 1]
      BY <2>4 DEF Tick
    <3>2. beat[a].wait + 1 \in 0 .. MaxLatency
      BY <2>1, <3>1 DEF BeatRecord
    <3> QED
      BY <2>1, <2>2, <2>4, <3>1, <3>2 DEF BeatRecord
  <2> QED
    BY <2>3, <2>4
<1>2. beat' = [a \in Agents |-> beat'[a]] /\ due' = [a \in Agents |-> due'[a]]
  BY DEF Tick
<1> QED
  BY <1>1, <1>2

\* Every step keeps the types.
LEMMA TypeStep == TypeOK /\ [Next]_vars => TypeOK'
<1> SUFFICES ASSUME TypeOK, [Next]_vars PROVE TypeOK'
  OBVIOUS
<1>0. /\ row \in [Names -> RowRecord]
      /\ life \in [Agents -> {"new", "up", "gone"}]
      /\ due \in [Agents -> 0 .. HeartbeatInterval]
      /\ beat \in [Agents -> BeatRecord]
      /\ misses \in [Agents -> 0 .. MaxMisses]
      /\ poll \in [Agents -> {"idle", "authed"}]
      /\ busy \in [Agents -> BOOLEAN]
  BY TypeOKAgain
<1> DEFINE Types ==
      /\ row \in [Names -> RowRecord]
      /\ life \in [Agents -> {"new", "up", "gone"}]
      /\ due \in [Agents -> 0 .. HeartbeatInterval]
      /\ beat \in [Agents -> BeatRecord]
      /\ misses \in [Agents -> 0 .. MaxMisses]
      /\ poll \in [Agents -> {"idle", "authed"}]
      /\ busy \in [Agents -> BOOLEAN]
<1>00. Types' => TypeOK'
  BY TypeOKAgain, PTL
<1> SUFFICES Types'
  BY <1>00
<1>1. ASSUME NEW a \in Agents, Run(a) PROVE Types'
  BY <1>0, <1>1, RegisterRow DEF Run
<1>2. ASSUME NEW a \in Agents, Stop(a) PROVE Types'
  BY <1>0, <1>2 DEF Stop
<1>3. ASSUME NEW a \in Agents, HeartbeatTick(a) PROVE Types'
  <2>1. beat' \in [Agents -> BeatRecord]
    BY <1>3, BeatSteps
  <2> QED
    BY <1>0, <1>3, <2>1 DEF HeartbeatTick
<1>4. ASSUME NEW a \in Agents, AuthenticateBeat(a) PROVE Types'
  <2>1. beat' \in [Agents -> BeatRecord]
    BY <1>4, BeatSteps
  <2> QED
    BY <1>0, <1>4, <2>1 DEF AuthenticateBeat
<1>5. ASSUME NEW a \in Agents, Heartbeat(a) PROVE Types'
  <2>1. row' \in [Names -> RowRecord]
    BY <1>5, HeartbeatRow
  <2>2. beat' = [beat EXCEPT ![a] = NoBeat] /\ misses' = [misses EXCEPT ![a] = 0]
        /\ UNCHANGED <<life, due, poll, busy>>
    BY <1>5 DEF Heartbeat
  <2> QED
    BY <1>0, <2>1, <2>2, SetBeat, Bounds
<1>6. ASSUME NEW a \in Agents, LoseBeat(a) PROVE Types'
  BY <1>0, <1>6, SetBeat, Bounds DEF LoseBeat
<1>7. ASSUME NEW a \in Agents, PollLoop(a) \/ LeaseTask(a) \/ NoWork(a) \/ Finish(a) PROVE Types'
  BY <1>0, <1>7 DEF PollLoop, LeaseTask, NoWork, Finish
<1>8. ASSUME NEW w \in Names, NEW s \in {"online", "draining", "offline"}, SetState(w, s)
      PROVE  Types'
  <2>1. row' \in [Names -> RowRecord]
    BY <1>8, OtherRows
  <2> QED
    BY <1>0, <1>8, <2>1 DEF SetState
<1>9. CASE MarkStaleOffline
  <2>1. row' \in [Names -> RowRecord]
    BY <1>9, OtherRows
  <2> QED
    BY <1>0, <1>9, <2>1 DEF MarkStaleOffline
<1>10. CASE Tick
  <2>1. row' \in [Names -> RowRecord]
    BY <1>10, OtherRows
  <2> QED
    BY <1>0, <1>10, <2>1, TickBeats DEF Tick
<1>11. CASE UNCHANGED vars
  BY <1>0, <1>11 DEF vars
<1> QED
  BY <1>1, <1>2, <1>3, <1>4, <1>5, <1>6, <1>7, <1>8, <1>9, <1>10, <1>11 DEF Next,
     HeartbeatLoop

----------------------------------------------------------------------------
(* The budget of time *)

\* A credential is in the row its process registered, and a process that has not
\* registered has none and sends nothing.
CredentialOwned ==
    /\ \A w \in Names, a \in Agents : row[w].cred = a => NameOf[a] = w
    /\ \A a \in Agents : life[a] = "new" => beat[a] = NoBeat

\* The ticker that started a request has run for as long as the request.
TickerRuns == \A a \in Agents : due[a] + beat[a].wait <= HeartbeatInterval

\* One interval, and one more for the heartbeat that was lost.
Budget(a) == IF misses[a] = 0 THEN HeartbeatInterval ELSE 2 * HeartbeatInterval

WithinBudget ==
    \A a \in Agents, w \in Names :
        Serving(a, w) /\ misses[a] <= 1 =>
          IF beat[a] = NoBeat THEN row[w].age + due[a] <= Budget(a)
                              ELSE row[w].age <= Budget(a) + beat[a].wait

AgeInvariant == TypeOK /\ CredentialOwned /\ TickerRuns /\ WithinBudget

\* The ages that matter are numbers.
AreNumbers ==
    /\ \A w \in Names : row[w].age \in Nat
    /\ \A a \in Agents : /\ due[a] \in 0 .. HeartbeatInterval /\ due[a] \in Nat
                         /\ beat[a].wait \in 0 .. MaxLatency /\ beat[a].wait \in Nat
                         /\ misses[a] \in Nat
                         /\ Budget(a) \in Nat /\ Budget(a) >= HeartbeatInterval

LEMMA NumbersTyped == TypeOK => AreNumbers
<1> SUFFICES ASSUME TypeOK PROVE AreNumbers
  OBVIOUS
<1>1. /\ row \in [Names -> RowRecord] /\ due \in [Agents -> 0 .. HeartbeatInterval]
      /\ beat \in [Agents -> BeatRecord] /\ misses \in [Agents -> 0 .. MaxMisses]
  BY TypeOKAgain
<1>2. ASSUME NEW w \in Names PROVE row[w].age \in Nat
  BY <1>1, Bounds DEF RowRecord
<1>3. ASSUME NEW a \in Agents
      PROVE  /\ due[a] \in 0 .. HeartbeatInterval /\ due[a] \in Nat
             /\ beat[a].wait \in 0 .. MaxLatency /\ beat[a].wait \in Nat
             /\ misses[a] \in Nat
             /\ Budget(a) \in Nat /\ Budget(a) >= HeartbeatInterval
  <2>1. due[a] \in 0 .. HeartbeatInterval /\ beat[a] \in BeatRecord /\ misses[a] \in 0 .. MaxMisses
    BY <1>1
  <2>2. beat[a].wait \in 0 .. MaxLatency
    BY <2>1 DEF BeatRecord
  <2> QED
    BY <2>1, <2>2 DEF Budget
<1> QED
  BY <1>2, <1>3 DEF AreNumbers

LEMMA Numbers ==
    ASSUME TypeOK
    PROVE  /\ \A w \in Names : row[w].age \in Nat
           /\ \A a \in Agents : /\ due[a] \in 0 .. HeartbeatInterval /\ due[a] \in Nat
                                /\ beat[a].wait \in 0 .. MaxLatency /\ beat[a].wait \in Nat
                                /\ misses[a] \in Nat
                                /\ Budget(a) \in Nat /\ Budget(a) >= HeartbeatInterval
BY NumbersTyped DEF AreNumbers

\* Steps that leave the heartbeats of every process, its ticker and its misses
\* alone, and the credentials and the ages of the rows too, change nothing here.
LEMMA QuietStep ==
    ASSUME AgeInvariant, TypeOK',
           UNCHANGED <<due, beat, misses>>,
           \A a \in Agents : life'[a] = life[a] \/ life'[a] = "gone",
           \A w \in Names : row'[w].cred = row[w].cred /\ row'[w].age = row[w].age
    PROVE  AgeInvariant'
<1>1. CredentialOwned'
  BY DEF AgeInvariant, CredentialOwned
<1>2. TickerRuns'
  BY DEF AgeInvariant, TickerRuns
<1>3. \A a \in Agents, w \in Names : Serving(a, w)' => Serving(a, w)
  BY DEF Serving
<1>4. WithinBudget'
  BY <1>3 DEF AgeInvariant, WithinBudget, Budget
<1> QED
  BY <1>1, <1>2, <1>4 DEF AgeInvariant

\* The budget is kept when every heartbeat request ends within an interval.
LEMMA AgeStep ==
    ASSUME MaxLatency <= HeartbeatInterval
    PROVE  AgeInvariant /\ [Next]_vars => AgeInvariant'
<1> SUFFICES ASSUME AgeInvariant, [Next]_vars PROVE AgeInvariant'
  OBVIOUS
<1>0. TypeOK /\ TypeOK' /\ CredentialOwned /\ TickerRuns /\ WithinBudget
  BY TypeStep DEF AgeInvariant
<1>00. /\ life \in [Agents -> {"new", "up", "gone"}]
       /\ due \in [Agents -> 0 .. HeartbeatInterval] /\ beat \in [Agents -> BeatRecord]
       /\ misses \in [Agents -> 0 .. MaxMisses]
  BY <1>0, TypeOKAgain
<1>1. ASSUME NEW a \in Agents, Run(a) PROVE AgeInvariant'
  <2>1. /\ row'[NameOf[a]].cred = a /\ row'[NameOf[a]].age = 0
        /\ \A w \in Names : w # NameOf[a] => row'[w] = row[w]
    BY <1>0, <1>1, RegisterRow DEF Run
  <2>2. /\ life[a] = "new" /\ beat[a] = NoBeat /\ UNCHANGED <<beat, misses>>
        /\ life' = [life EXCEPT ![a] = life'[a]] /\ life'[a] \in {"up", "gone"}
        /\ due' = [due EXCEPT ![a] = due'[a]] /\ due'[a] \in {due[a], HeartbeatInterval}
    BY <1>0, <1>00, <1>1 DEF Run, CredentialOwned
  <2>3. CredentialOwned'
    BY <1>0, <1>00, <2>1, <2>2 DEF CredentialOwned
  <2>4. TickerRuns'
    BY <1>0, <1>00, <2>2, Numbers, Bounds DEF TickerRuns
  <2>5. ASSUME NEW b \in Agents, NEW w \in Names, Serving(b, w)', misses'[b] <= 1
        PROVE  IF beat'[b] = NoBeat THEN row'[w].age + due'[b] <= Budget(b)'
                                    ELSE row'[w].age <= Budget(b)' + beat'[b].wait
    <3>1. Budget(b)' = Budget(b)
      BY <2>2 DEF Budget
    <3>2. CASE b = a
      <4>1. NameOf[a] = w
        BY <2>3, <2>5, <3>2 DEF CredentialOwned, Serving
      <4> QED
        BY <1>0, <2>1, <2>2, <3>1, <3>2, <4>1, Numbers
    <3>3. CASE b # a
      <4>1. w # NameOf[a] /\ Serving(b, w) /\ due'[b] = due[b] /\ row'[w] = row[w]
        BY <1>00, <2>1, <2>2, <2>5, <3>3 DEF Serving
      <4> QED
        BY <1>0, <2>2, <2>5, <3>1, <4>1 DEF WithinBudget
    <3> QED
      BY <3>2, <3>3
  <2> QED
    BY <1>0, <2>3, <2>4, <2>5 DEF AgeInvariant, WithinBudget
<1>2. ASSUME NEW a \in Agents, Stop(a) PROVE AgeInvariant'
  BY <1>0, <1>00, <1>2, QuietStep DEF Stop
<1>3. ASSUME NEW a \in Agents, HeartbeatTick(a) PROVE AgeInvariant'
  <2>1. /\ life[a] = "up" /\ due[a] = 0 /\ beat[a] = NoBeat
        /\ due' = [due EXCEPT ![a] = HeartbeatInterval]
        /\ UNCHANGED <<row, life, misses>>
    BY <1>3 DEF HeartbeatTick
  <2>2. /\ beat'[a].at = "sent" /\ beat'[a].wait = 0 /\ beat'[a] # NoBeat
        /\ \A x \in Agents : x # a => beat'[x] = beat[x]
    BY <1>0, <1>3, BeatSteps, Bounds
  <2>3. CredentialOwned'
    BY <1>0, <2>1, <2>2 DEF CredentialOwned
  <2>4. TickerRuns'
    BY <1>0, <1>00, <2>1, <2>2 DEF TickerRuns
  <2>5. WithinBudget'
    BY <1>0, <1>00, <2>1, <2>2, Numbers DEF WithinBudget, Budget, Serving
  <2> QED
    BY <1>0, <2>3, <2>4, <2>5 DEF AgeInvariant
<1>4. ASSUME NEW a \in Agents, AuthenticateBeat(a) PROVE AgeInvariant'
  <2>1. beat[a].at = "sent" /\ beat[a] # NoBeat /\ UNCHANGED <<row, life, due, misses>>
    BY <1>4, Bounds DEF AuthenticateBeat
  <2>2. /\ \/ beat'[a] = NoBeat /\ Authenticate(a) = {}
           \/ beat'[a].at = "authed" /\ beat'[a].wait = beat[a].wait
        /\ \A x \in Agents : x # a => beat'[x] = beat[x]
    BY <1>0, <1>4, BeatSteps
  <2>3. CredentialOwned'
    BY <1>0, <2>1, <2>2 DEF CredentialOwned
  <2>4. TickerRuns'
    BY <1>0, <1>00, <2>1, <2>2, Numbers, Bounds DEF TickerRuns
  <2>5. CASE beat'[a] = NoBeat /\ Authenticate(a) = {}
    <3>1. \A w \in Names : ~Serving(a, w)'
      BY <2>1, <2>5 DEF Authenticate, Serving
    <3>2. WithinBudget'
      BY <1>0, <2>1, <2>2, <3>1 DEF WithinBudget, Budget, Serving
    <3> QED
      BY <1>0, <2>3, <2>4, <3>2 DEF AgeInvariant
  <2>6. CASE beat'[a].at = "authed" /\ beat'[a].wait = beat[a].wait
    <3>1. beat'[a] # NoBeat
      BY <2>6, Bounds
    <3>2. WithinBudget'
      BY <1>0, <2>1, <2>2, <2>6, <3>1 DEF WithinBudget, Budget, Serving
    <3> QED
      BY <1>0, <2>3, <2>4, <3>2 DEF AgeInvariant
  <2> QED
    BY <2>2, <2>5, <2>6
<1>5. ASSUME NEW a \in Agents, Heartbeat(a) PROVE AgeInvariant'
  <2>1. /\ beat' = [beat EXCEPT ![a] = NoBeat] /\ misses' = [misses EXCEPT ![a] = 0]
        /\ UNCHANGED <<life, due>>
    BY <1>5 DEF Heartbeat
  <2>2. /\ row'[NameOf[a]].cred = row[NameOf[a]].cred /\ row'[NameOf[a]].age = 0
        /\ \A w \in Names : w # NameOf[a] => row'[w] = row[w]
    BY <1>0, <1>5, HeartbeatRow
  <2>3. CredentialOwned'
    BY <1>0, <1>00, <2>1, <2>2 DEF CredentialOwned
  <2>4. TickerRuns'
    BY <1>0, <1>00, <2>1, Numbers, Bounds DEF TickerRuns
  <2>5. ASSUME NEW b \in Agents, NEW w \in Names, Serving(b, w)', misses'[b] <= 1
        PROVE  IF beat'[b] = NoBeat THEN row'[w].age + due'[b] <= Budget(b)'
                                    ELSE row'[w].age <= Budget(b)' + beat'[b].wait
    <3>1. CASE w = NameOf[a]
      <4>1. /\ row'[w].age = 0 /\ due'[b] \in 0 .. HeartbeatInterval
            /\ beat'[b].wait \in Nat
            /\ Budget(b)' \in Nat /\ Budget(b)' >= HeartbeatInterval
        <5>1. AreNumbers'
          BY <1>0, NumbersTyped, PTL
        <5> QED
          BY <2>2, <3>1, <5>1 DEF AreNumbers
      <4> QED
        BY <4>1
    <3>2. CASE w # NameOf[a]
      <4>1. b # a
        BY <2>3, <2>5, <3>2 DEF CredentialOwned, Serving
      <4>2. /\ Serving(b, w) /\ row'[w] = row[w] /\ beat'[b] = beat[b] /\ misses'[b] = misses[b]
            /\ due'[b] = due[b]
        BY <1>00, <2>1, <2>2, <2>5, <3>2, <4>1 DEF Serving
      <4> QED
        BY <1>0, <2>5, <4>2 DEF WithinBudget, Budget
    <3> QED
      BY <3>1, <3>2
  <2> QED
    BY <1>0, <2>3, <2>4, <2>5 DEF AgeInvariant, WithinBudget
<1>6. ASSUME NEW a \in Agents, LoseBeat(a) PROVE AgeInvariant'
  <2>1. /\ beat[a] # NoBeat /\ beat' = [beat EXCEPT ![a] = NoBeat]
        /\ misses' = [misses EXCEPT ![a] = @ + 1]
        /\ UNCHANGED <<row, life, due>>
    BY <1>6 DEF LoseBeat
  <2>2. CredentialOwned'
    BY <1>0, <1>00, <2>1 DEF CredentialOwned
  <2>3. TickerRuns'
    BY <1>0, <1>00, <2>1, Numbers, Bounds DEF TickerRuns
  <2>4. ASSUME NEW b \in Agents, NEW w \in Names, Serving(b, w)', misses'[b] <= 1
        PROVE  IF beat'[b] = NoBeat THEN row'[w].age + due'[b] <= Budget(b)'
                                    ELSE row'[w].age <= Budget(b)' + beat'[b].wait
    <3>1. Serving(b, w)
      BY <2>1, <2>4 DEF Serving
    <3>2. CASE b = a
      <4>1. misses[a] = 0 /\ misses'[a] = 1
        BY <1>00, <2>1, <2>4, <3>2
      <4>2. row[w].age <= HeartbeatInterval + beat[a].wait
        BY <1>0, <2>1, <3>1, <3>2, <4>1 DEF WithinBudget, Budget
      <4>3. due[a] + beat[a].wait <= HeartbeatInterval
        BY <1>0 DEF TickerRuns
      <4>4. row[w].age + due[a] <= 2 * HeartbeatInterval
        BY <1>0, <4>2, <4>3, Numbers
      <4> QED
        BY <1>00, <2>1, <3>2, <4>1, <4>4 DEF Budget
    <3>3. CASE b # a
      <4>1. beat'[b] = beat[b] /\ misses'[b] = misses[b]
        BY <1>00, <2>1, <3>3
      <4> QED
        BY <1>0, <2>1, <2>4, <3>1, <4>1 DEF WithinBudget, Budget
    <3> QED
      BY <3>2, <3>3
  <2> QED
    BY <1>0, <2>2, <2>3, <2>4 DEF AgeInvariant, WithinBudget
<1>7. ASSUME NEW a \in Agents, PollLoop(a) \/ LeaseTask(a) \/ NoWork(a) \/ Finish(a)
      PROVE  AgeInvariant'
  BY <1>0, <1>7, QuietStep DEF PollLoop, LeaseTask, NoWork, Finish
<1>8. ASSUME NEW w \in Names, NEW s \in {"online", "draining", "offline"}, SetState(w, s)
      PROVE  AgeInvariant'
  BY <1>0, <1>8, OtherRows, QuietStep DEF SetState
<1>9. CASE MarkStaleOffline
  BY <1>0, <1>9, OtherRows, QuietStep DEF MarkStaleOffline
<1>10. CASE Tick
  <2>1. \A x \in Names : row'[x].cred = row[x].cred /\ row'[x].age <= row[x].age + 1
    BY <1>0, <1>10, OtherRows
  <2>2. UNCHANGED <<life, misses>>
    BY <1>10 DEF Tick
  <2>3. ASSUME NEW a \in Agents
        PROVE  /\ due[a] > 0 => due'[a] = due[a] - 1
               /\ due[a] = 0 => due'[a] = 0
               /\ beat[a] = NoBeat => beat'[a] = NoBeat
               /\ beat[a] # NoBeat => /\ beat'[a] # NoBeat
                                      /\ beat'[a].wait = beat[a].wait + 1
                                      /\ beat[a].wait < MaxLatency
    <3>1. beat[a] # NoBeat => beat'[a].wait = beat[a].wait + 1
      BY <1>0, <1>10, TickBeats
    <3>2. beat[a] # NoBeat => beat'[a] # NoBeat
      BY <1>0, <3>1, Numbers, Bounds
    <3> QED
      BY <1>0, <1>10, <3>1, <3>2, TickBeats
  <2>4. CredentialOwned'
    BY <1>0, <2>1, <2>2, <2>3 DEF CredentialOwned
  <2>5. TickerRuns'
    <3>1. ASSUME NEW a \in Agents PROVE due'[a] + beat'[a].wait <= HeartbeatInterval
      <4>1. /\ due[a] \in Nat /\ beat[a].wait \in Nat
            /\ due[a] + beat[a].wait <= HeartbeatInterval /\ due[a] <= HeartbeatInterval
        BY <1>0, Numbers DEF TickerRuns
      <4>2. CASE beat[a] = NoBeat
        BY <2>3, <4>1, <4>2, Bounds
      <4>3. CASE beat[a] # NoBeat
        BY <2>3, <4>1, <4>3
      <4> QED
        BY <4>2, <4>3
    <3> QED
      BY <3>1 DEF TickerRuns
  <2>6. ASSUME NEW b \in Agents, NEW w \in Names, Serving(b, w)', misses'[b] <= 1
        PROVE  IF beat'[b] = NoBeat THEN row'[w].age + due'[b] <= Budget(b)'
                                    ELSE row'[w].age <= Budget(b)' + beat'[b].wait
    <3>1. Serving(b, w) /\ misses[b] <= 1 /\ Budget(b)' = Budget(b)
      BY <2>1, <2>2, <2>6 DEF Serving, Budget
    <3>2. /\ row[w].age \in Nat /\ due[b] \in Nat /\ beat[b].wait \in Nat /\ Budget(b) \in Nat
          /\ row'[w].age \in Nat
      <4>1. AreNumbers'
        BY <1>0, NumbersTyped, PTL
      <4> QED
        BY <1>0, <4>1, Numbers DEF AreNumbers
    <3>3. row'[w].age <= row[w].age + 1
      BY <2>1
    <3>4. CASE beat[b] = NoBeat
      <4>1. due[b] > 0
        BY <1>10, <3>1, <3>4 DEF Tick, Serving
      <4>2. row[w].age + due[b] <= Budget(b)
        BY <1>0, <3>1, <3>4 DEF WithinBudget
      <4> QED
        BY <2>3, <3>1, <3>2, <3>3, <3>4, <4>1, <4>2
    <3>5. CASE beat[b] # NoBeat
      <4>1. row[w].age <= Budget(b) + beat[b].wait
        BY <1>0, <3>1, <3>5 DEF WithinBudget
      <4> QED
        BY <2>3, <3>1, <3>2, <3>3, <3>5, <4>1
    <3> QED
      BY <3>4, <3>5
  <2> QED
    BY <1>0, <2>4, <2>5, <2>6 DEF AgeInvariant, WithinBudget
<1>11. CASE UNCHANGED vars
  BY <1>0, <1>11, QuietStep DEF vars
<1> QED
  BY <1>1, <1>2, <1>3, <1>4, <1>5, <1>6, <1>7, <1>8, <1>9, <1>10, <1>11 DEF Next,
     HeartbeatLoop

----------------------------------------------------------------------------
(* Theorems *)

\* The budget ends before the sweep's patience does.
LEMMA BudgetSuffices ==
    ASSUME MaxLatency <= HeartbeatInterval, AgeInvariant
    PROVE  RegistryInvariant
<1>1. ASSUME NEW a \in Agents, NEW w \in Names, Serving(a, w), misses[a] <= 1
      PROVE  row[w].age <= WorkerStaleAfter
  <2>1. IF beat[a] = NoBeat THEN row[w].age + due[a] <= Budget(a)
                            ELSE row[w].age <= Budget(a) + beat[a].wait
    BY <1>1 DEF AgeInvariant, WithinBudget
  <2>2. /\ row[w].age \in Nat /\ due[a] \in Nat /\ beat[a].wait \in 0 .. MaxLatency
        /\ Budget(a) <= 2 * HeartbeatInterval /\ Budget(a) \in Nat
    BY Numbers DEF AgeInvariant, Budget
  <2> QED
    BY <2>1, <2>2, Bounds
<1> QED
  BY <1>1 DEF RegistryInvariant, ServedWorkerNotStale, AgeInvariant

LEMMA AgeInit == Init => AgeInvariant
<1> SUFFICES ASSUME Init PROVE AgeInvariant
  OBVIOUS
<1>1. TypeOK
  BY TypeInit
<1>2. CredentialOwned
  BY DEF Init, CredentialOwned, Absent
<1>3. TickerRuns
  BY Bounds DEF Init, TickerRuns
<1>4. WithinBudget
  BY DEF Init, WithinBudget, Serving
<1> QED
  BY <1>1, <1>2, <1>3, <1>4 DEF AgeInvariant

\* "Three missed beats, so one slow tick does not evict a healthy worker"
\* (config.go): as long as no heartbeat request takes longer than an interval, a
\* worker whose process is alive and lost at most one heartbeat since the last
\* that arrived is not stale, so MarkStaleOffline leaves it alone. The sum of one
\* interval of waiting, one lost heartbeat and one late one is what the three
\* intervals of WorkerStaleAfter pay for.
THEOREM ServedWorkersStay ==
    ASSUME MaxLatency <= HeartbeatInterval
    PROVE  Spec => []RegistryInvariant
<1>1. AgeInvariant /\ [Next]_vars => AgeInvariant'
  BY AgeStep
<1>2. AgeInvariant => RegistryInvariant
  BY BudgetSuffices
<1> QED
  BY AgeInit, <1>1, <1>2, PTL DEF Spec
=============================================================================
