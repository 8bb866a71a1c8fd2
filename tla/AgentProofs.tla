----------------------------- MODULE AgentProofs ----------------------------
(***************************************************************************)
(* Proofs about WorkerAgent, for any lease, timeout, backoff and number of *)
(* outputs: what the control plane records of an attempt is true of it,    *)
(* and, by an argument about time, the lease of a worker whose calls are   *)
(* prompt does not run out under it although one of them is lost.          *)
(***************************************************************************)
EXTENDS WorkerAgent, TLAPS

USE AgentAssumption

----------------------------------------------------------------------------
(* Lemmas about calls *)

Callers == {"main", "keep"}

CallRecord ==
    [kind : {"none", "start", "progress", "register", "complete"},
     at : {"none", "sent", "answered"},
     ans : {"none", "ok", "cancel", "stale", "error"}, age : 0 .. CallTimeout]

\* No call, and a call that has just been sent.
LEMMA FreshCall ==
    /\ NoCall \in CallRecord /\ NoCall.at = "none" /\ NoCall.ans = "none" /\ NoCall.age = 0
    /\ \A kind \in {"start", "progress", "register", "complete"} :
         /\ Call(kind) \in CallRecord /\ Call(kind).kind = kind /\ Call(kind).at = "sent"
         /\ Call(kind).ans = "none" /\ Call(kind).age = 0
<1>1. /\ NoCall \in CallRecord /\ NoCall.at = "none" /\ NoCall.ans = "none" /\ NoCall.age = 0
  BY DEF NoCall, CallRecord
<1>2. ASSUME NEW kind \in {"start", "progress", "register", "complete"}
      PROVE  /\ Call(kind) \in CallRecord /\ Call(kind).kind = kind /\ Call(kind).at = "sent"
             /\ Call(kind).ans = "none" /\ Call(kind).age = 0
  <2>1. Call(kind) \in CallRecord
    BY <1>1 DEF Call, CallRecord
  <2> QED
    BY <2>1 DEF Call, NoCall
<1> QED
  BY <1>1, <1>2

\* One goroutine's call is replaced.
LEMMA SetCall ==
    ASSUME TypeOK, NEW k \in Callers, NEW c \in CallRecord, call' = [call EXCEPT ![k] = c]
    PROVE  /\ call' \in [Callers -> CallRecord] /\ call'[k] = c
           /\ \A j \in Callers : j # k => call'[j] = call[j]
BY DEF TypeOK, Callers, CallRecord

\* One goroutine's call is answered.
LEMMA AnswerCall ==
    ASSUME TypeOK, NEW k \in Callers, NEW a \in {"none", "ok", "cancel", "stale", "error"},
           call' = [call EXCEPT ![k].at = "answered", ![k].ans = a]
    PROVE  /\ call' \in [Callers -> CallRecord]
           /\ call'[k].at = "answered" /\ call'[k].ans = a
           /\ call'[k].kind = call[k].kind /\ call'[k].age = call[k].age
           /\ \A j \in Callers : j # k => call'[j] = call[j]
BY DEF TypeOK, Callers, CallRecord

\* The same of execute's call and of keepAlive's.
LEMMA AnswerMain ==
    ASSUME TypeOK, NEW a \in {"none", "ok", "cancel", "stale", "error"},
           call' = [call EXCEPT !["main"].at = "answered", !["main"].ans = a]
    PROVE  /\ call' \in [Callers -> CallRecord]
           /\ call'["main"].at = "answered" /\ call'["main"].ans = a
           /\ call'["main"].kind = call["main"].kind /\ call'["main"].age = call["main"].age
           /\ call'["keep"] = call["keep"]
BY DEF TypeOK, Callers, CallRecord

LEMMA AnswerKeep ==
    ASSUME TypeOK, NEW a \in {"none", "ok", "cancel", "stale", "error"},
           call' = [call EXCEPT !["keep"].at = "answered", !["keep"].ans = a]
    PROVE  /\ call' \in [Callers -> CallRecord]
           /\ call'["keep"].at = "answered" /\ call'["keep"].ans = a
           /\ call'["keep"].kind = call["keep"].kind /\ call'["keep"].age = call["keep"].age
           /\ call'["main"] = call["main"]
BY DEF TypeOK, Callers, CallRecord

\* The type of the calls, named.
LEMMA CallsTyped ==
    /\ TypeOK => call \in [Callers -> CallRecord] /\ call["main"] \in CallRecord
                 /\ call["keep"] \in CallRecord
    /\ "main" \in Callers /\ "keep" \in Callers
BY DEF TypeOK, Callers, CallRecord

\* report has a wait for each of its tries.
LEMMA TriesFinite == Len(Backoff) \in Nat /\ Len(Backoff) >= 1
OBVIOUS

\* keepAlive's interval fits into the lease.
LEMMA RenewFits == RenewEvery \in 1 .. LeaseTTL
BY DEF RenewEvery

----------------------------------------------------------------------------
(* What the control plane records *)

LEMMA RecordInit == Init => RecordIsTrue
<1> SUFFICES ASSUME Init PROVE RecordIsTrue
  OBVIOUS
<1>1. call["main"] = NoCall /\ call["keep"] = NoCall /\ call \in [Callers -> CallRecord]
  BY FreshCall DEF Init, Callers
<1>2. TypeOK
  <2>1. cancelled \in BOOLEAN /\ fired \in BOOLEAN /\ stopped \in BOOLEAN /\ slow \in BOOLEAN
    BY DEF Init
  <2>2. /\ att \in AttemptStates /\ ttl \in 0 .. LeaseTTL /\ ticker \in 0 .. LeaseTTL
        /\ left \in 0 .. Artifacts /\ try \in 0 .. Len(Backoff) /\ sleep \in Nat
        /\ losses \in 0 .. MaxLosses
    BY TriesFinite DEF Init, AttemptStates
  <2> QED
    BY <1>1, <2>1, <2>2 DEF Init, TypeOK, Callers, CallRecord
<1>3. CallsOK
  BY <1>1, FreshCall DEF Init, CallsOK
<1> QED
  BY <1>2, <1>3 DEF Init, RecordIsTrue, SuccessIsRegistered, StoppedWorkLeavesNoTrace

\* ReceiveAssignment: Started is called.
LEMMA RecordReceiveAssignment ==
    ASSUME RecordIsTrue, ReceiveAssignment
    PROVE  RecordIsTrue'
<1>1. call' \in [Callers -> CallRecord] /\ call'["main"] = Call("start") /\ call'["keep"] = call["keep"]
  BY FreshCall, SetCall, CallsTyped DEF RecordIsTrue, ReceiveAssignment
<1>2. TypeOK'
  BY <1>1, RenewFits, TriesFinite DEF RecordIsTrue, TypeOK, CallsOK,
     ReceiveAssignment, store, AttemptStates,
     FailureClasses, Callers, CallRecord
<1>3. CallsOK'
  BY <1>1, FreshCall DEF RecordIsTrue, TypeOK, CallsOK, ReceiveAssignment, store,
     Executing, Live
<1> QED
  BY <1>2, <1>3 DEF RecordIsTrue, TypeOK, CallsOK, SuccessIsRegistered,
     StoppedWorkLeavesNoTrace, ReceiveAssignment, store, Live, Executing

\* NoExecutor: a report of a failure.
LEMMA RecordNoExecutor ==
    ASSUME RecordIsTrue, NoExecutor
    PROVE  RecordIsTrue'
<1>1. /\ call' \in [Callers -> CallRecord]
      /\ call'["main"] = Call("complete") /\ call'["keep"] = call["keep"]
  BY FreshCall, SetCall, CallsTyped DEF RecordIsTrue, NoExecutor
<1>2. TypeOK'
  BY <1>1, RenewFits, TriesFinite DEF RecordIsTrue, TypeOK, CallsOK, NoExecutor,
     store, AttemptStates,
     FailureClasses, Callers, CallRecord
<1>3. CallsOK'
  BY <1>1, FreshCall DEF RecordIsTrue, TypeOK, CallsOK, NoExecutor, store, Executing,
     Live
<1> QED
  BY <1>2, <1>3 DEF RecordIsTrue, TypeOK, CallsOK, SuccessIsRegistered,
     StoppedWorkLeavesNoTrace, NoExecutor, store, Live, Executing

\* AnswerStarted: the executor starts, and with it keepAlive.
LEMMA RecordAnswerStarted ==
    ASSUME RecordIsTrue, AnswerStarted
    PROVE  RecordIsTrue'
<1>1. call' \in [Callers -> CallRecord] /\ call'["main"] = NoCall /\ call'["keep"] = call["keep"]
  BY FreshCall, SetCall, CallsTyped DEF RecordIsTrue, AnswerStarted
<1>2. TypeOK'
  BY <1>1, RenewFits, TriesFinite DEF RecordIsTrue, TypeOK, CallsOK, AnswerStarted,
     store, AttemptStates,
     FailureClasses, Callers, CallRecord
<1>3. CallsOK'
  BY <1>1, FreshCall DEF RecordIsTrue, TypeOK, CallsOK, AnswerStarted, store,
     Executing, Live
<1> QED
  BY <1>2, <1>3 DEF RecordIsTrue, TypeOK, CallsOK, SuccessIsRegistered,
     StoppedWorkLeavesNoTrace, AnswerStarted, store, Live, Executing

\* TaskCancelled: nothing is reported.
LEMMA RecordTaskCancelled ==
    ASSUME RecordIsTrue, TaskCancelled
    PROVE  RecordIsTrue'
<1>1. call' = call
  BY DEF TaskCancelled
<1>2. TypeOK'
  BY <1>1, RenewFits, TriesFinite DEF RecordIsTrue, TypeOK, CallsOK, TaskCancelled,
     CloseDone, store, AttemptStates,
     FailureClasses, Callers, CallRecord
<1>3. CallsOK'
  BY <1>1, FreshCall DEF RecordIsTrue, TypeOK, CallsOK, TaskCancelled, CloseDone,
     store, Executing, Live
<1> QED
  BY <1>2, <1>3 DEF RecordIsTrue, TypeOK, CallsOK, SuccessIsRegistered,
     StoppedWorkLeavesNoTrace, TaskCancelled, CloseDone, store, Live, Executing

\* AnswerRegister: a success goes on to be reported only when everything is registered.
LEMMA RecordAnswerRegister ==
    ASSUME RecordIsTrue, AnswerRegister
    PROVE  RecordIsTrue'
<1>1. \E c \in {NoCall, Call("complete"), Call("register")} :
        /\ call' \in [Callers -> CallRecord] /\ call'["main"] = c /\ call'["keep"] = call["keep"]
        /\ main' = "done" <=> c = NoCall
        /\ main' = "report" <=> c = Call("complete")
        /\ main' = "register" <=> c = Call("register")
        /\ main' \in {"done", "report", "register"}
  <2>1. NoCall # Call("complete") /\ NoCall # Call("register") /\ Call("complete") # Call("register")
    BY FreshCall
  <2> QED
    BY <2>1, FreshCall, SetCall, CallsTyped DEF RecordIsTrue, AnswerRegister, Deliver
<1>2. TypeOK'
  BY <1>1, RenewFits, TriesFinite DEF RecordIsTrue, TypeOK, CallsOK, AnswerRegister,
     Deliver, store, AttemptStates,
     FailureClasses, Callers, CallRecord
<1>3. CallsOK'
  BY <1>1, FreshCall DEF RecordIsTrue, TypeOK, CallsOK, AnswerRegister, Deliver,
     store, Executing, Live
<1> QED
  BY <1>2, <1>3 DEF RecordIsTrue, TypeOK, CallsOK, SuccessIsRegistered,
     StoppedWorkLeavesNoTrace, AnswerRegister, Deliver, store, Live, Executing

\* AnswerComplete: the report is over, or is tried again after a wait.
LEMMA RecordAnswerComplete ==
    ASSUME RecordIsTrue, AnswerComplete
    PROVE  RecordIsTrue'
<1>1. call' \in [Callers -> CallRecord] /\ call'["main"] = NoCall /\ call'["keep"] = call["keep"]
  BY FreshCall, SetCall, CallsTyped DEF RecordIsTrue, AnswerComplete
<1>2. TypeOK'
  BY <1>1, RenewFits, TriesFinite DEF RecordIsTrue, TypeOK, CallsOK, AnswerComplete,
     store, AttemptStates,
     FailureClasses, Callers, CallRecord
<1>3. CallsOK'
  BY <1>1, FreshCall DEF RecordIsTrue, TypeOK, CallsOK, AnswerComplete, store,
     Executing, Live
<1> QED
  BY <1>2, <1>3 DEF RecordIsTrue, TypeOK, CallsOK, SuccessIsRegistered,
     StoppedWorkLeavesNoTrace, AnswerComplete, store, Live, Executing

\* Retry: the same report is tried again.
LEMMA RecordRetry ==
    ASSUME RecordIsTrue, Retry
    PROVE  RecordIsTrue'
<1>1. \/ /\ call' \in [Callers -> CallRecord] /\ call'["main"] = Call("complete")
         /\ call'["keep"] = call["keep"] /\ main' = "report" /\ try' = try + 1
         /\ try < Len(Backoff)
      \/ call' = call /\ main' = "done" /\ try' = try
  BY FreshCall, SetCall, CallsTyped DEF RecordIsTrue, Retry
<1>2. TypeOK'
  BY <1>1, RenewFits, TriesFinite DEF RecordIsTrue, TypeOK, CallsOK, Retry, store,
     AttemptStates,
     FailureClasses, Callers, CallRecord
<1>3. CallsOK'
  BY <1>1, FreshCall DEF RecordIsTrue, TypeOK, CallsOK, Retry, store, Executing, Live
<1> QED
  BY <1>2, <1>3 DEF RecordIsTrue, TypeOK, CallsOK, SuccessIsRegistered,
     StoppedWorkLeavesNoTrace, Retry, store, Live, Executing

\* ToolEnds: the executor goes on.
LEMMA RecordToolEnds ==
    ASSUME RecordIsTrue, ToolEnds
    PROVE  RecordIsTrue'
<1>1. call' = call
  BY DEF ToolEnds
<1>2. TypeOK'
  BY <1>1, RenewFits, TriesFinite DEF RecordIsTrue, TypeOK, CallsOK, ToolEnds, store,
     AttemptStates,
     FailureClasses, Callers, CallRecord
<1>3. CallsOK'
  BY <1>1, FreshCall DEF RecordIsTrue, TypeOK, CallsOK, ToolEnds, store, Executing, Live
<1> QED
  BY <1>2, <1>3 DEF RecordIsTrue, TypeOK, CallsOK, SuccessIsRegistered,
     StoppedWorkLeavesNoTrace, ToolEnds, store, Live, Executing

\* ExecutorReturns: keepAlive ends, and a success with outputs registers them first.
LEMMA RecordExecutorReturns ==
    ASSUME RecordIsTrue, ExecutorReturns
    PROVE  RecordIsTrue'
<1>1. \E c \in {Call("complete"), Call("register")} :
        /\ call' \in [Callers -> CallRecord] /\ call'["main"] = c /\ call'["keep"] = call["keep"]
        /\ main' = "report" <=> c = Call("complete")
        /\ main' = "register" <=> c = Call("register")
        /\ main' \in {"report", "register"}
  <2>1. Call("complete") # Call("register")
    BY FreshCall
  <2> QED
    BY <2>1, FreshCall, SetCall, CallsTyped DEF RecordIsTrue, ExecutorReturns, Deliver
<1>2. TypeOK'
  <2>1. result' \in {"none", "success"} \cup FailureClasses
    BY DEF ExecutorReturns, Deliver, FailureClasses
  <2>2. keep' \in {"off", "ending"}
    BY DEF ExecutorReturns, CloseDone
  <2>3. try' \in 0 .. Len(Backoff)
    BY TriesFinite DEF RecordIsTrue, TypeOK, ExecutorReturns, Deliver
  <2>4. UNCHANGED <<att, ttl, cancelled, ticker, fired, stopped, left, sleep, losses, slow>>
    BY DEF ExecutorReturns, store
  <2> QED
    BY <1>1, <2>1, <2>2, <2>3, <2>4 DEF RecordIsTrue, TypeOK, Callers, CallRecord
<1>3. CallsOK'
  BY <1>1, FreshCall DEF RecordIsTrue, TypeOK, CallsOK, ExecutorReturns, CloseDone,
     Deliver, store, Executing, Live
<1>4. /\ att \notin {"succeeded", "failed"} /\ UNCHANGED <<att, cancelled, stopped, left>>
      /\ main' \in {"report", "register"}
  BY DEF RecordIsTrue, ExecutorReturns, Deliver, store
<1>5. main' = "report" /\ result' = "success" => left = 0
  BY DEF ExecutorReturns, Deliver, FailureClasses
<1> QED
  BY <1>2, <1>3, <1>4, <1>5 DEF RecordIsTrue, SuccessIsRegistered,
     StoppedWorkLeavesNoTrace

\* SendProgress: keepAlive calls.
LEMMA RecordSendProgress ==
    ASSUME RecordIsTrue, SendProgress
    PROVE  RecordIsTrue'
<1>1. /\ call' \in [Callers -> CallRecord]
      /\ call'["keep"] = Call("progress") /\ call'["main"] = call["main"]
  BY FreshCall, SetCall, CallsTyped DEF RecordIsTrue, SendProgress
<1>2. TypeOK'
  <2>1. fired' \in BOOLEAN
    BY DEF SendProgress
  <2> QED
    BY <1>1, <2>1 DEF RecordIsTrue, TypeOK, SendProgress, store, Callers, CallRecord
<1>3. CallsOK'
  BY <1>1, FreshCall DEF RecordIsTrue, TypeOK, CallsOK, SendProgress, store,
     Executing, Live
<1> QED
  BY <1>2, <1>3 DEF RecordIsTrue, TypeOK, CallsOK, SuccessIsRegistered,
     StoppedWorkLeavesNoTrace, SendProgress, store, Live, Executing

\* AnswerProgress: the run is stopped only when the attempt or its task is over.
LEMMA RecordAnswerProgress ==
    ASSUME RecordIsTrue, AnswerProgress
    PROVE  RecordIsTrue'
<1>1. call' \in [Callers -> CallRecord] /\ call'["keep"] = NoCall /\ call'["main"] = call["main"]
  BY FreshCall, SetCall, CallsTyped DEF RecordIsTrue, AnswerProgress
<1>2. TypeOK'
  BY <1>1, RenewFits, TriesFinite DEF RecordIsTrue, TypeOK, CallsOK, AnswerProgress,
     store, AttemptStates,
     FailureClasses, Callers, CallRecord
<1>3. CallsOK'
  BY <1>1, FreshCall DEF RecordIsTrue, TypeOK, CallsOK, AnswerProgress, store,
     Executing, Live
<1> QED
  BY <1>2, <1>3 DEF RecordIsTrue, TypeOK, CallsOK, SuccessIsRegistered,
     StoppedWorkLeavesNoTrace, AnswerProgress, store, Live, Executing

\* LoseAssignment: nobody works on the attempt.
LEMMA RecordLoseAssignment ==
    ASSUME RecordIsTrue, LoseAssignment
    PROVE  RecordIsTrue'
<1>1. call' = call
  BY DEF LoseAssignment
<1>2. TypeOK'
  BY <1>1, RenewFits, TriesFinite DEF RecordIsTrue, TypeOK, CallsOK, LoseAssignment,
     store, AttemptStates,
     FailureClasses, Callers, CallRecord
<1>3. CallsOK'
  BY <1>1, FreshCall DEF RecordIsTrue, TypeOK, CallsOK, LoseAssignment, store,
     Executing, Live
<1> QED
  BY <1>2, <1>3 DEF RecordIsTrue, TypeOK, CallsOK, SuccessIsRegistered,
     StoppedWorkLeavesNoTrace, LoseAssignment, store, Live, Executing

\* Expire: the attempt is over without a verdict.
LEMMA RecordExpire ==
    ASSUME RecordIsTrue, Expire
    PROVE  RecordIsTrue'
<1>1. call' = call
  BY DEF Expire, agent
<1>2. TypeOK'
  BY <1>1, RenewFits, TriesFinite DEF RecordIsTrue, TypeOK, CallsOK, Expire, agent,
     store, AttemptStates,
     FailureClasses, Callers, CallRecord
<1>3. CallsOK'
  BY <1>1, FreshCall DEF RecordIsTrue, TypeOK, CallsOK, Expire, agent, store,
     Executing, Live
<1> QED
  BY <1>2, <1>3 DEF RecordIsTrue, TypeOK, CallsOK, SuccessIsRegistered,
     StoppedWorkLeavesNoTrace, Expire, agent, store, Live, Executing

\* Cancel: the task is cancelled.
LEMMA RecordCancel ==
    ASSUME RecordIsTrue, Cancel
    PROVE  RecordIsTrue'
<1>1. call' = call
  BY DEF Cancel, agent
<1>2. TypeOK'
  BY <1>1, RenewFits, TriesFinite DEF RecordIsTrue, TypeOK, CallsOK, Cancel, agent,
     store, AttemptStates,
     FailureClasses, Callers, CallRecord
<1>3. CallsOK'
  BY <1>1, FreshCall DEF RecordIsTrue, TypeOK, CallsOK, Cancel, agent, store,
     Executing, Live
<1> QED
  BY <1>2, <1>3 DEF RecordIsTrue, TypeOK, CallsOK, SuccessIsRegistered,
     StoppedWorkLeavesNoTrace, Cancel, agent, store, Live, Executing

\* LoseCall: an answer of any kind turns into an error.
LEMMA RecordLoseCall ==
    ASSUME RecordIsTrue, NEW k \in Callers, LoseCall(k)
    PROVE  RecordIsTrue'
<1> DEFINE Rest == <<att, ttl, cancelled, main, keep, ticker, fired, stopped, result,
                     left, try, sleep, slow>>
<1>0. UNCHANGED Rest
  BY DEF LoseCall, store
<1>1. /\ call' \in [Callers -> CallRecord] /\ call'[k].ans = "error"
      /\ call[k].at # "none" /\ call'[k].at = "answered" /\ call'[k].kind = call[k].kind
      /\ \A j \in Callers : j # k => call'[j] = call[j]
  BY AnswerCall DEF RecordIsTrue, LoseCall
<1>2. TypeOK'
  <2>1. losses' \in 0 .. MaxLosses
    BY DEF LoseCall, RecordIsTrue, TypeOK
  <2> QED
    BY <1>0, <1>1, <2>1 DEF RecordIsTrue, TypeOK, Callers, CallRecord
<1>3. CallsOK'
  <2>1. CASE k = "main"
    <3>1. call'["keep"] = call["keep"] /\ call'["main"].kind = call["main"].kind
      BY <1>1, <2>1 DEF Callers
    <3> QED
      BY <3>1, <2>1, <1>0, <1>1 DEF RecordIsTrue, CallsOK, Executing, Live
  <2>2. CASE k = "keep"
    <3>1. call'["main"] = call["main"] /\ call'["keep"].kind = call["keep"].kind
      BY <1>1, <2>2 DEF Callers
    <3> QED
      BY <3>1, <2>2, <1>0, <1>1 DEF RecordIsTrue, CallsOK, Executing, Live
  <2> QED
    BY <2>1, <2>2 DEF Callers
<1> QED
  BY <1>0, <1>2, <1>3 DEF RecordIsTrue, SuccessIsRegistered, StoppedWorkLeavesNoTrace,
     Live

\* What a handler of the control plane leaves alone.
Untouched == <<main, keep, ticker, fired, stopped, result, left, try, sleep, losses, slow>>

\* A call that has been sent is the one its goroutine waits for.
LEMMA SentCall ==
    ASSUME RecordIsTrue, NEW k \in Callers, call[k].at = "sent"
    PROVE  \/ k = "main" /\ call[k].kind = "start" /\ main = "starting"
           \/ k = "main" /\ call[k].kind = "register" /\ main = "register"
           \/ k = "main" /\ call[k].kind = "complete" /\ main = "report"
           \/ k = "keep" /\ call[k].kind = "progress" /\ keep \in {"calling", "ending"}
BY DEF RecordIsTrue, TypeOK, CallsOK, Callers

\* handleWorkerStarted: no verdict yet.
LEMMA RecordHandleStarted ==
    ASSUME RecordIsTrue, call["main"].at = "sent", main = "starting", HandleStarted,
           UNCHANGED Untouched
    PROVE  RecordIsTrue'
<1>1. /\ call' \in [Callers -> CallRecord] /\ call'["main"].at = "answered"
      /\ call'["main"].kind = call["main"].kind /\ call'["keep"] = call["keep"]
  BY AnswerMain DEF RecordIsTrue, HandleStarted
<1>2. /\ att' \in AttemptStates /\ cancelled' = cancelled /\ ttl' \in 0 .. LeaseTTL
      /\ att' \notin {"succeeded", "failed"} /\ (att \notin Live => att' = att)
  BY DEF RecordIsTrue, TypeOK, HandleStarted, store, AttemptStates, Live
<1>3. TypeOK'
  BY <1>1, <1>2 DEF RecordIsTrue, TypeOK, Untouched, Callers, CallRecord
<1>4. CallsOK'
  BY <1>1, <1>2 DEF RecordIsTrue, CallsOK, Untouched, Executing
<1> QED
  BY <1>2, <1>3, <1>4
  DEF RecordIsTrue, SuccessIsRegistered, StoppedWorkLeavesNoTrace, Untouched

\* handleWorkerProgress: a worker is told that it is stale, or cancelled, when it is.
LEMMA RecordHandleProgress ==
    ASSUME RecordIsTrue, call["keep"].at = "sent", keep \in {"calling", "ending"},
           HandleProgress, UNCHANGED Untouched
    PROVE  RecordIsTrue'
<1>1. PICK a \in {"ok", "cancel", "stale"} :
        /\ call' = [call EXCEPT !["keep"].at = "answered", !["keep"].ans = a]
        /\ (a = "stale" => att \notin Live) /\ (a = "cancel" => cancelled)
        /\ ttl' \in {ttl, LeaseTTL}
  BY DEF HandleProgress
<1>2. /\ call' \in [Callers -> CallRecord] /\ call'["keep"].at = "answered"
      /\ call'["keep"].ans = a
      /\ call'["keep"].kind = call["keep"].kind /\ call'["main"] = call["main"]
  <2>1. TypeOK /\ a \in {"none", "ok", "cancel", "stale", "error"}
    BY DEF RecordIsTrue
  <2> QED
    BY <2>1, <1>1, AnswerKeep
<1>3. UNCHANGED <<att, cancelled>>
  BY DEF HandleProgress
<1>4. TypeOK'
  BY <1>1, <1>2, <1>3 DEF RecordIsTrue, TypeOK, Untouched, Callers, CallRecord
<1>5. CallsOK'
  BY <1>1, <1>2, <1>3 DEF RecordIsTrue, CallsOK, Untouched, Executing
<1> QED
  BY <1>3, <1>4, <1>5
  DEF RecordIsTrue, SuccessIsRegistered, StoppedWorkLeavesNoTrace, Untouched

\* handleRegisterArtifact: the lease is only looked at.
LEMMA RecordHandleRegister ==
    ASSUME RecordIsTrue, call["main"].at = "sent", main = "register", HandleRegister,
           UNCHANGED Untouched
    PROVE  RecordIsTrue'
<1>1. /\ call' \in [Callers -> CallRecord] /\ call'["main"].at = "answered"
      /\ call'["main"].kind = call["main"].kind /\ call'["keep"] = call["keep"]
  <2>1. PICK a \in {"stale", "ok"} :
          call' = [call EXCEPT !["main"].at = "answered", !["main"].ans = a]
    BY DEF HandleRegister
  <2>2. TypeOK /\ a \in {"none", "ok", "cancel", "stale", "error"}
    BY DEF RecordIsTrue
  <2> QED
    BY <2>1, <2>2, AnswerMain
<1>2. UNCHANGED store
  BY DEF HandleRegister
<1>3. TypeOK'
  BY <1>1, <1>2 DEF RecordIsTrue, TypeOK, Untouched, store, Callers, CallRecord
<1>4. CallsOK'
  BY <1>1, <1>2 DEF RecordIsTrue, CallsOK, Untouched, Executing, store
<1> QED
  BY <1>2, <1>3, <1>4
  DEF RecordIsTrue, SuccessIsRegistered, StoppedWorkLeavesNoTrace, Untouched, store

\* handleWorkerComplete: a verdict is recorded of an open attempt whose task is not
\* cancelled, which a run that was stopped does not have.
LEMMA RecordHandleComplete ==
    ASSUME RecordIsTrue, call["main"].at = "sent", main = "report", HandleComplete,
           UNCHANGED Untouched
    PROVE  RecordIsTrue'
<1>1. /\ call' \in [Callers -> CallRecord] /\ call'["main"].at = "answered"
      /\ call'["main"].kind = call["main"].kind /\ call'["keep"] = call["keep"]
  <2>1. PICK a \in {"stale", "ok", "error"} :
          call' = [call EXCEPT !["main"].at = "answered", !["main"].ans = a]
    BY DEF HandleComplete
  <2> QED
    BY <2>1, AnswerMain DEF RecordIsTrue
<1>2. /\ UNCHANGED <<ttl, cancelled>>
      /\ \/ att' = att
         \/ att \in Live /\ cancelled /\ att' = "cancelled"
         \/ att \in Live /\ ~cancelled /\ result = "success" /\ att' = "succeeded"
         \/ att \in Live /\ ~cancelled /\ result # "success" /\ att' = "failed"
  BY DEF HandleComplete
<1>3. TypeOK'
  BY <1>1, <1>2 DEF RecordIsTrue, TypeOK, Untouched, AttemptStates, Callers, CallRecord
<1>4. CallsOK'
  BY <1>1, <1>2 DEF RecordIsTrue, CallsOK, Untouched, Executing, Live
<1> QED
  BY <1>2, <1>3, <1>4
  DEF RecordIsTrue, SuccessIsRegistered, StoppedWorkLeavesNoTrace, Untouched

LEMMA RecordServe ==
    ASSUME RecordIsTrue, NEW k \in Callers, Serve(k)
    PROVE  RecordIsTrue'
<1>1. call[k].at = "sent" /\ UNCHANGED Untouched
  BY DEF Serve, Untouched
<1> QED
  BY <1>1, SentCall, RecordHandleStarted, RecordHandleProgress, RecordHandleRegister,
     RecordHandleComplete DEF Serve

\* Tick: calls grow older, nothing else about them changes.
LEMMA TickCalls ==
    ASSUME TypeOK, Tick
    PROVE  /\ call' \in [Callers -> CallRecord]
           /\ \A k \in Callers :
                /\ call'[k].at = call[k].at /\ (call[k].at = "none" => call'[k] = NoCall)
                /\ call[k].at # "none" =>
                     /\ call'[k].kind = call[k].kind /\ call'[k].ans = call[k].ans
                     /\ call'[k].age = call[k].age + 1
<1> SUFFICES ASSUME NEW k \in Callers
             PROVE  /\ call'[k] \in CallRecord
                    /\ call'[k].at = call[k].at /\ (call[k].at = "none" => call'[k] = NoCall)
                    /\ call[k].at # "none" =>
                         /\ call'[k].kind = call[k].kind /\ call'[k].ans = call[k].ans
                         /\ call'[k].age = call[k].age + 1
  BY DEF Tick, Callers
<1>1. /\ call[k] \in CallRecord
      /\ call'[k] = IF call[k].at = "none" THEN NoCall
                    ELSE [call[k] EXCEPT !.age = call[k].age + 1]
      /\ call[k].at # "none" => call[k].age < CallTimeout
  BY DEF Tick, TypeOK, Callers, CallRecord
<1>2. CASE call[k].at = "none"
  BY <1>1, <1>2, FreshCall
<1>3. CASE call[k].at # "none"
  BY <1>1, <1>3 DEF CallRecord
<1> QED
  BY <1>2, <1>3

LEMMA RecordTick ==
    ASSUME RecordIsTrue, Tick
    PROVE  RecordIsTrue'
<1>1. /\ call' \in [Callers -> CallRecord]
      /\ \A k \in Callers :
           /\ call'[k].at = call[k].at /\ (call[k].at = "none" => call'[k] = NoCall)
           /\ call[k].at # "none" =>
                call'[k].kind = call[k].kind /\ call'[k].ans = call[k].ans
  BY TickCalls DEF RecordIsTrue
<1>2. TypeOK'
  <2>1. fired' \in BOOLEAN /\ slow' \in BOOLEAN
    BY DEF Tick
  <2>2. ttl' \in 0 .. LeaseTTL /\ ticker' \in 0 .. LeaseTTL /\ sleep' \in Nat
    <3>1. ttl \in 0 .. LeaseTTL /\ ticker \in 0 .. LeaseTTL /\ sleep \in Nat
      BY DEF RecordIsTrue, TypeOK
    <3>2. \/ ticker' = ticker - 1 /\ ticker > 1
          \/ ticker' \in {0, RenewEvery}
      BY DEF Tick
    <3>3. ticker' \in 0 .. LeaseTTL
      BY <3>1, <3>2, RenewFits
    <3> QED
      BY <3>1, <3>3 DEF Tick
  <2> QED
    BY <1>1, <2>1, <2>2 DEF RecordIsTrue, TypeOK, Tick, Callers, CallRecord
<1>3. CallsOK'
  BY <1>1, FreshCall, CallsTyped DEF RecordIsTrue, CallsOK, Tick, Executing
<1> QED
  BY <1>2, <1>3 DEF RecordIsTrue, SuccessIsRegistered, StoppedWorkLeavesNoTrace, Tick

LEMMA RecordStep == RecordIsTrue /\ [Next]_vars => RecordIsTrue'
<1> SUFFICES ASSUME RecordIsTrue, [Next]_vars PROVE RecordIsTrue'
  OBVIOUS
<1>1. CASE Execute
  BY <1>1, RecordReceiveAssignment, RecordNoExecutor, RecordAnswerStarted,
     RecordTaskCancelled, RecordAnswerRegister, RecordAnswerComplete, RecordRetry
  DEF Execute
<1>2. CASE ToolEnds \/ ExecutorReturns \/ KeepAlive \/ LoseAssignment
  BY <1>2, RecordToolEnds, RecordExecutorReturns, RecordSendProgress,
     RecordAnswerProgress,
     RecordLoseAssignment DEF KeepAlive
<1>3. ASSUME NEW k \in Callers, Serve(k) \/ LoseCall(k) PROVE RecordIsTrue'
  BY <1>3, RecordServe, RecordLoseCall
<1>4. CASE Expire \/ Cancel \/ Tick
  BY <1>4, RecordExpire, RecordCancel, RecordTick
<1>5. CASE UNCHANGED vars
  BY <1>5 DEF vars, store, agent, RecordIsTrue, TypeOK, CallsOK, SuccessIsRegistered,
              StoppedWorkLeavesNoTrace, Executing
<1> QED
  BY <1>1, <1>2, <1>3, <1>4, <1>5 DEF Next, Callers

\* What the control plane has on record of an attempt is true: a success has all its
\* outputs registered, and of a run that was stopped neither a success nor a failure
\* is recorded, although it may still report either, and whatever calls were lost,
\* late or answered twice over.
THEOREM RecordsAreTrue == Spec => []RecordIsTrue
BY RecordInit, RecordStep, PTL DEF Spec

----------------------------------------------------------------------------
(* The lease of a worker at work *)

\* The time until keepAlive can next send a report, and the calls it may still lose.
Due == IF fired THEN 0 ELSE ticker
Spare == IF losses = 0 THEN RenewEvery ELSE 0

\* While every call is answered within a time unit and at most one is lost, the lease
\* outlasts the next renewal: while keepAlive waits, by the time to its next tick, a
\* call, and an interval more if that call may be lost; while it calls, by what the
\* call may still take, or until the renewal after it if this one may be lost.
LeaseAhead ==
    /\ fired => ticker = RenewEvery
    /\ keep = "waiting" => ticker \in 1 .. RenewEvery /\ ttl > Due + 1 + Spare
    /\ keep = "calling" =>
         /\ ticker \in 1 .. RenewEvery /\ Due + call["keep"].age >= RenewEvery
         /\ call["keep"].ans \in {"ok", "error"} => ttl > Due + 1 + Spare
         /\ call["keep"].ans \notin {"ok", "error"} =>
              ttl + call["keep"].age > 1 /\ (losses = 0 => ttl > Due + 1)

\* From the answer to the poll on the lease is never short of what the worker needs.
LeaseInvariant ==
    (losses <= 1 /\ ~slow) =>
      /\ \A k \in {"main", "keep"} : call[k].age <= 1
      /\ main = "polling" => att = "leased" /\ ttl = LeaseTTL
      /\ main = "starting" => att # "expired" /\ ttl + call["main"].age >= LeaseTTL
      /\ Executing => att # "expired" /\ (att \in Live => ttl > 0)
      /\ Executing /\ att \in Live /\ ~stopped => keep \in {"waiting", "calling"} /\ LeaseAhead

\* Two renewals and two calls fit into the lease. In the code's units: a lease of a
\* minute is renewed every twenty seconds, so calls may take nearly ten.
RoomForTwo == 2 * RenewEvery + 2 < LeaseTTL

\* What the arithmetic needs to know.
LEMMA LeaseNumbers ==
    ASSUME RecordIsTrue
    PROVE  /\ ttl \in Nat /\ ticker \in Nat /\ losses \in Nat /\ RenewEvery \in Nat
           /\ RenewEvery >= 1 /\ LeaseTTL \in Nat
           /\ Due \in Nat /\ Spare \in Nat /\ (losses = 0 => Spare = RenewEvery)
           /\ (losses # 0 => Spare = 0) /\ (fired => Due = 0) /\ (~fired => Due = ticker)
           /\ call["main"].age \in Nat /\ call["keep"].age \in Nat
BY RenewFits DEF RecordIsTrue, TypeOK, Due, Spare

LEMMA LeaseInit == Init => LeaseInvariant
<1> SUFFICES ASSUME Init PROVE LeaseInvariant
  OBVIOUS
<1>1. call["main"].age = 0 /\ call["keep"].age = 0
  BY FreshCall DEF Init
<1> QED
  BY <1>1 DEF Init, LeaseInvariant, Executing

\* Once the executor has returned nothing is left to keep, and no call is older.
LEMMA LeaseOver ==
    ASSUME LeaseInvariant, main' \notin {"polling", "starting", "tool", "upload"},
           UNCHANGED <<losses, slow>>, call'["main"].age \in {0, call["main"].age},
           call'["keep"] = call["keep"]
    PROVE  LeaseInvariant'
BY DEF LeaseInvariant, Executing

\* ReceiveAssignment: the lease is as new.
LEMMA LeaseReceiveAssignment ==
    ASSUME RecordIsTrue, RecordIsTrue', LeaseInvariant, RoomForTwo, ReceiveAssignment
    PROVE  LeaseInvariant'
BY LeaseNumbers, FreshCall DEF RecordIsTrue, TypeOK, CallsOK, LeaseInvariant,
   LeaseAhead, Due, Spare, RoomForTwo,
   Executing, Live, Callers, ReceiveAssignment, store

\* NoExecutor: nothing is executed.
LEMMA LeaseNoExecutor ==
    ASSUME RecordIsTrue, RecordIsTrue', LeaseInvariant, RoomForTwo, NoExecutor
    PROVE  LeaseInvariant'
BY LeaseNumbers, FreshCall DEF RecordIsTrue, TypeOK, CallsOK, LeaseInvariant,
   LeaseAhead, Due, Spare, RoomForTwo,
   Executing, Live, Callers, NoExecutor, store

\* AnswerStarted: a call later, the first tick is an interval away.
LEMMA LeaseAnswerStarted ==
    ASSUME RecordIsTrue, RecordIsTrue', LeaseInvariant, RoomForTwo, AnswerStarted
    PROVE  LeaseInvariant'
<1> SUFFICES ASSUME losses <= 1, ~slow
             PROVE  LeaseInvariant'
  BY DEF LeaseInvariant, AnswerStarted
<1>1. /\ call'["main"].age = 0 /\ call'["keep"] = call["keep"]
      /\ UNCHANGED <<att, ttl, losses, slow, fired, stopped>>
      /\ \/ main' = "done"
         \/ main' = "tool" /\ keep' = "waiting" /\ ticker' = RenewEvery
  BY FreshCall, SetCall, CallsTyped DEF RecordIsTrue, AnswerStarted, store
<1>2. /\ att # "expired" /\ ttl + call["main"].age >= LeaseTTL /\ call["main"].age <= 1
      /\ call["keep"].age <= 1
  BY DEF LeaseInvariant, AnswerStarted
<1>3. CASE main' = "done"
  BY <1>1, <1>2, <1>3 DEF LeaseInvariant, Executing
<1>4. CASE main' = "tool" /\ keep' = "waiting" /\ ticker' = RenewEvery
  <2>0. \A r \in Nat, l \in Nat, t \in Nat, g \in Nat :
          2 * r + 2 < l /\ t + g >= l /\ g <= 1 => t > 2 * r + 1 /\ t > 0
    OBVIOUS
  <2>n. ttl \in Nat /\ RenewEvery \in Nat /\ LeaseTTL \in Nat /\ call["main"].age \in Nat
    BY LeaseNumbers
  <2>1. ttl > 2 * RenewEvery + 1 /\ ttl > 0
    BY <2>0, <2>n, <1>2, Zenon DEF RoomForTwo
  <2>2. Due' <= RenewEvery /\ Spare' <= RenewEvery /\ Due' \in Nat /\ Spare' \in Nat
    BY <1>1, <1>4, LeaseNumbers DEF Due, Spare
  <2>3. ttl' > Due' + 1 + Spare'
    BY <2>1, <2>2, <1>1, LeaseNumbers
  <2>4. LeaseAhead'
    BY <2>3, <1>1, <1>4, LeaseNumbers DEF LeaseAhead
  <2> QED
    BY <2>1, <2>4, <1>1, <1>2, <1>4, LeaseNumbers DEF LeaseInvariant, Executing
<1> QED
  BY <1>1, <1>3, <1>4

\* TaskCancelled: the work is over.
LEMMA LeaseTaskCancelled ==
    ASSUME RecordIsTrue, RecordIsTrue', LeaseInvariant, RoomForTwo, TaskCancelled
    PROVE  LeaseInvariant'
BY LeaseNumbers, FreshCall DEF RecordIsTrue, TypeOK, CallsOK, LeaseInvariant,
   LeaseAhead, Due, Spare, RoomForTwo,
   Executing, Live, Callers, TaskCancelled, CloseDone, store

\* AnswerRegister: the work is over.
LEMMA LeaseAnswerRegister ==
    ASSUME RecordIsTrue, RecordIsTrue', LeaseInvariant, RoomForTwo, AnswerRegister
    PROVE  LeaseInvariant'
<1>1. /\ main' \notin {"polling", "starting", "tool", "upload"} /\ UNCHANGED <<losses, slow>>
      /\ call'["main"].age = 0 /\ call'["keep"] = call["keep"]
  BY FreshCall, SetCall, CallsTyped DEF RecordIsTrue, AnswerRegister, Deliver
<1> QED
  BY <1>1, LeaseOver

\* AnswerComplete: the work is over.
LEMMA LeaseAnswerComplete ==
    ASSUME RecordIsTrue, RecordIsTrue', LeaseInvariant, RoomForTwo, AnswerComplete
    PROVE  LeaseInvariant'
BY LeaseNumbers, FreshCall DEF RecordIsTrue, TypeOK, CallsOK, LeaseInvariant,
   LeaseAhead, Due, Spare, RoomForTwo,
   Executing, Live, Callers, AnswerComplete, store

\* Retry: the work is over.
LEMMA LeaseRetry ==
    ASSUME RecordIsTrue, RecordIsTrue', LeaseInvariant, RoomForTwo, Retry
    PROVE  LeaseInvariant'
<1>1. /\ main' \notin {"polling", "starting", "tool", "upload"} /\ UNCHANGED <<losses, slow>>
      /\ call'["main"].age \in {0, call["main"].age} /\ call'["keep"] = call["keep"]
  BY FreshCall, SetCall, CallsTyped DEF RecordIsTrue, Retry
<1> QED
  BY <1>1, LeaseOver

\* ToolEnds: the work goes on.
LEMMA LeaseToolEnds ==
    ASSUME RecordIsTrue, RecordIsTrue', LeaseInvariant, RoomForTwo, ToolEnds
    PROVE  LeaseInvariant'
BY LeaseNumbers, FreshCall DEF RecordIsTrue, TypeOK, CallsOK, LeaseInvariant,
   LeaseAhead, Due, Spare, RoomForTwo,
   Executing, Live, Callers, ToolEnds, store

\* ExecutorReturns: the work is over.
LEMMA LeaseExecutorReturns ==
    ASSUME RecordIsTrue, RecordIsTrue', LeaseInvariant, RoomForTwo, ExecutorReturns
    PROVE  LeaseInvariant'
<1>1. /\ main' \notin {"polling", "starting", "tool", "upload"} /\ UNCHANGED <<losses, slow>>
      /\ call'["main"].age = 0 /\ call'["keep"] = call["keep"]
  BY FreshCall, SetCall, CallsTyped DEF RecordIsTrue, ExecutorReturns, Deliver
<1> QED
  BY <1>1, LeaseOver

\* SendProgress: the call is sent at the tick.
LEMMA LeaseSendProgress ==
    ASSUME RecordIsTrue, RecordIsTrue', LeaseInvariant, RoomForTwo, SendProgress
    PROVE  LeaseInvariant'
<1> SUFFICES ASSUME losses <= 1, ~slow
             PROVE  LeaseInvariant'
  BY DEF LeaseInvariant, SendProgress
<1>1. /\ call'["keep"].age = 0 /\ call'["keep"].ans = "none" /\ call'["main"] = call["main"]
      /\ UNCHANGED <<att, ttl, losses, slow, stopped, main, ticker>>
      /\ keep = "waiting" /\ fired /\ keep' = "calling" /\ ~fired'
  BY FreshCall, SetCall, CallsTyped DEF RecordIsTrue, SendProgress, store
<1>2. Executing /\ Executing'
  BY <1>1 DEF RecordIsTrue, CallsOK, Executing
<1>3. ASSUME att \in Live, ~stopped PROVE LeaseAhead'
  <2>1. ticker = RenewEvery /\ ttl > Due + 1 + Spare /\ Due = 0
    BY <1>1, <1>2, <1>3, LeaseNumbers DEF LeaseInvariant, LeaseAhead
  <2>2. Due' = RenewEvery
    BY <2>1, <1>1 DEF Due
  <2>3. ttl > 1 /\ (losses = 0 => ttl > RenewEvery + 1)
    BY <2>1, LeaseNumbers
  <2> QED
    BY <1>1, <2>1, <2>2, <2>3, LeaseNumbers DEF LeaseAhead
<1> QED
  BY <1>1, <1>2, <1>3 DEF LeaseInvariant, Executing

\* AnswerProgress: keepAlive waits for the next tick, or the run is stopped.
LEMMA LeaseAnswerProgress ==
    ASSUME RecordIsTrue, RecordIsTrue', LeaseInvariant, RoomForTwo, AnswerProgress
    PROVE  LeaseInvariant'
<1> SUFFICES ASSUME losses <= 1, ~slow
             PROVE  LeaseInvariant'
  BY DEF LeaseInvariant, AnswerProgress
<1>1. /\ call'["keep"].age = 0 /\ call'["main"] = call["main"]
      /\ UNCHANGED <<att, ttl, losses, slow, main, ticker, fired>>
      /\ call["keep"].at = "answered" /\ (stopped => stopped')
      /\ \/ keep = "ending"
         \/ keep = "calling" /\ call["keep"].ans \in {"stale", "cancel"} /\ stopped'
         \/ keep = "calling" /\ call["keep"].ans \notin {"stale", "cancel"} /\ keep' = "waiting"
  <2>1. call'["keep"].age = 0 /\ call'["main"] = call["main"]
    BY FreshCall, SetCall, CallsTyped DEF RecordIsTrue, AnswerProgress
  <2>2. UNCHANGED <<att, ttl, losses, slow, main, ticker, fired>>
    BY DEF AnswerProgress, store
  <2>3. /\ call["keep"].at = "answered" /\ keep \in {"calling", "ending"}
        /\ stopped' = (stopped \/ (call["keep"].ans \in {"stale", "cancel"} /\ keep = "calling"))
        /\ keep' = IF call["keep"].ans \in {"stale", "cancel"} \/ keep = "ending"
                   THEN "off" ELSE "waiting"
    BY DEF AnswerProgress
  <2> QED
    BY <2>1, <2>2, <2>3
<1>2. keep = "ending" => ~Executing'
  BY <1>1 DEF RecordIsTrue, CallsOK, Executing
<1>3. ASSUME Executing, att \in Live, ~stopped' PROVE keep' = "waiting" /\ LeaseAhead'
  <2>1. /\ keep = "calling" /\ keep' = "waiting" /\ ~stopped
        /\ call["keep"].ans \notin {"stale", "cancel"}
    BY <1>1, <1>2, <1>3 DEF Executing
  <2>2. LeaseAhead
    BY <1>3, <2>1 DEF LeaseInvariant
  <2>3. call["keep"].ans \in {"ok", "error"}
    BY <2>1, <1>1 DEF RecordIsTrue, CallsOK, TypeOK
  <2>4. Due' = Due /\ Spare' = Spare
    BY <1>1 DEF Due, Spare
  <2> QED
    BY <1>1, <2>1, <2>2, <2>3, <2>4 DEF LeaseAhead
<1> QED
  BY <1>1, <1>3 DEF LeaseInvariant, Executing

\* LoseAssignment: nothing is executed.
LEMMA LeaseLoseAssignment ==
    ASSUME RecordIsTrue, RecordIsTrue', LeaseInvariant, RoomForTwo, LoseAssignment
    PROVE  LeaseInvariant'
BY LeaseNumbers, FreshCall DEF RecordIsTrue, TypeOK, CallsOK, LeaseInvariant,
   LeaseAhead, Due, Spare, RoomForTwo,
   Executing, Live, Callers, LoseAssignment, store

\* Expire: not while there is time left.
LEMMA LeaseExpire ==
    ASSUME RecordIsTrue, RecordIsTrue', LeaseInvariant, RoomForTwo, Expire
    PROVE  LeaseInvariant'
BY LeaseNumbers, FreshCall DEF RecordIsTrue, TypeOK, CallsOK, LeaseInvariant,
   LeaseAhead, Due, Spare, RoomForTwo,
   Executing, Live, Callers, Expire, agent, store

\* Cancel: no clock is touched.
LEMMA LeaseCancel ==
    ASSUME RecordIsTrue, RecordIsTrue', LeaseInvariant, RoomForTwo, Cancel
    PROVE  LeaseInvariant'
BY LeaseNumbers, FreshCall DEF RecordIsTrue, TypeOK, CallsOK, LeaseInvariant,
   LeaseAhead, Due, Spare, RoomForTwo,
   Executing, Live, Callers, Cancel, agent, store

\* A handler that renews the lease, or leaves it alone, leaves time enough.
LEMMA LeaseServe ==
    ASSUME RecordIsTrue, RecordIsTrue', LeaseInvariant, RoomForTwo,
           NEW k \in Callers, Serve(k)
    PROVE  LeaseInvariant'
<1> SUFFICES ASSUME losses <= 1, ~slow
             PROVE  LeaseInvariant'
  BY DEF LeaseInvariant, Serve
<1>1. /\ UNCHANGED Untouched /\ call[k].at = "sent"
      /\ \/ k = "main" /\ main = "starting" /\ HandleStarted
         \/ k = "main" /\ main = "register" /\ HandleRegister
         \/ k = "main" /\ main = "report" /\ HandleComplete
         \/ k = "keep" /\ keep \in {"calling", "ending"} /\ HandleProgress
  BY SentCall DEF Serve, Untouched
<1>2. Executing' = Executing /\ losses' = losses /\ slow' = slow /\ main' = main
      /\ keep' = keep /\ stopped' = stopped /\ Due' = Due /\ Spare' = Spare
      /\ ticker' = ticker /\ fired' = fired
  BY <1>1 DEF Untouched, Executing, Due, Spare
<1>3. CASE main = "starting" /\ HandleStarted
  <2>1. /\ call'["main"].age = call["main"].age /\ call'["keep"] = call["keep"]
    BY <1>3, AnswerMain DEF RecordIsTrue, HandleStarted
  <2>2. ttl' \in {ttl, LeaseTTL} /\ (att # "expired" => att' # "expired")
    BY <1>3 DEF HandleStarted, store
  <2>3. att # "expired" /\ ttl + call["main"].age >= LeaseTTL
    BY <1>3 DEF LeaseInvariant
  <2>4. ttl' + call'["main"].age >= LeaseTTL
    BY <2>1, <2>2, <2>3, LeaseNumbers
  <2> QED
    BY <1>2, <1>3, <2>1, <2>2, <2>3, <2>4 DEF LeaseInvariant, Executing
<1>4. CASE main = "register" /\ HandleRegister
  <2>1. call'["main"].age = call["main"].age /\ call'["keep"] = call["keep"]
    <3>1. PICK a \in {"stale", "ok"} :
            call' = [call EXCEPT !["main"].at = "answered", !["main"].ans = a]
      BY <1>4 DEF HandleRegister
    <3>2. TypeOK /\ a \in {"none", "ok", "cancel", "stale", "error"}
      BY DEF RecordIsTrue
    <3> QED
      BY <3>1, <3>2, AnswerMain
  <2> QED
    BY <1>2, <1>4, <2>1 DEF LeaseInvariant, Executing
<1>5. CASE main = "report" /\ HandleComplete
  <2>1. call'["main"].age = call["main"].age /\ call'["keep"] = call["keep"]
    <3>1. PICK a \in {"stale", "ok", "error"} :
            call' = [call EXCEPT !["main"].at = "answered", !["main"].ans = a]
      BY <1>5 DEF HandleComplete
    <3>2. TypeOK /\ a \in {"none", "ok", "cancel", "stale", "error"}
      BY DEF RecordIsTrue
    <3> QED
      BY <3>1, <3>2, AnswerMain
  <2> QED
    BY <1>2, <1>5, <2>1 DEF LeaseInvariant, Executing
<1>6. CASE keep \in {"calling", "ending"} /\ HandleProgress
  <2>1. PICK a \in {"ok", "cancel", "stale"} :
          /\ call' = [call EXCEPT !["keep"].at = "answered", !["keep"].ans = a]
          /\ ttl' = IF a = "ok" THEN LeaseTTL ELSE ttl
    BY <1>6 DEF HandleProgress
  <2>2. /\ call'["keep"].ans = a /\ call'["keep"].age = call["keep"].age
        /\ call'["main"] = call["main"] /\ att' = att
    <3>1. TypeOK /\ a \in {"none", "ok", "cancel", "stale", "error"} /\ att' = att
      BY <1>6 DEF RecordIsTrue, HandleProgress
    <3> QED
      BY <2>1, <3>1, AnswerKeep
  <2>3. ttl > 0 => ttl' > 0
    BY <2>1, LeaseNumbers DEF RoomForTwo
  <2>4. ASSUME Executing, att \in Live, ~stopped PROVE keep = "calling" /\ LeaseAhead'
    <3>1. keep = "calling" /\ LeaseAhead
      BY <1>6, <2>4 DEF LeaseInvariant
    <3>2. CASE a = "ok"
      <4>1. Due <= RenewEvery /\ Spare <= RenewEvery
        BY <3>1, LeaseNumbers DEF LeaseAhead
      <4>2. LeaseTTL > Due + 1 + Spare
        BY <4>1, LeaseNumbers DEF RoomForTwo
      <4> QED
        BY <1>2, <2>1, <2>2, <3>1, <3>2, <4>2 DEF LeaseAhead
    <3>3. CASE a # "ok"
      <4>1. ttl + call["keep"].age > 1 /\ (losses = 0 => ttl > Due + 1)
        <5>1. CASE call["keep"].ans \in {"ok", "error"}
          <6>1. ttl > Due + 1 + Spare
            BY <5>1, <3>1 DEF LeaseAhead
          <6>2. /\ Due \in Nat /\ Spare \in Nat /\ ttl \in Nat /\ call["keep"].age \in Nat
            BY LeaseNumbers
          <6>3. ttl > Due + 1 /\ ttl > 1
            BY <6>1, <6>2
          <6> QED
            BY <6>2, <6>3
        <5>2. CASE call["keep"].ans \notin {"ok", "error"}
          BY <5>2, <3>1 DEF LeaseAhead
        <5> QED
          BY <5>1, <5>2
      <4> QED
        BY <1>2, <2>1, <2>2, <3>1, <3>3, <4>1 DEF LeaseAhead
    <3> QED
      BY <3>1, <3>2, <3>3
  <2> QED
    BY <1>2, <2>2, <2>3, <2>4, <1>6 DEF LeaseInvariant, RecordIsTrue, CallsOK, Executing
<1> QED
  BY <1>1, <1>3, <1>4, <1>5, <1>6

\* LoseCall: of the spare interval the lease had, nothing more is needed.
LEMMA LeaseLoseCall ==
    ASSUME RecordIsTrue, RecordIsTrue', LeaseInvariant, RoomForTwo,
           NEW k \in Callers, LoseCall(k)
    PROVE  LeaseInvariant'
<1> SUFFICES ASSUME losses = 0, losses' = 1, ~slow
             PROVE  LeaseInvariant'
  BY LeaseNumbers DEF LeaseInvariant, LoseCall
<1>1. /\ call[k].at # "none"
      /\ UNCHANGED <<att, ttl, main, keep, ticker, fired, stopped, slow>>
  BY DEF LoseCall, store
<1>2. /\ call'[k].ans = "error" /\ call'[k].age = call[k].age
      /\ \A j \in Callers : j # k => call'[j] = call[j]
  BY AnswerCall DEF RecordIsTrue, LoseCall
<1>3. \A j \in Callers : call'[j].age = call[j].age
  BY <1>2
<1>4. Due' = Due /\ Spare' = 0
  BY <1>1 DEF Due, Spare
<1>5. ASSUME Executing, att \in Live, ~stopped
      PROVE  keep \in {"waiting", "calling"} /\ LeaseAhead'
  <2>1. keep \in {"waiting", "calling"} /\ LeaseAhead
    BY <1>5 DEF LeaseInvariant
  <2>2. k = "keep"
    BY <1>1, <1>5 DEF RecordIsTrue, CallsOK, Executing, Callers
  <2>3. keep = "calling"
    BY <1>1, <2>1, <2>2 DEF RecordIsTrue, CallsOK
  <2>4. ttl > Due + 1
    BY <2>1, <2>3, LeaseNumbers DEF LeaseAhead
  <2> QED
    BY <1>1, <1>2, <1>4, <2>1, <2>2, <2>3, <2>4, LeaseNumbers DEF LeaseAhead
<1> QED
  BY <1>1, <1>3, <1>5, CallsTyped DEF LeaseInvariant, Executing, Callers

\* Tick: the lease and keepAlive's ticker run down together.
LEMMA LeaseTick ==
    ASSUME RecordIsTrue, RecordIsTrue', LeaseInvariant, RoomForTwo, Tick
    PROVE  LeaseInvariant'
<1> SUFFICES ASSUME losses <= 1, ~slow, ~slow'
             PROVE  LeaseInvariant'
  BY DEF LeaseInvariant, Tick
<1>1. /\ \A j \in Callers : call'[j].age <= 1
      /\ \A j \in Callers : call[j].at # "none" =>
           call'[j].ans = call[j].ans /\ call'[j].age = call[j].age + 1
  <2>1. \A j \in Callers : call'[j].age \in Nat /\ ~(call'[j].age > 1)
    <3>1. \A j \in Callers : call'[j].age \in Nat
      BY TickCalls DEF RecordIsTrue, CallRecord
    <3>2. ~\E j \in Callers : call'[j].age > 1
      BY DEF Tick, Callers
    <3> QED
      BY <3>1, <3>2
  <2> QED
    BY <2>1, TickCalls DEF RecordIsTrue
<1>2. /\ ttl' = IF ttl > 0 THEN ttl - 1 ELSE 0
      /\ UNCHANGED <<att, main, keep, stopped, losses>> /\ main # "polling"
      /\ Executing => ~stopped
  BY DEF Tick, Executing
<1>3. ASSUME main = "starting"
      PROVE  att # "expired" /\ ttl' + call'["main"].age >= LeaseTTL
  <2>1. call["main"].at # "none"
    BY <1>3 DEF RecordIsTrue, CallsOK
  <2>2. call'["main"].age = call["main"].age + 1 /\ call'["main"].age <= 1
    BY <2>1, <1>1, CallsTyped
  <2>3. att # "expired" /\ ttl + call["main"].age >= LeaseTTL
    BY <1>3 DEF LeaseInvariant
  <2>4. call["main"].age = 0 /\ ttl >= LeaseTTL
    BY <2>2, <2>3, LeaseNumbers
  <2> QED
    BY <1>2, <2>2, <2>3, <2>4, LeaseNumbers
<1>4. ASSUME Executing, att \in Live
      PROVE  ttl' > 0 /\ keep \in {"waiting", "calling"} /\ LeaseAhead'
  <2>1. keep \in {"waiting", "calling"} /\ LeaseAhead
    BY <1>2, <1>4 DEF LeaseInvariant
  <2>2. /\ ticker' = IF ticker > 1 THEN ticker - 1 ELSE RenewEvery
        /\ fired' <=> (fired \/ ticker = 1)
    <3>1. keep # "off"
      BY <2>1
    <3>2. ticker' = IF ticker > 1 THEN ticker - 1 ELSE RenewEvery
      BY <3>1 DEF Tick
    <3>3. fired' <=> (fired \/ ticker = 1)
      BY <3>1 DEF Tick
    <3> QED
      BY <3>2, <3>3
  <2>3. Spare' = Spare
    BY <1>2 DEF Spare
  <2>4. CASE keep = "waiting"
    <3>1. ~fired /\ ticker \in 1 .. RenewEvery /\ ttl > ticker + 1 + Spare
      BY <2>1, <2>4, LeaseNumbers DEF LeaseAhead, Tick
    <3>2. /\ ticker' \in 1 .. RenewEvery /\ (fired' => ticker' = RenewEvery)
          /\ Due' = ticker - 1
      <4>1. RenewEvery \in Nat /\ ticker \in Nat
        BY LeaseNumbers
      <4>2. CASE ticker = 1
        BY <4>1, <4>2, <2>2, <3>1 DEF Due
      <4>3. CASE ticker > 1
        BY <4>1, <4>3, <2>2, <3>1 DEF Due
      <4> QED
        BY <4>1, <4>2, <4>3, <3>1
    <3>3. ttl' = ttl - 1 /\ ttl' > 0 /\ ttl' > Due' + 1 + Spare'
      BY <1>2, <2>3, <3>1, <3>2, LeaseNumbers
    <3> QED
      BY <1>2, <2>4, <3>2, <3>3 DEF LeaseAhead
  <2>5. CASE keep = "calling"
    <3>1. call["keep"].at # "none"
      BY <2>5 DEF RecordIsTrue, CallsOK
    <3>2. /\ call["keep"].age = 0 /\ call'["keep"].age = 1
          /\ call'["keep"].ans = call["keep"].ans /\ call["keep"].ans # "error"
      <4>1. call'["keep"].age = call["keep"].age + 1 /\ call'["keep"].age <= 1
            /\ call'["keep"].ans = call["keep"].ans
        BY <3>1, <1>1, CallsTyped
      <4>2. call["keep"].ans # "error"
        BY <3>1 DEF Tick
      <4> QED
        BY <4>1, <4>2, LeaseNumbers
    <3>3. ~fired /\ ticker = RenewEvery /\ Due = RenewEvery
      BY <2>1, <2>5, <3>2, LeaseNumbers DEF LeaseAhead
    <3>4. /\ ticker' \in 1 .. RenewEvery /\ (fired' => ticker' = RenewEvery)
          /\ Due' = RenewEvery - 1
      <4>1. RenewEvery \in Nat /\ RenewEvery >= 1
        BY LeaseNumbers
      <4>2. CASE RenewEvery = 1
        BY <4>1, <4>2, <2>2, <3>3 DEF Due
      <4>3. CASE RenewEvery > 1
        BY <4>1, <4>3, <2>2, <3>3 DEF Due
      <4> QED
        BY <4>1, <4>2, <4>3
    <3>5. /\ call["keep"].ans = "ok" => ttl > RenewEvery + 1 + Spare
          /\ call["keep"].ans # "ok" => ttl > 1 /\ (losses = 0 => ttl > RenewEvery + 1)
      BY <2>1, <2>5, <3>2, <3>3, LeaseNumbers DEF LeaseAhead
    <3>6. /\ ttl' = ttl - 1 /\ ttl' > 0
          /\ call'["keep"].ans = "ok" => ttl' > Due' + 1 + Spare'
          /\ call'["keep"].ans # "ok" =>
               ttl' + call'["keep"].age > 1 /\ (losses = 0 => ttl' > Due' + 1)
      <4>1. /\ RenewEvery \in Nat /\ RenewEvery >= 1 /\ Spare \in Nat /\ ttl \in Nat
            /\ losses \in Nat
        BY LeaseNumbers
      <4>2. ttl > 1
        BY <4>1, <3>5
      <4>3. ttl' = ttl - 1 /\ ttl' > 0 /\ ttl' \in Nat
        BY <4>1, <4>2, <1>2
      <4>4. call'["keep"].ans = "ok" => ttl' > Due' + 1 + Spare'
        BY <4>1, <4>3, <2>3, <3>2, <3>4, <3>5
      <4>5. call'["keep"].ans # "ok" =>
               ttl' + call'["keep"].age > 1 /\ (losses = 0 => ttl' > Due' + 1)
        BY <4>1, <4>3, <3>2, <3>4, <3>5
      <4> QED
        BY <4>3, <4>4, <4>5
    <3> QED
      BY <1>2, <2>5, <3>2, <3>4, <3>6, LeaseNumbers DEF LeaseAhead
  <2> QED
    BY <2>1, <2>4, <2>5
<1>5. ASSUME Executing PROVE att # "expired"
  BY <1>5 DEF LeaseInvariant
<1> QED
  BY <1>1, <1>2, <1>3, <1>4, <1>5 DEF LeaseInvariant, Executing, Callers

LEMMA LeaseStep ==
    ASSUME RoomForTwo
    PROVE  LeaseInvariant /\ RecordIsTrue /\ RecordIsTrue' /\ [Next]_vars => LeaseInvariant'
<1> SUFFICES ASSUME LeaseInvariant, RecordIsTrue, RecordIsTrue', [Next]_vars
             PROVE  LeaseInvariant'
  OBVIOUS
<1>1. CASE Execute
  BY <1>1, LeaseReceiveAssignment, LeaseNoExecutor, LeaseAnswerStarted,
     LeaseTaskCancelled,
     LeaseAnswerRegister, LeaseAnswerComplete, LeaseRetry DEF Execute
<1>2. CASE ToolEnds \/ ExecutorReturns \/ KeepAlive \/ LoseAssignment
  BY <1>2, LeaseToolEnds, LeaseExecutorReturns, LeaseSendProgress, LeaseAnswerProgress,
     LeaseLoseAssignment DEF KeepAlive
<1>3. ASSUME NEW k \in Callers, Serve(k) \/ LoseCall(k) PROVE LeaseInvariant'
  BY <1>3, LeaseServe, LeaseLoseCall
<1>4. CASE Expire \/ Cancel \/ Tick
  BY <1>4, LeaseExpire, LeaseCancel, LeaseTick
<1>5. CASE UNCHANGED vars
  BY <1>5 DEF vars, store, agent, LeaseInvariant, LeaseAhead, Due, Spare, Executing
<1> QED
  BY <1>1, <1>2, <1>3, <1>4, <1>5 DEF Next, Callers

\* keepAlive's promise, for any lease that has room for two renewals and two calls:
\* although one call is lost, at whatever moment, the lease does not run out under an
\* executor as long as calls are answered or fail within a time unit.
THEOREM LeaseKept ==
    ASSUME RoomForTwo
    PROVE  Spec => []LeaseHeldWhileWorking
<1>1. LeaseInvariant => LeaseHeldWhileWorking
  BY DEF LeaseInvariant, LeaseHeldWhileWorking
<1>2. LeaseInvariant /\ RecordIsTrue /\ RecordIsTrue' /\ [Next]_vars => LeaseInvariant'
  BY LeaseStep
<1> QED
  BY <1>1, <1>2, LeaseInit, RecordsAreTrue, PTL DEF Spec
=============================================================================
