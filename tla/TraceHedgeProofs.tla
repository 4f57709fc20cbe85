--------------------------- MODULE TraceHedgeProofs ---------------------------
(***************************************************************************)
(* Theorems about TraceHedge, for every number of endpoints.               *)
(***************************************************************************)
EXTENDS TraceHedge, FiniteSetTheorems, TLAPS

-----------------------------------------------------------------------------
(* Counting goroutines                                                     *)

Counters == <<channel, next, started, completed>>

\* Every goroutine that was started is running, has its result in the channel or
\* was received; only such endpoints are spoken of.
Accounted ==
    /\ next = started + 1
    /\ running \subseteq 1..started
    /\ Cardinality(running) + Len(results) + completed = started

\* The detection ends with the last result received.
Drained == pc = "returned" => completed = started

CountInv == TypeOK /\ Accounted /\ Drained /\ TimerIsFresh

\* Sets of numbers up to a bound can be counted.
LEMMA RunningFinite ==
  ASSUME NEW n \in Nat, NEW S \in SUBSET (1..n)
  PROVE  IsFiniteSet(S) /\ Cardinality(S) \in Nat
<1>1. IsFiniteSet(1..n)
  BY FS_Interval
<1>2. QED
  BY <1>1, FS_Subset, FS_CardinalityType

\* So can the running goroutines.
LEMMA RunningCounted ==
  ASSUME TypeOK, Accounted
  PROVE  IsFiniteSet(running) /\ Cardinality(running) \in Nat
<1>1. started \in Nat /\ running \in SUBSET (1..started)
  BY NAssumption DEF TypeOK, Accounted
<1>2. QED
  BY <1>1, RunningFinite

\* Each way to move a result along keeps the sum.
LEMMA LaunchAccounted ==
  ASSUME TypeOK, Accounted, next <= N, Launch, completed' = completed
  PROVE  /\ Accounted'
         /\ next' \in 1..(N + 1) /\ started' \in 0..N /\ completed' \in 0..started'
         /\ running' \in SUBSET Endpoints
         /\ timer' \in {"off", "armed"} /\ armedFor' \in 0..N
         /\ answers' = answers /\ results' = results
         /\ TimerIsFresh'
<1> USE NAssumption
<1>1. /\ next \in Nat /\ started \in Nat /\ completed \in Nat /\ next = started + 1
      /\ Len(results) \in Nat
  BY DEF TypeOK, Accounted
<1>2. IsFiniteSet(running) /\ Cardinality(running) \in Nat
  BY RunningCounted
<1>3. next \notin running
  BY <1>1 DEF Accounted
<1>4. Cardinality(running') = Cardinality(running) + 1
  <2>1. running' = running \cup {next}
    BY DEF Launch
  <2>2. QED
    BY <1>2, <1>3, <2>1, FS_AddElement
<1>5. running' \subseteq 1..started'
  BY <1>1 DEF Launch, Accounted
<1>6. next' = next + 1 /\ started' = started + 1 /\ answers' = answers /\ results' = results
  BY DEF Launch
<1>7. Accounted'
  BY <1>1, <1>2, <1>4, <1>5, <1>6 DEF Accounted
<1>8. /\ timer' \in {"off", "armed"} /\ armedFor' \in {0, next}
      /\ timer' # "off" => armedFor' = next
  BY DEF Launch
<1>9. QED
  BY <1>1, <1>5, <1>6, <1>7, <1>8 DEF TypeOK, Endpoints, TimerIsFresh

\* A result leaves the channel.
LEMMA ReceiveAccounted ==
  ASSUME TypeOK, Accounted, Receive
  PROVE  /\ Accounted'
         /\ completed' = completed + 1 /\ completed' \in 0..started'
         /\ results' \in Seq(Endpoints) /\ Len(results') <= N
         /\ current' \in Endpoints
         /\ attempts' \in [Endpoints -> Statuses]
         /\ attempts'[current'] = answers[current']
<1> USE NAssumption
<1>1. /\ started \in 0..N /\ completed \in Nat
      /\ results \in Seq(Endpoints) /\ results # <<>> /\ Len(results) <= N
      /\ attempts \in [Endpoints -> Statuses] /\ answers \in [Endpoints -> Statuses]
  BY DEF TypeOK, Receive
<1>2. /\ Head(results) \in Endpoints /\ Tail(results) \in Seq(Endpoints)
      /\ Len(results) \in Nat \ {0} /\ Len(Tail(results)) = Len(results) - 1
  BY <1>1
<1>3. IsFiniteSet(running) /\ Cardinality(running) \in Nat
  BY RunningCounted
<1>4. /\ results' = Tail(results) /\ current' = Head(results) /\ completed' = completed + 1
      /\ UNCHANGED <<next, started, running>>
      /\ attempts' = [attempts EXCEPT ![Head(results)] = answers[Head(results)]]
  BY DEF Receive
<1>5. Accounted'
  BY <1>1, <1>2, <1>3, <1>4 DEF Accounted
<1>6. completed' \in 0..started'
  BY <1>1, <1>2, <1>3, <1>4 DEF Accounted
<1>7. attempts' \in [Endpoints -> Statuses] /\ attempts'[current'] = answers[current']
  BY <1>1, <1>2, <1>4
<1>8. QED
  BY <1>1, <1>2, <1>4, <1>5, <1>6, <1>7

\* A worker puts its result into the channel, which has room for it, and ends.
LEMMA WorkerAccounted ==
  ASSUME TypeOK, Accounted, NEW e \in Endpoints, Worker(e)
  PROVE  /\ Accounted'
         /\ running' \in SUBSET Endpoints
         /\ answers' \in [Endpoints -> Statuses]
         /\ results' \in Seq(Endpoints) /\ Len(results') <= N
<1> USE NAssumption
<1>1. /\ started \in 0..N /\ completed \in Nat /\ running \in SUBSET Endpoints
      /\ results \in Seq(Endpoints) /\ Len(results) <= N /\ Len(results) \in Nat
      /\ answers \in [Endpoints -> Statuses] /\ e \in running
      /\ running' = running \ {e} /\ results' = Append(results, e)
      /\ UNCHANGED <<next, started, completed>>
  BY DEF TypeOK, Worker
<1>2. IsFiniteSet(running) /\ Cardinality(running) \in Nat
      /\ Cardinality(running') \in Nat
      /\ Cardinality(running') = Cardinality(running) - 1
  <2>1. IsFiniteSet(running) /\ Cardinality(running) \in Nat
    BY RunningCounted
  <2>2. IsFiniteSet(running') /\ Cardinality(running') = Cardinality(running) - 1
    BY <1>1, <2>1, FS_RemoveElement
  <2>3. QED
    BY <2>1, <2>2, FS_CardinalityType
<1>3. results' \in Seq(Endpoints) /\ Len(results') = Len(results) + 1
  BY <1>1
<1>4. answers' \in [Endpoints -> Statuses]
  BY <1>1 DEF Worker, Attempt, Statuses
<1>5. Accounted'
  BY <1>1, <1>2, <1>3 DEF Accounted
<1>6. Len(results') <= N
  BY <1>1, <1>2, <1>3 DEF Accounted
<1>7. QED
  BY <1>1, <1>3, <1>4, <1>5, <1>6

\* Nothing is started at first.
LEMMA InitCount == Init => CountInv
<1> SUFFICES ASSUME Init PROVE CountInv
  OBVIOUS
<1> USE NAssumption DEF Init
<1>1. TypeOK
  <2>1. answers \in [Endpoints -> Statuses]
    BY DEF Statuses
  <2>2. results \in Seq(Endpoints) /\ Len(results) = 0
    OBVIOUS
  <2>3. /\ next \in 1..(N + 1) /\ started \in 0..N /\ completed \in 0..started
        /\ current \in 0..N /\ winner \in 0..N /\ armedFor \in 0..N /\ Len(results) <= N
    BY <2>2
  <2>4. QED
    BY <2>1, <2>2, <2>3, Zenon DEF TypeOK
<1>2. Cardinality({}) = 0
  BY FS_EmptySet
<1>3. Accounted
  BY <1>2 DEF Accounted
<1>4. QED
  BY <1>1, <1>3 DEF CountInv, Drained, TimerIsFresh

\* What a coordinator does without a result: it launches the next endpoint, ends
\* with a winner or without, or goes on.
LEMMA Moves ==
  ASSUME CountInv, UNCHANGED <<context, completed, attempts, current>>,
         pc' \in {"launchAll", "loop", "select", "settle", "drain"},
         stopped' \in BOOLEAN, winner' \in 0..N,
         \/ next <= N /\ Launch
         \/ NoLaunch
         \/ /\ UNCHANGED <<channel, next, started>>
            /\ timer' = "off" /\ armedFor' = 0
  PROVE  CountInv'
<1> USE NAssumption
<1>0. UNCHANGED <<hedging, parent>>
  BY DEF context
<1>1. CASE next <= N /\ Launch
  <2>1. /\ Accounted' /\ TimerIsFresh'
        /\ next' \in 1..(N + 1) /\ started' \in 0..N /\ completed' \in 0..started'
        /\ running' \in SUBSET Endpoints
        /\ timer' \in {"off", "armed"} /\ armedFor' \in 0..N
        /\ answers' = answers /\ results' = results
    BY <1>1, LaunchAccounted DEF CountInv
  <2>2. TypeOK'
    BY <1>0, <2>1 DEF CountInv, TypeOK
  <2>3. QED
    BY <2>1, <2>2 DEF CountInv, Drained
<1>2. CASE NoLaunch
  <2>1. UNCHANGED <<running, answers, results, next, started, timer, armedFor>>
    BY <1>2 DEF NoLaunch, channel, timers
  <2>2. TypeOK' /\ Accounted' /\ TimerIsFresh'
    BY <1>0, <2>1 DEF CountInv, TypeOK, Accounted, TimerIsFresh
  <2>3. QED
    BY <2>2 DEF CountInv, Drained
<1>3. CASE UNCHANGED <<channel, next, started>> /\ timer' = "off" /\ armedFor' = 0
  <2>1. UNCHANGED <<running, answers, results, next, started>>
    BY <1>3 DEF channel
  <2>2. TypeOK' /\ Accounted' /\ TimerIsFresh'
    BY <1>0, <1>3, <2>1 DEF CountInv, TypeOK, Accounted, TimerIsFresh
  <2>3. QED
    BY <2>2 DEF CountInv, Drained
<1>4. QED
  BY <1>1, <1>2, <1>3

\* Every step keeps the counts.
LEMMA NextCount == CountInv /\ [Next]_vars => CountInv'
<1> SUFFICES ASSUME CountInv, [Next]_vars PROVE CountInv'
  OBVIOUS
<1> USE NAssumption
<1>0. winner \in 0..N /\ stopped \in BOOLEAN /\ current \in 0..N /\ 0 \in 0..N
  BY DEF CountInv, TypeOK
<1>1. CASE Begin
  BY <1>0, <1>1, Moves DEF Begin, LaunchThen, FinishCanceled, Finish
<1>2. CASE LaunchAll
  BY <1>0, <1>2, Moves DEF LaunchAll, LaunchThen, FinishCanceled, Finish
<1>3. CASE Loop
  BY <1>0, <1>3, Moves DEF Loop, FinishCanceled, Finish
<1>4. CASE SelectDone
  BY <1>0, <1>4, Moves DEF SelectDone, FinishCanceled, Finish
<1>5. CASE SelectTimer
  BY <1>0, <1>5, Moves DEF SelectTimer, LaunchThen, FinishCanceled, Finish
<1>6. CASE Judge
  BY <1>0, <1>6, Moves DEF Judge, LaunchThen, FinishCanceled, Finish
<1>7. CASE SelectResult \/ (Drain /\ completed < started)
  <2>1. /\ Receive /\ pc' \in {"judge", "drain"}
    BY <1>7 DEF SelectResult, Drain
  <2>2. /\ UNCHANGED <<hedging, parent, stopped, next, started, running, answers,
                       timer, armedFor, winner>>
    BY <2>1 DEF Receive, context, timers
  <2>3. TypeOK' /\ Accounted'
    BY <2>1, <2>2, ReceiveAccounted DEF CountInv, TypeOK, Endpoints
  <2>4. QED
    BY <2>1, <2>2, <2>3 DEF CountInv, Drained, TimerIsFresh
<1>8. CASE Settle /\ completed = started /\ pc' = "returned"
  <2>1. /\ UNCHANGED <<hedging, parent, stopped, next, started, completed, running, answers,
                       results, attempts, current, winner>>
        /\ timer' = "off" /\ armedFor' = 0
    BY <1>8 DEF Settle, FinishCanceled, Finish, NoLaunch, context, channel, timers
  <2>2. QED
    BY <1>8, <2>1 DEF CountInv, TypeOK, Accounted, Drained, TimerIsFresh
<1>9. CASE Settle /\ ~(completed = started /\ pc' = "returned")
  BY <1>0, <1>9, Moves DEF Settle, FinishCanceled, Finish
<1>10. CASE (Drain /\ ~(completed < started)) \/ Fire
            \/ (\E why \in {"canceled", "timedOut"} : EndParent(why)) \/ UNCHANGED vars
  <2>1. /\ UNCHANGED <<hedging, stopped, next, started, completed, running, answers,
                       results, attempts, current, armedFor, winner>>
        /\ parent' \in {parent, "canceled", "timedOut"}
        /\ timer' = timer \/ (timer' = "fired" /\ timer = "armed")
        /\ pc' = pc \/ (pc' = "returned" /\ ~(completed < started))
    BY <1>10 DEF Drain, Fire, EndParent, vars, context, channel, timers
  <2>2. TypeOK' /\ Accounted' /\ TimerIsFresh'
    BY <2>1 DEF CountInv, TypeOK, Accounted, TimerIsFresh
  <2>3. QED
    BY <2>1, <2>2 DEF CountInv, TypeOK, Drained
<1>11. ASSUME NEW e \in Endpoints, Worker(e)
       PROVE  CountInv'
  <2>1. UNCHANGED <<pc, hedging, parent, stopped, next, started, completed, attempts,
                    current, timer, armedFor, winner>>
    BY <1>11 DEF Worker, context, timers
  <2>2. TypeOK' /\ Accounted'
    BY <1>11, <2>1, WorkerAccounted DEF CountInv, TypeOK
  <2>3. QED
    BY <2>1, <2>2 DEF CountInv, Drained, TimerIsFresh
<1>12. QED
  BY <1>1, <1>2, <1>3, <1>4, <1>5, <1>6, <1>7, <1>8, <1>9, <1>10, <1>11
     DEF Next, Coordinator

\* The counts of started, running, waiting and received results agree at all
\* times: the inductive invariant behind the next three theorems.
THEOREM CountsAgree == Spec => []CountInv
  BY InitCount, NextCount, PTL DEF Spec

\* Every variable stays within its range: with N endpoints no more than N are
\* ever asked, and the channel never holds more than its buffer takes.
THEOREM TypeCorrect == Spec => []TypeOK
<1>1. CountInv => TypeOK
  BY DEF CountInv
<1>2. QED
  BY <1>1, CountsAgree, PTL

\* An armed or fired timer belongs to the latest launch (launchNext stops the
\* earlier one).
THEOREM TimersAreFresh == Spec => []TimerIsFresh
<1>1. CountInv => TimerIsFresh
  BY DEF CountInv
<1>2. QED
  BY <1>1, CountsAgree, PTL

\* When the detection returns, every goroutine has sent its result and every
\* result was received (drain).
THEOREM NothingIsLeftRunning == Spec => []NothingLeftRunning
<1>1. CountInv => NothingLeftRunning
  <2> SUFFICES ASSUME CountInv, pc = "returned"
               PROVE  running = {} /\ results = <<>> /\ completed = started
    BY DEF NothingLeftRunning
  <2>1. /\ completed = started /\ started \in Nat /\ running \in SUBSET (1..started)
        /\ results \in Seq(Endpoints) /\ Len(results) \in Nat
        /\ Cardinality(running) + Len(results) + completed = started
    BY NAssumption DEF CountInv, Drained, Accounted, TypeOK
  <2>2. IsFiniteSet(running) /\ Cardinality(running) \in Nat
    BY <2>1, RunningFinite
  <2>3. Cardinality(running) = 0 /\ Len(results) = 0
    BY <2>1, <2>2
  <2>4. running = {}
    BY <2>2, <2>3, FS_EmptySet
  <2>5. results = <<>>
    BY <2>1, <2>3
  <2>6. QED
    BY <2>1, <2>4, <2>5
<1>2. QED
  BY <1>1, CountsAgree, PTL

-----------------------------------------------------------------------------
(* One answer                                                              *)

Undecided == pc \notin {"drain", "returned"}

\* The endpoints whose goroutine has sent its result.
Finished == (1..started) \ running
Received == {e \in Finished : \A i \in 1..Len(results) : results[i] # e}

\* A goroutine sends one result, when it ends; the channel holds results of
\* goroutines that have ended.
OneResultEach ==
    /\ \A e \in Endpoints \ Finished : answers[e] = "unstarted"
    /\ \A i \in 1..Len(results) : results[i] \in Finished

\* While the parent lives and nothing is decided, no request can have been
\* cancelled, and every result that was received and judged is a failure.
OnlyFailures ==
    Undecided =>
        /\ winner = 0 /\ ~stopped
        /\ parent = "live" =>
             /\ \A e \in Endpoints : answers[e] # "canceled"
             /\ \A e \in Received : (pc = "judge" => e # current) => answers[e] = "failed"

JudgedAsSent ==
    pc = "judge" => current \in Finished /\ attempts[current] = answers[current]

AnswerInv == OneResultEach /\ OnlyFailures /\ JudgedAsSent

\* Nothing is known at first.
LEMMA InitAnswer == Init => AnswerInv
<1> SUFFICES ASSUME Init PROVE AnswerInv
  OBVIOUS
<1>1. Finished = {} /\ Received = {} /\ Len(results) = 0
  BY DEF Init, Finished, Received
<1>2. pc = "begin" /\ winner = 0 /\ stopped = FALSE /\ answers = [e \in Endpoints |-> "unstarted"]
  BY DEF Init
<1>3. OneResultEach
  BY <1>1, <1>2 DEF OneResultEach
<1>4. OnlyFailures
  BY <1>1, <1>2 DEF OnlyFailures
<1>5. QED
  BY <1>2, <1>3, <1>4 DEF AnswerInv, JudgedAsSent

\* A launch adds an endpoint to those that have no result.
LEMMA LaunchAnswer ==
  ASSUME CountInv, OneResultEach, next <= N, Launch
  PROVE  /\ Finished' = Finished /\ Received' = Received
         /\ OneResultEach'
<1> USE NAssumption
<1>1. /\ started \in Nat /\ next = started + 1 /\ running \subseteq 1..started
      /\ running' = running \cup {next} /\ started' = started + 1
      /\ answers' = answers /\ results' = results
  BY DEF CountInv, TypeOK, Accounted, Launch
<1>2. Finished' = Finished
  BY <1>1 DEF Finished
<1>3. QED
  BY <1>1, <1>2 DEF Received, OneResultEach

\* What a coordinator does without a result, from an undecided state.
LEMMA MovesAnswer ==
  ASSUME CountInv, AnswerInv, Undecided,
         UNCHANGED <<context, attempts, current>>,
         \/ next <= N /\ Launch
         \/ UNCHANGED <<channel, next, started>>,
         \/ pc' \in {"drain", "returned"}
         \/ /\ pc' \in {"launchAll", "loop", "select", "settle"}
            /\ UNCHANGED <<stopped, winner>>
            /\ pc = "judge" /\ parent = "live" => attempts[current] \in {"failed", "canceled"}
  PROVE  AnswerInv'
<1>1. /\ Finished' = Finished /\ Received' = Received /\ answers' = answers
      /\ OneResultEach'
  <2>1. CASE next <= N /\ Launch
    BY <2>1, LaunchAnswer DEF AnswerInv, Launch
  <2>2. CASE UNCHANGED <<channel, next, started>>
    BY <2>2 DEF channel, Finished, Received, AnswerInv, OneResultEach
  <2>3. QED
    BY <2>1, <2>2
<1>2. CASE pc' \in {"drain", "returned"}
  BY <1>1, <1>2 DEF AnswerInv, OnlyFailures, Undecided, JudgedAsSent
<1>3. CASE /\ pc' \in {"launchAll", "loop", "select", "settle"}
           /\ UNCHANGED <<stopped, winner>>
           /\ pc = "judge" /\ parent = "live" => attempts[current] \in {"failed", "canceled"}
  <2>1. parent' = parent /\ winner' = 0 /\ ~stopped' /\ current' = current
    BY <1>3 DEF context, AnswerInv, OnlyFailures
  <2>2. ASSUME parent = "live", NEW e \in Received
        PROVE  answers[e] = "failed"
    <3>1. CASE pc = "judge" /\ e = current
      <4>1. current \in Endpoints /\ answers[current] = attempts[current]
        BY <3>1, NAssumption
           DEF AnswerInv, JudgedAsSent, Finished, CountInv, TypeOK, Endpoints
      <4>2. answers[current] # "canceled"
        BY <2>2, <4>1 DEF AnswerInv, OnlyFailures
      <4>3. QED
        BY <1>3, <2>2, <3>1, <4>1, <4>2
    <3>2. CASE ~(pc = "judge" /\ e = current)
      BY <2>2, <3>2 DEF AnswerInv, OnlyFailures
    <3>3. QED
      BY <3>1, <3>2
  <2>3. OnlyFailures'
    BY <1>1, <2>1, <2>2 DEF AnswerInv, OnlyFailures
  <2>4. QED
    BY <1>1, <1>3, <2>3 DEF AnswerInv, JudgedAsSent
<1>4. QED
  BY <1>2, <1>3

\* A result received is the one the endpoint gave.
LEMMA ReceiveAnswer ==
  ASSUME CountInv, AnswerInv, Receive,
         \/ pc = "select" /\ pc' = "judge"
         \/ pc = "drain" /\ pc' = "drain"
  PROVE  AnswerInv'
<1>1. /\ results \in Seq(Endpoints) /\ results # <<>>
      /\ results' = Tail(results) /\ current' = Head(results)
      /\ UNCHANGED <<started, running, answers, parent, stopped, winner>>
  BY DEF Receive, CountInv, TypeOK, context
<1>2. /\ Len(results) \in Nat /\ Len(results') = Len(results) - 1
      /\ current' = results[1] /\ 1 \in 1..Len(results)
      /\ \A i \in 1..Len(results') : i + 1 \in 1..Len(results) /\ results'[i] = results[i + 1]
      /\ \A i \in 1..Len(results) : i = 1 \/ (i - 1 \in 1..Len(results') /\ results[i] = results'[i - 1])
  BY <1>1
<1>3. Finished' = Finished
  BY <1>1 DEF Finished
<1>4. Received' \subseteq Received \cup {current'}
  BY <1>2, <1>3 DEF Received
<1>5. OneResultEach'
  BY <1>1, <1>2, <1>3 DEF AnswerInv, OneResultEach
<1>6. current' \in Finished' /\ attempts'[current'] = answers'[current']
  <2>1. current' \in Finished
    BY <1>2 DEF AnswerInv, OneResultEach
  <2>2. attempts'[current'] = answers[current']
    BY ReceiveAccounted DEF CountInv
  <2>3. QED
    BY <1>1, <1>3, <2>1, <2>2
<1>7. OnlyFailures'
  BY <1>1, <1>4 DEF AnswerInv, OnlyFailures, Undecided
<1>8. QED
  BY <1>5, <1>6, <1>7 DEF AnswerInv, JudgedAsSent

\* A worker gives the only result of its endpoint.
LEMMA WorkerAnswer ==
  ASSUME CountInv, AnswerInv, NEW e \in Endpoints, Worker(e)
  PROVE  /\ AnswerInv'
         /\ answers[e] = "unstarted"
         /\ \E a \in {"succeeded", "failed", "canceled"} :
              answers' = [answers EXCEPT ![e] = a]
<1>1. /\ e \in running /\ running \subseteq 1..started /\ e \in 1..started /\ e \notin Finished
      /\ running' = running \ {e} /\ results' = Append(results, e)
      /\ results \in Seq(Endpoints) /\ answers \in [Endpoints -> Statuses]
      /\ UNCHANGED <<pc, parent, stopped, started, winner, current, attempts>>
  BY DEF Worker, CountInv, TypeOK, Accounted, context, Finished
<1>2. PICK body \in BOOLEAN, trace \in Traces :
           answers' = [answers EXCEPT ![e] = Attempt(body, trace)]
  BY DEF Worker
<1>3. /\ Attempt(body, trace) \in {"succeeded", "failed", "canceled"}
      /\ parent = "live" /\ ~stopped => Attempt(body, trace) # "canceled"
  BY DEF Attempt, childDone
<1>4. /\ Len(results) \in Nat /\ Len(results') = Len(results) + 1
      /\ \A i \in 1..Len(results) : results'[i] = results[i]
      /\ results'[Len(results')] = e
  BY <1>1
<1>5. Finished' = Finished \cup {e}
  BY <1>1 DEF Finished
<1>6. Received' \subseteq Received
  BY <1>4, <1>5 DEF Received
<1>7. \A other \in Endpoints : other # e => answers'[other] = answers[other]
  BY <1>1, <1>2
<1>8. OneResultEach'
  BY <1>4, <1>5, <1>7 DEF AnswerInv, OneResultEach
<1>9. OnlyFailures'
  <2>1. \A other \in Received' : other \in Received /\ other # e /\ other \in Endpoints
    BY <1>1, <1>6, NAssumption DEF Received, Finished, Endpoints, CountInv, TypeOK
  <2>2. answers'[e] = Attempt(body, trace)
    BY <1>1, <1>2
  <2>3. QED
    BY <1>1, <1>3, <1>7, <2>1, <2>2 DEF AnswerInv, OnlyFailures, Undecided
<1>10. JudgedAsSent'
  BY <1>1, <1>5, <1>7, NAssumption
     DEF AnswerInv, JudgedAsSent, Finished, Endpoints, CountInv, TypeOK
<1>11. QED
  BY <1>1, <1>2, <1>3, <1>8, <1>9, <1>10 DEF AnswerInv, OneResultEach

\* Every step keeps what is known of the results.
LEMMA NextAnswer == CountInv /\ AnswerInv /\ [Next]_vars => AnswerInv'
<1> SUFFICES ASSUME CountInv, AnswerInv, [Next]_vars PROVE AnswerInv'
  OBVIOUS
<1> USE DEF FinishCanceled, Finish, NoLaunch, Undecided
<1>1. CASE Begin
  BY <1>1, MovesAnswer DEF Begin, LaunchThen
<1>2. CASE LaunchAll
  BY <1>2, MovesAnswer DEF LaunchAll, LaunchThen
<1>3. CASE Loop
  BY <1>3, MovesAnswer DEF Loop
<1>4. CASE SelectDone
  BY <1>4, MovesAnswer DEF SelectDone
<1>5. CASE SelectTimer
  BY <1>5, MovesAnswer DEF SelectTimer, LaunchThen
<1>6. CASE Judge
  BY <1>6, MovesAnswer DEF Judge, LaunchThen
<1>7. CASE Settle
  BY <1>7, MovesAnswer DEF Settle
<1>8. CASE SelectResult \/ (Drain /\ completed < started)
  BY <1>8, ReceiveAnswer DEF SelectResult, Drain
<1>9. CASE (Drain /\ ~(completed < started)) \/ Fire
           \/ (\E why \in {"canceled", "timedOut"} : EndParent(why)) \/ UNCHANGED vars
  <2>1. /\ UNCHANGED <<stopped, started, running, answers, results, attempts, current, winner>>
        /\ parent' = parent \/ parent' \in {"canceled", "timedOut"}
        /\ pc' = pc \/ (pc = "drain" /\ pc' = "returned")
    BY <1>9 DEF Drain, Fire, EndParent, vars, context, channel, timers
  <2>2. Finished' = Finished /\ Received' = Received
    BY <2>1 DEF Finished, Received
  <2>3. QED
    BY <2>1, <2>2 DEF AnswerInv, OneResultEach, OnlyFailures, JudgedAsSent
<1>10. CASE \E e \in Endpoints : Worker(e)
  BY <1>10, WorkerAnswer
<1>11. QED
  BY <1>1, <1>2, <1>3, <1>4, <1>5, <1>6, <1>7, <1>8, <1>9, <1>10 DEF Next, Coordinator

\* What is known of the results while nothing is decided.
THEOREM AnswersAreKnown == Spec => []AnswerInv
  BY InitAnswer, NextAnswer, CountsAgree, PTL DEF Spec

\* OneAnswer without its fairness.
OneAnswerSafely == Answer!Init /\ [][Answer!Next]_(Answer!vars)

\* The replies seen by OneAnswer depend on the answers alone.
LEMMA RepliesSame == answers' = answers => Replies' = Replies
  BY DEF Replies

\* A move of the coordinator without a result: a decision or nothing to see.
LEMMA Decides ==
  ASSUME CountInv, AnswerInv, Undecided,
         UNCHANGED context, answers' = answers,
         \/ pc' = "drain" /\ winner' = 0 /\ parent # "live"
         \/ /\ pc' = "drain" /\ winner' = current
            /\ pc = "judge" /\ parent = "live" /\ attempts[current] = "succeeded"
         \/ /\ pc' = "returned" /\ UNCHANGED winner
            /\ pc = "settle" /\ completed = started /\ next > N
         \/ pc' \notin {"drain", "returned"} /\ UNCHANGED winner
  PROVE  [Answer!Next]_(Answer!vars)
<1> USE NAssumption
<1>1. /\ winner = 0 /\ UNCHANGED <<parent, Replies>>
  BY RepliesSame DEF AnswerInv, OnlyFailures, context
<1>2. CASE pc' = "drain" /\ winner' = 0 /\ parent # "live"
  <2>1. Answer!GiveUp
    BY <1>1, <1>2 DEF Answer!GiveUp, Answer!Pending, Undecided
  <2>2. QED
    BY <2>1 DEF Answer!Next, Answer!Decide
<1>3. CASE /\ pc' = "drain" /\ winner' = current
           /\ pc = "judge" /\ parent = "live" /\ attempts[current] = "succeeded"
  <2>1. current \in Endpoints /\ answers[current] = "succeeded" /\ current # 0
    BY <1>3 DEF AnswerInv, JudgedAsSent, Finished, CountInv, TypeOK, Endpoints
  <2>2. Replies[current] = "good"
    BY <2>1 DEF Replies
  <2>3. Answer!Accept(current)
    BY <1>1, <1>3, <2>1, <2>2 DEF Answer!Accept, Answer!Pending, Undecided
  <2>4. QED
    BY <2>1, <2>3 DEF Answer!Next, Answer!Decide
<1>4. CASE /\ pc' = "returned" /\ UNCHANGED winner
           /\ pc = "settle" /\ completed = started /\ next > N
  <2>1. started = N /\ running = {} /\ Len(results) = 0
    <3>1. /\ started \in 0..N /\ next = started + 1 /\ Len(results) \in Nat
          /\ Cardinality(running) + Len(results) + completed = started
      BY DEF CountInv, TypeOK, Accounted
    <3>2. IsFiniteSet(running) /\ Cardinality(running) \in Nat
      BY RunningCounted DEF CountInv
    <3>3. started = N /\ Cardinality(running) = 0 /\ Len(results) = 0
      BY <1>4, <3>1, <3>2
    <3>4. QED
      BY <3>2, <3>3, FS_EmptySet
  <2>2. Received = Endpoints
    BY <2>1 DEF Received, Finished, Endpoints
  <2>3. parent = "live" => \A e \in Endpoints : answers[e] = "failed"
    BY <1>4, <2>2 DEF AnswerInv, OnlyFailures
  <2>4. parent = "live" => \A e \in Endpoints : Replies[e] = "bad"
    BY <2>3 DEF Replies
  <2>5. Answer!GiveUp
    BY <1>1, <1>4, <2>4 DEF Answer!GiveUp, Answer!Pending, Undecided
  <2>6. QED
    BY <2>5 DEF Answer!Next, Answer!Decide
<1>5. CASE pc' \notin {"drain", "returned"} /\ UNCHANGED winner
  BY <1>1, <1>5 DEF Answer!vars, Undecided
<1>6. QED
  BY <1>2, <1>3, <1>4, <1>5

\* Every step of the detection is a step of OneAnswer or none.
LEMMA AnswerStep ==
  ASSUME CountInv, AnswerInv, [Next]_vars
  PROVE  [Answer!Next]_(Answer!vars)
<1> USE DEF FinishCanceled, Finish, NoLaunch, Launch, channel, Undecided
<1>1. CASE Begin
  BY <1>1, Decides DEF Begin, LaunchThen
<1>2. CASE LaunchAll
  BY <1>2, Decides DEF LaunchAll, LaunchThen
<1>3. CASE Loop
  BY <1>3, Decides DEF Loop
<1>4. CASE SelectDone
  BY <1>4, Decides DEF SelectDone
<1>5. CASE SelectTimer
  BY <1>5, Decides DEF SelectTimer, LaunchThen
<1>6. CASE Judge
  BY <1>6, Decides DEF Judge, LaunchThen
<1>7. CASE Settle
  BY <1>7, Decides DEF Settle
<1>8. CASE SelectResult
  BY <1>8, Decides DEF SelectResult, Receive
<1>9. CASE Drain
  <2>1. UNCHANGED <<parent, answers, winner>> /\ pc = "drain" /\ pc' \in {"drain", "returned"}
    BY <1>9 DEF Drain, Receive, context
  <2>2. QED
    BY <2>1, RepliesSame DEF Answer!vars
<1>10. CASE Fire \/ UNCHANGED vars
  <2>1. UNCHANGED <<parent, answers, winner, pc>>
    BY <1>10 DEF Fire, vars, context
  <2>2. QED
    BY <2>1, RepliesSame DEF Answer!vars
<1>11. ASSUME NEW why \in {"canceled", "timedOut"}, EndParent(why)
       PROVE  Answer!End
  <2>1. UNCHANGED <<answers, winner, pc>> /\ parent = "live" /\ parent' # "live"
    BY <1>11 DEF EndParent
  <2>2. QED
    BY <2>1, RepliesSame DEF Answer!End
<1>12. ASSUME NEW e \in Endpoints, Worker(e)
       PROVE  [Answer!Next]_(Answer!vars)
  <2>1. answers \in [Endpoints -> Statuses] /\ answers[e] = "unstarted"
        /\ UNCHANGED <<parent, winner, pc>>
    BY <1>12, WorkerAnswer DEF Worker, context, CountInv, TypeOK
  <2>2. PICK a \in {"succeeded", "failed", "canceled"} : answers' = [answers EXCEPT ![e] = a]
    BY <1>12, WorkerAnswer
  <2>3. Replies[e] = "none"
    BY <2>1 DEF Replies
  <2>4. Replies' = [Replies EXCEPT ![e] = CASE a = "succeeded" -> "good"
                                            [] a = "failed" -> "bad"
                                            [] OTHER -> "none"]
    BY <2>1, <2>2 DEF Replies
  <2>5. CASE a = "canceled"
    <3>1. Replies' = Replies
      BY <2>3, <2>4, <2>5 DEF Replies
    <3>2. QED
      BY <2>1, <3>1 DEF Answer!vars
  <2>6. CASE a # "canceled"
    <3>1. \E r \in {"good", "bad"} : Replies' = [Replies EXCEPT ![e] = r]
      BY <2>4, <2>6
    <3>2. Answer!Reply(e)
      BY <2>1, <2>3, <3>1 DEF Answer!Reply
    <3>3. QED
      BY <3>2 DEF Answer!Next
  <2>7. QED
    BY <2>5, <2>6
<1>13. QED
  BY <1>1, <1>2, <1>3, <1>4, <1>5, <1>6, <1>7, <1>8, <1>9, <1>10, <1>11, <1>12
     DEF Next, Coordinator, Answer!Next

\* However results, the timer and the end of the context race: a good answer is
\* taken at most once and only while the context lives, and the detection gives
\* up only when the context has ended or every endpoint has failed.
THEOREM TakesOneAnswer == Spec => OneAnswerSafely
<1>1. Init => Answer!Init
  <2> SUFFICES ASSUME Init PROVE Answer!Init
    OBVIOUS
  <2>1. Replies = [e \in Endpoints |-> "none"]
    BY DEF Init, Replies
  <2>2. QED
    BY <2>1 DEF Init, Answer!Init
<1>2. QED
  BY <1>1, AnswerStep, CountsAgree, AnswersAreKnown, PTL DEF Spec, OneAnswerSafely
===============================================================================
