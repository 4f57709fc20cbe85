----------------------------- MODULE TraceHedge ----------------------------
(***************************************************************************)
(* runCloudflareTraceAttempts of internal/provider/protocol: the trace     *)
(* endpoints are asked in their order, the next one when the hedge timer   *)
(* fires or as soon as an answer is a definite failure, and the first good *)
(* answer wins.  One goroutine coordinates (pc); each request is a         *)
(* goroutine that sends its result to a buffered channel (results).  The   *)
(* parent context ends when it is cancelled (a signal) or when             *)
(* DETECTION_TIMEOUT is over; every wait of the coordinator is a step of   *)
(* its own, so that results, the timer and the end of the context race.    *)
(***************************************************************************)
EXTENDS Naturals, Sequences

CONSTANT N   \* how many endpoints there are

ASSUME NAssumption == N \in Nat \ {0}

Endpoints == 1..N

VARIABLES
    pc,         \* where the coordinator is
    hedging,    \* whether hedgeDelay > 0
    parent,     \* the parent context
    stopped,    \* whether cancel() was called
    next,       \* the endpoint to ask next
    started,    \* how many goroutines were started
    completed,  \* how many results were received
    running,    \* the endpoints whose goroutine has not sent its result
    answers,    \* the results that were sent
    results,    \* the channel, as the endpoints whose result is in it
    attempts,   \* the results that were received (run.attempts)
    current,    \* the endpoint whose result was received last
    timer,      \* timer and timerC
    armedFor,   \* history: the endpoint whose launch armed the timer
    winner      \* run.winnerIndex, 0 for none

context == <<hedging, parent>>
channel == <<running, answers, results>>
timers == <<timer, armedFor>>
vars == <<pc, context, stopped, next, started, completed, channel, attempts,
          current, timers, winner>>

Statuses == {"unstarted", "succeeded", "failed", "canceled"}

TypeOK ==
    /\ pc \in {"begin", "launchAll", "loop", "select", "judge", "settle",
               "drain", "returned"}
    /\ hedging \in BOOLEAN /\ stopped \in BOOLEAN
    /\ parent \in {"live", "canceled", "timedOut"}
    /\ next \in 1..(N + 1) /\ started \in 0..N /\ completed \in 0..started
    /\ running \in SUBSET Endpoints
    /\ answers \in [Endpoints -> Statuses] /\ attempts \in [Endpoints -> Statuses]
    /\ results \in Seq(Endpoints) /\ Len(results) <= N
    /\ current \in 0..N /\ winner \in 0..N /\ armedFor \in 0..N
    /\ timer \in {"off", "armed", "fired"}

Init ==
    /\ pc = "begin"
    \* The delay is at most a twentieth of the time left, so that it is positive
    \* unless the deadline is over.
    /\ hedging \in BOOLEAN /\ parent = "live" /\ stopped = FALSE
    /\ next = 1 /\ started = 0 /\ completed = 0
    /\ running = {} /\ results = <<>>
    /\ answers = [e \in Endpoints |-> "unstarted"] /\ attempts = answers
    /\ current = 0 /\ winner = 0
    /\ timer = "off" /\ armedFor = 0

-----------------------------------------------------------------------------
(* The context, the timer and the requests. *)

EndParent(why) ==
    /\ pc # "returned" /\ parent = "live"
    /\ parent' = why
    /\ UNCHANGED <<pc, hedging, stopped, next, started, completed, channel,
                   attempts, current, timers, winner>>

Fire ==
    /\ timer = "armed"
    /\ timer' = "fired"
    /\ UNCHANGED <<pc, context, stopped, next, started, completed, channel,
                   attempts, current, armedFor, winner>>

\* What a request may bring back: no body, or the fields of a trace, each as
\* attemptCloudflareTrace tells them apart.
Traces == [h : {"own", "missing", "other"}, warp : {"off", "missing", "on"},
           ip : {"own", "missing", "junk", "Cloudflare's", "wrong family"}]

childDone == stopped \/ parent # "live"

\* attemptCloudflareTrace: an error counts as a cancellation if the context is
\* over when the error is seen; a missing h or warp is tolerated.
Attempt(body, trace) ==
    IF ~body
    THEN IF childDone THEN "canceled" ELSE "failed"
    ELSE IF trace.h = "other" \/ trace.warp = "on" \/ trace.ip # "own"
    THEN "failed" ELSE "succeeded"

\* A goroutine sends its result; the channel has room for all of them.
Worker(e) ==
    /\ e \in running
    /\ running' = running \ {e}
    /\ \E body \in BOOLEAN, trace \in Traces :
           answers' = [answers EXCEPT ![e] = Attempt(body, trace)]
    /\ results' = Append(results, e)
    /\ UNCHANGED <<pc, context, stopped, next, started, completed, attempts,
                   current, timers, winner>>

-----------------------------------------------------------------------------
(* The coordinator. *)

\* Mutation: the timer of an earlier launch is left running.
LaunchKeepingTimer ==
    /\ running' = running \cup {next}
    /\ next' = next + 1 /\ started' = started + 1
    /\ IF hedging /\ next < N /\ timer = "off"
       THEN timer' = "armed" /\ armedFor' = next
       ELSE UNCHANGED timers
    /\ UNCHANGED <<answers, results>>

\* launchNext, when there is an endpoint left and the parent is live: the old
\* timer is stopped and its value dropped, and a new one is armed if another
\* endpoint could follow.
Launch ==
    /\ running' = running \cup {next}
    /\ next' = next + 1 /\ started' = started + 1
    /\ IF hedging /\ next < N
       THEN timer' = "armed" /\ armedFor' = next
       ELSE timer' = "off" /\ armedFor' = 0
    /\ UNCHANGED <<answers, results>>

NoLaunch == UNCHANGED <<channel, next, started, timers>>

\* finishCanceled and finishWinner up to the drain.
Finish(w) ==
    /\ winner' = w /\ stopped' = TRUE
    /\ timer' = "off" /\ armedFor' = 0
    /\ pc' = "drain"
    /\ UNCHANGED <<channel, next, started>>

FinishCanceled == parent # "live" /\ Finish(0)

\* Mutation: launchNext does not stop at the last endpoint.
LaunchThenPastEnd(where) ==
    \/ FinishCanceled
    \/ /\ parent = "live" /\ Launch
       /\ pc' = where
       /\ UNCHANGED <<stopped, winner>>

\* launchNext with what follows it, when it returns true.
LaunchThen(where) ==
    \/ /\ next <= N /\ FinishCanceled
    \/ /\ parent = "live" \/ next > N
       /\ IF next <= N THEN Launch ELSE NoLaunch
       /\ pc' = where
       /\ UNCHANGED <<stopped, winner>>

Begin ==
    /\ pc = "begin"
    /\ LaunchThen(IF hedging THEN "loop" ELSE "launchAll")
    /\ UNCHANGED <<context, completed, attempts, current>>

LaunchAll ==
    /\ pc = "launchAll"
    /\ LaunchThen(IF next <= N THEN "launchAll" ELSE "loop")
    /\ UNCHANGED <<context, completed, attempts, current>>

Loop ==
    /\ pc = "loop"
    /\ \/ FinishCanceled
       \/ /\ parent = "live" /\ pc' = "select"
          /\ NoLaunch /\ UNCHANGED <<stopped, winner>>
    /\ UNCHANGED <<context, completed, attempts, current>>

SelectDone ==
    /\ pc = "select" /\ FinishCanceled
    /\ UNCHANGED <<context, completed, attempts, current>>

\* Mutation: completed counts the results of the loop only.
ReceiveUncounted ==
    /\ results # <<>>
    /\ current' = Head(results) /\ results' = Tail(results)
    /\ attempts' = [attempts EXCEPT ![Head(results)] = answers[Head(results)]]
    /\ completed' = IF pc = "drain" THEN completed ELSE completed + 1
    /\ UNCHANGED <<context, stopped, next, started, running, answers, timers,
                   winner>>

\* <-results, in the loop and in the drain.
Receive ==
    /\ results # <<>>
    /\ current' = Head(results) /\ results' = Tail(results)
    /\ attempts' = [attempts EXCEPT ![Head(results)] = answers[Head(results)]]
    /\ completed' = completed + 1
    /\ UNCHANGED <<context, stopped, next, started, running, answers, timers,
                   winner>>

SelectResult == pc = "select" /\ Receive /\ pc' = "judge"

SelectTimer ==
    /\ pc = "select" /\ timer = "fired"
    /\ LaunchThen("loop")
    /\ UNCHANGED <<context, completed, attempts, current>>

\* Mutation: a result is judged without a look at the parent, and a failure does
\* not launch the next endpoint.
JudgeAfterEnd ==
    /\ pc = "judge"
    /\ \/ attempts[current] = "succeeded" /\ Finish(current)
       \/ /\ attempts[current] # "succeeded"
          /\ NoLaunch /\ UNCHANGED <<stopped, winner>> /\ pc' = "settle"
    /\ UNCHANGED <<context, completed, attempts, current>>

\* What the loop does with a result: the end of the parent comes first.
Judge ==
    /\ pc = "judge"
    /\ \/ FinishCanceled
       \/ /\ parent = "live" /\ attempts[current] = "succeeded" /\ Finish(current)
       \/ /\ parent = "live" /\ attempts[current] = "failed"
          /\ LaunchThen("settle")
       \/ /\ parent = "live" /\ attempts[current] = "canceled"
          /\ NoLaunch /\ UNCHANGED <<stopped, winner>> /\ pc' = "settle"
    /\ UNCHANGED <<context, completed, attempts, current>>

Settle ==
    /\ pc = "settle"
    /\ IF completed = started /\ next > N
       THEN \/ FinishCanceled
            \/ /\ parent = "live" /\ pc' = "returned"
               /\ timer' = "off" /\ armedFor' = 0
               /\ UNCHANGED <<channel, next, started, stopped, winner>>
       ELSE pc' = "loop" /\ NoLaunch /\ UNCHANGED <<stopped, winner>>
    /\ UNCHANGED <<context, completed, attempts, current>>

\* Mutation: one result is enough, as if only the winner were outstanding.
DrainOnce ==
    /\ pc = "drain" /\ pc' = "returned"
    /\ IF results # <<>> THEN Receive
       ELSE UNCHANGED <<context, stopped, completed, attempts, current,
                        winner, channel, next, started, timers>>

\* drain: receive until every goroutine that was started has answered.
Drain ==
    /\ pc = "drain"
    /\ IF completed < started
       THEN Receive /\ UNCHANGED pc
       ELSE /\ pc' = "returned"
            /\ UNCHANGED <<context, stopped, completed, attempts, current,
                           winner, channel, next, started, timers>>

Coordinator == \/ Begin \/ LaunchAll \/ Loop \/ SelectDone \/ SelectResult
               \/ SelectTimer \/ Judge \/ Settle \/ Drain

Next ==
    \/ Coordinator
    \/ Fire
    \/ \E e \in Endpoints : Worker(e)
    \/ \E why \in {"canceled", "timedOut"} : EndParent(why)

\* The detection runs under DETECTION_TIMEOUT; a request may hang, but not after
\* its context is over.
Fairness ==
    /\ WF_vars(Coordinator)
    /\ \A e \in Endpoints : WF_vars(childDone /\ Worker(e))
    /\ WF_vars(EndParent("timedOut"))

Spec == Init /\ [][Next]_vars /\ Fairness

-----------------------------------------------------------------------------
(* Properties. *)

\* When the detection returns, no request is left running and no result is left
\* in the channel: the drain waits for as many results as goroutines were
\* started, in every order of launches, results and the end of the context.
NothingLeftRunning ==
    pc = "returned" => running = {} /\ results = <<>> /\ completed = started

\* A timer that may launch an endpoint was armed by the latest launch: one that
\* was overtaken by a failure does not fire early for its successor.
TimerIsFresh == timer # "off" => armedFor = started

\* The detection keeps the promise of OneAnswer.  A reply counts from its
\* sending; the decision falls when the coordinator turns to the drain.
Replies == [e \in Endpoints |-> CASE answers[e] = "succeeded" -> "good"
                                  [] answers[e] = "failed" -> "bad"
                                  [] OTHER -> "none"]

Answer == INSTANCE OneAnswer WITH
    live <- parent = "live", replies <- Replies,
    taken <- {winner} \ {0}, gaveUp <- winner = 0 /\ pc \in {"drain", "returned"}

PromiseKept == Answer!Spec

\* The detection returns, so that a round is not held up by a request that hangs.
Returns == <>(pc = "returned")
=============================================================================
