----------------------------- MODULE Lifecycle -----------------------------
(***************************************************************************)
(* The life of the process, cmd/ddns/ddns.go with internal/signal: start   *)
(* up, the loop of update rounds, and the ways out of it.                  *)
(*                                                                         *)
(* A signal reaches the program twice, by two registrations that the Go    *)
(* runtime serves one after the other, in no fixed order: the channel that *)
(* WaitForSignalsUntil reads (sig) and the context that a round runs under *)
(* (ctxWithSignals).  A round is one step that starts and one that ends,   *)
(* so that the context may be cancelled within it; what it does with the   *)
(* API is in RecordReconciler and WAFListReconciler, and here only whether *)
(* it succeeds and whether it leaves managed content behind.               *)
(***************************************************************************)
EXTENDS Reporters, Integers

CONSTANT MaxSignals   \* bound: how many signals are sent to the process

ASSUME MaxSignalsAssumption == MaxSignals \in Nat

VARIABLES
    pc,          \* where realMain is
    config,      \* the settings, as read from the environment
    apiUp,       \* whether every API request made with a live context succeeds
    first,       \* local variable first of the loop
    next,        \* local variable next: "zero", or a time still "ahead" or "past"
    cancelled,   \* whether the context was cancelled when the round began
    sent,        \* how many signals were sent (bounds Signal)
    toChannel,   \* signals on their way to the channel
    channel,     \* signals in the channel
    toContext,   \* whether a signal is on its way to the context
    ctxDone,     \* ctxWithSignals.Err() # nil
    published,   \* whether managed content is published
    cleanUps,    \* how often FinalDeleteIPs has run
    shown,       \* what the dashboards show
    lost,        \* history: services that missed the last thing sent to them
    outcome,     \* history: how the round and the clean-up went
    exit         \* the exit status

program == <<pc, first, next, cancelled>>
signals == <<sent, toChannel, channel, toContext, ctxDone>>
reports == <<shown, lost, outcome>>
vars == <<program, config, apiUp, signals, published, cleanUps, reports, exit>>

Running == -1   \* the exit status of a process that has none

ProgramPoints == {"boot", "configure", "top", "round", "check", "wait",
                  "signaled", "stopped", "unscheduled", "gaveUp",
                  "done", "aborted"}

TypeOK ==
    /\ pc \in ProgramPoints
    /\ config \in [once : BOOLEAN, updateOnStart : BOOLEAN,
                   deleteOnStop : BOOLEAN, clearing : BOOLEAN]
    /\ apiUp \in BOOLEAN /\ first \in BOOLEAN /\ cancelled \in BOOLEAN
    /\ next \in {"zero", "ahead", "past"}
    /\ sent \in 0..MaxSignals /\ toChannel \in 0..MaxSignals
    /\ channel \in 0..2
    /\ toContext \in BOOLEAN /\ ctxDone \in BOOLEAN
    /\ published \in BOOLEAN /\ cleanUps \in 0..1
    /\ shown \in [Services -> Shown] /\ lost \in SUBSET Services
    /\ outcome \in {"none", "ok", "failed"}
    /\ exit \in {Running, 0, 1}

\* BuildConfig, the checks on the schedule: a single run must update at once,
\* and deletes on stop only if every provider is none or static.empty
\* ("clearing").
Configurable(c) ==
    /\ c.once => c.updateOnStart
    /\ c.once /\ c.deleteOnStop => c.clearing

Init ==
    /\ pc = "boot"
    /\ config \in [once : BOOLEAN, updateOnStart : BOOLEAN,
                   deleteOnStop : BOOLEAN, clearing : BOOLEAN]
    /\ apiUp \in BOOLEAN
    /\ first = TRUE /\ next = "zero" /\ cancelled = FALSE
    /\ sent = 0 /\ toChannel = 0 /\ channel = 0
    /\ toContext = FALSE /\ ctxDone = FALSE
    /\ published \in BOOLEAN   \* by an earlier process
    /\ cleanUps = 0
    /\ shown = [s \in Services |-> "nothing"] /\ lost = {} /\ outcome = "none"
    /\ exit = Running

-----------------------------------------------------------------------------
(* Signals, from the system to the two registrations. *)

Signal ==
    /\ exit = Running /\ sent < MaxSignals
    /\ sent' = sent + 1 /\ toChannel' = toChannel + 1 /\ toContext' = TRUE
    /\ UNCHANGED <<program, config, apiUp, channel, ctxDone, published,
                   cleanUps, reports, exit>>

\* Mutation: a channel without a buffer, as if Setup had not sized it.
ReachChannelUnbuffered ==
    /\ exit = Running /\ toChannel > 0
    /\ toChannel' = toChannel - 1
    /\ channel' = IF pc = "wait" THEN 1 ELSE channel
    /\ UNCHANGED <<program, config, apiUp, sent, toContext, ctxDone, published,
                   cleanUps, reports, exit>>

\* The runtime does not block: a signal that finds the buffer of
\* len(Signals) = 2 full is dropped.
ReachChannel ==
    /\ exit = Running /\ toChannel > 0
    /\ toChannel' = toChannel - 1
    /\ channel' = IF channel < 2 THEN channel + 1 ELSE channel
    /\ UNCHANGED <<program, config, apiUp, sent, toContext, ctxDone, published,
                   cleanUps, reports, exit>>

ReachContext ==
    /\ exit = Running /\ toContext
    /\ toContext' = FALSE /\ ctxDone' = TRUE
    /\ UNCHANGED <<program, config, apiUp, sent, toChannel, channel, published,
                   cleanUps, reports, exit>>

\* The time that the loop waits for comes.
Tick ==
    /\ exit = Running /\ next = "ahead"
    /\ next' = "past"
    /\ UNCHANGED <<pc, config, apiUp, first, cancelled, signals, published,
                   cleanUps, reports, exit>>

-----------------------------------------------------------------------------
(* Starting. *)

Return(status) == pc' = "done" /\ exit' = status

Abort == pc' = "aborted" /\ exit' = 1

\* A message that says ok is sent to every service; reached is where it arrives.
SendPing(ok, reached) ==
    /\ shown' = Ping(shown, reached, ok)
    /\ lost' = Services \ reached

\* SetupPP and SetupReporters.
Boot ==
    /\ pc = "boot"
    /\ \/ pc' = "configure" /\ UNCHANGED exit
       \/ Abort
    /\ UNCHANGED <<config, apiUp, first, next, cancelled, signals, published,
                   cleanUps, reports>>

\* initConfig, then Start whether it succeeded or not.  Some other setting may
\* be wrong as well.
Configure ==
    /\ pc = "configure"
    /\ \E started, reached \in SUBSET Services :
        \/ /\ Configurable(config)
           /\ shown' = Start(shown, started)
           /\ pc' = "top" /\ UNCHANGED <<lost, outcome, exit>>
        \/ /\ shown' = Ping(Start(shown, started), reached, FALSE)
           /\ lost' = Services \ reached /\ outcome' = "failed"
           /\ Abort
    /\ UNCHANGED <<config, apiUp, first, next, cancelled, signals, published,
                   cleanUps>>

-----------------------------------------------------------------------------
(* The loop. *)

\* cron.Next: the zero time without a schedule, and with one that has no time
\* left.
NextTimes == IF config.once THEN {"zero"} ELSE {"zero", "ahead"}

\* Taken before the round, so that the round does not delay it.
Top ==
    /\ pc = "top"
    /\ next' \in NextTimes
    /\ IF first /\ ~config.updateOnStart
       THEN /\ \E reached \in SUBSET Services : SendPing(TRUE, reached)
            /\ outcome' = "ok"
            /\ pc' = "check" /\ UNCHANGED cancelled
       ELSE /\ pc' = "round" /\ cancelled' = ctxDone
            /\ UNCHANGED reports
    /\ UNCHANGED <<config, apiUp, first, signals, published, cleanUps, exit>>

\* The end of UpdateIPs.  A round whose context stays alive succeeds if the API
\* does; a round that started with a cancelled one makes no request.
Round ==
    /\ pc = "round"
    /\ \E ok \in BOOLEAN, reached \in SUBSET Services :
        /\ apiUp /\ ~ctxDone => ok
        /\ published' \in IF cancelled THEN {published}
                          ELSE IF ok /\ ~ctxDone THEN {~config.clearing}
                          ELSE {published, ~config.clearing}
        /\ SendPing(ok, reached)
        /\ outcome' = IF ok THEN "ok" ELSE "failed"
    /\ pc' = "check" /\ cancelled' = FALSE
    /\ UNCHANGED <<config, apiUp, first, next, signals, cleanUps, exit>>

\* Mutation: first is never reset.
CheckFirstForever ==
    /\ pc = "check"
    /\ IF ~ctxDone /\ config.once
       THEN Return(0)
       ELSE /\ pc' = IF ~ctxDone /\ next = "zero" THEN "unscheduled" ELSE "wait"
            /\ UNCHANGED exit
    /\ UNCHANGED <<config, apiUp, first, next, cancelled, signals, published,
                   cleanUps, reports>>

\* The tests after the round, in their order.
Check ==
    /\ pc = "check"
    /\ IF ctxDone
       THEN pc' = "wait" /\ UNCHANGED <<first, exit>>
       ELSE IF config.once
       THEN Return(0) /\ UNCHANGED first
       ELSE /\ first' = FALSE
            /\ pc' = IF next = "zero" THEN "unscheduled" ELSE "wait"
            /\ UNCHANGED exit
    /\ UNCHANGED <<config, apiUp, next, cancelled, signals, published, cleanUps,
                   reports>>

\* WaitForSignalsUntil.  Both cases of the select may be ready; a zero time is
\* in the past.
WaitSignal ==
    /\ pc = "wait" /\ channel > 0
    /\ channel' = channel - 1
    /\ pc' = "signaled"
    /\ UNCHANGED <<config, apiUp, first, next, cancelled, sent, toChannel,
                   toContext, ctxDone, published, cleanUps, reports, exit>>

WaitTimer ==
    /\ pc = "wait" /\ next # "ahead"
    /\ pc' = "top"
    /\ UNCHANGED <<config, apiUp, first, next, cancelled, signals, published,
                   cleanUps, reports, exit>>

-----------------------------------------------------------------------------
(* Stopping. *)

\* Mutation: the clean-up runs under the context that the signal cancelled.
StopUpdatingCancelled ==
    /\ pc \in {"signaled", "unscheduled"}
    /\ pc' = IF pc = "signaled" THEN "stopped" ELSE "gaveUp"
    /\ IF config.deleteOnStop /\ ~ctxDone
       THEN /\ cleanUps' = cleanUps + 1
            /\ published' = FALSE
       ELSE UNCHANGED <<published, cleanUps>>
    /\ UNCHANGED <<config, apiUp, first, next, cancelled, signals, reports, exit>>

\* stopUpdating, under the context that no signal cancels: FinalDeleteIPs, whose
\* message goes to Log.
StopUpdating ==
    /\ pc \in {"signaled", "unscheduled"}
    /\ pc' = IF pc = "signaled" THEN "stopped" ELSE "gaveUp"
    /\ IF config.deleteOnStop
       THEN \E ok \in BOOLEAN, reached \in SUBSET Services :
                /\ apiUp => ok
                /\ cleanUps' = cleanUps + 1
                /\ published' \in IF ok THEN {FALSE} ELSE {published, FALSE}
                /\ shown' = Log(shown, reached, ok)
                /\ lost' = IF ok THEN lost ELSE Services \ reached
                /\ outcome' = IF ok THEN outcome ELSE "failed"
       ELSE UNCHANGED <<published, cleanUps, reports>>
    /\ UNCHANGED <<config, apiUp, first, next, cancelled, signals, exit>>

\* Mutation: the return after a clean-up is missing.
StopAndGoOn ==
    /\ pc = "stopped"
    /\ \E reached \in SUBSET Services : shown' = Exit(shown, reached)
    /\ pc' = "top"
    /\ UNCHANGED <<config, apiUp, first, next, cancelled, signals, published,
                   cleanUps, lost, outcome, exit>>

\* After a signal: Exit, which only Healthchecks gets, and a good exit status,
\* whatever became of the clean-up.
Stop ==
    /\ pc = "stopped"
    /\ \E reached \in SUBSET Services : shown' = Exit(shown, reached)
    /\ Return(0)
    /\ UNCHANGED <<config, apiUp, first, next, cancelled, signals, published,
                   cleanUps, lost, outcome>>

\* Nothing is scheduled any more: a failing ping.
GiveUp ==
    /\ pc = "gaveUp"
    /\ \E reached \in SUBSET Services : SendPing(FALSE, reached)
    /\ outcome' = "failed"
    /\ Return(1)
    /\ UNCHANGED <<config, apiUp, first, next, cancelled, signals, published,
                   cleanUps>>

-----------------------------------------------------------------------------
Program == \/ Boot \/ Configure \/ Top \/ Round \/ Check
           \/ WaitSignal \/ WaitTimer \/ StopUpdating \/ Stop \/ GiveUp

Environment == Signal \/ ReachChannel \/ ReachContext \/ Tick

Next == Program \/ Environment

\* A select with several ready cases picks one at random, so that a case that
\* is ready again and again is taken in the end; every call of the program has
\* a timeout; the runtime delivers what it received; the time passes.
Fairness == /\ WF_vars(Program) /\ SF_vars(WaitSignal)
            /\ WF_vars(ReachChannel) /\ WF_vars(ReachContext) /\ WF_vars(Tick)

Spec == Init /\ [][Next]_vars /\ Fairness

-----------------------------------------------------------------------------
(* Properties. *)

\* The process got past its start and left the loop.
Finished == pc = "done"

\* With DELETE_ON_STOP and an API that works, a process that was configured and
\* stops has run its clean-up and left nothing of its content behind: the
\* clean-up does not run under the cancelled context, and no round follows it
\* that would publish again.  Only a single run that ends by itself skips it.
NothingLeftBehind ==
    Finished /\ config.deleteOnStop /\ ~config.once
        => cleanUps = 1 /\ (apiUp => ~published)

\* What the README says of DELETE_ON_STOP: "Whether managed DNS records and
\* managed WAF content are deleted when the updater exits", and of a single run
\* with both providers static.empty: "you can add DELETE_ON_STOP=true to make the
\* updater try to delete the WAF list itself too".
CleansUpOnExit ==
    Finished /\ config.deleteOnStop => cleanUps = 1

Truth == IF outcome = "ok" THEN "up" ELSE "down"

\* A dashboard that got the last thing sent to it shows how the process fares: the
\* last round or a failure since, and nothing hides a failed round or clean-up
\* except the Exit of Healthchecks.  A process that gave up is down everywhere.
MonitorsTellTruth ==
    \A s \in Services \ lost :
        /\ pc \in {"check", "wait", "stopped"} => shown[s] = Truth
        /\ exit = 0 /\ s \in UptimeKumas => shown[s] = Truth
        /\ exit = 1 /\ outcome # "none" => shown[s] = "down"

\* A signal stops the process, also one that comes in the middle of a round or
\* that cancels the context before it reaches the channel.
StopsOnSignal == sent > 0 ~> exit # Running

\* The loop goes on to update until the process is done, also when the first
\* round is skipped.
KeepsUpdating == []<>(pc = "round") \/ <>(exit # Running)
=============================================================================
