---------------------------- MODULE LifecycleProofs ----------------------------
(***************************************************************************)
(* Theorems about Lifecycle, for every set of heartbeat services and every *)
(* number of signals.                                                      *)
(***************************************************************************)
EXTENDS Lifecycle, TLAPS

-----------------------------------------------------------------------------
(* What the reporters show                                                 *)

\* A ping shows the same on every dashboard that it reaches.
LEMMA PingShows ==
  ASSUME NEW before \in [Services -> Shown], NEW reached \in SUBSET Services,
         NEW ok \in BOOLEAN
  PROVE  /\ Ping(before, reached, ok) \in [Services -> Shown]
         /\ \A s \in Services \ (Services \ reached) :
              Ping(before, reached, ok)[s] = IF ok THEN "up" ELSE "down"
  BY DEF Ping, Delivered, HealthchecksPing, UptimeKumaPing, Shown

\* Start and Exit pass Uptime Kuma by.
LEMMA StartExitShow ==
  ASSUME NEW before \in [Services -> Shown], NEW reached \in SUBSET Services
  PROVE  /\ Start(before, reached) \in [Services -> Shown]
         /\ Exit(before, reached) \in [Services -> Shown]
         /\ \A s \in UptimeKumas : Exit(before, reached)[s] = before[s]
  BY ServicesAssumption DEF Start, Exit, Delivered, Services, Shown

-----------------------------------------------------------------------------
(* The invariant                                                           *)

Ended == pc \in {"done", "aborted"}

\* The exit status belongs to the end; only a single run or a stop ends well.
ExitStatus ==
    /\ pc = "aborted" => exit = 1
    /\ ~Ended => exit = Running
    /\ toChannel <= sent

\* The clean-up comes after the loop, once, and leaves nothing if the API works.
CleanedUp ==
    /\ ~Ended /\ pc \notin {"stopped", "gaveUp"} => cleanUps = 0
    /\ pc \in {"stopped", "gaveUp", "done"} /\ config.deleteOnStop /\ ~config.once
         => cleanUps = 1 /\ (apiUp => ~published)
    /\ pc = "gaveUp" => ~config.once
    /\ pc = "unscheduled" => ~config.once

\* From the ping of a round on, the dashboards that got it show how it went.
Reported ==
    /\ pc \in {"boot", "configure"} => outcome = "none"
    /\ \A s \in Services \ lost :
         /\ pc \in {"check", "wait", "signaled", "unscheduled", "stopped", "gaveUp"}
              => shown[s] = Truth
         /\ exit = 0 /\ s \in UptimeKumas => shown[s] = Truth
         /\ exit = 1 /\ outcome # "none" => shown[s] = "down"

LifeInv == TypeOK /\ ExitStatus /\ CleanedUp /\ Reported

\* A process begins with nothing shown, nothing cleaned up and no exit status.
LEMMA InitLife == Init => LifeInv
<1> SUFFICES ASSUME Init PROVE LifeInv
  OBVIOUS
<1> USE MaxSignalsAssumption DEF Init
<1>1. shown \in [Services -> Shown]
  BY DEF Shown
<1>2. TypeOK
  <2>1. /\ sent \in 0..MaxSignals /\ toChannel \in 0..MaxSignals /\ channel \in 0..2
        /\ cleanUps \in 0..1
    OBVIOUS
  <2>2. QED
    BY <1>1, <2>1, Zenon DEF TypeOK, ProgramPoints
<1>3. QED
  BY <1>2 DEF LifeInv, ExitStatus, Ended, CleanedUp, Reported, Running

\* Signals on their way change nothing that the rest is about.
LEMMA SignalsLife ==
  ASSUME LifeInv, Signal \/ ReachChannel \/ ReachContext \/ Tick
  PROVE  LifeInv'
<1>1. UNCHANGED <<pc, config, apiUp, first, cancelled, published, cleanUps, shown, lost,
                  outcome, exit>>
  BY DEF Signal, ReachChannel, ReachContext, Tick, program, reports, signals
<1>2. /\ sent' \in 0..MaxSignals /\ toChannel' \in 0..MaxSignals /\ toChannel' <= sent'
      /\ channel' \in 0..2
  <2>1. /\ sent \in 0..MaxSignals /\ toChannel \in 0..MaxSignals /\ toChannel <= sent
        /\ channel \in 0..2
    BY DEF LifeInv, TypeOK, ExitStatus
  <2>2. \/ sent < MaxSignals /\ sent' = sent + 1 /\ toChannel' = toChannel + 1
           /\ channel' = channel
        \/ /\ toChannel > 0 /\ toChannel' = toChannel - 1 /\ sent' = sent
           /\ channel' = IF channel < 2 THEN channel + 1 ELSE channel
        \/ UNCHANGED <<sent, toChannel, channel>>
    BY DEF Signal, ReachChannel, ReachContext, Tick, signals
  <2>3. QED
    BY MaxSignalsAssumption, <2>1, <2>2
<1>3. toContext' \in BOOLEAN /\ ctxDone' \in BOOLEAN
  BY DEF LifeInv, TypeOK, Signal, ReachChannel, ReachContext, Tick, program, signals
<1>4. next' \in {"zero", "ahead", "past"}
  BY DEF LifeInv, TypeOK, Signal, ReachChannel, ReachContext, Tick, program, signals
<1>5. TypeOK'
  <2>1. TypeOK
    BY DEF LifeInv
  <2>2. QED
    BY <1>1, <1>2, <1>3, <1>4, <2>1 DEF TypeOK
<1>6. ExitStatus' /\ CleanedUp'
  BY <1>1, <1>2, Zenon DEF LifeInv, ExitStatus, CleanedUp, Ended
<1>7. Reported'
  BY <1>1, Zenon DEF LifeInv, Reported, Truth
<1>8. QED
  BY <1>5, <1>6, <1>7 DEF LifeInv

\* What no step of the program touches.
Untouched == <<config, apiUp, sent, toChannel, toContext, ctxDone>>

\* The ranges of what it does.
InRange ==
    /\ first \in BOOLEAN /\ cancelled \in BOOLEAN
    /\ next \in {"zero", "ahead", "past"} /\ channel \in 0..2
    /\ published \in BOOLEAN /\ cleanUps \in 0..1
    /\ shown \in [Services -> Shown] /\ lost \in SUBSET Services
    /\ outcome \in {"none", "ok", "failed"}

\* The ranges are part of the type invariant.
LEMMA TypeInRange == TypeOK => InRange
  BY DEF TypeOK, InRange

\* A step of the program keeps the invariant if it keeps these parts of it.
LEMMA StepLife ==
  ASSUME LifeInv, UNCHANGED Untouched, InRange', CleanedUp', Reported',
         \/ pc' \in ProgramPoints \ {"done", "aborted"} /\ exit' = Running
         \/ pc' = "done" /\ exit' \in {0, 1}
         \/ pc' = "aborted" /\ exit' = 1
  PROVE  LifeInv'
<1>1. pc' \in ProgramPoints /\ exit' \in {Running, 0, 1}
  BY DEF ProgramPoints
<1>2. TypeOK'
  BY <1>1, Zenon DEF LifeInv, TypeOK, InRange, Untouched
<1>3. ExitStatus'
  BY Zenon DEF LifeInv, ExitStatus, Ended, Untouched
<1>4. QED
  BY <1>2, <1>3 DEF LifeInv

\* SetupPP, SetupReporters and initConfig; a failure after Start is shown as such.
LEMMA StartLife ==
  ASSUME LifeInv, Boot \/ Configure
  PROVE  LifeInv'
<1>1. /\ UNCHANGED <<Untouched, first, next, cancelled, channel, published, cleanUps>>
      /\ pc \in {"boot", "configure"}
      /\ \/ pc' \in {"configure", "top"} /\ exit' = exit
         \/ pc' = "aborted" /\ exit' = 1
  BY DEF Boot, Configure, Abort, Untouched, signals
<1>2. InRange /\ exit = Running
  BY <1>1, TypeInRange DEF LifeInv, ExitStatus, Ended
<1>3. CleanedUp'
  BY <1>1 DEF LifeInv, CleanedUp, Ended
<1>4. /\ shown' \in [Services -> Shown] /\ lost' \in SUBSET Services
      /\ outcome' \in {"none", "ok", "failed"}
      /\ Reported'
  <2>1. CASE Boot
    <3>1. UNCHANGED <<shown, lost, outcome>> /\ pc = "boot"
      BY <2>1 DEF Boot, reports
    <3>2. outcome = "none"
      BY <3>1 DEF LifeInv, Reported
    <3>3. /\ pc' \in {"configure", "aborted"} /\ exit' # 0
          /\ pc' # "top"
      BY <1>1, <1>2, <2>1 DEF Boot, Abort, Running
    <3>4. Reported'
      BY <3>1, <3>2, <3>3 DEF Reported
    <3>5. /\ shown' \in [Services -> Shown] /\ lost' \in SUBSET Services
          /\ outcome' \in {"none", "ok", "failed"}
      BY <1>2, <3>1 DEF InRange
    <3>6. QED
      BY <3>4, <3>5
  <2>2. CASE Configure /\ pc' = "top"
    <3>1. /\ lost' = lost /\ outcome' = outcome
          /\ \E started \in SUBSET Services : shown' = Start(shown, started)
      BY <2>2 DEF Configure, Abort
    <3>2. shown' \in [Services -> Shown]
      BY <1>2, <3>1, StartExitShow DEF InRange
    <3>3. QED
      BY <1>1, <1>2, <2>2, <3>1, <3>2 DEF InRange, Reported, Running
  <2>3. CASE Configure /\ pc' = "aborted"
    <3>1. PICK started \in SUBSET Services, reached \in SUBSET Services :
             /\ shown' = Ping(Start(shown, started), reached, FALSE)
             /\ lost' = Services \ reached /\ outcome' = "failed"
      BY <2>3 DEF Configure
    <3>2. Start(shown, started) \in [Services -> Shown]
      BY <1>2, StartExitShow DEF InRange
    <3>3. /\ shown' \in [Services -> Shown]
          /\ \A s \in Services \ lost' : shown'[s] = "down"
      <4> DEFINE before == Start(shown, started)
      <4>1. before \in [Services -> Shown] /\ FALSE \in BOOLEAN
        BY <3>2
      <4> HIDE DEF before
      <4>2. /\ Ping(before, reached, FALSE) \in [Services -> Shown]
            /\ \A s \in Services \ (Services \ reached) :
                 Ping(before, reached, FALSE)[s] = "down"
        BY <4>1, PingShows
      <4>3. shown' = Ping(before, reached, FALSE) /\ lost' = Services \ reached
        BY <3>1 DEF before
      <4>4. QED
        BY <4>2, <4>3
    <3>4. pc' = "aborted" /\ exit' # 0
      BY <1>1, <2>3, <1>2 DEF Running
    <3>5. Reported'
      BY <3>3, <3>4 DEF Reported
    <3>6. lost' \in SUBSET Services /\ outcome' \in {"none", "ok", "failed"}
      BY <3>1
    <3>7. QED
      BY <3>3, <3>5, <3>6
  <2>4. QED
    BY <1>1, <2>1, <2>2, <2>3 DEF Configure, Abort
<1>5. QED
  BY <1>1, <1>2, <1>3, <1>4, StepLife DEF InRange, ProgramPoints

\* A message is sent to every service: the dashboards show it, or missed it.
LEMMA SendPingShows ==
  ASSUME InRange, NEW ok \in BOOLEAN, NEW reached \in SUBSET Services, SendPing(ok, reached)
  PROVE  /\ shown' \in [Services -> Shown] /\ lost' \in SUBSET Services
         /\ \A s \in Services \ lost' : shown'[s] = IF ok THEN "up" ELSE "down"
  BY PingShows DEF SendPing, InRange

\* The start of an iteration, with the ping that replaces a skipped first round.
LEMMA TopLife ==
  ASSUME LifeInv, Top
  PROVE  LifeInv'
<1>1. /\ UNCHANGED <<Untouched, first, channel, published, cleanUps, exit>>
      /\ pc = "top" /\ next' \in {"zero", "ahead"}
      /\ \/ pc' = "check" /\ cancelled' = cancelled
         \/ pc' = "round" /\ cancelled' = ctxDone
  BY DEF Top, Untouched, signals, NextTimes
<1>2. InRange /\ exit = Running /\ ctxDone \in BOOLEAN
  BY <1>1, TypeInRange DEF LifeInv, ExitStatus, Ended, TypeOK
<1>3. CleanedUp'
  BY <1>1 DEF LifeInv, CleanedUp, Ended
<1>4. /\ shown' \in [Services -> Shown] /\ lost' \in SUBSET Services
      /\ outcome' \in {"none", "ok", "failed"}
      /\ Reported'
  <2>1. CASE pc' = "check"
    <3>1. PICK reached \in SUBSET Services : SendPing(TRUE, reached) /\ outcome' = "ok"
      BY <2>1 DEF Top
    <3>2. /\ shown' \in [Services -> Shown] /\ lost' \in SUBSET Services
          /\ \A s \in Services \ lost' : shown'[s] = "up"
      BY <1>2, <3>1, SendPingShows
    <3>3. exit' \notin {0, 1}
      BY <1>1, <1>2 DEF Running
    <3>4. Reported'
      BY <2>1, <3>1, <3>2, <3>3 DEF Reported, Truth
    <3>5. QED
      BY <3>1, <3>2, <3>4
  <2>2. CASE pc' = "round"
    <3>1. UNCHANGED <<shown, lost, outcome>>
      BY <2>2 DEF Top, reports
    <3>2. exit' \notin {0, 1}
      BY <1>1, <1>2 DEF Running
    <3>3. Reported'
      BY <2>2, <3>2 DEF Reported
    <3>4. /\ shown' \in [Services -> Shown] /\ lost' \in SUBSET Services
          /\ outcome' \in {"none", "ok", "failed"}
      BY <1>2, <3>1 DEF InRange
    <3>5. QED
      BY <3>3, <3>4
  <2>3. QED
    BY <1>1, <2>1, <2>2
<1>5. QED
  BY <1>1, <1>2, <1>3, <1>4, StepLife DEF InRange, ProgramPoints

\* The end of a round reports the round.
LEMMA RoundLife ==
  ASSUME LifeInv, Round
  PROVE  LifeInv'
<1>1. /\ UNCHANGED <<Untouched, first, next, channel, cleanUps, exit>>
      /\ pc = "round" /\ pc' = "check" /\ cancelled' = FALSE
  BY DEF Round, Untouched, signals
<1>2. InRange /\ exit = Running /\ config.clearing \in BOOLEAN
  BY <1>1, TypeInRange DEF LifeInv, ExitStatus, Ended, TypeOK
<1>3. CleanedUp'
  BY <1>1 DEF LifeInv, CleanedUp, Ended
<1>4. PICK ok \in BOOLEAN, reached \in SUBSET Services :
        /\ published' \in {published, ~config.clearing}
        /\ SendPing(ok, reached)
        /\ outcome' = IF ok THEN "ok" ELSE "failed"
  BY DEF Round
<1>5. /\ shown' \in [Services -> Shown] /\ lost' \in SUBSET Services
      /\ outcome' \in {"none", "ok", "failed"} /\ published' \in BOOLEAN
  BY <1>2, <1>4, SendPingShows DEF InRange
<1>6. Reported'
  BY <1>1, <1>2, <1>4, SendPingShows DEF Reported, Truth, Running
<1>7. QED
  BY <1>1, <1>2, <1>3, <1>5, <1>6, StepLife DEF InRange, ProgramPoints

\* Waiting and the tests after a round send nothing.
LEMMA QuietLife ==
  ASSUME LifeInv, Check \/ WaitSignal \/ WaitTimer
  PROVE  LifeInv'
<1>1. /\ UNCHANGED <<Untouched, next, cancelled, published, cleanUps, reports>>
      /\ pc \in {"check", "wait"} /\ first' \in {first, FALSE} /\ channel' \in {channel, channel - 1}
      /\ channel' = channel \/ channel > 0
      /\ \/ pc' \in {"wait", "signaled", "top"} /\ exit' = exit
         \/ pc' = "unscheduled" /\ exit' = exit /\ ~config.once
         \/ pc = "check" /\ pc' = "done" /\ exit' = 0 /\ config.once
  BY DEF Check, WaitSignal, WaitTimer, Return, Untouched, signals
<1>2. InRange /\ exit = Running
  BY <1>1, TypeInRange DEF LifeInv, ExitStatus, Ended
<1>3. first' \in BOOLEAN /\ channel' \in 0..2
  <2>1. first' \in BOOLEAN
    BY <1>1, <1>2 DEF InRange
  <2>2. channel \in 0..2
    BY <1>2 DEF InRange
  <2>3. channel' \in 0..2
    BY <1>1, <2>2
  <2>4. QED
    BY <2>1, <2>3
<1>4. CleanedUp'
  BY <1>1 DEF LifeInv, CleanedUp, Ended, Untouched
<1>5. UNCHANGED <<shown, lost, outcome>>
  BY <1>1 DEF reports
<1>6. Reported'
  BY <1>1, <1>2, <1>5 DEF LifeInv, Reported, Truth, Running
<1>7. QED
  BY <1>1, <1>2, <1>3, <1>4, <1>5, <1>6, StepLife DEF InRange, ProgramPoints

\* stopUpdating cleans up, and says so where it failed.
LEMMA StopUpdatingLife ==
  ASSUME LifeInv, StopUpdating
  PROVE  LifeInv'
<1>1. /\ UNCHANGED <<Untouched, first, next, cancelled, channel, exit>>
      /\ \/ pc = "signaled" /\ pc' = "stopped"
         \/ pc = "unscheduled" /\ pc' = "gaveUp"
  BY DEF StopUpdating, Untouched, signals
<1>2. InRange /\ exit = Running /\ cleanUps = 0
  BY <1>1, TypeInRange DEF LifeInv, ExitStatus, Ended, CleanedUp
<1>3. CASE ~config.deleteOnStop
  <2>1. UNCHANGED <<published, cleanUps, shown, lost, outcome>>
    BY <1>3 DEF StopUpdating, reports
  <2>2. CleanedUp'
    BY <1>1, <1>3, <2>1 DEF LifeInv, CleanedUp, Ended, Untouched
  <2>3. Reported'
    BY <1>1, <1>2, <2>1 DEF LifeInv, Reported, Truth, Running
  <2>4. QED
    BY <1>1, <1>2, <2>1, <2>2, <2>3, StepLife DEF InRange, ProgramPoints
<1>4. CASE config.deleteOnStop
  <2>1. PICK ok \in BOOLEAN, reached \in SUBSET Services :
          /\ apiUp => ok
          /\ cleanUps' = cleanUps + 1
          /\ published' \in IF ok THEN {FALSE} ELSE {published, FALSE}
          /\ shown' = Log(shown, reached, ok)
          /\ lost' = IF ok THEN lost ELSE Services \ reached
          /\ outcome' = IF ok THEN outcome ELSE "failed"
    BY <1>4 DEF StopUpdating
  <2>2. cleanUps' = 1 /\ published' \in BOOLEAN /\ (apiUp => ~published')
    <3>1. cleanUps' = 1
      BY <1>2, <2>1
    <3>2. published' \in BOOLEAN /\ (apiUp => ~published')
      BY <1>2, <2>1 DEF InRange
    <3>3. QED
      BY <3>1, <3>2
  <2>3. CleanedUp'
    <3>1. UNCHANGED <<config, apiUp>> /\ (pc' = "gaveUp" => ~config.once)
      BY <1>1 DEF LifeInv, CleanedUp, Untouched
    <3>2. QED
      BY <1>1, <2>2, <3>1 DEF CleanedUp, Ended
  <2>4. InRange' /\ Reported'
    <3>1. CASE ok
      <4>1. UNCHANGED <<shown, lost, outcome>>
        BY <2>1, <3>1 DEF Log
      <4>2. Reported'
        BY <1>1, <1>2, <4>1 DEF LifeInv, Reported, Truth, Running
      <4>3. QED
        BY <1>1, <1>2, <2>2, <4>1, <4>2 DEF InRange
    <3>2. CASE ~ok
      <4>1. shown' = Ping(shown, reached, FALSE) /\ lost' = Services \ reached /\ outcome' = "failed"
        BY <2>1, <3>2 DEF Log
      <4>2. shown \in [Services -> Shown] /\ FALSE \in BOOLEAN
        BY <1>2 DEF InRange
      <4>3. /\ Ping(shown, reached, FALSE) \in [Services -> Shown]
            /\ \A s \in Services \ (Services \ reached) :
                 Ping(shown, reached, FALSE)[s] = "down"
        BY <4>2, PingShows
      <4>4. shown' \in [Services -> Shown] /\ \A s \in Services \ lost' : shown'[s] = "down"
        BY <4>1, <4>3
      <4>5. Reported'
        BY <1>1, <1>2, <4>1, <4>4 DEF Reported, Truth, Running
      <4>6. /\ shown' \in [Services -> Shown] /\ lost' \in SUBSET Services
            /\ outcome' \in {"none", "ok", "failed"}
        BY <4>1, <4>4
      <4>7. /\ first' \in BOOLEAN /\ cancelled' \in BOOLEAN
            /\ next' \in {"zero", "ahead", "past"} /\ channel' \in 0..2
        BY <1>1, <1>2 DEF InRange
      <4>8. published' \in BOOLEAN /\ cleanUps' \in 0..1
        BY <2>2
      <4>9. QED
        BY <4>5, <4>6, <4>7, <4>8 DEF InRange
    <3>3. QED
      BY <3>1, <3>2
  <2>5. pc' \in ProgramPoints \ {"done", "aborted"} /\ exit' = Running
    BY <1>1, <1>2 DEF ProgramPoints
  <2>6. UNCHANGED Untouched
    BY <1>1
  <2>7. QED
    BY <2>3, <2>4, <2>5, <2>6, StepLife
<1>5. QED
  BY <1>3, <1>4

\* The two ways to return: Exit, which Uptime Kuma does not get, or a failing ping.
LEMMA EndLife ==
  ASSUME LifeInv, Stop \/ GiveUp
  PROVE  LifeInv'
<1>1. /\ UNCHANGED <<Untouched, first, next, cancelled, channel, published, cleanUps>>
      /\ pc' = "done"
      /\ \/ pc = "stopped" /\ exit' = 0
         \/ pc = "gaveUp" /\ exit' = 1
  BY DEF Stop, GiveUp, Return, Untouched, signals
<1>2. InRange /\ exit = Running
  BY <1>1, TypeInRange DEF LifeInv, ExitStatus, Ended
<1>3. CleanedUp'
  BY <1>1 DEF LifeInv, CleanedUp, Ended, Untouched
<1>4. CASE Stop
  <2>1. PICK reached \in SUBSET Services : shown' = Exit(shown, reached)
    BY <1>4 DEF Stop
  <2>2. UNCHANGED <<lost, outcome>> /\ pc = "stopped" /\ exit' = 0
    BY <1>4 DEF Stop, Return
  <2>3. shown' \in [Services -> Shown] /\ \A s \in UptimeKumas : shown'[s] = shown[s]
    BY <1>2, <2>1, StartExitShow DEF InRange
  <2>4. Reported'
    BY <1>1, <2>2, <2>3 DEF LifeInv, Reported, Truth
  <2>5. QED
    BY <1>1, <1>2, <1>3, <2>2, <2>3, <2>4, StepLife DEF InRange
<1>5. CASE GiveUp
  <2>1. PICK reached \in SUBSET Services : SendPing(FALSE, reached) /\ outcome' = "failed"
    BY <1>5 DEF GiveUp
  <2>2. exit' = 1
    BY <1>5 DEF GiveUp, Return
  <2>3. /\ shown' \in [Services -> Shown] /\ lost' \in SUBSET Services
        /\ \A s \in Services \ lost' : shown'[s] = "down"
    BY <1>2, <2>1, SendPingShows
  <2>4. Reported'
    BY <1>1, <2>1, <2>2, <2>3 DEF Reported
  <2>5. QED
    BY <1>1, <1>2, <1>3, <2>1, <2>2, <2>3, <2>4, StepLife DEF InRange
<1>6. QED
  BY <1>4, <1>5

\* Every step keeps the invariant.
LEMMA NextLife == LifeInv /\ [Next]_vars => LifeInv'
<1>1. ASSUME LifeInv, UNCHANGED vars
      PROVE  LifeInv'
  <2>1. UNCHANGED <<pc, first, next, cancelled, config, apiUp, sent, toChannel, channel,
                    toContext, ctxDone, published, cleanUps, shown, lost, outcome, exit>>
    BY <1>1 DEF vars, program, signals, reports
  <2>2. TypeOK'
    <3>1. TypeOK
      BY <1>1 DEF LifeInv
    <3>2. QED
      BY <2>1, <3>1 DEF TypeOK
  <2>3. ExitStatus'
    BY <1>1, <2>1, Zenon DEF LifeInv, ExitStatus, Ended
  <2>4. CleanedUp'
    BY <1>1, <2>1, Zenon DEF LifeInv, CleanedUp, Ended
  <2>5. Reported'
    BY <1>1, <2>1, Zenon DEF LifeInv, Reported, Truth
  <2>6. QED
    BY <2>2, <2>3, <2>4, <2>5 DEF LifeInv
<1>2. QED
  BY <1>1, SignalsLife, StartLife, TopLife, RoundLife, QuietLife, StopUpdatingLife, EndLife
     DEF Next, Program, Environment

\* The invariant from which the next theorems follow.
THEOREM LifeInvariant == Spec => []LifeInv
  BY InitLife, NextLife, PTL DEF Spec

\* Every variable stays within its range; the clean-up runs at most once.
THEOREM TypeCorrect == Spec => []TypeOK
<1>1. LifeInv => TypeOK
  BY DEF LifeInv
<1>2. QED
  BY <1>1, LifeInvariant, PTL

\* A process that is not a single run, that deletes on stop and that finishes has
\* run its clean-up, and with an API that works has left nothing behind
\* (realMain, stopUpdating).
THEOREM NothingIsLeftBehind == Spec => []NothingLeftBehind
<1>1. LifeInv => NothingLeftBehind
  BY DEF LifeInv, CleanedUp, NothingLeftBehind, Finished
<1>2. QED
  BY <1>1, LifeInvariant, PTL

\* However many services there are and whichever calls to them are lost: a
\* dashboard that got the last message shows how the process fares.
THEOREM TruthIsShown == Spec => []MonitorsTellTruth
<1>1. LifeInv => MonitorsTellTruth
  BY DEF LifeInv, Reported, MonitorsTellTruth
<1>2. QED
  BY <1>1, LifeInvariant, PTL
================================================================================
