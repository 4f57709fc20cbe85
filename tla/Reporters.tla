----------------------------- MODULE Reporters -----------------------------
(***************************************************************************)
(* The heartbeat services of a process, internal/heartbeat.  A service is  *)
(* abstracted to the state its dashboard shows, a call to the change it    *)
(* makes there, and a message to whether it is OK and whether it is empty. *)
(*                                                                         *)
(* Healthchecks implements the whole interface (Heartbeat); Uptime Kuma    *)
(* implements BasicHeartbeat, so that Start and Exit pass it by and Log is *)
(* only a ping, and only of a failure.  A call may fail (the service is    *)
(* down, the answer is not the expected one); the composite ignores that   *)
(* and goes on to the next service.                                        *)
(***************************************************************************)

CONSTANTS Healthchecks,   \* the services of type Healthchecks
          UptimeKumas     \* the services of type UptimeKuma

ASSUME ServicesAssumption == Healthchecks \cap UptimeKumas = {}

Services == Healthchecks \cup UptimeKumas

\* What a dashboard shows.
Shown == {"nothing", "started", "up", "down"}

\* Healthchecks.ping: the request arrives, or the failure is logged and the
\* dashboard keeps what it shows.
Delivered(shown, reached, calls) ==
    [s \in Services |->
        IF s \in DOMAIN calls /\ s \in reached THEN calls[s] ELSE shown[s]]

\* The endpoint of Healthchecks, base or /fail, and the status of Uptime Kuma.
HealthchecksPing(ok) == IF ok THEN "up" ELSE "down"
UptimeKumaPing(ok) == IF ok THEN "up" ELSE "down"

\* Composed.Ping: every service, whatever became of the call before.
Ping(shown, reached, ok) ==
    Delivered(shown, reached,
              [s \in Services |-> IF s \in Healthchecks THEN HealthchecksPing(ok)
                                 ELSE UptimeKumaPing(ok)])

\* Composed.Start, the /start endpoint.
Start(shown, reached) ==
    Delivered(shown, reached, [s \in Healthchecks |-> "started"])

\* Composed.Exit, the endpoint /0: a success, whatever was reported before.
Exit(shown, reached) ==
    Delivered(shown, reached, [s \in Healthchecks |-> "up"])

\* Mutation: the composite pings a basic service with a success too.
LogPingsAlways(shown, reached, ok) ==
    Delivered(shown, reached,
              [s \in {t \in Services : ~ok \/ t \in UptimeKumas} |->
                  IF ok THEN "up" ELSE "down"])

\* Composed.Log: a failure is a ping to the failure endpoint of every service;
\* a success goes to the /log endpoint, which changes no state, and an empty
\* one is not sent.
Log(shown, reached, ok) ==
    IF ok THEN shown ELSE Ping(shown, reached, FALSE)
=============================================================================
