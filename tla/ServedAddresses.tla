---------------------------- MODULE ServedAddresses ----------------------------
(***************************************************************************)
(* What one DNS reconciliation unit promises, without records, IDs, caches *)
(* or API calls: which addresses the unit's managed records serve, and how *)
(* they may change while a round works towards the wanted addresses or a   *)
(* final deletion clears them. The promises bind the updater only while    *)
(* its picture of the records can be trusted, that is, while nobody else   *)
(* has changed them since it last fetched them.                            *)
(***************************************************************************)
CONSTANT IPs

VARIABLES
  live,     \* the addresses served
  want,     \* the addresses the last round was asked to serve
  trusted,  \* nobody else changed the records since they were fetched
  phase,    \* "idle", "serving", "clearing" or "stopped"
  answer    \* how the last operation ended: "none", "done" or "failed"

served == <<live, want, trusted, phase, answer>>

Init ==
  /\ live \in SUBSET IPs
  /\ want = {}
  /\ trusted = TRUE
  /\ phase = "idle"
  /\ answer = "none"

\* Fetching the records anew restores the trust in them.
Look == trusted' \in {trusted, TRUE} /\ UNCHANGED live

\* Wanted addresses are never taken away, and stale ones only while serving a
\* wanted one or when all of them are served.
Improve ==
  \/ UNCHANGED live
  \/ ~trusted /\ live' \in SUBSET IPs
  \/ \E t \in want \ live, gone \in SUBSET (live \ want) :
       live' = (live \ gone) \cup {t}
  \/ want \subseteq live /\ \E gone \in SUBSET (live \ want) : live' = live \ gone

Diminish == live' \in SUBSET (IF trusted THEN live ELSE IPs)

\* An operation that ends well has left exactly the given addresses.
EndWell(addresses) ==
  /\ trusted' => live' = addresses
  /\ answer' = "done"

BeginRound ==
  /\ phase = "idle"
  /\ Look
  /\ want' \in SUBSET IPs
  /\ \/ phase' = "serving" /\ answer' = "none"
     \/ phase' = "idle" /\ EndWell(want')

Work ==
  /\ phase = "serving"
  /\ Improve
  /\ UNCHANGED <<want, trusted>>
  /\ \/ UNCHANGED <<phase, answer>>
     \/ phase' = "idle" /\ answer' = "failed"

EndRound ==
  /\ phase = "serving"
  /\ phase' = "idle"
  /\ EndWell(want)
  /\ UNCHANGED <<live, want, trusted>>

BeginClearing ==
  /\ phase = "idle"
  /\ Look
  /\ UNCHANGED want
  /\ \/ phase' = "clearing" /\ answer' = "none"
     \/ phase' = "stopped" /\ EndWell({})

Clear ==
  /\ phase = "clearing"
  /\ Diminish
  /\ UNCHANGED <<want, trusted>>
  /\ \/ UNCHANGED <<phase, answer>>
     \/ phase' = "stopped" /\ answer' = "failed"

EndClearing ==
  /\ phase = "clearing"
  /\ phase' = "stopped"
  /\ EndWell({}) \/ answer' = "failed"
  /\ UNCHANGED <<live, want, trusted>>

\* The records could not even be listed.
GiveUp ==
  /\ phase = "idle"
  /\ phase' \in {"idle", "stopped"}
  /\ answer' = "failed"
  /\ UNCHANGED <<live, want, trusted>>

StartOver ==
  /\ want' = {} /\ phase' = "idle" /\ answer' = "none"
  /\ UNCHANGED <<live, trusted>>

\* Somebody else changes the records.
Interfere ==
  /\ live' \in SUBSET IPs
  /\ trusted' = FALSE
  /\ UNCHANGED <<want, phase, answer>>

Next ==
  \/ BeginRound \/ Work \/ EndRound
  \/ BeginClearing \/ Clear \/ EndClearing
  \/ GiveUp \/ StartOver \/ Interfere

Spec == Init /\ [][Next]_served
===============================================================================
