----------------------------- MODULE CoveredRanges -----------------------------
(***************************************************************************)
(* What the reconciliation of one WAF list promises, without items, IDs,   *)
(* caches or calls: which ranges the list holds, and how they may change   *)
(* while a round works towards the targets of the families it knows or a   *)
(* final clean-up takes out the families in scope. The promises bind the   *)
(* updater only while its picture of the list can be trusted.              *)
(***************************************************************************)
CONSTANTS
  Families,  \* the IP families
  Prefixes,  \* the IP ranges in play
  FamilyOf,  \* the family of each
  Covers     \* the pairs of a range and one inside it

VARIABLES
  held,     \* the ranges of the list's managed items
  want,     \* the targets of the last round, per family known to it
  scope,    \* the families that the final clean-up is about
  trusted,  \* the plan was made from what is so
  phase,    \* "idle", "covering", "clearing" or "stopped"
  answer    \* how the last operation ended: "none", "done", "failed" or "pending"

covered == <<held, want, scope, trusted, phase, answer>>

Targets == UNION {[known -> SUBSET Prefixes] : known \in SUBSET Families}

Missing == {t \in UNION {want[f] : f \in DOMAIN want} : \A p \in held : <<p, t>> \notin Covers}
Superfluous ==
  {p \in held : /\ FamilyOf[p] \in DOMAIN want
                /\ \A t \in want[FamilyOf[p]] : <<p, t>> \notin Covers}
InScope == {p \in held : FamilyOf[p] \in scope}

Init ==
  /\ held \in SUBSET Prefixes
  /\ want = [f \in {} |-> {}]
  /\ scope \in SUBSET Families
  /\ trusted = TRUE
  /\ phase = "idle"
  /\ answer = "none"

-----------------------------------------------------------------------------
(* Rounds *)

\* Every target is covered and no range of a known family is in the list for nothing.
EndWell ==
  /\ phase' = "idle" /\ answer' = "done"
  /\ trusted' => Missing' = {} /\ Superfluous' = {}

\* What is missing is added, all at once; only then, and all at once, what is
\* superfluous goes.
Improve ==
  \/ UNCHANGED held
  \/ held' = held \cup Missing
  \/ Missing = {} /\ held' = held \ Superfluous
  \/ ~trusted /\ held' \in SUBSET Prefixes

\* The list is looked up, or remembered, which need not be right.
BeginRound ==
  /\ phase = "idle"
  /\ want' \in Targets
  /\ trusted' \in BOOLEAN
  /\ \/ phase' = "covering" /\ answer' = "none"
     \/ EndWell
  /\ UNCHANGED <<held, scope>>

Work ==
  /\ phase = "covering"
  /\ Improve
  /\ \/ UNCHANGED <<phase, answer>>
     \/ phase' = "idle" /\ answer' = "failed"
     \/ EndWell
  /\ UNCHANGED <<want, scope, trusted>>

GiveUp ==
  /\ phase = "idle"
  /\ answer' = "failed"
  /\ UNCHANGED <<held, want, scope, trusted, phase>>

-----------------------------------------------------------------------------
(* The final clean-up *)

Clear == held' \in {held, held \ InScope}

EndCleared ==
  /\ phase' = "stopped" /\ answer' = "done"
  /\ trusted' => InScope' = {}

EndUncleared == phase' = "stopped" /\ answer' \in {"failed", "pending"}

BeginClearing ==
  /\ phase = "idle"
  /\ Clear
  /\ trusted' \in BOOLEAN
  /\ \/ phase' = "clearing" /\ UNCHANGED answer
     \/ EndCleared
     \/ EndUncleared
  /\ UNCHANGED <<want, scope>>

\* The list is looked at once more, ...
LookAgain ==
  /\ phase = "clearing"
  /\ trusted' \in BOOLEAN
  /\ UNCHANGED <<phase, answer>> \/ EndCleared \/ EndUncleared
  /\ UNCHANGED <<held, want, scope>>

\* ... and the last call made, of which it is not known what becomes.
Erase ==
  /\ phase = "clearing"
  /\ \/ Clear
     \/ ~trusted /\ held' \in SUBSET held
  /\ EndUncleared
  /\ UNCHANGED <<want, scope, trusted>>

-----------------------------------------------------------------------------

StartOver ==
  /\ want' = [f \in {} |-> {}] /\ trusted' = TRUE /\ phase' = "idle" /\ answer' = "none"
  /\ UNCHANGED <<held, scope>>

\* Somebody else changes the list, or a request is carried out late.
Interfere ==
  /\ held' \in SUBSET Prefixes
  /\ trusted' = FALSE
  /\ UNCHANGED <<want, scope, phase, answer>>

Next ==
  \/ BeginRound \/ Work \/ GiveUp
  \/ BeginClearing \/ LookAgain \/ Erase
  \/ StartOver \/ Interfere

Spec == Init /\ [][Next]_covered
===============================================================================
