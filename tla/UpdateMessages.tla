---------------------------- MODULE UpdateMessages ----------------------------
(***************************************************************************)
(* What a round or a clean-up tells the monitors and the notifiers         *)
(* (internal/updater/message*.go, internal/heartbeat/message.go). Wording  *)
(* is abstracted: a line says what happened, to which family, domains or   *)
(* lists, and with which addresses. Monitors are shown failures only, if   *)
(* there are any; notifiers are told everything.                           *)
(***************************************************************************)
EXTENDS FiniteSets

Line(what, f, names, ips) == [what |-> what, family |-> f, names |-> names, ips |-> ips]
Quiet == [ok |-> TRUE, lines |-> {}, note |-> {}]
Failure(line) == [ok |-> FALSE, lines |-> {line}, note |-> {line}]

\* Mutation of the next: the last failure hides those before it.
MergeLast(msgs) ==
  LET bad == {m \in msgs : ~m.ok}
      ok == bad = {}
  IN  [ok |-> ok,
       lines |-> IF ok THEN UNION {m.lines : m \in msgs} ELSE (CHOOSE m \in bad : TRUE).lines,
       note |-> UNION {m.note : m \in msgs}]

\* MergeMessages: only the lines of the highest severity are kept.
Merge(msgs) ==
  LET ok == \A m \in msgs : m.ok
  IN  [ok |-> ok,
       lines |-> UNION {m.lines : m \in {n \in msgs : n.ok = ok}},
       note |-> UNION {m.note : m \in msgs}]

\* The domains or lists that the setter answered by each of its response codes.
Codes == {"noop", "updated", "updating", "failed"}
NoResponses == [c \in Codes |-> {}]
Registered(resps, n, code) == [resps EXCEPT ![code] = @ \cup {n}]

\* Mutation of the next: what succeeded makes up for what failed.
OnResponsesInPart(f, ips, resps) ==
  LET said(codes) == {Line(c, f, resps[c], ips) : c \in {k \in codes : resps[k] # {}}}
      ok == resps["failed"] = {} \/ resps["updated"] # {}
  IN  [ok |-> ok,
       lines |-> IF ok THEN said({"updating", "updated"}) ELSE said({"failed"}),
       note |-> said({"failed", "updating", "updated"})]

\* The message on units of which each is answered by a response code: a failure
\* leaves no room for the others in the line to the monitors. Nothing is said of
\* those that needed no change.
OnResponses(f, ips, resps) ==
  LET said(codes) == {Line(c, f, resps[c], ips) : c \in {k \in codes : resps[k] # {}}}
      ok == resps["failed"] = {}
  IN  [ok |-> ok,
       lines |-> IF ok THEN said({"updating", "updated"}) ELSE said({"failed"}),
       note |-> said({"failed", "updating", "updated"})]

\* The messages on the domains of a family with common targets, none meaning that
\* their records are cleared; on the lists; and on both in the clean-up.
UpdateMessage(f, ips, resps) == OnResponses(f, ips, resps)
UpdateWAFListsMessage(resps) == OnResponses("list", {}, resps)
FinalDeleteMessage(f, resps) == OnResponses(f, {}, resps)
FinalClearWAFListsMessage(resps) == OnResponses("list", {}, resps)

FailedDetectMessage(f) == Failure(Line("undetected", f, {}, {}))
FilterAbortMessage(f) == Failure(Line("filtered", f, {}, {}))
IP6DerivationFailureMessage == Failure(Line("host ID", "IP6", {}, {}))
MissingTargetSetsMessage(f, domains) == Failure(Line("missing", f, domains, {}))

\* classifyNotification
Classified(msg, good, bad) ==
  [ok |-> msg.ok, lines |-> msg.lines, note |-> msg.note,
   kind |-> IF msg.ok THEN good ELSE bad]
===============================================================================
