----------------------------- MODULE UpdaterRound -----------------------------
(***************************************************************************)
(* One round of the updater and its final clean-up (internal/updater):     *)
(* detection, filtering and the derivation of targets for each managed     *)
(* family in turn, the calls of the setter for every domain and list, and  *)
(* the report. The setter is abstract: a call brings a unit to its targets *)
(* or fails somewhere on the way, as RecordReconciler and                  *)
(* WAFListReconciler show. A timeout or a signal makes calls fail; the     *)
(* round goes on all the same.                                             *)
(***************************************************************************)
EXTENDS HostID6, UpdateMessages, Sequences

CONSTANTS
  Domains,         \* per family, its domains in order
  WAFLists,        \* the WAF lists in order
  Configurations,  \* what the operator may have configured
  Sightings,       \* per family, the sets of parsed entries a provider may see
  OldRecords,      \* per family, the sets of addresses a domain may have had
  OldItems,        \* per family, the sets of ranges a list may have had
  MaxOperations    \* bound on the rounds and clean-ups

Range(seq) == {seq[i] : i \in DOMAIN seq}
Names == UNION {Range(Domains[f]) : f \in Families}

Distinct(seq) == \A i, j \in DOMAIN seq : i # j => seq[i] # seq[j]

\* Domains and lists are sorted and without duplicates. A configuration has the
\* families with a provider; per family, the addresses that the detection filter
\* keeps; and a host-ID policy for every IPv6 domain.
ASSUME ConstantsAssumption ==
  /\ Domains \in [Families -> Seq(Names)] /\ \A f \in Families : Distinct(Domains[f])
  /\ WAFLists \in Seq(Range(WAFLists)) /\ Distinct(WAFLists)
  /\ \A f \in Families : OldRecords[f] \subseteq SUBSET Addrs(f)
  /\ \A f \in Families : OldItems[f] \subseteq SUBSET RawEntries(f)
  /\ \A c \in Configurations :
       /\ DOMAIN c = {"providers", "kept", "policies"}
       /\ c.providers \subseteq Families /\ c.providers # {}
       /\ c.kept \in [Families -> SUBSET Nat]
       /\ \A d \in Range(Domains["IP6"]) :
            c.policies[d] # {} /\ \A v \in c.policies[d] : Derivation(v)
  /\ MaxOperations \in Nat
  /\ \A f \in Families : \A seen \in Sightings[f] : \A s \in seen : Parsed(s)

VARIABLES
  conf,             \* the configuration, which does not change
  pc,               \* where the updater is
  todo,             \* the families that the round has yet to turn to
  names,            \* the domains or lists that wait for their call
  targets,          \* the addresses for the domains of the current family
  resps,            \* the response codes of the calls made for it
  msgs,             \* the messages gathered
  wafTargets,       \* per family seen, the ranges for the WAF lists, if known
  shouldUpdateWAF,  \* whether there is anything to do to the WAF lists
  records,          \* per family and domain, the addresses of the managed records
  items,            \* per list and family, the ranges of the managed items
  report,           \* the message of the last round or clean-up
  raw,              \* history: what the providers of this round said
  begin,            \* history: records and items at its start
  broken,           \* history: the units whose call in it failed
  operations        \* how many rounds and clean-ups have begun

remote == <<records, items>>
history == <<raw, begin, broken, operations>>
local == <<todo, names, targets, resps, msgs, wafTargets, shouldUpdateWAF>>
vars == <<conf, pc, local, remote, report, history>>

Empty == [x \in {} |-> {}]
With(m, k, v) == [x \in DOMAIN m \cup {k} |-> IF x = k THEN v ELSE m[x]]
NoReport == Classified(Quiet, "none", "none")

-----------------------------------------------------------------------------
(* Targets                                                                 *)

\* finalizeDetectedRawData: a filter that keeps nothing of something detected
\* makes the family unavailable instead of clearing it.
KeptOf(f, r) == {e \in r.entries : e.addr \in conf.kept[f]}
FilterAborts(f, r) == r.available /\ r.entries # {} /\ KeptOf(f, r) = {}

\* Mutation of the next: nothing left is taken for nothing detected.
FilteredToNothing(f, r) == [r EXCEPT !.entries = KeptOf(f, r)]
Filtered(f, r) ==
  IF FilterAborts(f, r) THEN Unavailable ELSE [r EXCEPT !.entries = KeptOf(f, r)]

DetectMessage(f, r) ==
  CASE Filtered(f, r).available -> Quiet
    [] FilterAborts(f, r) -> FilterAbortMessage(f)
    [] OTHER -> FailedDetectMessage(f)

SharedDNSTargets(domains, r) == [d \in domains |-> {e.addr : e \in r.entries}]

\* The IPv4 domains share their targets, those of IPv6 derive them.
Derived(f, r) ==
  IF f = "IP4"
  THEN [targets |-> SharedDNSTargets(Range(Domains[f]), r), problems |-> {}]
  ELSE DeriveDomains(conf.policies, r.entries, Range(Domains[f]))

\* deriveWAFTargets
WAFTargets(f, r) == [r EXCEPT !.entries = {Masked(f, e) : e \in @}]

-----------------------------------------------------------------------------
(* The setter                                                              *)

\* A failed call has written some of what was asked for, and may have deleted some
\* of what was not.
Between(old, new) == {now \in SUBSET (old \cup new) : old \cap new \subseteq now}

Outcomes(old, new) ==
  {[code |-> IF old = new THEN "noop" ELSE "updated", now |-> new]}
    \cup {[code |-> "failed", now |-> now] : now \in Between(old, new)}

\* The ranges of a family once its targets are covered and nothing else is there.
Reconciled(f, old, new) ==
  {i \in old : \E t \in new : Covers(f, i, t)}
    \cup {t \in new : \A i \in old : ~Covers(f, i, t)}

\* Per family, what a list should hold. The ranges of a family that is not managed
\* or not known at present are to stay.
WantedItems(l) ==
  [f \in Families |->
     IF f \in DOMAIN wafTargets /\ wafTargets[f].available
     THEN Reconciled(f, items[l][f], wafTargets[f].entries)
     ELSE items[l][f]]

\* Mutation of the next: the families that are not managed are cleared as well.
ClearedOfAll(l) == [f \in Families |-> {}]
Cleared(l) == [f \in Families |-> IF f \in conf.providers THEN {} ELSE items[l][f]]

\* What a call may answer and leave of a list that should hold `new`.
ListOutcomes(old, new, halfway) ==
  {[code |-> IF old = new THEN "noop" ELSE "updated", now |-> new]}
    \cup [code : halfway,
          now : {[f \in Families |-> IF f = "IP4" THEN n4 ELSE n6] :
                   n4 \in Between(old["IP4"], new["IP4"]), n6 \in Between(old["IP6"], new["IP6"])}]

-----------------------------------------------------------------------------
(* UpdateIPs                                                               *)

Init ==
  /\ conf \in Configurations
  /\ pc = "idle"
  /\ todo = {} /\ names = <<>> /\ targets = Empty /\ resps = NoResponses
  /\ msgs = {} /\ wafTargets = Empty /\ shouldUpdateWAF = FALSE
  /\ \E old \in OldRecords["IP4"], old6 \in OldRecords["IP6"] :
       records = [f \in Families |->
                    [d \in Range(Domains[f]) |-> IF f = "IP4" THEN old ELSE old6]]
  /\ \E old \in OldItems["IP4"], old6 \in OldItems["IP6"] :
       items = [l \in Range(WAFLists) |-> [f \in Families |-> IF f = "IP4" THEN old ELSE old6]]
  /\ report = NoReport
  /\ raw = Empty /\ begin = remote /\ broken = {} /\ operations = 0

\* The round starts with the families that have a provider, IPv4 first.
BeginAt(step) ==
  /\ pc = "idle" /\ operations < MaxOperations
  /\ operations' = operations + 1
  /\ pc' = step
  /\ todo' = conf.providers
  /\ msgs' = {} /\ wafTargets' = Empty /\ shouldUpdateWAF' = FALSE
  /\ report' = NoReport
  /\ raw' = Empty /\ begin' = remote /\ broken' = {}
  /\ UNCHANGED <<conf, names, targets, resps, remote>>

BeginRound == BeginAt("detect")

\* What the provider of the next family says: the entries it saw, if they are all
\* good, or nothing.
Answers(f) == {Unavailable} \cup {NormalizeDetectedRawEntries(f, seen) : seen \in Sightings[f]}

Detected(f, r) ==
  /\ pc = "detect" /\ todo # {} /\ f = First(todo)
  /\ r \in Answers(f)
  /\ raw' = With(raw, f, r)

\* Nothing usable was detected: the family is left as it is.
DetectionFails(f, r) ==
  /\ Detected(f, r)
  /\ ~Filtered(f, r).available
  /\ msgs' = msgs \cup {DetectMessage(f, r)}
  /\ wafTargets' = With(wafTargets, f, Unavailable)
  /\ todo' = todo \ {First(todo)}
  /\ UNCHANGED <<conf, pc, names, targets, resps, shouldUpdateWAF, remote, report, begin, broken, operations>>

\* A host-ID policy does not go with what was detected: neither is anything done
\* to IPv6, in this round, in DNS or in the lists.
HostIDProblem(f, r) ==
  /\ Detected(f, r)
  /\ Filtered(f, r).available
  /\ Derived(f, Filtered(f, r)).problems # {}
  /\ msgs' = msgs \cup {IP6DerivationFailureMessage}
  /\ wafTargets' = With(wafTargets, f, Unavailable)
  /\ todo' = todo \ {First(todo)}
  /\ UNCHANGED <<conf, pc, names, targets, resps, shouldUpdateWAF, remote, report, begin, broken, operations>>

DetectionSucceeds(f, r) ==
  LET derived == Derived(f, Filtered(f, r))
  IN  /\ Detected(f, r)
      /\ Filtered(f, r).available
      /\ derived.problems = {}
      /\ targets' = derived.targets
      /\ names' = Domains[f]
      /\ resps' = NoResponses
      /\ wafTargets' = With(wafTargets, f, WAFTargets(f, Filtered(f, r)))
      /\ shouldUpdateWAF' = TRUE
      /\ pc' = "dns"
      /\ UNCHANGED <<conf, todo, msgs, remote, report, begin, broken, operations>>

\* Mutation of the next: the other domains are dropped when a call fails.
DomainCallStopping(f, d, new) ==
  /\ names # <<>> /\ d = Head(names)
  /\ \E outcome \in Outcomes(records[f][d], new) :
       /\ records' = [records EXCEPT ![f][d] = outcome.now]
       /\ resps' = Registered(resps, d, outcome.code)
       /\ broken' = IF outcome.code = "failed" THEN broken \cup {<<f, d>>} ELSE broken
       /\ names' = IF outcome.code = "failed" THEN <<>> ELSE Tail(names)
  /\ UNCHANGED <<conf, pc, todo, targets, msgs, wafTargets, shouldUpdateWAF, items,
                 report, raw, begin, operations>>

\* A call of the setter for the next domain, which is to have the addresses `new`.
DomainCall(f, d, new) ==
  /\ names # <<>> /\ d = Head(names)
  /\ \E outcome \in Outcomes(records[f][d], new) :
       /\ records' = [records EXCEPT ![f][d] = outcome.now]
       /\ resps' = Registered(resps, d, outcome.code)
       /\ broken' = IF outcome.code = "failed" THEN broken \cup {<<f, d>>} ELSE broken
  /\ names' = Tail(names)
  /\ UNCHANGED <<conf, pc, todo, targets, msgs, wafTargets, shouldUpdateWAF, items,
                 report, raw, begin, operations>>

\* A domain without targets, which there should not be, is passed over.
PassOver(d) ==
  /\ names # <<>> /\ d = Head(names)
  /\ names' = Tail(names)
  /\ UNCHANGED <<conf, pc, todo, targets, resps, msgs, wafTargets, shouldUpdateWAF, remote,
                 report, history>>

SetIPs(d) ==
  /\ pc = "dns"
  /\ IF d \in DOMAIN targets THEN DomainCall(First(todo), d, targets[d]) ELSE PassOver(d)

\* One message for the domains without targets, which there should not be, and one
\* for each group of domains with the same targets.
MissingMessages(f) ==
  LET missing == Range(Domains[f]) \ DOMAIN targets
  IN  IF missing = {} THEN {} ELSE {MissingTargetSetsMessage(f, missing)}
GroupMessages(f) ==
  {UpdateMessage(f, ips, [c \in Codes |-> {d \in resps[c] : targets[d] = ips}])
     : ips \in {targets[d] : d \in UNION {resps[c] : c \in Codes}}}

FinishFamily ==
  /\ pc = "dns" /\ names = <<>>
  /\ msgs' = msgs \cup {Merge(MissingMessages(First(todo)) \cup GroupMessages(First(todo)))}
  /\ todo' = todo \ {First(todo)}
  /\ pc' = "detect"
  /\ UNCHANGED <<conf, names, targets, resps, wafTargets, shouldUpdateWAF, remote, report, history>>

\* The lists are left alone if no family has targets.
TurnToLists(step) ==
  /\ todo = {}
  /\ pc' = step
  /\ names' = IF step = "lists" /\ ~shouldUpdateWAF THEN <<>> ELSE WAFLists
  /\ resps' = NoResponses
  /\ UNCHANGED <<conf, todo, targets, msgs, wafTargets, shouldUpdateWAF, remote, report, history>>

BeginLists == pc = "detect" /\ TurnToLists("lists")

\* A call of the setter for the next list.
ListCall(l, new, halfway) ==
  /\ names # <<>> /\ l = Head(names)
  /\ \E outcome \in ListOutcomes(items[l], new, halfway) :
       /\ items' = [items EXCEPT ![l] = outcome.now]
       /\ resps' = Registered(resps, l, outcome.code)
       /\ broken' = IF outcome.code = "failed" THEN broken \cup {<<"list", l>>} ELSE broken
  /\ names' = Tail(names)
  /\ UNCHANGED <<conf, pc, todo, targets, msgs, wafTargets, shouldUpdateWAF, records,
                 report, raw, begin, operations>>

SetWAFList(l) == pc = "lists" /\ ListCall(l, WantedItems(l), {"failed"})

\* The report on all there was, and the end of the round or of the process.
Report(step, last, good, bad, next) ==
  /\ pc = step /\ names = <<>>
  /\ report' = Classified(Merge(msgs \cup {last}), good, bad)
  /\ pc' = next
  /\ todo' = {} /\ targets' = Empty /\ resps' = NoResponses
  /\ UNCHANGED <<conf, names, msgs, wafTargets, shouldUpdateWAF, remote, history>>

EndRound == Report("lists", UpdateWAFListsMessage(resps), "update", "update failure", "idle")

-----------------------------------------------------------------------------
(* FinalDeleteIPs                                                          *)

BeginCleanUp == BeginAt("delete")

\* finalDeleteIP, one domain
TurnToFamily ==
  /\ pc = "delete" /\ todo # {}
  /\ pc' = "deleting"
  /\ names' = Domains[First(todo)]
  /\ resps' = NoResponses
  /\ UNCHANGED <<conf, todo, targets, msgs, wafTargets, shouldUpdateWAF, remote, report, history>>

FinalDelete(d) == pc = "deleting" /\ DomainCall(First(todo), d, {})

FinishDeleting ==
  /\ pc = "deleting" /\ names = <<>>
  /\ msgs' = msgs \cup {FinalDeleteMessage(First(todo), resps)}
  /\ todo' = todo \ {First(todo)}
  /\ pc' = "delete"
  /\ UNCHANGED <<conf, names, targets, resps, wafTargets, shouldUpdateWAF, remote, report, history>>

BeginClearing == pc = "delete" /\ TurnToLists("clearing")

FinalClearWAFList(l) == pc = "clearing" /\ ListCall(l, Cleared(l), {"updating", "failed"})

EndCleanUp ==
  Report("clearing", FinalClearWAFListsMessage(resps), "cleanup", "cleanup failure", "stopped")

-----------------------------------------------------------------------------

UpdateIPs ==
  \/ BeginRound
  \/ \E f \in Families : \E r \in Answers(f) :
       DetectionFails(f, r) \/ HostIDProblem(f, r) \/ DetectionSucceeds(f, r)
  \/ \E d \in Names : SetIPs(d)
  \/ FinishFamily
  \/ BeginLists
  \/ \E l \in Range(WAFLists) : SetWAFList(l)
  \/ EndRound

FinalDeleteIPs ==
  \/ BeginCleanUp
  \/ TurnToFamily
  \/ \E d \in Names : FinalDelete(d)
  \/ FinishDeleting
  \/ BeginClearing
  \/ \E l \in Range(WAFLists) : FinalClearWAFList(l)
  \/ EndCleanUp

Next == UpdateIPs \/ FinalDeleteIPs

Spec == Init /\ [][Next]_vars

-----------------------------------------------------------------------------
(* Properties                                                              *)

TypeOK ==
  /\ conf \in Configurations
  /\ pc \in {"idle", "detect", "dns", "lists", "delete", "deleting", "clearing", "stopped"}
  /\ todo \subseteq conf.providers
  /\ names \in Seq(Names \cup Range(WAFLists))
  /\ DOMAIN targets \subseteq Names
  /\ \A d \in DOMAIN targets : targets[d] \subseteq Addrs("IP6")
  /\ resps \in [Codes -> SUBSET (Names \cup Range(WAFLists))]
  /\ \A m \in msgs : m.ok \in BOOLEAN /\ (m.ok \/ m.lines # {})
  /\ \A f \in DOMAIN wafTargets :
       f \in conf.providers /\ wafTargets[f].entries \subseteq RawEntries(f)
  /\ shouldUpdateWAF \in BOOLEAN
  /\ \A f \in Families, d \in Names :
       d \in DOMAIN records[f] => records[f][d] \subseteq Addrs(f)
  /\ \A l \in Range(WAFLists), f \in Families : items[l][f] \subseteq RawEntries(f)
  /\ report.kind \in {"none", "update", "update failure", "cleanup", "cleanup failure"}
  /\ operations \in 0 .. MaxOperations
  /\ \A f \in DOMAIN raw : f \in conf.providers /\ raw[f].entries \subseteq RawEntries(f)

\* The entries of a family to work with, in the round so far.
KeptEntries(f) == KeptOf(f, raw[f])
Usable(f) ==
  /\ f \in DOMAIN raw
  /\ raw[f].available
  /\ raw[f].entries = {} \/ KeptEntries(f) # {}
  /\ f = "IP6" => \A d \in Range(Domains[f]), e \in KeptEntries(f) :
                     \A v \in conf.policies[d] : Applicable(e, v)

InCleanUp == pc \in {"delete", "deleting", "clearing", "stopped"}
InScope == IF InCleanUp THEN conf.providers ELSE {f \in Families : Usable(f)}

\* In a round, nothing of a family changes, neither a record nor an item of a list,
\* unless its addresses are known, some pass the filter and every host-ID policy
\* can be applied to all of them; in the clean-up, nothing of a family without a
\* provider does.
KeptOutOfScope ==
  \A f \in Families \ InScope :
    /\ records[f] = begin[1][f]
    /\ \A l \in Range(WAFLists) : items[l][f] = begin[2][l][f]

\* A domain has exactly the addresses derived for it, a list has a range for each
\* detected one and no useless range; in the clean-up both have nothing left.
DomainRight(f, d) ==
  CASE InCleanUp -> records[f][d] = {}
    [] f = "IP4" /\ ~InCleanUp -> records[f][d] = {e.addr : e \in KeptEntries(f)}
    [] OTHER ->
         /\ \A e \in KeptEntries(f) : \A v \in conf.policies[d] :
              \E a \in records[f][d] : Fits(a, e, v)
         /\ \A a \in records[f][d] :
              \E e \in KeptEntries(f) : \E v \in conf.policies[d] : Fits(a, e, v)
ListRight(l, f) ==
  IF InCleanUp THEN items[l][f] = {}
  ELSE /\ \A e \in KeptEntries(f) : \E i \in items[l][f] : Covers(f, i, e)
       /\ \A i \in items[l][f] : \E e \in KeptEntries(f) : Covers(f, i, e)

Over == report # NoReport
Pending(l) == \E line \in report.note : line.what = "updating" /\ l \in line.names

\* At the end of a round or of the clean-up, every domain and list whose own call
\* did not fail is as it should be in each family in scope: no family waits for the
\* other, no unit for one that fails.
UnitsIndependent ==
  Over => \A f \in InScope :
    /\ \A d \in Range(Domains[f]) : <<f, d>> \notin broken => DomainRight(f, d)
    /\ \A l \in Range(WAFLists) : <<"list", l>> \notin broken /\ ~Pending(l) => ListRight(l, f)

\* A report of success is true of every managed family, and what a notifier is told
\* to be updated is.
HonestReport ==
  /\ Over /\ report.ok => \A f \in conf.providers :
       /\ f \in InScope
       /\ \A d \in Range(Domains[f]) : DomainRight(f, d)
       /\ \A l \in Range(WAFLists) : Pending(l) \/ ListRight(l, f)
  /\ Over => \A line \in report.note : \A n \in line.names :
       /\ line.what = "updated" /\ line.family # "list" => records[line.family][n] = line.ips
       /\ line.what = "failed" <=> <<line.family, n>> \in broken

\* Every family that could not be worked on and every unit whose call failed is
\* named to monitors and notifiers alike, whatever else went wrong.
FailuresNamed ==
  Over => \A told \in {report.lines, report.note} :
    /\ \A f \in conf.providers \ InScope : \E line \in told : line.family = f
    /\ \A unit \in broken :
         \E line \in told : line.what = "failed" /\ line.family = unit[1] /\ unit[2] \in line.names
===============================================================================
