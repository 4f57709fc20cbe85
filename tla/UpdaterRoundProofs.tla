-------------------------- MODULE UpdaterRoundProofs --------------------------
(***************************************************************************)
(* Theorems about UpdaterRound, for all domains, lists, configurations and *)
(* sightings and for every number of rounds.                               *)
(***************************************************************************)
EXTENDS UpdaterRound, HostID6Proofs, TLAPS

-----------------------------------------------------------------------------
(* What is out of scope is kept                                            *)

\* A configuration is one of those assumed.
LEMMA Configured ==
  ASSUME conf \in Configurations
  PROVE  /\ conf.providers \subseteq Families
         /\ \A d \in Range(Domains["IP6"]) : \A v \in conf.policies[d] : Derivation(v)
  BY ConstantsAssumption

\* The family that a round turns to is one of those it has yet to turn to.
LEMMA FirstThere ==
  ASSUME NEW families \in SUBSET Families, families # {}
  PROVE  First(families) \in families
  BY DEF First, Families

\* What a provider says is nothing, or entries of the family.
LEMMA AnswersAreRight ==
  ASSUME NEW f \in Families, NEW r \in Answers(f)
  PROVE  r = [available |-> r.available, entries |-> r.entries] /\ r.entries \subseteq RawEntries(f)
<1>1. CASE r = Unavailable
  BY <1>1 DEF Unavailable
<1>2. ASSUME NEW seen \in Sightings[f], r = NormalizeDetectedRawEntries(f, seen),
             \A s \in seen : ValidEntry(f, s)
      PROVE  r = [available |-> r.available, entries |-> r.entries] /\ r.entries \subseteq RawEntries(f)
  <2>1. \A s \in seen : Parsed(s)
    BY ConstantsAssumption
  <2>2. r = Known({NormalizeRawEntryIP(s) : s \in seen})
    BY <1>2 DEF NormalizeDetectedRawEntries
  <2>3. QED
    BY <1>2, <2>1, <2>2, NormalizedRight DEF Known
<1>3. QED
  BY <1>1, <1>2 DEF Answers, NormalizeDetectedRawEntries

\* When everything can be derived, every derivation applies to every entry.
LEMMA NoProblem ==
  ASSUME NEW policies, NEW entries, NEW domains,
         DeriveDomains(policies, entries, domains).problems = {},
         NEW d \in domains, NEW e \in entries, NEW v \in policies[d]
  PROVE  Compatible(e, v)
<1> DEFINE bad == {t \in Attempts(policies, entries, domains) : ~Compatible(t[2], t[3])}
           t == <<d, e, v>>
<1>a. ProblemGroups(policies, entries, domains) = {}
  BY DEF DeriveDomains
<1>1. bad = {}
  <2> DEFINE group(k) == {u \in bad : Incompatibility(u[2], u[3]) = k}
             Problem(k) == [problem |-> k, domains |-> {u[1] : u \in group(k)},
                            derivations |-> {u[3] : u \in group(k)},
                            observed |-> {u[2] : u \in group(k)}]
             keys == {Incompatibility(u[2], u[3]) : u \in bad}
  <2>1. {Problem(k) : k \in keys} = {}
    BY <1>a DEF ProblemGroups
  <2> HIDE DEF Problem
  <2>2. keys = {}
    BY <2>1
  <2>3. QED
    BY <2>2
<1>2. t \in Attempts(policies, entries, domains)
  BY DEF Attempts
<1>3. QED
  BY <1>1, <1>2

Steps == {"idle", "detect", "dns", "lists", "delete", "deleting", "clearing", "stopped"}

\* A family that was turned to, or is about to be, and whether it can be worked on.
FamiliesInv ==
  /\ conf \in Configurations
  /\ pc \in Steps
  /\ todo \subseteq conf.providers
  /\ pc \in {"dns", "deleting"} => todo # {}
  /\ pc = "dns" => Usable(First(todo))
  /\ \A f \in todo : f \in DOMAIN raw => pc = "dns" /\ f = First(todo)
  /\ \A f \in DOMAIN wafTargets : wafTargets[f].available => Usable(f)

RemoteInv ==
  /\ DOMAIN records = Families
  /\ DOMAIN items = Range(WAFLists)

ScopeInv == FamiliesInv /\ RemoteInv /\ KeptOutOfScope

\* Whether a family can be worked on depends on what was detected for it alone.
LEMMA UsableStays ==
  ASSUME conf' = conf, NEW f,
         \/ raw' = raw
         \/ \E g, r : raw' = With(raw, g, r) /\ f # g
  PROVE  Usable(f)' = Usable(f)
<1>1. /\ f \in DOMAIN raw' <=> f \in DOMAIN raw
      /\ f \in DOMAIN raw => raw'[f] = raw[f]
  BY DEF With
<1>2. CASE f \in DOMAIN raw
  <2>1. KeptEntries(f)' = KeptEntries(f)
    BY <1>1, <1>2 DEF KeptEntries, KeptOf
  <2>2. QED
    BY <1>1, <1>2, <2>1 DEF Usable
<1>3. CASE f \notin DOMAIN raw
  <2>1. Usable(f) = FALSE
    BY <1>3 DEF Usable
  <2>2. Usable(f)' = FALSE
    BY <1>1, <1>3 DEF Usable
  <2>3. QED
    BY <2>1, <2>2
<1>4. QED
  BY <1>2, <1>3

\* A detection that the code goes on with is one to work with.
LEMMA SuccessIsUsable ==
  ASSUME ScopeInv, NEW f \in Families, NEW r \in Answers(f), DetectionSucceeds(f, r)
  PROVE  Usable(f)'
<1> DEFINE kept == KeptOf(f, r)
<1>1. /\ raw' = With(raw, f, r) /\ conf' = conf
      /\ Filtered(f, r).available /\ Derived(f, Filtered(f, r)).problems = {}
  BY DEF DetectionSucceeds, Detected
<1>2. f \in DOMAIN raw' /\ raw'[f] = r
  BY <1>1 DEF With
<1>3. ~FilterAborts(f, r) /\ Filtered(f, r) = [r EXCEPT !.entries = kept]
  BY <1>1 DEF Filtered, Unavailable
<1>4. /\ r = [available |-> r.available, entries |-> r.entries]
      /\ Filtered(f, r).available = r.available /\ Filtered(f, r).entries = kept
  BY <1>3 DEF Answers, NormalizeDetectedRawEntries, Known, Unavailable
<1>5. r.available /\ (r.entries = {} \/ kept # {})
  BY <1>1, <1>3, <1>4 DEF FilterAborts
<1>6. KeptEntries(f)' = kept
  BY <1>1, <1>2 DEF KeptEntries, KeptOf
<1>7. ASSUME f = "IP6", NEW d \in Range(Domains[f]), NEW e \in kept, NEW v \in conf.policies[d]
      PROVE  Applicable(e, v)
  <2>1. Compatible(e, v)
    BY <1>1, <1>4, <1>7, NoProblem DEF Derived
  <2>2. e \in RawEntries("IP6")
    BY <1>7, AnswersAreRight DEF KeptOf
  <2>3. Derivation(v)
    BY <1>7, Configured DEF ScopeInv, FamiliesInv
  <2>4. QED
    BY <2>1, <2>2, <2>3, CompatibleApplies
<1>8. QED
  BY <1>1, <1>2, <1>5, <1>6, <1>7 DEF Usable

\* The families in scope remain in scope while a round or the clean-up goes on.
LEMMA ScopeGrows ==
  ASSUME FamiliesInv, conf' = conf, InCleanUp' <=> InCleanUp,
         \/ raw' = raw
         \/ \E g, r : raw' = With(raw, g, r) /\ g \notin DOMAIN raw
  PROVE  InScope \subseteq InScope'
<1>1. CASE InCleanUp
  BY <1>1 DEF InScope
<1>2. CASE ~InCleanUp
  <2>1. ASSUME NEW f \in Families, Usable(f) PROVE Usable(f)'
    <3>1. f \in DOMAIN raw
      BY <2>1 DEF Usable
    <3>2. \/ raw' = raw
          \/ \E g, r : raw' = With(raw, g, r) /\ f # g
      BY <3>1
    <3>3. QED
      BY <2>1, <3>2, UsableStays
  <2>2. InScope = {f \in Families : Usable(f)} /\ InScope' = {f \in Families : Usable(f)'}
    BY <1>2 DEF InScope
  <2>3. QED
    BY <2>1, <2>2
<1>3. QED
  BY <1>1, <1>2

\* Nothing out of scope changes if neither its records nor its items do.
LEMMA KeptOn ==
  ASSUME KeptOutOfScope, begin' = begin, InScope \subseteq InScope',
         \A f \in Families : f \notin InScope' =>
           /\ records'[f] = records[f]
           /\ \A l \in Range(WAFLists) : items'[l][f] = items[l][f]
  PROVE  KeptOutOfScope'
<1> SUFFICES ASSUME NEW f \in Families, f \notin InScope'
             PROVE  /\ records'[f] = begin'[1][f]
                    /\ \A l \in Range(WAFLists) : items'[l][f] = begin'[2][l][f]
  BY DEF KeptOutOfScope
<1>1. f \notin InScope
  OBVIOUS
<1>2. QED
  BY <1>1 DEF KeptOutOfScope

\* A step that touches neither records, items nor what is known of the families.
LEMMA QuietStep ==
  ASSUME ScopeInv, UNCHANGED <<conf, remote, begin, raw, wafTargets>>,
         pc' \in Steps \ {"dns"}, InCleanUp' <=> InCleanUp,
         todo' \subseteq todo, pc' = "deleting" => todo' # {},
         \A f \in todo' : f \notin DOMAIN raw
  PROVE  ScopeInv'
<1>a. FamiliesInv /\ RemoteInv /\ KeptOutOfScope
  BY DEF ScopeInv
<1>1. \A f \in DOMAIN wafTargets' : wafTargets'[f].available => Usable(f)'
  BY <1>a, UsableStays DEF FamiliesInv
<1>2. FamiliesInv'
  BY <1>a, <1>1 DEF FamiliesInv
<1>3. RemoteInv'
  BY <1>a DEF RemoteInv, remote
<1>4. KeptOutOfScope'
  BY <1>a, ScopeGrows, KeptOn DEF remote
<1>5. QED
  BY <1>2, <1>3, <1>4 DEF ScopeInv

\* A round or the clean-up begins.
LEMMA BeginScope ==
  ASSUME ScopeInv, NEW step \in {"detect", "delete"}, BeginAt(step)
  PROVE  ScopeInv'
<1>a. /\ conf' = conf /\ pc' = step /\ todo' = conf.providers
      /\ wafTargets' = Empty /\ raw' = Empty
      /\ begin' = <<records, items>> /\ records' = records /\ items' = items
  BY DEF BeginAt, remote
<1>1. FamiliesInv'
  BY <1>a DEF ScopeInv, FamiliesInv, Empty, Steps
<1>2. RemoteInv'
  BY <1>a DEF ScopeInv, RemoteInv
<1>3. KeptOutOfScope'
  BY <1>a DEF KeptOutOfScope
<1>4. QED
  BY <1>1, <1>2, <1>3 DEF ScopeInv

\* What a detection changes for the other families.
LEMMA DetectionElsewhere ==
  ASSUME ScopeInv, NEW f, NEW r, Detected(f, r), conf' = conf,
         UNCHANGED <<remote, begin>>, pc' \in {"detect", "dns"}
  PROVE  /\ f \in todo /\ f \notin DOMAIN raw /\ f \in Families
         /\ \A g \in DOMAIN wafTargets : g # f /\ wafTargets[g].available => Usable(g)'
         /\ \A g \in todo \ {f} : g \notin DOMAIN raw'
         /\ RemoteInv' /\ KeptOutOfScope'
<1>a. /\ FamiliesInv /\ RemoteInv /\ KeptOutOfScope
      /\ pc = "detect" /\ todo # {} /\ f = First(todo) /\ raw' = With(raw, f, r)
  BY DEF ScopeInv, Detected
<1>b. conf.providers \subseteq Families /\ todo \subseteq conf.providers
  BY <1>a, Configured DEF FamiliesInv
<1>1. f \in todo /\ f \in Families
  BY <1>a, <1>b, FirstThere
<1>2. \A g \in todo : g \notin DOMAIN raw
  BY <1>a DEF FamiliesInv
<1>3. \A g \in DOMAIN wafTargets : g # f /\ wafTargets[g].available => Usable(g)'
  BY <1>a, UsableStays DEF FamiliesInv
<1>4. \A g \in todo \ {f} : g \notin DOMAIN raw'
  BY <1>a, <1>2 DEF With
<1>5. InScope \subseteq InScope'
  <2>1. InCleanUp' <=> InCleanUp
    BY <1>a DEF InCleanUp
  <2>2. QED
    BY <1>a, <1>1, <1>2, <2>1, ScopeGrows
<1>6. RemoteInv' /\ KeptOutOfScope'
  BY <1>a, <1>5, KeptOn DEF RemoteInv, remote
<1>7. QED
  BY <1>1, <1>2, <1>3, <1>4, <1>6

\* Nothing usable was detected.
LEMMA FailedDetectionScope ==
  ASSUME ScopeInv, NEW f, NEW r, DetectionFails(f, r) \/ HostIDProblem(f, r)
  PROVE  ScopeInv'
<1>a. /\ Detected(f, r) /\ conf' = conf /\ UNCHANGED <<remote, begin>> /\ pc' = pc
      /\ wafTargets' = With(wafTargets, f, Unavailable)
      /\ todo' = todo \ {First(todo)}
  BY DEF DetectionFails, HostIDProblem
<1>b. pc = "detect" /\ f = First(todo)
  BY <1>a DEF Detected
<1>1. /\ \A g \in DOMAIN wafTargets : g # f /\ wafTargets[g].available => Usable(g)'
      /\ \A g \in todo \ {f} : g \notin DOMAIN raw'
      /\ RemoteInv' /\ KeptOutOfScope'
  BY <1>a, <1>b, DetectionElsewhere
<1>2. \A g \in DOMAIN wafTargets' : wafTargets'[g].available => Usable(g)'
  BY <1>a, <1>1 DEF With, Unavailable
<1>3. FamiliesInv'
  BY <1>a, <1>b, <1>1, <1>2 DEF ScopeInv, FamiliesInv, Steps
<1>4. QED
  BY <1>1, <1>3 DEF ScopeInv

\* Something usable was.
LEMMA DetectionScope ==
  ASSUME ScopeInv, NEW f \in Families, NEW r \in Answers(f), DetectionSucceeds(f, r)
  PROVE  ScopeInv'
<1>a. /\ Detected(f, r) /\ conf' = conf /\ UNCHANGED <<remote, begin>> /\ pc' = "dns"
      /\ wafTargets' = With(wafTargets, f, WAFTargets(f, Filtered(f, r)))
      /\ todo' = todo
  BY DEF DetectionSucceeds
<1>b. pc = "detect" /\ f = First(todo) /\ todo # {}
  BY <1>a DEF Detected
<1>1. /\ \A g \in DOMAIN wafTargets : g # f /\ wafTargets[g].available => Usable(g)'
      /\ \A g \in todo \ {f} : g \notin DOMAIN raw'
      /\ RemoteInv' /\ KeptOutOfScope'
  BY <1>a, <1>b, DetectionElsewhere
<1>2. Usable(f)'
  BY SuccessIsUsable
<1>3. \A g \in DOMAIN wafTargets' : wafTargets'[g].available => Usable(g)'
  BY <1>a, <1>1, <1>2 DEF With
<1>c. First(todo)' = f
  BY <1>a, <1>b DEF First
<1>4. \A g \in todo' : g \in DOMAIN raw' => g = First(todo)'
  BY <1>a, <1>c, <1>1
<1>5. Usable(First(todo))'
  BY <1>c, <1>2
<1>6. FamiliesInv'
  BY <1>a, <1>b, <1>3, <1>4, <1>5 DEF ScopeInv, FamiliesInv, Steps
<1>7. QED
  BY <1>1, <1>6 DEF ScopeInv

\* A call for a domain of a family in scope.
LEMMA DomainCallScope ==
  ASSUME ScopeInv, NEW d, NEW new, DomainCall(First(todo), d, new),
         pc \in {"dns", "deleting"}
  PROVE  ScopeInv'
<1> DEFINE f == First(todo)
<1>a. /\ FamiliesInv /\ RemoteInv /\ KeptOutOfScope
      /\ conf.providers \subseteq Families /\ todo \subseteq conf.providers /\ todo # {}
  BY Configured DEF ScopeInv, FamiliesInv
<1>b. /\ UNCHANGED <<conf, pc, todo, wafTargets, items, raw, begin>>
      /\ \E outcome : records' = [records EXCEPT ![f][d] = outcome.now]
  BY DEF DomainCall
<1>1. f \in todo /\ f \in Families
  BY <1>a, FirstThere
<1>2. f \in InScope
  BY <1>a, <1>1 DEF InScope, FamiliesInv, InCleanUp
<1>3. InScope \subseteq InScope'
  BY <1>a, <1>b, ScopeGrows DEF InCleanUp
<1>4. \A g \in Families : g # f => records'[g] = records[g]
  BY <1>a, <1>b DEF RemoteInv
<1>5. KeptOutOfScope'
  BY <1>a, <1>b, <1>2, <1>3, <1>4, KeptOn
<1>6. RemoteInv'
  BY <1>a, <1>b DEF RemoteInv
<1>7. \A g \in Families : Usable(g)' = Usable(g)
  BY <1>b, UsableStays
<1>8. First(todo)' = f
  BY <1>b DEF First
<1>9. \A g \in DOMAIN wafTargets' : wafTargets'[g].available => Usable(g)'
  BY <1>a, <1>b, UsableStays DEF FamiliesInv
<1>10. pc' = "dns" => Usable(First(todo))'
  BY <1>a, <1>b, <1>1, <1>7, <1>8 DEF FamiliesInv
<1>11. FamiliesInv'
  BY <1>a, <1>b, <1>8, <1>9, <1>10 DEF FamiliesInv
<1>12. QED
  BY <1>5, <1>6, <1>11 DEF ScopeInv

\* Whatever a list call does, a family whose ranges are to stay keeps them.
LEMMA ListOutcomeKeeps ==
  ASSUME NEW old, NEW new, NEW halfway, NEW outcome \in ListOutcomes(old, new, halfway),
         NEW f \in Families, new[f] = old[f]
  PROVE  outcome.now[f] = old[f]
<1>1. CASE outcome.now = new
  BY <1>1
<1>2. ASSUME NEW n4 \in Between(old["IP4"], new["IP4"]), NEW n6 \in Between(old["IP6"], new["IP6"]),
             outcome.now = [g \in Families |-> IF g = "IP4" THEN n4 ELSE n6]
      PROVE  outcome.now[f] = old[f]
  <2>1. \A now \in Between(old[f], new[f]) : now = old[f]
    BY DEF Between
  <2>2. outcome.now[f] \in Between(old[f], new[f])
    BY <1>2 DEF Families
  <2>3. QED
    BY <2>1, <2>2
<1>3. QED
  BY <1>1, <1>2 DEF ListOutcomes

\* A call for a list.
LEMMA ListCallScope ==
  ASSUME ScopeInv, NEW l, NEW new, NEW halfway, ListCall(l, new, halfway),
         pc \in {"lists", "clearing"}, l \in Range(WAFLists),
         \A f \in Families : f \notin InScope => new[f] = items[l][f]
  PROVE  ScopeInv'
<1>a. /\ FamiliesInv /\ RemoteInv /\ KeptOutOfScope
  BY DEF ScopeInv
<1>b. UNCHANGED <<conf, pc, todo, wafTargets, records, raw, begin>>
  BY DEF ListCall
<1>c. PICK outcome \in ListOutcomes(items[l], new, halfway) :
        items' = [items EXCEPT ![l] = outcome.now]
  BY DEF ListCall
<1>1. InScope \subseteq InScope'
  BY <1>a, <1>b, ScopeGrows DEF InCleanUp
<1>2. ASSUME NEW f \in Families, f \notin InScope, NEW k \in Range(WAFLists)
      PROVE  items'[k][f] = items[k][f]
  <2>1. CASE k = l
    <3>1. outcome.now[f] = items[l][f]
      BY <1>2, ListOutcomeKeeps
    <3>2. items'[k] = outcome.now
      BY <1>a, <1>c, <2>1 DEF RemoteInv
    <3>3. QED
      BY <2>1, <3>1, <3>2
  <2>2. CASE k # l
    BY <1>a, <1>c, <2>2 DEF RemoteInv
  <2>3. QED
    BY <2>1, <2>2
<1>3. KeptOutOfScope'
  BY <1>a, <1>b, <1>1, <1>2, KeptOn
<1>4. RemoteInv'
  BY <1>a, <1>b, <1>c DEF RemoteInv
<1>5. \A g \in DOMAIN wafTargets' : wafTargets'[g].available => Usable(g)'
  BY <1>a, <1>b, UsableStays DEF FamiliesInv
<1>6. FamiliesInv'
  BY <1>a, <1>b, <1>5 DEF FamiliesInv
<1>7. QED
  BY <1>3, <1>4, <1>6 DEF ScopeInv

\* Nothing is out of place before the first round.
LEMMA InitScope == Init => ScopeInv
<1> SUFFICES ASSUME Init PROVE ScopeInv
  OBVIOUS
<1>1. FamiliesInv
  BY DEF Init, FamiliesInv, Steps, Empty
<1>2. RemoteInv
  BY DEF Init, RemoteInv
<1>3. KeptOutOfScope
  BY DEF Init, KeptOutOfScope, remote
<1>4. QED
  BY <1>1, <1>2, <1>3 DEF ScopeInv

\* Every step keeps families out of scope as they are.
LEMMA NextScope == ScopeInv /\ [Next]_vars => ScopeInv'
<1> SUFFICES ASSUME ScopeInv, [Next]_vars PROVE ScopeInv'
  OBVIOUS
<1>a. FamiliesInv /\ RemoteInv /\ KeptOutOfScope
  BY DEF ScopeInv
<1>1. CASE BeginRound \/ BeginCleanUp
  BY <1>1, BeginScope DEF BeginRound, BeginCleanUp
<1>2. ASSUME NEW f \in Families, NEW r \in Answers(f),
             DetectionFails(f, r) \/ HostIDProblem(f, r) \/ DetectionSucceeds(f, r)
      PROVE  ScopeInv'
  BY <1>2, FailedDetectionScope, DetectionScope
<1>b. ASSUME UNCHANGED <<conf, pc, todo, wafTargets, records, items, raw, begin>> PROVE ScopeInv'
  <2>1. First(todo)' = First(todo) /\ \A f : Usable(f)' = Usable(f)
    BY <1>b, UsableStays DEF First
  <2>2. FamiliesInv'
    BY <1>a, <1>b, <2>1 DEF FamiliesInv
  <2>3. KeptOutOfScope'
    BY <1>a, <1>b, ScopeGrows, KeptOn DEF InCleanUp
  <2>4. QED
    BY <1>a, <1>b, <2>2, <2>3 DEF ScopeInv, RemoteInv
<1>3. ASSUME NEW d \in Names, SetIPs(d) \/ FinalDelete(d) PROVE ScopeInv'
  <2>1. CASE PassOver(d)
    BY <1>b, <2>1 DEF PassOver, remote, history
  <2>2. CASE pc \in {"dns", "deleting"} /\ \E new : DomainCall(First(todo), d, new)
    BY <2>2, DomainCallScope
  <2>3. QED
    BY <1>3, <2>1, <2>2 DEF SetIPs, FinalDelete
<1>4. CASE FinishFamily \/ FinishDeleting
  <2>1. /\ UNCHANGED <<conf, remote, begin, raw, wafTargets>>
        /\ todo' = todo \ {First(todo)}
        /\ \/ pc = "dns" /\ pc' = "detect"
           \/ pc = "deleting" /\ pc' = "delete"
    BY <1>4 DEF FinishFamily, FinishDeleting, history
  <2>2. \A f \in todo' : f \notin DOMAIN raw
    BY <1>a, <2>1 DEF FamiliesInv
  <2>3. pc' \in Steps \ {"dns"} /\ (InCleanUp' <=> InCleanUp) /\ pc' # "deleting"
    BY <2>1 DEF InCleanUp, Steps
  <2>4. QED
    BY <2>1, <2>2, <2>3, QuietStep
<1>5. CASE BeginLists \/ BeginClearing
  <2>1. /\ UNCHANGED <<conf, remote, begin, raw, wafTargets, todo>> /\ todo = {}
        /\ \/ pc = "detect" /\ pc' = "lists"
           \/ pc = "delete" /\ pc' = "clearing"
    BY <1>5 DEF BeginLists, BeginClearing, TurnToLists, history
  <2>2. pc' \in Steps \ {"dns"} /\ (InCleanUp' <=> InCleanUp) /\ pc' # "deleting"
    BY <2>1 DEF InCleanUp, Steps
  <2>3. QED
    BY <2>1, <2>2, QuietStep
<1>6. ASSUME NEW l \in Range(WAFLists), SetWAFList(l) PROVE ScopeInv'
  <2>1. pc = "lists" /\ ListCall(l, WantedItems(l), {"failed"})
    BY <1>6 DEF SetWAFList
  <2>2. ASSUME NEW f \in Families, f \notin InScope PROVE WantedItems(l)[f] = items[l][f]
    <3>1. ~Usable(f)
      BY <2>1, <2>2 DEF InScope, InCleanUp
    <3>2. ~(f \in DOMAIN wafTargets /\ wafTargets[f].available)
      BY <1>a, <3>1 DEF FamiliesInv
    <3>3. QED
      BY <3>2 DEF WantedItems
  <2>3. QED
    BY <2>1, <2>2, ListCallScope
<1>7. CASE EndRound \/ EndCleanUp
  <2>1. /\ UNCHANGED <<conf, remote, begin, raw, wafTargets>> /\ todo' = {}
        /\ \/ pc = "lists" /\ pc' = "idle"
           \/ pc = "clearing" /\ pc' = "stopped"
    BY <1>7 DEF EndRound, EndCleanUp, Report, history
  <2>2. pc' \in Steps \ {"dns"} /\ (InCleanUp' <=> InCleanUp) /\ pc' # "deleting"
    BY <2>1 DEF InCleanUp, Steps
  <2>3. QED
    BY <2>1, <2>2, QuietStep
<1>8. CASE TurnToFamily
  <2>1. /\ UNCHANGED <<conf, remote, begin, raw, wafTargets, todo>> /\ todo # {}
        /\ pc = "delete" /\ pc' = "deleting"
    BY <1>8 DEF TurnToFamily, history
  <2>2. pc' \in Steps \ {"dns"} /\ (InCleanUp' <=> InCleanUp)
    BY <2>1 DEF InCleanUp, Steps
  <2>3. \A f \in todo' : f \notin DOMAIN raw
    BY <1>a, <2>1 DEF FamiliesInv
  <2>4. QED
    BY <2>1, <2>2, <2>3, QuietStep
<1>9. ASSUME NEW l \in Range(WAFLists), FinalClearWAFList(l) PROVE ScopeInv'
  <2>1. pc = "clearing" /\ ListCall(l, Cleared(l), {"updating", "failed"})
    BY <1>9 DEF FinalClearWAFList
  <2>2. ASSUME NEW f \in Families, f \notin InScope PROVE Cleared(l)[f] = items[l][f]
    BY <2>1, <2>2 DEF InScope, InCleanUp, Cleared
  <2>3. QED
    BY <2>1, <2>2, ListCallScope
<1>10. CASE UNCHANGED vars
  BY <1>b, <1>10 DEF vars, local, remote, history
<1>11. QED
  BY <1>1, <1>2, <1>3, <1>4, <1>5, <1>6, <1>7, <1>8, <1>9, <1>10
  DEF Next, UpdateIPs, FinalDeleteIPs

\* In a round nothing of a family changes unless its addresses are known, pass the
\* filter and suit every host-ID policy; in the clean-up, nothing of a family without
\* a provider.
THEOREM ScopeIsKept == Spec => []KeptOutOfScope
<1>1. ScopeInv => KeptOutOfScope
  BY DEF ScopeInv
<1>2. QED
  BY <1>1, InitScope, NextScope, PTL DEF Spec

-----------------------------------------------------------------------------
(* What failed is named                                                    *)

\* A message is no success, and has a line on the family, or on the failed call for
\* the unit, for monitors and notifiers alike.
NamesFamily(m, f) ==
  /\ m.ok = FALSE
  /\ \A told \in {m.lines, m.note} : \E line \in told : line.family = f
NamesUnit(m, unit) ==
  /\ m.ok = FALSE
  /\ \A told \in {m.lines, m.note} :
       \E line \in told : line.what = "failed" /\ line.family = unit[1] /\ unit[2] \in line.names

\* No failure is lost when messages are merged.
LEMMA MergeKeeps ==
  ASSUME NEW ms, NEW m \in ms, m.ok = FALSE
  PROVE  /\ Merge(ms).ok = FALSE
         /\ m.lines \subseteq Merge(ms).lines /\ m.note \subseteq Merge(ms).note
<1>1. (\A n \in ms : n.ok) = FALSE
  OBVIOUS
<1>2. Merge(ms).ok = FALSE
  BY <1>1 DEF Merge
<1>3. Merge(ms).lines = UNION {k.lines : k \in {n \in ms : n.ok = FALSE}}
  BY <1>1 DEF Merge
<1>4. Merge(ms).note = UNION {k.note : k \in ms}
  BY DEF Merge
<1>5. QED
  BY <1>2, <1>3, <1>4

\* Nor does it lose what a message names.
LEMMA MergeNames ==
  ASSUME NEW ms, NEW m \in ms
  PROVE  /\ \A f : NamesFamily(m, f) => NamesFamily(Merge(ms), f)
         /\ \A unit : NamesUnit(m, unit) => NamesUnit(Merge(ms), unit)
<1>1. ASSUME m.ok = FALSE
      PROVE  /\ Merge(ms).ok = FALSE
             /\ m.lines \subseteq Merge(ms).lines /\ m.note \subseteq Merge(ms).note
  BY <1>1, MergeKeeps
<1>2. ASSUME NEW f, NamesFamily(m, f) PROVE NamesFamily(Merge(ms), f)
  BY <1>1, <1>2 DEF NamesFamily
<1>3. ASSUME NEW unit, NamesUnit(m, unit) PROVE NamesUnit(Merge(ms), unit)
  BY <1>1, <1>3 DEF NamesUnit
<1>4. QED
  BY <1>2, <1>3

\* Every failed call is in the message on the responses.
LEMMA ResponsesName ==
  ASSUME NEW f, NEW ips, NEW answers, NEW unit,
         unit[1] = f, unit[2] \in answers["failed"]
  PROVE  NamesUnit(OnResponses(f, ips, answers), unit)
<1> DEFINE line == Line("failed", f, answers["failed"], ips)
           said(codes) == {Line(c, f, answers[c], ips) : c \in {k \in codes : answers[k] # {}}}
           m == OnResponses(f, ips, answers)
<1>1. answers["failed"] # {} /\ (answers["failed"] = {}) = FALSE
  OBVIOUS
<1>2. /\ m.ok = (answers["failed"] = {})
      /\ m.lines = IF answers["failed"] = {} THEN said({"updating", "updated"}) ELSE said({"failed"})
      /\ m.note = said({"failed", "updating", "updated"})
  BY DEF OnResponses
<1>3. line \in said({"failed"}) /\ line \in said({"failed", "updating", "updated"})
  BY <1>1
<1>4. line.what = "failed" /\ line.family = unit[1] /\ unit[2] \in line.names
  BY DEF Line
<1>5. m.ok = FALSE /\ line \in m.lines /\ line \in m.note
  BY <1>1, <1>2, <1>3
<1> HIDE DEF line, m
<1>6. NamesUnit(m, unit)
  BY <1>4, <1>5 DEF NamesUnit
<1>7. QED
  BY <1>6 DEF m

\* A unit whose call failed and that no message names yet.
Waiting(unit) ==
  /\ unit[2] \in resps["failed"]
  /\ \/ pc \in {"dns", "deleting"} /\ unit[1] = First(todo)
     \/ pc \in {"lists", "clearing"} /\ unit[1] = "list"

NamingInv ==
  /\ pc \in {"detect", "dns", "lists"} => conf.providers \subseteq todo \cup DOMAIN raw
  /\ pc \in {"lists", "clearing"} => todo = {}
  /\ pc \notin {"idle", "stopped"} => report = NoReport
  /\ DOMAIN resps = Codes
  /\ \A f \in DOMAIN raw : ~Usable(f) => \E m \in msgs : NamesFamily(m, f)
  /\ pc \notin {"idle", "stopped"} =>
       \A unit \in broken : Waiting(unit) \/ \E m \in msgs : NamesUnit(m, unit)

FailuresInv == ScopeInv /\ NamingInv /\ FailuresNamed

\* What is known of the families stays with what they depend on.
LEMMA FamiliesNamed ==
  ASSUME NamingInv, conf' = conf, raw' = raw, msgs \subseteq msgs'
  PROVE  \A f \in DOMAIN raw' : ~Usable(f)' => \E m \in msgs' : NamesFamily(m, f)
  BY UsableStays DEF NamingInv

\* A round or the clean-up begins.
LEMMA BeginNaming ==
  ASSUME FailuresInv, NEW step \in {"detect", "delete"}, BeginAt(step)
  PROVE  NamingInv' /\ FailuresNamed'
<1>a. /\ conf' = conf /\ pc' = step /\ todo' = conf.providers /\ resps' = resps
      /\ report' = NoReport /\ raw' = Empty /\ broken' = {}
  BY DEF BeginAt
<1>1. FailuresNamed'
  BY <1>a DEF FailuresNamed, Over
<1>2. NamingInv'
  BY <1>a DEF FailuresInv, NamingInv, Empty
<1>3. QED
  BY <1>1, <1>2

\* What a failed detection is told as.
LEMMA DetectMessageNames ==
  ASSUME NEW f, NEW r, ~Filtered(f, r).available
  PROVE  NamesFamily(DetectMessage(f, r), f)
<1>1. CASE FilterAborts(f, r)
  <2>1. DetectMessage(f, r) = FilterAbortMessage(f)
    BY <1>1 DEF DetectMessage
  <2>2. QED
    BY <2>1 DEF FilterAbortMessage, Failure, Line, NamesFamily
<1>2. CASE ~FilterAborts(f, r)
  <2>1. DetectMessage(f, r) = FailedDetectMessage(f)
    BY <1>2 DEF DetectMessage
  <2>2. QED
    BY <2>1 DEF FailedDetectMessage, Failure, Line, NamesFamily
<1>3. QED
  BY <1>1, <1>2

\* Nothing usable was detected.
LEMMA FailedDetectionNaming ==
  ASSUME FailuresInv, NEW f \in Families, NEW r, DetectionFails(f, r) \/ HostIDProblem(f, r)
  PROVE  NamingInv' /\ FailuresNamed'
<1>a. /\ Detected(f, r) /\ conf' = conf /\ pc' = pc /\ resps' = resps /\ report' = report
      /\ broken' = broken /\ todo' = todo \ {First(todo)}
  BY DEF DetectionFails, HostIDProblem
<1>b. pc = "detect" /\ f = First(todo) /\ raw' = With(raw, f, r)
  BY <1>a DEF Detected
<1>c. ScopeInv /\ NamingInv /\ report = NoReport
  BY <1>b DEF FailuresInv, NamingInv
<1>1. PICK m : msgs' = msgs \cup {m} /\ NamesFamily(m, f)
  <2>1. CASE DetectionFails(f, r)
    BY <2>1, DetectMessageNames DEF DetectionFails
  <2>2. CASE HostIDProblem(f, r)
    <3>1. f = "IP6"
      BY <2>2 DEF HostIDProblem, Derived, Families
    <3>2. NamesFamily(IP6DerivationFailureMessage, f)
      BY <3>1 DEF IP6DerivationFailureMessage, Failure, Line, NamesFamily
    <3>3. QED
      BY <2>2, <3>2 DEF HostIDProblem
  <2>3. QED
    BY <2>1, <2>2
<1>2. ASSUME NEW g \in DOMAIN raw', ~Usable(g)' PROVE \E n \in msgs' : NamesFamily(n, g)
  <2>1. CASE g = f
    BY <1>1, <2>1
  <2>2. CASE g # f
    <3>1. g \in DOMAIN raw /\ ~Usable(g)
      BY <1>a, <1>b, <1>2, <2>2, UsableStays DEF With
    <3>2. QED
      BY <1>1, <1>c, <3>1 DEF NamingInv
  <2>3. QED
    BY <2>1, <2>2
<1>3. \A unit \in broken' : \E n \in msgs' : NamesUnit(n, unit)
  BY <1>a, <1>b, <1>c, <1>1 DEF NamingInv, Waiting
<1>4. conf'.providers \subseteq todo' \cup DOMAIN raw'
  BY <1>a, <1>b, <1>c DEF NamingInv, With
<1>5. NamingInv'
  BY <1>a, <1>b, <1>c, <1>2, <1>3, <1>4 DEF NamingInv
<1>6. FailuresNamed'
  BY <1>a, <1>c DEF FailuresNamed, Over
<1>7. QED
  BY <1>5, <1>6

\* Something usable was.
LEMMA DetectionNaming ==
  ASSUME FailuresInv, NEW f \in Families, NEW r \in Answers(f), DetectionSucceeds(f, r)
  PROVE  NamingInv' /\ FailuresNamed'
<1>a. /\ Detected(f, r) /\ conf' = conf /\ pc' = "dns" /\ resps' = NoResponses /\ report' = report
      /\ broken' = broken /\ todo' = todo /\ msgs' = msgs
  BY DEF DetectionSucceeds
<1>b. pc = "detect" /\ f = First(todo) /\ raw' = With(raw, f, r)
  BY <1>a DEF Detected
<1>c. ScopeInv /\ NamingInv /\ report = NoReport
  BY <1>b DEF FailuresInv, NamingInv
<1>1. Usable(f)'
  BY <1>c, SuccessIsUsable
<1>2. ASSUME NEW g \in DOMAIN raw', ~Usable(g)' PROVE \E n \in msgs' : NamesFamily(n, g)
  <2>1. g # f
    BY <1>1, <1>2
  <2>2. g \in DOMAIN raw /\ ~Usable(g)
    BY <1>a, <1>b, <1>2, <2>1, UsableStays DEF With
  <2>3. QED
    BY <1>a, <1>c, <2>2 DEF NamingInv
<1>3. \A unit \in broken' : \E n \in msgs' : NamesUnit(n, unit)
  BY <1>a, <1>b, <1>c DEF NamingInv, Waiting
<1>4. conf'.providers \subseteq todo' \cup DOMAIN raw'
  BY <1>a, <1>b, <1>c DEF NamingInv, With
<1>5. DOMAIN resps' = Codes
  BY <1>a DEF NoResponses
<1>6. NamingInv'
  BY <1>a, <1>c, <1>2, <1>3, <1>4, <1>5 DEF NamingInv
<1>7. FailuresNamed'
  BY <1>a, <1>c DEF FailuresNamed, Over
<1>8. QED
  BY <1>6, <1>7

\* A call that fails makes its unit wait for a message; the other units are as before.
LEMMA CallNaming ==
  ASSUME FailuresInv, NEW f, NEW n, NEW outcome, outcome.code \in Codes,
         UNCHANGED <<conf, pc, todo, msgs, report, raw>>,
         resps' = Registered(resps, n, outcome.code),
         broken' = IF outcome.code = "failed" THEN broken \cup {<<f, n>>} ELSE broken,
         \/ pc \in {"dns", "deleting"} /\ f = First(todo)
         \/ pc \in {"lists", "clearing"} /\ f = "list"
  PROVE  NamingInv' /\ FailuresNamed'
<1>a. NamingInv /\ report = NoReport /\ DOMAIN resps = Codes
  BY DEF FailuresInv, NamingInv
<1>1. resps' = [resps EXCEPT ![outcome.code] = resps[outcome.code] \cup {n}]
  BY DEF Registered
<1>2. DOMAIN resps' = Codes /\ resps["failed"] \subseteq resps'["failed"]
  BY <1>a, <1>1 DEF Codes
<1>3. outcome.code = "failed" => n \in resps'["failed"]
  BY <1>a, <1>1
<1>4. First(todo)' = First(todo)
  BY DEF First
<1>5. ASSUME NEW unit \in broken' PROVE Waiting(unit)' \/ \E m \in msgs' : NamesUnit(m, unit)
  <2>1. CASE unit \in broken
    BY <1>a, <1>2, <1>4, <2>1 DEF NamingInv, Waiting
  <2>2. CASE unit = <<f, n>> /\ outcome.code = "failed"
    BY <1>3, <1>4, <2>2 DEF Waiting
  <2>3. QED
    BY <1>5, <2>1, <2>2
<1>6. \A g \in DOMAIN raw' : ~Usable(g)' => \E m \in msgs' : NamesFamily(m, g)
  BY <1>a, FamiliesNamed
<1>7. NamingInv'
  BY <1>a, <1>2, <1>5, <1>6 DEF NamingInv
<1>8. FailuresNamed'
  BY <1>a DEF FailuresNamed, Over
<1>9. QED
  BY <1>7, <1>8

\* A step between two stages gathers the message on the failed calls of the stage.
LEMMA StageNaming ==
  ASSUME FailuresInv, UNCHANGED <<conf, report, raw, broken>>, report = NoReport,
         pc \notin {"idle", "stopped"},
         pc' \in {"detect", "lists", "delete", "deleting", "clearing"},
         pc' \in {"detect", "lists"} => conf.providers \subseteq todo' \cup DOMAIN raw,
         pc' \in {"lists", "clearing"} => todo' = {},
         DOMAIN resps' = Codes, msgs \subseteq msgs',
         \A unit \in broken : Waiting(unit) => \E m \in msgs' : NamesUnit(m, unit)
  PROVE  NamingInv' /\ FailuresNamed'
<1>1. \A unit \in broken' : \E m \in msgs' : NamesUnit(m, unit)
  BY DEF FailuresInv, NamingInv
<1>2. \A g \in DOMAIN raw' : ~Usable(g)' => \E m \in msgs' : NamesFamily(m, g)
  BY FamiliesNamed DEF FailuresInv
<1>3. NamingInv'
  BY <1>1, <1>2 DEF NamingInv
<1>4. FailuresNamed'
  BY DEF FailuresNamed, Over
<1>5. QED
  BY <1>3, <1>4

\* The domains of a family are done.
LEMMA FinishFamilyNaming ==
  ASSUME FailuresInv, FinishFamily
  PROVE  NamingInv' /\ FailuresNamed'
<1> DEFINE f == First(todo)
           m == Merge(MissingMessages(f) \cup GroupMessages(f))
<1>a. /\ UNCHANGED <<conf, report, raw, broken, resps>>
      /\ pc = "dns" /\ pc' = "detect" /\ msgs' = msgs \cup {m} /\ todo' = todo \ {f}
  BY DEF FinishFamily, history
<1>b. FamiliesInv /\ NamingInv /\ DOMAIN resps = Codes /\ report = NoReport
  BY <1>a DEF FailuresInv, ScopeInv, NamingInv
<1>1. ASSUME NEW unit \in broken, Waiting(unit) PROVE NamesUnit(m, unit)
  <2> DEFINE d == unit[2]
             ips == targets[d]
             answers == [c \in Codes |-> {k \in resps[c] : targets[k] = ips}]
             group == UpdateMessage(f, ips, answers)
  <2>1. d \in resps["failed"] /\ unit[1] = f
    BY <1>1, <1>a DEF Waiting
  <2>2. "failed" \in Codes
    BY DEF Codes
  <2>3. d \in answers["failed"] /\ d \in UNION {resps[c] : c \in Codes}
    BY <2>1, <2>2
  <2>4. NamesUnit(group, unit)
    <3> HIDE DEF answers, ips
    <3>1. QED
      BY <2>1, <2>3, ResponsesName DEF UpdateMessage
  <2>5. group \in GroupMessages(f)
    BY <2>3 DEF GroupMessages
  <2>6. QED
    <3> HIDE DEF group
    <3>1. QED
      BY <2>4, <2>5, MergeNames
<1>2. conf.providers \subseteq todo' \cup DOMAIN raw
  BY <1>a, <1>b DEF NamingInv, FamiliesInv, Usable
<1>3. QED
  <2> HIDE DEF m
  <2>1. QED
    BY <1>a, <1>b, <1>1, <1>2, StageNaming

\* So they are in the clean-up.
LEMMA FinishDeletingNaming ==
  ASSUME FailuresInv, FinishDeleting
  PROVE  NamingInv' /\ FailuresNamed'
<1> DEFINE m == FinalDeleteMessage(First(todo), resps)
<1>a. /\ UNCHANGED <<conf, report, raw, broken, resps>>
      /\ pc = "deleting" /\ pc' = "delete" /\ msgs' = msgs \cup {m}
  BY DEF FinishDeleting, history
<1>b. DOMAIN resps = Codes /\ report = NoReport
  BY <1>a DEF FailuresInv, NamingInv
<1>1. ASSUME NEW unit \in broken, Waiting(unit) PROVE NamesUnit(m, unit)
  BY <1>1, <1>a, ResponsesName DEF Waiting, FinalDeleteMessage
<1>2. QED
  <2> HIDE DEF m
  <2>1. QED
    BY <1>a, <1>b, <1>1, StageNaming

\* The lists are done, and with them the round or the clean-up.
LEMMA ReportNaming ==
  ASSUME FailuresInv, NEW good, NEW bad,
         \/ Report("lists", UpdateWAFListsMessage(resps), good, bad, "idle")
         \/ Report("clearing", FinalClearWAFListsMessage(resps), good, bad, "stopped")
  PROVE  /\ NamingInv' /\ FailuresNamed'
         /\ report'.ok = TRUE => broken' = {} /\ conf'.providers \subseteq InScope'
<1> DEFINE last == OnResponses("list", {}, resps)
           all == Merge(msgs \cup {last})
<1>a. /\ UNCHANGED <<conf, raw, broken, msgs>> /\ resps' = NoResponses
      /\ report' = Classified(all, good, bad)
      /\ \/ pc = "lists" /\ pc' = "idle"
         \/ pc = "clearing" /\ pc' = "stopped"
  BY DEF Report, history, UpdateWAFListsMessage, FinalClearWAFListsMessage
<1>b. NamingInv /\ todo = {}
  BY <1>a DEF FailuresInv, NamingInv
<1>1. \A unit \in broken : \E m \in msgs \cup {last} : NamesUnit(m, unit)
  <2>1. ASSUME NEW unit \in broken, Waiting(unit) PROVE NamesUnit(last, unit)
    BY <1>a, <2>1, ResponsesName DEF Waiting
  <2> HIDE DEF last
  <2>2. QED
    BY <1>a, <1>b, <2>1 DEF NamingInv
<1> HIDE DEF last
<1>2. \A unit \in broken : NamesUnit(all, unit)
  BY <1>1, MergeNames
<1>3. ASSUME NEW f \in conf'.providers, f \notin InScope' PROVE NamesFamily(all, f)
  <2>1. pc' = "idle" /\ pc = "lists"
    BY <1>a, <1>3 DEF InScope, InCleanUp
  <2>2. f \in DOMAIN raw /\ f \in Families
    BY <1>a, <1>b, <1>3, <2>1, Configured DEF NamingInv, FailuresInv, ScopeInv, FamiliesInv
  <2>3. ~Usable(f)
    <3>1. Usable(f)' = Usable(f)
      BY <1>a, UsableStays
    <3>2. ~Usable(f)'
      BY <1>3, <2>1, <2>2 DEF InScope, InCleanUp
    <3>3. QED
      BY <3>1, <3>2
  <2>4. QED
    BY <1>b, <2>2, <2>3, MergeNames DEF NamingInv
<1> HIDE DEF all
<1>4. report'.lines = all.lines /\ report'.note = all.note
  BY <1>a DEF Classified
<1>5. FailuresNamed'
  <2>1. ASSUME NEW told \in {all.lines, all.note}, NEW f \in conf'.providers, f \notin InScope'
        PROVE  \E line \in told : line.family = f
    BY <1>3, <2>1 DEF NamesFamily
  <2>2. ASSUME NEW told \in {all.lines, all.note}, NEW unit \in broken
        PROVE  \E line \in told :
                 line.what = "failed" /\ line.family = unit[1] /\ unit[2] \in line.names
    BY <1>2 DEF NamesUnit
  <2>3. QED
    BY <1>a, <1>4, <2>1, <2>2 DEF FailuresNamed
<1>6. \A g \in DOMAIN raw' : ~Usable(g)' => \E m \in msgs' : NamesFamily(m, g)
  BY <1>a, <1>b, FamiliesNamed
<1>7. NamingInv'
  BY <1>a, <1>6 DEF NamingInv, NoResponses
<1>8. report'.ok = TRUE => broken' = {} /\ conf'.providers \subseteq InScope'
  <2>1. report'.ok = all.ok
    BY <1>a DEF Classified
  <2>2. QED
    BY <1>a, <1>2, <1>3, <2>1 DEF NamesFamily, NamesUnit
<1>9. QED
  BY <1>5, <1>7, <1>8

\* There is nothing to name before the first round.
LEMMA InitFailures == Init => FailuresInv
<1> SUFFICES ASSUME Init PROVE FailuresInv
  OBVIOUS
<1>1. NamingInv
  BY DEF Init, NamingInv, Empty, NoResponses
<1>2. FailuresNamed
  BY DEF Init, FailuresNamed, Over
<1>3. QED
  BY <1>1, <1>2, InitScope DEF FailuresInv

\* Every step keeps failures named.
LEMMA NextFailures == FailuresInv /\ [Next]_vars => FailuresInv'
<1> SUFFICES ASSUME FailuresInv, [Next]_vars PROVE FailuresInv'
  OBVIOUS
<1>a. ScopeInv /\ NamingInv /\ FailuresNamed
  BY DEF FailuresInv
<1>0. ScopeInv'
  BY <1>a, NextScope
<1> SUFFICES NamingInv' /\ FailuresNamed'
  BY <1>0 DEF FailuresInv
<1>1. CASE BeginRound \/ BeginCleanUp
  BY <1>1, BeginNaming DEF BeginRound, BeginCleanUp
<1>2. ASSUME NEW f \in Families, NEW r \in Answers(f),
             DetectionFails(f, r) \/ HostIDProblem(f, r) \/ DetectionSucceeds(f, r)
      PROVE  NamingInv' /\ FailuresNamed'
  BY <1>2, FailedDetectionNaming, DetectionNaming
<1>b. ASSUME UNCHANGED <<conf, pc, todo, resps, msgs, report, raw, broken>>
      PROVE  NamingInv' /\ FailuresNamed'
  <2>1. First(todo)' = First(todo) /\ \A f : Usable(f)' = Usable(f)
    BY <1>b, UsableStays DEF First
  <2>2. InScope' = InScope
    BY <1>b, <2>1 DEF InScope, InCleanUp
  <2>3. NamingInv'
    BY <1>a, <1>b, <2>1 DEF NamingInv, Waiting
  <2>4. FailuresNamed'
    BY <1>a, <1>b, <2>2 DEF FailuresNamed, Over
  <2>5. QED
    BY <2>3, <2>4
<1>3. ASSUME NEW d \in Names, SetIPs(d) \/ FinalDelete(d) PROVE NamingInv' /\ FailuresNamed'
  <2>1. CASE PassOver(d)
    BY <1>b, <2>1 DEF PassOver, history
  <2>2. ASSUME NEW new, pc \in {"dns", "deleting"}, DomainCall(First(todo), d, new)
        PROVE  NamingInv' /\ FailuresNamed'
    <3>1. PICK outcome \in Outcomes(records[First(todo)][d], new) :
            /\ resps' = Registered(resps, d, outcome.code)
            /\ broken' = IF outcome.code = "failed" THEN broken \cup {<<First(todo), d>>} ELSE broken
      BY <2>2 DEF DomainCall
    <3>2. UNCHANGED <<conf, pc, todo, msgs, report, raw>>
      BY <2>2 DEF DomainCall
    <3>3. outcome.code \in Codes
      BY <3>1 DEF Outcomes, Codes
    <3>4. QED
      BY <2>2, <3>1, <3>2, <3>3, CallNaming
  <2>3. QED
    BY <1>3, <2>1, <2>2 DEF SetIPs, FinalDelete
<1>4. ASSUME NEW l \in Range(WAFLists), SetWAFList(l) \/ FinalClearWAFList(l)
      PROVE  NamingInv' /\ FailuresNamed'
  <2>1. /\ pc \in {"lists", "clearing"}
        /\ \E new : \E halfway \in SUBSET Codes : ListCall(l, new, halfway)
    BY <1>4 DEF SetWAFList, FinalClearWAFList, Codes
  <2>a. PICK new : \E halfway \in SUBSET Codes : ListCall(l, new, halfway)
    BY <2>1
  <2>2. PICK halfway \in SUBSET Codes : ListCall(l, new, halfway)
    BY <2>a
  <2>3. PICK outcome \in ListOutcomes(items[l], new, halfway) :
          /\ resps' = Registered(resps, l, outcome.code)
          /\ broken' = IF outcome.code = "failed" THEN broken \cup {<<"list", l>>} ELSE broken
    BY <2>2 DEF ListCall
  <2>4. UNCHANGED <<conf, pc, todo, msgs, report, raw>>
    BY <2>2 DEF ListCall
  <2>5. outcome.code \in Codes
    <3>1. outcome.code \in {"noop", "updated"} \/ outcome.code \in halfway
      BY DEF ListOutcomes
    <3>2. QED
      BY <3>1 DEF Codes
  <2>6. QED
    BY <2>1, <2>3, <2>4, <2>5, CallNaming
<1>5. CASE FinishFamily
  BY <1>5, FinishFamilyNaming
<1>6. CASE FinishDeleting
  BY <1>6, FinishDeletingNaming
<1>7. CASE BeginLists \/ BeginClearing \/ TurnToFamily
  <2>1. /\ UNCHANGED <<conf, report, raw, broken, msgs, todo>> /\ resps' = NoResponses
        /\ \/ pc = "detect" /\ pc' = "lists" /\ todo = {}
           \/ pc = "delete" /\ pc' = "clearing" /\ todo = {}
           \/ pc = "delete" /\ pc' = "deleting"
    BY <1>7 DEF BeginLists, BeginClearing, TurnToLists, TurnToFamily, history
  <2>2. report = NoReport /\ ~(\E unit \in broken : Waiting(unit))
    BY <1>a, <2>1 DEF NamingInv, Waiting
  <2>3. DOMAIN resps' = Codes
    BY <2>1 DEF NoResponses
  <2>4. pc' = "lists" => conf.providers \subseteq todo' \cup DOMAIN raw
    BY <1>a, <2>1 DEF NamingInv
  <2>5. QED
    BY <2>1, <2>2, <2>3, <2>4, StageNaming
<1>8. CASE EndRound \/ EndCleanUp
  BY <1>8, ReportNaming DEF EndRound, EndCleanUp
<1>9. CASE UNCHANGED vars
  BY <1>b, <1>9 DEF vars, local, history
<1>10. QED
  BY <1>1, <1>2, <1>3, <1>4, <1>5, <1>6, <1>7, <1>8, <1>9 DEF Next, UpdateIPs, FinalDeleteIPs

\* Every family that could not be worked on and every unit whose call failed is named
\* to monitors and notifiers alike, whatever else went wrong.
THEOREM FailuresAreNamed == Spec => []FailuresNamed
<1>1. FailuresInv => FailuresNamed
  BY DEF FailuresInv
<1>2. QED
  BY <1>1, InitFailures, NextFailures, PTL DEF Spec

-----------------------------------------------------------------------------
(* What a round and the clean-up come to: what becomes of every domain and *)
(* list, and what is told of it.                                           *)

\* What is left of a sequence once its first element is taken.
LEMMA HeadAndTail ==
  ASSUME NEW S, NEW s \in Seq(S), s # <<>>, Distinct(s)
  PROVE  /\ Head(s) \in S /\ Tail(s) \in Seq(S)
         /\ Range(s) = {Head(s)} \cup Range(Tail(s))
         /\ Distinct(Tail(s)) /\ Head(s) \notin Range(Tail(s))
<1>1. Len(s) \in Nat /\ Len(s) > 0 /\ DOMAIN s = 1 .. Len(s) /\ Head(s) = s[1]
  OBVIOUS
<1>2. /\ Tail(s) \in Seq(S) /\ DOMAIN Tail(s) = 1 .. Len(s) - 1
      /\ \A i \in 1 .. Len(s) - 1 : Tail(s)[i] = s[i + 1]
  BY <1>1
<1>3. Head(s) \in S
  BY <1>1
<1> DEFINE t == Tail(s)
           n == Len(s)
<1> HIDE DEF t, n
<1>4. \A x \in Range(s) : x = s[1] \/ x \in Range(t)
  <2>1. ASSUME NEW i \in 1 .. n PROVE s[i] = s[1] \/ s[i] \in Range(t)
    <3>1. CASE i = 1
      BY <3>1
    <3>2. CASE i # 1
      <4>1. i - 1 \in 1 .. n - 1 /\ (i - 1) + 1 = i
        BY <1>1, <3>2 DEF n
      <4>2. t[i - 1] = s[i] /\ i - 1 \in DOMAIN t
        BY <1>2, <4>1 DEF t, n
      <4>3. QED
        BY <4>2 DEF Range
    <3>3. QED
      BY <3>1, <3>2
  <2>2. QED
    BY <1>1, <2>1 DEF Range, n
<1>5. \A i \in DOMAIN t : i + 1 \in DOMAIN s /\ i + 1 # 1 /\ t[i] = s[i + 1]
  BY <1>1, <1>2 DEF t, n
<1>6. s[1] \in Range(s) /\ Range(t) \subseteq Range(s)
  BY <1>1, <1>5 DEF Range
<1>7. s[1] \notin Range(t)
  BY <1>1, <1>5 DEF Range, Distinct
<1>8. Distinct(t)
  <2>1. ASSUME NEW i \in DOMAIN t, NEW j \in DOMAIN t, i # j PROVE t[i] # t[j]
    <3>1. i + 1 # j + 1
      BY <1>2, <2>1 DEF t
    <3>2. QED
      BY <1>5, <3>1 DEF Distinct
  <2>2. QED
    BY <2>1 DEF Distinct
<1>9. QED
  BY <1>1, <1>2, <1>3, <1>4, <1>6, <1>7, <1>8 DEF t

-----------------------------------------------------------------------------
(* Targets                                                                 *)

\* The addresses a domain is to have in a round.
RightAddresses(f, d, ips) ==
  IF f = "IP4" THEN ips = {e.addr : e \in KeptEntries(f)}
  ELSE /\ \A e \in KeptEntries(f) : \A v \in conf.policies[d] : \E a \in ips : Fits(a, e, v)
       /\ \A a \in ips : \E e \in KeptEntries(f) : \E v \in conf.policies[d] : Fits(a, e, v)

\* The targets that a detection yields are right, for DNS and for the lists.
LEMMA DerivedRight ==
  ASSUME conf \in Configurations, conf' = conf,
         NEW f \in Families, NEW r \in Answers(f), DetectionSucceeds(f, r)
  PROVE  /\ DOMAIN targets' = Range(Domains[f])
         /\ \A d \in Range(Domains[f]) :
              targets'[d] \subseteq Addrs(f) /\ RightAddresses(f, d, targets[d])'
         /\ wafTargets'[f].available
         /\ wafTargets'[f].entries = {Masked(f, e) : e \in KeptEntries(f)'}
         /\ f \in DOMAIN wafTargets' /\ shouldUpdateWAF' /\ KeptEntries(f)' \subseteq RawEntries(f)
<1> DEFINE kept == KeptOf(f, r)
           filtered == Filtered(f, r)
           derived == Derived(f, filtered)
<1>1. /\ raw' = With(raw, f, r)
      /\ filtered.available /\ derived.problems = {} /\ targets' = derived.targets
      /\ wafTargets' = With(wafTargets, f, WAFTargets(f, filtered)) /\ shouldUpdateWAF'
  BY DEF DetectionSucceeds, Detected
<1>2. r = [available |-> r.available, entries |-> r.entries] /\ r.entries \subseteq RawEntries(f)
  BY AnswersAreRight
<1>3. filtered = [available |-> r.available, entries |-> kept]
  BY <1>1, <1>2 DEF Filtered, Unavailable
<1>4. KeptEntries(f)' = kept /\ kept \subseteq RawEntries(f)
  BY <1>1, <1>2 DEF With, KeptEntries, KeptOf
<1>5. /\ f \in DOMAIN wafTargets' /\ wafTargets'[f].available
      /\ wafTargets'[f].entries = {Masked(f, e) : e \in kept}
  <2>1. wafTargets'[f] = WAFTargets(f, filtered) /\ f \in DOMAIN wafTargets'
    BY <1>1 DEF With
  <2> DEFINE held == [available |-> r.available, entries |-> kept]
  <2>2. WAFTargets(f, filtered) = [held EXCEPT !.entries = {Masked(f, e) : e \in held.entries}]
    BY <1>3 DEF WAFTargets
  <2> HIDE DEF kept
  <2>3. [held EXCEPT !.entries = {Masked(f, e) : e \in held.entries}].available = r.available
    OBVIOUS
  <2>4. [held EXCEPT !.entries = {Masked(f, e) : e \in held.entries}].entries
          = {Masked(f, e) : e \in kept}
    OBVIOUS
  <2>5. filtered.available = r.available
    BY <1>3
  <2>6. QED
    BY <1>1, <2>1, <2>2, <2>3, <2>4, <2>5
<1>6. CASE f = "IP4"
  <2>1. targets' = [d \in Range(Domains[f]) |-> {e.addr : e \in kept}]
    BY <1>1, <1>3, <1>6 DEF Derived, SharedDNSTargets
  <2>2. {e.addr : e \in kept} \subseteq Addrs(f)
    BY <1>4 DEF RawEntries
  <2> HIDE DEF kept
  <2>3. QED
    BY <1>1, <1>4, <1>5, <1>6, <2>1, <2>2 DEF RightAddresses
<1>7. CASE f = "IP6"
  <2> DEFINE tries(d) == Attempts(conf.policies, kept, {d})
             domains == Range(Domains[f])
  <2>1. derived = DeriveDomains(conf.policies, kept, domains)
    BY <1>3, <1>7 DEF Derived
  <2>2. targets' = [d \in domains |-> {Derive(t[2], t[3]) : t \in tries(d)}]
    <3> HIDE DEF kept, domains
    <3>1. QED
      BY <1>1, <2>1 DEF DeriveDomains
  <2>3. ASSUME NEW d \in domains
        PROVE  /\ tries(d) = {d} \X kept \X conf.policies[d]
               /\ \A e \in kept : \A v \in conf.policies[d] :
                    Derive(e, v) \in Addrs(f) /\ Fits(Derive(e, v), e, v)
    <3>1. tries(d) = {d} \X kept \X conf.policies[d]
      BY DEF Attempts
    <3>2. ASSUME NEW e \in kept, NEW v \in conf.policies[d]
          PROVE  Derive(e, v) \in Addrs(f) /\ Fits(Derive(e, v), e, v)
      <4>1. Compatible(e, v)
        BY <1>1, <2>1, NoProblem
      <4>2. Derivation(v)
        BY <1>7, Configured
      <4>3. e \in RawEntries("IP6")
        BY <1>4, <1>7
      <4>4. QED
        BY <1>7, <4>1, <4>2, <4>3, DerivationsFit
    <3>3. QED
      BY <3>1, <3>2
  <2>4. ASSUME NEW d \in domains
        PROVE  targets'[d] \subseteq Addrs(f) /\ RightAddresses(f, d, targets[d])'
    <3> HIDE DEF kept
    <3>1. targets'[d] = {Derive(t[2], t[3]) : t \in {d} \X kept \X conf.policies[d]}
      BY <2>2, <2>3
    <3>2. \A a \in targets'[d] : \E e \in kept : \E v \in conf.policies[d] : a = Derive(e, v)
      BY <3>1
    <3>3. \A e \in kept : \A v \in conf.policies[d] : Derive(e, v) \in targets'[d]
      <4>1. ASSUME NEW e \in kept, NEW v \in conf.policies[d] PROVE Derive(e, v) \in targets'[d]
        <5>1. <<d, e, v>> \in {d} \X kept \X conf.policies[d]
          OBVIOUS
        <5>2. QED
          BY <3>1, <5>1
      <4>2. QED
        BY <4>1
    <3>4. targets'[d] \subseteq Addrs(f)
      BY <2>3, <3>2
    <3>5. RightAddresses(f, d, targets[d])'
      <4>1. /\ \A e \in kept : \A v \in conf'.policies[d] : \E a \in targets'[d] : Fits(a, e, v)
            /\ \A a \in targets'[d] : \E e \in kept : \E v \in conf'.policies[d] : Fits(a, e, v)
        BY <2>3, <3>2, <3>3
      <4>2. f # "IP4"
        BY <1>7
      <4>3. QED
        BY <1>4, <4>1, <4>2 DEF RightAddresses
    <3>6. QED
      BY <3>4, <3>5
  <2>5. DOMAIN targets' = domains
    BY <2>2
  <2> HIDE DEF kept, domains
  <2>6. QED
    BY <1>1, <1>4, <1>5, <2>4, <2>5 DEF domains
<1>8. QED
  BY <1>6, <1>7 DEF Families

\* The ranges of a list once it is reconciled.
LEMMA ReconciledRight ==
  ASSUME NEW f \in Families, NEW old \in SUBSET RawEntries(f), NEW kept \in SUBSET RawEntries(f)
  PROVE  LET new == Reconciled(f, old, {Masked(f, e) : e \in kept})
         IN  /\ new \subseteq RawEntries(f)
             /\ \A e \in kept : \E i \in new : Covers(f, i, e)
             /\ \A i \in new : \E e \in kept : Covers(f, i, e)
<1> DEFINE ranges == {Masked(f, e) : e \in kept}
           new == Reconciled(f, old, ranges)
<1>1. ranges \subseteq RawEntries(f)
  BY MaskedRight
<1>2. new = {i \in old : \E t \in ranges : Covers(f, i, t)}
              \cup {t \in ranges : \A i \in old : ~Covers(f, i, t)}
  BY DEF Reconciled
<1>3. new \subseteq RawEntries(f)
  <2> HIDE DEF ranges, new
  <2>1. QED
    BY <1>1, <1>2
<1>4. \A t \in RawEntries(f) : Covers(f, t, t)
  <2>1. \A t \in RawEntries(f) : t.len <= t.len
    BY DEF RawEntries, BitLen, Families
  <2>2. QED
    BY <2>1 DEF Covers, Contains
<1>5. ASSUME NEW e \in kept PROVE \E i \in new : Covers(f, i, e)
  <2> DEFINE t == Masked(f, e)
  <2>1. t \in ranges /\ t \in RawEntries(f) /\ e \in RawEntries(f)
    BY <1>1
  <2>2. \E i \in new : i \in RawEntries(f) /\ Covers(f, i, t)
    <3> HIDE DEF ranges, new, t
    <3>1. QED
      BY <1>2, <1>3, <1>4, <2>1
  <2>3. QED
    BY <2>1, <2>2, CoversMasked
<1>6. ASSUME NEW i \in new PROVE \E e \in kept : Covers(f, i, e)
  <2>1. i \in RawEntries(f) /\ \E t \in ranges : Covers(f, i, t)
    <3> HIDE DEF ranges, new
    <3>1. QED
      BY <1>1, <1>2, <1>3, <1>4, <1>6
  <2>2. PICK e \in kept : Covers(f, i, Masked(f, e))
    BY <2>1
  <2>3. QED
    BY <2>1, <2>2, CoversMasked
<1>7. QED
  BY <1>3, <1>5, <1>6

-----------------------------------------------------------------------------
(* Types                                                                   *)

\* The domains or lists of the stage that wait for their call, each of them once.
CallsOK ==
  /\ names \in Seq(Names \cup Range(WAFLists)) /\ Distinct(names)
  /\ pc \in {"dns", "deleting"} => Range(names) \subseteq Range(Domains[First(todo)])
  /\ pc \in {"lists", "clearing"} => Range(names) \subseteq Range(WAFLists)
  /\ resps \in [Codes -> SUBSET (Names \cup Range(WAFLists))]

\* Every domain of the family has its targets.
TargetsOK ==
  /\ DOMAIN targets \subseteq Names
  /\ \A d \in DOMAIN targets : targets[d] \subseteq Addrs("IP6")
  /\ pc = "dns" =>
       /\ DOMAIN targets = Range(Domains[First(todo)])
       /\ \A d \in DOMAIN targets :
            /\ targets[d] \subseteq Addrs(First(todo))
            /\ RightAddresses(First(todo), d, targets[d])

MessageOK(m) == m.ok \in BOOLEAN /\ (m.ok \/ m.lines # {})
MessagesOK == \A m \in msgs : MessageOK(m)

\* The lists are to have the ranges of every family that can be worked on.
KnownOK ==
  /\ \A f \in DOMAIN wafTargets :
       f \in conf.providers /\ wafTargets[f].entries \subseteq RawEntries(f)
  /\ shouldUpdateWAF \in BOOLEAN
  /\ \A f \in DOMAIN raw : f \in conf.providers /\ raw[f].entries \subseteq RawEntries(f)
  /\ \A f \in Families : Usable(f) =>
       /\ shouldUpdateWAF /\ f \in DOMAIN wafTargets /\ wafTargets[f].available
       /\ wafTargets[f].entries = {Masked(f, e) : e \in KeptEntries(f)}

RemoteOK ==
  /\ \A f \in Families : DOMAIN records[f] = Range(Domains[f])
  /\ \A f \in Families, d \in Names :
       d \in DOMAIN records[f] => records[f][d] \subseteq Addrs(f)
  /\ \A l \in Range(WAFLists), f \in Families : items[l][f] \subseteq RawEntries(f)

ReportOK ==
  /\ report.kind \in {"none", "update", "update failure", "cleanup", "cleanup failure"}
  /\ operations \in 0 .. MaxOperations

PartsOK == CallsOK /\ TargetsOK /\ MessagesOK /\ KnownOK /\ RemoteOK /\ ReportOK
TypesInv == ScopeInv /\ PartsOK

\* The names of the families' domains, and of the lists, are those there are.
LEMMA NamesOf ==
  /\ \A f \in Families : Domains[f] \in Seq(Names \cup Range(WAFLists)) /\ Distinct(Domains[f])
  /\ \A f \in Families : Range(Domains[f]) \subseteq Names
  /\ WAFLists \in Seq(Names \cup Range(WAFLists)) /\ Distinct(WAFLists)
<1>1. ASSUME NEW f \in Families PROVE Range(Domains[f]) \subseteq Names
  BY DEF Names
<1>2. ASSUME NEW S, NEW T, NEW s \in Seq(S), S \subseteq T PROVE s \in Seq(T)
  <2>1. s \in [1 .. Len(s) -> S] /\ Len(s) \in Nat
    BY <1>2
  <2>2. s \in [1 .. Len(s) -> T]
    BY <1>2, <2>1
  <2>3. QED
    BY <2>1, <2>2
<1>3. \A f \in Families : Domains[f] \in Seq(Names) /\ Distinct(Domains[f])
  BY ConstantsAssumption
<1>4. WAFLists \in Seq(Range(WAFLists)) /\ Distinct(WAFLists)
  BY ConstantsAssumption
<1>5. QED
  BY <1>1, <1>2, <1>3, <1>4

\* The parts that a step does not touch.
LEMMA PartsStay ==
  ASSUME PartsOK
  PROVE  /\ UNCHANGED <<pc, todo, names, resps>> => CallsOK'
         /\ UNCHANGED <<conf, pc, todo, targets, raw>> => TargetsOK'
         /\ targets' \in {targets, Empty} /\ pc' # "dns" => TargetsOK'
         /\ UNCHANGED msgs => MessagesOK'
         /\ UNCHANGED <<conf, raw, wafTargets, shouldUpdateWAF>> => KnownOK'
         /\ UNCHANGED remote => RemoteOK'
         /\ UNCHANGED <<report, operations>> => ReportOK'
<1>1. UNCHANGED <<pc, todo, names, resps>> => CallsOK'
  BY DEF PartsOK, CallsOK, First
<1>2. ASSUME UNCHANGED <<conf, pc, todo, targets, raw>> PROVE TargetsOK'
  BY <1>2 DEF PartsOK, TargetsOK, First, RightAddresses, KeptEntries, KeptOf
<1>3. targets' \in {targets, Empty} /\ pc' # "dns" => TargetsOK'
  BY DEF PartsOK, TargetsOK, Empty
<1>4. UNCHANGED msgs => MessagesOK'
  BY DEF PartsOK, MessagesOK
<1>5. ASSUME UNCHANGED <<conf, raw, wafTargets, shouldUpdateWAF>> PROVE KnownOK'
  <2>1. \A f : Usable(f)' = Usable(f)
    BY <1>5, UsableStays
  <2>2. \A f : KeptEntries(f)' = KeptEntries(f)
    BY <1>5 DEF KeptEntries, KeptOf
  <2>3. QED
    BY <1>5, <2>1, <2>2 DEF PartsOK, KnownOK
<1>6. UNCHANGED remote => RemoteOK'
  BY DEF PartsOK, RemoteOK, remote
<1>7. UNCHANGED <<report, operations>> => ReportOK'
  BY DEF PartsOK, ReportOK
<1>8. QED
  BY <1>1, <1>2, <1>3, <1>4, <1>5, <1>6, <1>7

\* A message that is no success has something to say; so has what it is merged into.
LEMMA MergedOK ==
  ASSUME NEW ms, \A m \in ms : MessageOK(m)
  PROVE  MessageOK(Merge(ms))
<1>1. CASE \A m \in ms : m.ok
  BY <1>1 DEF Merge, MessageOK
<1>2. ASSUME NEW m \in ms, ~m.ok PROVE MessageOK(Merge(ms))
  <2>1. m.ok = FALSE /\ m.lines # {}
    BY <1>2 DEF MessageOK
  <2>2. Merge(ms).ok = FALSE /\ m.lines \subseteq Merge(ms).lines
    BY <2>1, MergeKeeps
  <2>3. QED
    BY <2>1, <2>2 DEF MessageOK
<1>3. QED
  BY <1>1, <1>2

\* So has a message on responses.
LEMMA ResponsesOK ==
  ASSUME NEW f, NEW ips, NEW answers
  PROVE  MessageOK(OnResponses(f, ips, answers))
<1>1. CASE answers["failed"] = {}
  BY <1>1 DEF OnResponses, MessageOK
<1>2. CASE answers["failed"] # {}
  <2>1. PICK n : n \in answers["failed"]
    BY <1>2
  <2>2. NamesUnit(OnResponses(f, ips, answers), <<f, n>>)
    BY <2>1, ResponsesName
  <2>3. QED
    BY <2>2 DEF NamesUnit, MessageOK
<1>3. QED
  BY <1>1, <1>2

\* A round or the clean-up begins.
LEMMA BeginTypes ==
  ASSUME TypesInv, NEW step \in {"detect", "delete"}, BeginAt(step)
  PROVE  PartsOK'
<1>a. /\ conf' = conf /\ pc' = step /\ todo' = conf.providers
      /\ operations < MaxOperations /\ operations' = operations + 1
      /\ msgs' = {} /\ wafTargets' = Empty /\ shouldUpdateWAF' = FALSE /\ report' = NoReport
      /\ raw' = Empty /\ UNCHANGED <<names, targets, resps, remote>>
  BY DEF BeginAt
<1>b. PartsOK
  BY DEF TypesInv
<1>1. CallsOK'
  BY <1>a, <1>b DEF PartsOK, CallsOK
<1>2. TargetsOK'
  BY <1>a, <1>b, PartsStay
<1>3. MessagesOK'
  BY <1>a DEF MessagesOK
<1>4. KnownOK'
  BY <1>a DEF KnownOK, Empty, Usable
<1>5. RemoteOK'
  BY <1>a, <1>b, PartsStay
<1>6. ReportOK'
  <2>1. MaxOperations \in Nat
    BY ConstantsAssumption
  <2>2. NoReport.kind = "none"
    BY DEF NoReport, Classified, Quiet
  <2>3. operations' \in 0 .. MaxOperations
    <3>1. operations \in 0 .. MaxOperations
      BY <1>b DEF PartsOK, ReportOK
    <3>2. QED
      BY <1>a, <2>1, <3>1
  <2>4. report'.kind = "none"
    BY <1>a, <2>2
  <2>5. QED
    BY <2>3, <2>4 DEF ReportOK
<1>7. QED
  BY <1>1, <1>2, <1>3, <1>4, <1>5, <1>6 DEF PartsOK

\* What was detected is known from now on; of the other families no more than before.
LEMMA DetectedKnown ==
  ASSUME TypesInv, NEW f \in Families, NEW r \in Answers(f), Detected(f, r), conf' = conf,
         NEW t, t.entries \subseteq RawEntries(f), wafTargets' = With(wafTargets, f, t),
         shouldUpdateWAF' \in BOOLEAN, shouldUpdateWAF => shouldUpdateWAF',
         Usable(f)' => /\ shouldUpdateWAF' /\ t.available
                       /\ t.entries = {Masked(f, e) : e \in KeptEntries(f)'}
  PROVE  KnownOK'
<1>a. KnownOK /\ FamiliesInv /\ raw' = With(raw, f, r) /\ f = First(todo) /\ todo # {}
  BY DEF TypesInv, PartsOK, ScopeInv, Detected
<1>1. f \in conf.providers
  BY <1>a, Configured, FirstThere DEF FamiliesInv
<1>2. r.entries \subseteq RawEntries(f)
  BY AnswersAreRight
<1>3. \A g \in DOMAIN wafTargets' :
        g \in conf'.providers /\ wafTargets'[g].entries \subseteq RawEntries(g)
  BY <1>a, <1>1 DEF KnownOK, With
<1>4. \A g \in DOMAIN raw' : g \in conf'.providers /\ raw'[g].entries \subseteq RawEntries(g)
  BY <1>a, <1>1, <1>2 DEF KnownOK, With
<1>5. ASSUME NEW g \in Families, Usable(g)'
      PROVE  /\ shouldUpdateWAF' /\ g \in DOMAIN wafTargets' /\ wafTargets'[g].available
             /\ wafTargets'[g].entries = {Masked(g, e) : e \in KeptEntries(g)'}
  <2>1. CASE g = f
    BY <1>5, <2>1 DEF With
  <2>2. CASE g # f
    <3>1. Usable(g)
      BY <1>a, <1>5, <2>2, UsableStays
    <3>2. KeptEntries(g)' = KeptEntries(g)
      BY <1>a, <2>2, <3>1 DEF Usable, With, KeptEntries, KeptOf
    <3>3. QED
      BY <1>a, <2>2, <3>1, <3>2 DEF KnownOK, With
  <2>3. QED
    BY <2>1, <2>2
<1>6. QED
  BY <1>3, <1>4, <1>5 DEF KnownOK

\* A detection that fails, or whose derivations have a problem, leaves a family that
\* cannot be worked on.
LEMMA FailureIsUnusable ==
  ASSUME TypesInv, NEW f \in Families, NEW r \in Answers(f),
         DetectionFails(f, r) \/ HostIDProblem(f, r)
  PROVE  ~Usable(f)'
<1>a. raw' = With(raw, f, r) /\ conf' = conf /\ conf \in Configurations
  BY DEF DetectionFails, HostIDProblem, Detected, TypesInv, ScopeInv, FamiliesInv
<1>1. /\ raw'[f] = r /\ KeptEntries(f)' = KeptOf(f, r)
      /\ r = [available |-> r.available, entries |-> r.entries]
      /\ r.entries \subseteq RawEntries(f)
  BY <1>a, AnswersAreRight DEF With, KeptEntries, KeptOf
<1>2. CASE ~Filtered(f, r).available
  <2>1. CASE FilterAborts(f, r)
    BY <1>1, <2>1 DEF Usable, FilterAborts
  <2>2. CASE ~FilterAborts(f, r)
    <3>1. Filtered(f, r) = [r EXCEPT !.entries = KeptOf(f, r)]
      BY <2>2 DEF Filtered
    <3>2. Filtered(f, r).available = r.available
      BY <1>1, <3>1
    <3>3. QED
      BY <1>1, <1>2, <3>2 DEF Usable
  <2>3. QED
    BY <2>1, <2>2
<1>3. CASE Filtered(f, r).available /\ Derived(f, Filtered(f, r)).problems # {}
  <2> DEFINE kept == KeptOf(f, r)
             tries == Attempts(conf.policies, kept, Range(Domains[f]))
  <2>1. f = "IP6"
    BY <1>3 DEF Derived, Families
  <2>2. ~FilterAborts(f, r)
    BY <1>3 DEF Filtered, Unavailable
  <2>3. Filtered(f, r) = [r EXCEPT !.entries = kept]
    BY <2>2 DEF Filtered
  <2>4. Filtered(f, r).entries = kept
    BY <1>1, <2>3
  <2>5. DeriveDomains(conf.policies, kept, Range(Domains[f])).problems # {}
    BY <1>3, <2>1, <2>4 DEF Derived
  <2>6. \E t \in tries : ~Compatible(t[2], t[3])
    BY <2>5 DEF DeriveDomains, ProblemGroups
  <2>7. PICK d \in Range(Domains[f]) : \E e \in kept : \E v \in conf.policies[d] : ~Compatible(e, v)
    BY <2>6 DEF Attempts
  <2>a. PICK e \in kept : \E v \in conf.policies[d] : ~Compatible(e, v)
    BY <2>7
  <2>b. PICK v \in conf.policies[d] : ~Compatible(e, v)
    BY <2>a
  <2>8. e \in RawEntries("IP6") /\ Derivation(v)
    BY <1>a, <1>1, <2>1, Configured DEF KeptOf
  <2>9. ~Applicable(e, v)
    BY <2>b, <2>8, ApplicableIsCompatible
  <2>10. Usable(f)' => Applicable(e, v)
    BY <1>a, <1>1, <2>1, <2>7 DEF Usable
  <2>11. QED
    BY <2>9, <2>10
<1>4. QED
  BY <1>2, <1>3 DEF DetectionFails, HostIDProblem

\* Nothing usable was detected.
LEMMA FailedDetectionTypes ==
  ASSUME TypesInv, NEW f \in Families, NEW r \in Answers(f),
         DetectionFails(f, r) \/ HostIDProblem(f, r)
  PROVE  PartsOK'
<1>a. /\ Detected(f, r) /\ wafTargets' = With(wafTargets, f, Unavailable)
      /\ \E m : msgs' = msgs \cup {m} /\ m \in {DetectMessage(f, r), IP6DerivationFailureMessage}
      /\ UNCHANGED <<conf, pc, names, targets, resps, shouldUpdateWAF, remote, report, operations>>
      /\ DetectionFails(f, r) => ~Filtered(f, r).available
  BY DEF DetectionFails, HostIDProblem
<1>b. PartsOK /\ pc = "detect"
  BY <1>a DEF TypesInv, Detected
<1>1. CallsOK'
  BY <1>a, <1>b DEF PartsOK, CallsOK
<1>2. TargetsOK'
  BY <1>a, <1>b, PartsStay
<1>3. MessagesOK'
  <2>1. \A g : MessageOK(FailedDetectMessage(g)) /\ MessageOK(FilterAbortMessage(g))
    BY DEF MessageOK, FailedDetectMessage, FilterAbortMessage, Failure
  <2>3. MessageOK(IP6DerivationFailureMessage)
    BY DEF MessageOK, IP6DerivationFailureMessage, Failure
  <2>4. CASE DetectionFails(f, r)
    <3>1. DetectMessage(f, r) \in {FailedDetectMessage(f), FilterAbortMessage(f)}
      BY <1>a, <2>4 DEF DetectMessage
    <3>2. msgs' = msgs \cup {DetectMessage(f, r)}
      BY <2>4 DEF DetectionFails
    <3>3. QED
      BY <1>b, <2>1, <3>1, <3>2 DEF PartsOK, MessagesOK
  <2>5. CASE HostIDProblem(f, r)
    <3>1. msgs' = msgs \cup {IP6DerivationFailureMessage}
      BY <2>5 DEF HostIDProblem
    <3>2. QED
      BY <1>b, <2>3, <3>1 DEF PartsOK, MessagesOK
  <2>6. QED
    BY <2>4, <2>5
<1>4. KnownOK'
  <2>1. ~Usable(f)'
    BY FailureIsUnusable
  <2>2. Unavailable.entries = {} /\ shouldUpdateWAF \in BOOLEAN
    BY <1>b DEF Unavailable, PartsOK, KnownOK
  <2>3. QED
    BY <1>a, <2>1, <2>2, DetectedKnown
<1>5. RemoteOK' /\ ReportOK'
  BY <1>a, <1>b, PartsStay
<1>6. QED
  BY <1>1, <1>2, <1>3, <1>4, <1>5 DEF PartsOK

\* Something usable was.
LEMMA DetectionTypes ==
  ASSUME TypesInv, NEW f \in Families, NEW r \in Answers(f), DetectionSucceeds(f, r)
  PROVE  PartsOK'
<1>a. /\ Detected(f, r) /\ wafTargets' = With(wafTargets, f, WAFTargets(f, Filtered(f, r)))
      /\ names' = Domains[f] /\ resps' = NoResponses /\ pc' = "dns" /\ shouldUpdateWAF' = TRUE
      /\ UNCHANGED <<conf, todo, msgs, remote, report, operations>>
  BY DEF DetectionSucceeds
<1>b. PartsOK /\ conf \in Configurations /\ First(todo)' = f
  BY <1>a DEF TypesInv, ScopeInv, FamiliesInv, Detected, First
<1>c. /\ DOMAIN targets' = Range(Domains[f])
      /\ \A d \in Range(Domains[f]) :
           targets'[d] \subseteq Addrs(f) /\ RightAddresses(f, d, targets[d])'
      /\ wafTargets'[f].available
      /\ wafTargets'[f].entries = {Masked(f, e) : e \in KeptEntries(f)'}
      /\ KeptEntries(f)' \subseteq RawEntries(f)
  BY <1>a, <1>b, DerivedRight
<1>1. CallsOK'
  <2>1. resps' \in [Codes -> SUBSET (Names \cup Range(WAFLists))]
    BY <1>a DEF NoResponses
  <2>2. QED
    BY <1>a, <1>b, <2>1, NamesOf DEF CallsOK
<1>2. TargetsOK'
  <2>1. Addrs(f) \subseteq Addrs("IP6")
    BY Addrs4In6 DEF Families
  <2>2. Range(Domains[f]) \subseteq Names
    BY NamesOf
  <2>3. \A d \in DOMAIN targets' : RightAddresses(First(todo), d, targets[d])'
    BY <1>b, <1>c DEF RightAddresses
  <2>4. QED
    BY <1>a, <1>b, <1>c, <2>1, <2>2, <2>3 DEF TargetsOK
<1>3. MessagesOK' /\ RemoteOK' /\ ReportOK'
  BY <1>a, <1>b, PartsStay
<1>4. KnownOK'
  <2> DEFINE t == WAFTargets(f, Filtered(f, r))
  <2>1. t = wafTargets'[f]
    BY <1>a DEF With
  <2>2. t.entries \subseteq RawEntries(f)
    BY <1>c, <2>1, MaskedRight
  <2> HIDE DEF t
  <2>3. QED
    BY <1>a, <1>b, <1>c, <2>1, <2>2, DetectedKnown DEF t
<1>5. QED
  BY <1>1, <1>2, <1>3, <1>4 DEF PartsOK

\* What a call leaves of addresses or ranges lies within those before and those asked for.
LEMMA BetweenWithin ==
  ASSUME NEW old, NEW new, NEW now \in Between(old, new)
  PROVE  now \subseteq old \cup new
  BY DEF Between

\* A call for a domain fails or leaves what was asked for.
LEMMA OutcomesAre ==
  ASSUME NEW old, NEW new, NEW outcome \in Outcomes(old, new)
  PROVE  /\ outcome.code \in {"noop", "updated", "failed"}
         /\ outcome.now \subseteq old \cup new
         /\ outcome.code = "failed" \/ outcome.now = new
  BY BetweenWithin DEF Outcomes

\* So does a call for a list.
LEMMA ListOutcomesAre ==
  ASSUME NEW old, NEW new, NEW halfway, NEW outcome \in ListOutcomes(old, new, halfway)
  PROVE  /\ outcome.code \in {"noop", "updated"} \cup halfway
         /\ \A f \in Families : outcome.now[f] \subseteq old[f] \cup new[f]
         /\ outcome.code \in halfway \/ outcome.now = new
<1>1. CASE outcome.code \in {"noop", "updated"} /\ outcome.now = new
  BY <1>1
<1>2. ASSUME outcome.code \in halfway,
             NEW n4 \in Between(old["IP4"], new["IP4"]), NEW n6 \in Between(old["IP6"], new["IP6"]),
             outcome.now = [g \in Families |-> IF g = "IP4" THEN n4 ELSE n6]
      PROVE  \A f \in Families : outcome.now[f] \subseteq old[f] \cup new[f]
  BY <1>2, BetweenWithin DEF Families
<1>3. QED
  BY <1>1, <1>2 DEF ListOutcomes

\* The answer of a call is recorded, and its unit waits no more.
LEMMA CalledOK ==
  ASSUME CallsOK, names # <<>>, NEW n, n = Head(names), NEW code \in Codes,
         resps' = Registered(resps, n, code), names' = Tail(names), UNCHANGED <<pc, todo>>
  PROVE  CallsOK' /\ Range(names) = {n} \cup Range(names') /\ n \notin Range(names')
<1>1. /\ n \in Names \cup Range(WAFLists) /\ names' \in Seq(Names \cup Range(WAFLists))
      /\ Distinct(names') /\ Range(names) = {n} \cup Range(names') /\ n \notin Range(names')
  BY HeadAndTail DEF CallsOK
<1>2. resps' \in [Codes -> SUBSET (Names \cup Range(WAFLists))]
  BY <1>1 DEF CallsOK, Registered
<1>3. QED
  BY <1>1, <1>2 DEF CallsOK, First

\* A call for a domain.
LEMMA DomainCallTypes ==
  ASSUME TypesInv, pc \in {"dns", "deleting"}, NEW d,
         NEW new \in SUBSET Addrs(First(todo)), DomainCall(First(todo), d, new)
  PROVE  PartsOK'
<1> DEFINE f == First(todo)
<1>a. /\ names # <<>> /\ d = Head(names) /\ names' = Tail(names)
      /\ UNCHANGED <<conf, pc, todo, targets, msgs, wafTargets, shouldUpdateWAF, items,
                     report, raw, begin, operations>>
  BY DEF DomainCall
<1>b. PICK outcome \in Outcomes(records[f][d], new) :
        /\ records' = [records EXCEPT ![f][d] = outcome.now]
        /\ resps' = Registered(resps, d, outcome.code)
  BY DEF DomainCall
<1>c. PartsOK /\ CallsOK /\ RemoteOK /\ f \in Families /\ DOMAIN records = Families
  BY Configured, FirstThere DEF TypesInv, PartsOK, ScopeInv, FamiliesInv, RemoteInv
<1>d. outcome.code \in Codes /\ outcome.now \subseteq records[f][d] \cup new
  BY <1>b, OutcomesAre DEF Codes
<1>1. CallsOK' /\ Range(names) = {d} \cup Range(names')
  BY <1>a, <1>b, <1>c, <1>d, CalledOK
<1>2. d \in Range(Domains[f]) /\ d \in Names
  BY <1>1, <1>c, NamesOf DEF CallsOK
<1>3. RemoteOK'
  <2> HIDE DEF f
  <2>1. records[f][d] \subseteq Addrs(f) /\ DOMAIN records[f] = Range(Domains[f])
    BY <1>c, <1>2 DEF RemoteOK
  <2>2. outcome.now \subseteq Addrs(f)
    BY <1>d, <2>1 DEF f
  <2>3. \A g \in Families : DOMAIN records'[g] = Range(Domains[g])
    BY <1>b, <1>c, <2>1 DEF RemoteOK
  <2>4. ASSUME NEW g \in Families, NEW k \in Names, k \in DOMAIN records'[g]
        PROVE  records'[g][k] \subseteq Addrs(g)
    <3>1. CASE g = f /\ k = d
      BY <1>b, <1>c, <1>2, <2>1, <2>2, <3>1
    <3>2. CASE ~(g = f /\ k = d)
      <4>1. records'[g][k] = records[g][k] /\ k \in DOMAIN records[g]
        BY <1>b, <1>c, <2>3, <2>4, <3>2 DEF RemoteOK
      <4>2. QED
        BY <1>c, <2>4, <4>1 DEF RemoteOK
    <3>3. QED
      BY <3>1, <3>2
  <2>5. QED
    BY <1>a, <1>c, <2>3, <2>4 DEF RemoteOK
<1>4. TargetsOK' /\ MessagesOK' /\ KnownOK' /\ ReportOK'
  BY <1>a, <1>c, PartsStay
<1>5. QED
  BY <1>1, <1>3, <1>4 DEF PartsOK

\* What a list should hold are ranges of the families.
LEMMA WantedAreRanges ==
  ASSUME TypesInv, NEW l \in Range(WAFLists), NEW f \in Families
  PROVE  WantedItems(l)[f] \subseteq RawEntries(f) /\ Cleared(l)[f] \subseteq RawEntries(f)
<1>1. items[l][f] \subseteq RawEntries(f)
  BY DEF TypesInv, PartsOK, RemoteOK
<1>2. f \in DOMAIN wafTargets => wafTargets[f].entries \subseteq RawEntries(f)
  BY DEF TypesInv, PartsOK, KnownOK
<1>3. \A old, new : Reconciled(f, old, new) \subseteq old \cup new
  BY DEF Reconciled
<1>4. WantedItems(l)[f] = IF f \in DOMAIN wafTargets /\ wafTargets[f].available
                          THEN Reconciled(f, items[l][f], wafTargets[f].entries) ELSE items[l][f]
  BY DEF WantedItems
<1>5. WantedItems(l)[f] \subseteq RawEntries(f)
  <2>1. CASE f \in DOMAIN wafTargets /\ wafTargets[f].available
    <3>1. WantedItems(l)[f] \subseteq items[l][f] \cup wafTargets[f].entries
      BY <1>3, <1>4, <2>1
    <3>2. QED
      BY <1>1, <1>2, <2>1, <3>1
  <2>2. CASE ~(f \in DOMAIN wafTargets /\ wafTargets[f].available)
    BY <1>1, <1>4, <2>2
  <2>3. QED
    BY <2>1, <2>2
<1>6. Cleared(l)[f] \subseteq RawEntries(f)
  BY <1>1 DEF Cleared
<1>7. QED
  BY <1>5, <1>6

\* A call for a list.
LEMMA ListCallTypes ==
  ASSUME TypesInv, pc \in {"lists", "clearing"}, NEW l \in Range(WAFLists),
         NEW new, \A f \in Families : new[f] \subseteq RawEntries(f),
         NEW halfway \in SUBSET Codes, ListCall(l, new, halfway)
  PROVE  PartsOK'
<1>a. /\ names # <<>> /\ l = Head(names) /\ names' = Tail(names)
      /\ UNCHANGED <<conf, pc, todo, targets, msgs, wafTargets, shouldUpdateWAF, records,
                     report, raw, begin, operations>>
  BY DEF ListCall
<1>b. PICK outcome \in ListOutcomes(items[l], new, halfway) :
        /\ items' = [items EXCEPT ![l] = outcome.now]
        /\ resps' = Registered(resps, l, outcome.code)
  BY DEF ListCall
<1>c. PartsOK /\ CallsOK /\ RemoteOK /\ DOMAIN items = Range(WAFLists)
  BY DEF TypesInv, PartsOK, ScopeInv, RemoteInv
<1>d. /\ outcome.code \in Codes
      /\ \A f \in Families : outcome.now[f] \subseteq items[l][f] \cup new[f]
  <2>1. /\ outcome.code \in {"noop", "updated"} \cup halfway
        /\ \A f \in Families : outcome.now[f] \subseteq items[l][f] \cup new[f]
    BY <1>b, ListOutcomesAre
  <2>2. QED
    BY <2>1 DEF Codes
<1>1. CallsOK'
  BY <1>a, <1>b, <1>c, <1>d, CalledOK
<1>2. RemoteOK'
  <2>1. ASSUME NEW k \in Range(WAFLists), NEW f \in Families
        PROVE  items'[k][f] \subseteq RawEntries(f)
    <3>1. CASE k = l
      <4>1. items'[k] = outcome.now /\ items[l][f] \subseteq RawEntries(f)
        BY <1>b, <1>c, <3>1 DEF RemoteOK
      <4>2. QED
        BY <1>d, <4>1
    <3>2. CASE k # l
      BY <1>b, <1>c, <3>2 DEF RemoteOK
    <3>3. QED
      BY <3>1, <3>2
  <2>2. QED
    BY <1>a, <1>c, <2>1 DEF RemoteOK
<1>3. TargetsOK' /\ MessagesOK' /\ KnownOK' /\ ReportOK'
  BY <1>a, <1>c, PartsStay
<1>4. QED
  BY <1>1, <1>2, <1>3 DEF PartsOK

\* A step between two stages.
LEMMA StageTypes ==
  ASSUME TypesInv, pc' # "dns", targets' \in {targets, Empty},
         names' \in Seq(Names \cup Range(WAFLists)), Distinct(names'),
         pc' = "deleting" => Range(names') \subseteq Range(Domains[First(todo')]),
         pc' \in {"lists", "clearing"} => Range(names') \subseteq Range(WAFLists),
         resps' \in {resps, NoResponses},
         \/ msgs' = msgs
         \/ \E m : msgs' = msgs \cup {m} /\ MessageOK(m),
         UNCHANGED <<conf, wafTargets, shouldUpdateWAF, raw, remote, operations>>,
         report' = report
           \/ report'.kind \in {"update", "update failure", "cleanup", "cleanup failure"}
  PROVE  PartsOK'
<1>a. PartsOK
  BY DEF TypesInv
<1>1. CallsOK'
  <2>1. resps' \in [Codes -> SUBSET (Names \cup Range(WAFLists))]
    BY <1>a DEF PartsOK, CallsOK, NoResponses
  <2>2. First(todo)' = First(todo')
    BY DEF First
  <2>3. QED
    BY <2>1, <2>2 DEF CallsOK
<1>2. TargetsOK' /\ KnownOK' /\ RemoteOK'
  BY <1>a, PartsStay
<1>3. MessagesOK'
  BY <1>a DEF PartsOK, MessagesOK
<1>4. ReportOK'
  BY <1>a DEF PartsOK, ReportOK
<1>5. QED
  BY <1>1, <1>2, <1>3, <1>4 DEF PartsOK

\* The domains of a family are done.
LEMMA FinishTypes ==
  ASSUME TypesInv, FinishFamily \/ FinishDeleting
  PROVE  PartsOK'
<1>a. names = <<>> /\ UNCHANGED <<conf, names, targets, resps, wafTargets, shouldUpdateWAF, remote,
                                  report, raw, operations>>
  BY DEF FinishFamily, FinishDeleting, history
<1>b. names' \in Seq(Names \cup Range(WAFLists)) /\ Distinct(names')
  BY <1>a DEF TypesInv, PartsOK, CallsOK
<1>c. pc' \in {"detect", "delete"}
  BY DEF FinishFamily, FinishDeleting
<1>1. \E m : msgs' = msgs \cup {m} /\ MessageOK(m)
  <2>1. CASE FinishFamily
    <3> DEFINE f == First(todo)
    <3>1. msgs' = msgs \cup {Merge(MissingMessages(f) \cup GroupMessages(f))}
      BY <2>1 DEF FinishFamily
    <3>2. ASSUME NEW m \in GroupMessages(f) PROVE MessageOK(m)
      <4>1. \A ips, answers : MessageOK(UpdateMessage(f, ips, answers))
        BY ResponsesOK DEF UpdateMessage
      <4>2. \E ips, answers : m = UpdateMessage(f, ips, answers)
        BY <3>2 DEF GroupMessages
      <4>3. QED
        BY <4>1, <4>2
    <3>3. ASSUME NEW m \in MissingMessages(f) PROVE MessageOK(m)
      <4>1. \A domains : MessageOK(MissingTargetSetsMessage(f, domains))
        BY DEF MissingTargetSetsMessage, Failure, MessageOK
      <4>2. \E domains : m = MissingTargetSetsMessage(f, domains)
        BY <3>3 DEF MissingMessages
      <4>3. QED
        BY <4>1, <4>2
    <3>4. QED
      BY <3>1, <3>2, <3>3, MergedOK
  <2>2. CASE FinishDeleting
    BY <2>2, ResponsesOK DEF FinishDeleting, FinalDeleteMessage
  <2>3. QED
    BY <2>1, <2>2
<1>2. QED
  BY <1>a, <1>b, <1>c, <1>1, StageTypes

\* The clean-up turns to a family, or the lists are turned to.
LEMMA TurnTypes ==
  ASSUME TypesInv, TurnToFamily \/ BeginLists \/ BeginClearing
  PROVE  PartsOK'
<1>a. /\ UNCHANGED <<conf, todo, targets, msgs, wafTargets, shouldUpdateWAF>>
      /\ UNCHANGED <<remote, report, raw, operations>>
      /\ resps' = NoResponses
  BY DEF TurnToFamily, BeginLists, BeginClearing, TurnToLists, history
<1>1. CASE TurnToFamily
  <2>1. pc' = "deleting" /\ names' = Domains[First(todo)] /\ First(todo) \in Families
    BY <1>1, Configured, FirstThere DEF TurnToFamily, TypesInv, ScopeInv, FamiliesInv
  <2>2. Distinct(names') /\ names' \in Seq(Names \cup Range(WAFLists))
    BY <2>1, NamesOf
  <2>3. First(todo') = First(todo)
    BY <1>a
  <2>4. QED
    BY <1>a, <2>1, <2>2, <2>3, StageTypes
<1>2. CASE BeginLists \/ BeginClearing
  <2>1. pc' \in {"lists", "clearing"} /\ names' \in {<<>>, WAFLists}
    BY <1>2 DEF BeginLists, BeginClearing, TurnToLists
  <2>2. Distinct(<<>>) /\ Range(<<>>) = {} /\ <<>> \in Seq(Names \cup Range(WAFLists))
    BY DEF Distinct, Range
  <2>3. /\ Distinct(names') /\ names' \in Seq(Names \cup Range(WAFLists))
        /\ Range(names') \subseteq Range(WAFLists)
    BY <2>1, <2>2, NamesOf
  <2>4. QED
    BY <1>a, <2>1, <2>3, StageTypes
<1>3. QED
  BY <1>1, <1>2

\* The round or the clean-up ends.
LEMMA EndTypes ==
  ASSUME TypesInv, EndRound \/ EndCleanUp
  PROVE  PartsOK'
<1>a. /\ UNCHANGED <<conf, names, msgs, wafTargets, shouldUpdateWAF, remote, raw, operations>>
      /\ targets' = Empty /\ resps' = NoResponses /\ pc' \in {"idle", "stopped"}
  BY DEF EndRound, EndCleanUp, Report, history
<1>1. report'.kind \in {"update", "update failure", "cleanup", "cleanup failure"}
  <2>1. \E m : \/ report' = Classified(m, "update", "update failure")
               \/ report' = Classified(m, "cleanup", "cleanup failure")
    BY DEF EndRound, EndCleanUp, Report
  <2>2. ASSUME NEW m, NEW good, NEW bad PROVE Classified(m, good, bad).kind \in {good, bad}
    BY DEF Classified
  <2>3. PICK m : \/ report' = Classified(m, "update", "update failure")
                 \/ report' = Classified(m, "cleanup", "cleanup failure")
    BY <2>1
  <2>4. \/ report'.kind \in {"update", "update failure"}
        \/ report'.kind \in {"cleanup", "cleanup failure"}
    BY <2>2, <2>3
  <2>5. QED
    BY <2>4
<1>2. names' \in Seq(Names \cup Range(WAFLists)) /\ Distinct(names')
  BY <1>a DEF TypesInv, PartsOK, CallsOK
<1>3. QED
  BY <1>a, <1>1, <1>2, StageTypes

\* The types are right at the start.
LEMMA InitTypes == Init => TypesInv
<1> SUFFICES ASSUME Init PROVE TypesInv
  OBVIOUS
<1>1. CallsOK
  <2>1. Distinct(<<>>) /\ <<>> \in Seq(Names \cup Range(WAFLists))
    BY DEF Distinct
  <2>2. QED
    BY <2>1 DEF Init, CallsOK, NoResponses
<1>2. TargetsOK /\ MessagesOK /\ KnownOK
  BY DEF Init, TargetsOK, MessagesOK, KnownOK, Empty, Usable
<1>3. RemoteOK
  <2>1. PICK old4 \in OldRecords["IP4"], old6 \in OldRecords["IP6"] :
          records = [f \in Families |->
                       [d \in Range(Domains[f]) |-> IF f = "IP4" THEN old4 ELSE old6]]
    BY DEF Init
  <2>2. PICK range4 \in OldItems["IP4"], range6 \in OldItems["IP6"] :
          items = [l \in Range(WAFLists) |->
                     [f \in Families |-> IF f = "IP4" THEN range4 ELSE range6]]
    BY DEF Init
  <2>3. /\ old4 \subseteq Addrs("IP4") /\ old6 \subseteq Addrs("IP6")
        /\ range4 \subseteq RawEntries("IP4") /\ range6 \subseteq RawEntries("IP6")
    BY ConstantsAssumption DEF Families
  <2>4. /\ \A f \in Families : DOMAIN records[f] = Range(Domains[f])
        /\ \A f \in Families : \A d \in DOMAIN records[f] : records[f][d] \subseteq Addrs(f)
    BY <2>1, <2>3 DEF Families
  <2>5. \A l \in Range(WAFLists), f \in Families : items[l][f] \subseteq RawEntries(f)
    BY <2>2, <2>3 DEF Families
  <2>6. QED
    BY <2>4, <2>5 DEF RemoteOK
<1>4. ReportOK
  <2>1. MaxOperations \in Nat
    BY ConstantsAssumption
  <2>2. NoReport.kind = "none"
    BY DEF NoReport, Classified, Quiet
  <2>3. QED
    BY <2>1, <2>2 DEF Init, ReportOK
<1>5. QED
  BY <1>1, <1>2, <1>3, <1>4, InitScope DEF TypesInv, PartsOK

\* They remain so.
LEMMA NextTypes == TypesInv /\ [Next]_vars => TypesInv'
<1> SUFFICES ASSUME TypesInv, [Next]_vars PROVE PartsOK'
  BY NextScope DEF TypesInv
<1>1. CASE BeginRound \/ BeginCleanUp
  BY <1>1, BeginTypes DEF BeginRound, BeginCleanUp
<1>2. ASSUME NEW f \in Families, NEW r \in Answers(f),
             DetectionFails(f, r) \/ HostIDProblem(f, r) \/ DetectionSucceeds(f, r)
      PROVE  PartsOK'
  BY <1>2, FailedDetectionTypes, DetectionTypes
<1>3. ASSUME NEW d \in Names, SetIPs(d) PROVE PartsOK'
  <2>a. pc = "dns" /\ TargetsOK
    BY <1>3 DEF SetIPs, TypesInv, PartsOK
  <2>1. CASE d \in DOMAIN targets
    <3>1. targets[d] \subseteq Addrs(First(todo)) /\ DomainCall(First(todo), d, targets[d])
      BY <1>3, <2>a, <2>1 DEF SetIPs, TargetsOK
    <3>2. QED
      BY <2>a, <3>1, DomainCallTypes
  <2>2. CASE d \notin DOMAIN targets
    <3>1. PassOver(d) /\ CallsOK
      BY <1>3, <2>2 DEF SetIPs, TypesInv, PartsOK
    <3>2. d \in Range(names)
      BY <3>1, HeadAndTail DEF PassOver, CallsOK
    <3>3. QED
      BY <2>a, <2>2, <3>1, <3>2 DEF CallsOK, TargetsOK
  <2>3. QED
    BY <2>1, <2>2
<1>4. ASSUME NEW d \in Names, FinalDelete(d) PROVE PartsOK'
  BY <1>4, DomainCallTypes DEF FinalDelete
<1>5. ASSUME NEW l \in Range(WAFLists), SetWAFList(l) \/ FinalClearWAFList(l) PROVE PartsOK'
  <2>1. /\ \A f \in Families : WantedItems(l)[f] \subseteq RawEntries(f)
        /\ \A f \in Families : Cleared(l)[f] \subseteq RawEntries(f)
    BY WantedAreRanges
  <2>2. {"failed"} \in SUBSET Codes /\ {"updating", "failed"} \in SUBSET Codes
    BY DEF Codes
  <2>3. QED
    BY <1>5, <2>1, <2>2, ListCallTypes DEF SetWAFList, FinalClearWAFList
<1>6. CASE FinishFamily \/ FinishDeleting
  BY <1>6, FinishTypes
<1>7. CASE TurnToFamily \/ BeginLists \/ BeginClearing
  BY <1>7, TurnTypes
<1>8. CASE EndRound \/ EndCleanUp
  BY <1>8, EndTypes
<1>9. CASE UNCHANGED vars
  <2>1. /\ UNCHANGED <<conf, pc, todo, names, resps, targets, raw, msgs>>
        /\ UNCHANGED <<wafTargets, shouldUpdateWAF, remote, report, operations>>
    BY <1>9 DEF vars, local, remote, history
  <2>2. QED
    BY <2>1, PartsStay DEF TypesInv, PartsOK
<1>10. QED
  BY <1>1, <1>2, <1>3, <1>4, <1>5, <1>6, <1>7, <1>8, <1>9 DEF Next, UpdateIPs, FinalDeleteIPs

\* Every variable has its type.
THEOREM TypeCorrect == Spec => []TypeOK
<1>1. TypesInv => TypeOK
  BY DEF TypesInv, ScopeInv, FamiliesInv, Steps, PartsOK, CallsOK, TargetsOK, MessagesOK, MessageOK,
         KnownOK, RemoteOK, ReportOK, TypeOK
<1>2. QED
  BY <1>1, InitTypes, NextTypes, PTL DEF Spec

-----------------------------------------------------------------------------
(* What becomes of the units                                               *)

\* What the current stage is to make of the records of a domain.
Wanted(d) == IF pc = "dns" THEN targets[d] ELSE {}

\* The units of which a call failed are those whose turn has come.
CalledInv ==
  \A unit \in broken :
    \/ unit[1] \in Families \ todo
    \/ pc \in {"dns", "deleting"} /\ unit[1] = First(todo) /\ unit[2] \notin Range(names)
    \/ unit[1] = "list" /\ pc \in {"lists", "clearing"} /\ unit[2] \notin Range(names)
    \/ unit[1] = "list" /\ pc \in {"idle", "stopped"}

\* Every domain of the family either waits, or was called and answered truly.
DomainsAnswered ==
  LET f == First(todo) IN
  pc \in {"dns", "deleting"} =>
    /\ \A d \in Range(Domains[f]) \ Range(names) : \E c \in Codes : d \in resps[c]
    /\ \A c \in Codes : \A d \in resps[c] :
         /\ d \in Range(Domains[f]) \ Range(names)
         /\ c = "failed" <=> <<f, d>> \in broken
         /\ c # "failed" => records[f][d] = Wanted(d)

\* So it is with every list, unless no family can be worked on.
ListsAnswered ==
  pc \in {"lists", "clearing"} =>
    /\ \A l \in Range(WAFLists) \ Range(names) : InScope = {} \/ \E c \in Codes : l \in resps[c]
    /\ \A c \in Codes : \A l \in resps[c] :
         /\ l \in Range(WAFLists) \ Range(names)
         /\ c = "failed" <=> <<"list", l>> \in broken
         /\ c \in {"noop", "updated"} => \A f \in InScope : ListRight(l, f)

\* The families that were worked on.
Done == IF InCleanUp THEN conf.providers \ todo ELSE {f \in Families \ todo : Usable(f)}
DoneInv == \A f \in Done : \A d \in Range(Domains[f]) : <<f, d>> \in broken \/ DomainRight(f, d)

\* What notifiers will be told is true, and remains so.
HonestLine(line) ==
  \A n \in line.names :
    /\ line.what = "updated" /\ line.family # "list" => records[line.family][n] = line.ips
    /\ line.what = "failed" <=> <<line.family, n>> \in broken
NotesInv ==
  \A m \in msgs : \A line \in m.note :
    line.names = {} \/ (line.family \in Families \ todo /\ HonestLine(line))

StagesInv == CalledInv /\ DomainsAnswered /\ ListsAnswered /\ DoneInv /\ NotesInv
UnitsInv == TypesInv /\ StagesInv

\* The parts of the invariant, for citation.
LEMMA UnitsParts ==
  ASSUME UnitsInv
  PROVE  /\ ScopeInv /\ FamiliesInv /\ conf \in Configurations /\ conf.providers \subseteq Families
         /\ DOMAIN records = Families /\ DOMAIN items = Range(WAFLists)
         /\ CallsOK /\ TargetsOK /\ KnownOK /\ RemoteOK /\ DOMAIN resps = Codes
         /\ CalledInv /\ DomainsAnswered /\ ListsAnswered /\ DoneInv /\ NotesInv
         /\ todo # {} => First(todo) \in todo /\ First(todo) \in Families
<1>1. ScopeInv /\ FamiliesInv /\ conf \in Configurations /\ todo \subseteq conf.providers
  BY DEF UnitsInv, TypesInv, ScopeInv, FamiliesInv
<1>2. conf.providers \subseteq Families
  BY <1>1, Configured
<1>3. DOMAIN records = Families /\ DOMAIN items = Range(WAFLists)
  BY <1>1 DEF ScopeInv, RemoteInv
<1>4. CallsOK /\ TargetsOK /\ KnownOK /\ RemoteOK /\ DOMAIN resps = Codes
  BY DEF UnitsInv, TypesInv, PartsOK, CallsOK
<1>5. CalledInv /\ DomainsAnswered /\ ListsAnswered /\ DoneInv /\ NotesInv
  BY DEF UnitsInv, StagesInv
<1>6. todo # {} => First(todo) \in todo /\ First(todo) \in Families
  BY <1>1, <1>2, FirstThere
<1>7. QED
  BY <1>1, <1>2, <1>3, <1>4, <1>5, <1>6

\* What can be worked on depends on what was detected alone.
LEMMA ScopeSame ==
  ASSUME conf' = conf, raw' = raw, InCleanUp' <=> InCleanUp
  PROVE  /\ InScope' = InScope
         /\ \A f : Usable(f)' = Usable(f) /\ KeptEntries(f)' = KeptEntries(f)
<1>1. \A f : Usable(f)' = Usable(f)
  BY UsableStays
<1>2. \A f : KeptEntries(f)' = KeptEntries(f)
  BY DEF KeptEntries, KeptOf
<1>3. InScope' = InScope
  BY <1>1 DEF InScope
<1>4. QED
  BY <1>1, <1>2, <1>3

\* What is right remains right while it is not touched.
LEMMA DomainStaysRight ==
  ASSUME conf' = conf, InCleanUp' <=> InCleanUp, NEW f, NEW d,
         KeptEntries(f)' = KeptEntries(f), records'[f][d] = records[f][d],
         DomainRight(f, d)
  PROVE  DomainRight(f, d)'
  BY DEF DomainRight

\* So does a list.
LEMMA ListStaysRight ==
  ASSUME InCleanUp' <=> InCleanUp, NEW l, NEW f,
         KeptEntries(f)' = KeptEntries(f), items'[l][f] = items[l][f],
         ListRight(l, f)
  PROVE  ListRight(l, f)'
  BY DEF ListRight

\* A domain is right in a round if it has the right addresses.
LEMMA RightIs ==
  ASSUME NEW f \in Families, NEW d, ~InCleanUp, RightAddresses(f, d, records[f][d])
  PROVE  DomainRight(f, d)
<1>1. CASE f = "IP4"
  BY <1>1 DEF RightAddresses, DomainRight
<1>2. CASE f # "IP4"
  BY <1>2 DEF RightAddresses, DomainRight
<1>3. QED
  BY <1>1, <1>2

\* A round or the clean-up begins.
LEMMA BeginUnits ==
  ASSUME UnitsInv, NEW step \in {"detect", "delete"}, BeginAt(step)
  PROVE  StagesInv'
<1>a. /\ conf' = conf /\ pc' = step /\ todo' = conf.providers /\ raw' = Empty /\ broken' = {}
      /\ msgs' = {}
  BY DEF BeginAt
<1>1. CalledInv' /\ NotesInv' /\ DomainsAnswered' /\ ListsAnswered'
  BY <1>a DEF CalledInv, NotesInv, DomainsAnswered, ListsAnswered
<1>2. Done' = {}
  <2>1. CASE step = "delete"
    BY <1>a, <2>1 DEF Done, InCleanUp
  <2>2. CASE step = "detect"
    <3>1. \A f : ~Usable(f)'
      BY <1>a DEF Usable, Empty
    <3>2. QED
      BY <1>a, <2>2, <3>1 DEF Done, InCleanUp
  <2>3. QED
    BY <2>1, <2>2
<1>3. DoneInv'
  BY <1>2 DEF DoneInv
<1>4. QED
  BY <1>1, <1>3 DEF StagesInv

\* The families done before a detection remain so.
LEMMA DetectionDone ==
  ASSUME UnitsInv, NEW f \in Families, NEW r \in Answers(f), Detected(f, r),
         UNCHANGED <<conf, records, broken>>, pc' \in {"detect", "dns"},
         todo' \subseteq todo,
         f \notin todo' => ~Usable(f)' /\ todo' = todo \ {f},
         f \in todo' => todo' = todo
  PROVE  DoneInv'
<1>a. /\ pc = "detect" /\ todo # {} /\ f = First(todo) /\ raw' = With(raw, f, r)
      /\ DoneInv /\ f \in todo
  BY UnitsParts DEF Detected
<1>b. ~InCleanUp /\ ~InCleanUp'
  BY <1>a DEF InCleanUp
<1>1. ASSUME NEW g \in Done' PROVE g \in Done /\ g # f /\ KeptEntries(g)' = KeptEntries(g)
  <2>1. g \in Families \ todo' /\ Usable(g)'
    BY <1>b, <1>1 DEF Done
  <2>2. g # f /\ g \notin todo
    BY <2>1
  <2>3. Usable(g)
    BY <1>a, <2>1, <2>2, UsableStays
  <2>4. KeptEntries(g)' = KeptEntries(g)
    BY <1>a, <2>2, <2>3 DEF Usable, With, KeptEntries, KeptOf
  <2>5. QED
    BY <1>b, <2>1, <2>2, <2>3, <2>4 DEF Done
<1>2. ASSUME NEW g \in Done', NEW d \in Range(Domains[g])
      PROVE  <<g, d>> \in broken' \/ DomainRight(g, d)'
  <2>1. <<g, d>> \in broken \/ DomainRight(g, d)
    BY <1>a, <1>1 DEF DoneInv
  <2>2. DomainRight(g, d) => DomainRight(g, d)'
    BY <1>b, <1>1, DomainStaysRight
  <2>3. QED
    BY <2>1, <2>2
<1>3. QED
  BY <1>2 DEF DoneInv

\* Nothing usable was detected.
LEMMA FailedDetectionUnits ==
  ASSUME UnitsInv, NEW f \in Families, NEW r \in Answers(f),
         DetectionFails(f, r) \/ HostIDProblem(f, r)
  PROVE  StagesInv'
<1>a. /\ Detected(f, r) /\ todo' = todo \ {f}
      /\ UNCHANGED <<conf, pc, remote, report, broken>>
  BY DEF DetectionFails, HostIDProblem, Detected
<1>b. pc = "detect" /\ f = First(todo) /\ f \in todo /\ CalledInv /\ NotesInv
  BY <1>a, UnitsParts DEF Detected
<1>1. CalledInv'
  BY <1>a, <1>b DEF CalledInv
<1>2. DomainsAnswered' /\ ListsAnswered'
  BY <1>a, <1>b DEF DomainsAnswered, ListsAnswered
<1>3. DoneInv'
  <2>1. ~Usable(f)'
    BY FailureIsUnusable DEF UnitsInv
  <2>2. QED
    BY <1>a, <1>b, <2>1, DetectionDone DEF remote
<1>4. NotesInv'
  <2>1. PICK m : msgs' = msgs \cup {m} /\ \A line \in m.note : line.names = {}
    <3>1. CASE DetectionFails(f, r)
      <4>1. DetectMessage(f, r) \in {FailedDetectMessage(f), FilterAbortMessage(f)}
        BY <3>1 DEF DetectionFails, DetectMessage
      <4>2. \A line \in DetectMessage(f, r).note : line.names = {}
        BY <4>1 DEF FailedDetectMessage, FilterAbortMessage, Failure, Line
      <4>3. QED
        BY <3>1, <4>2 DEF DetectionFails
    <3>2. CASE HostIDProblem(f, r)
      <4>1. \A line \in IP6DerivationFailureMessage.note : line.names = {}
        <5>1. ASSUME NEW what, NEW g
              PROVE  \A line \in Failure(Line(what, g, {}, {})).note : line.names = {}
          BY DEF Failure, Line
        <5>2. QED
          BY <5>1, Zenon DEF IP6DerivationFailureMessage
      <4>2. QED
        BY <3>2, <4>1 DEF HostIDProblem
    <3>3. QED
      BY <3>1, <3>2
  <2>2. \A line : HonestLine(line)' <=> HonestLine(line)
    BY <1>a DEF HonestLine, remote
  <2>3. QED
    BY <1>a, <1>b, <2>1, <2>2 DEF NotesInv
<1>5. QED
  BY <1>1, <1>2, <1>3, <1>4 DEF StagesInv

\* Something usable was.
LEMMA DetectionUnits ==
  ASSUME UnitsInv, NEW f \in Families, NEW r \in Answers(f), DetectionSucceeds(f, r)
  PROVE  StagesInv'
<1>a. /\ Detected(f, r) /\ names' = Domains[f] /\ resps' = NoResponses /\ pc' = "dns"
      /\ UNCHANGED <<conf, todo, msgs, remote, report, broken>>
  BY DEF DetectionSucceeds
<1>b. pc = "detect" /\ f = First(todo) /\ f \in todo /\ CalledInv /\ NotesInv
  BY <1>a, UnitsParts DEF Detected
<1>1. CalledInv'
  BY <1>a, <1>b DEF CalledInv
<1>2. DomainsAnswered' /\ ListsAnswered'
  <2>1. First(todo)' = f /\ \A c \in Codes : resps'[c] = {}
    BY <1>a, <1>b DEF First, NoResponses
  <2>2. QED
    BY <1>a, <2>1 DEF DomainsAnswered, ListsAnswered
<1>3. DoneInv'
  BY <1>a, <1>b, DetectionDone DEF remote
<1>4. NotesInv'
  <2>1. \A line : HonestLine(line)' <=> HonestLine(line)
    BY <1>a DEF HonestLine, remote
  <2>2. QED
    BY <1>a, <1>b, <2>1 DEF NotesInv
<1>5. QED
  BY <1>1, <1>2, <1>3, <1>4 DEF StagesInv

\* A call for a domain.
LEMMA DomainCallUnits ==
  ASSUME UnitsInv, pc \in {"dns", "deleting"}, NEW d, NEW new, new = Wanted(d),
         DomainCall(First(todo), d, new)
  PROVE  StagesInv'
<1> DEFINE f == First(todo)
<1>a. /\ names # <<>> /\ d = Head(names) /\ names' = Tail(names)
      /\ UNCHANGED <<conf, pc, todo, targets, msgs, items, report, raw>>
  BY DEF DomainCall
<1>b. PICK outcome \in Outcomes(records[f][d], new) :
        /\ records' = [records EXCEPT ![f][d] = outcome.now]
        /\ resps' = Registered(resps, d, outcome.code)
        /\ broken' = IF outcome.code = "failed" THEN broken \cup {<<f, d>>} ELSE broken
  BY DEF DomainCall
<1>c. /\ FamiliesInv /\ conf.providers \subseteq Families /\ DOMAIN records = Families
      /\ CallsOK /\ RemoteOK /\ CalledInv /\ DomainsAnswered /\ DoneInv /\ NotesInv
      /\ f \in todo /\ f \in Families /\ DOMAIN resps = Codes
  BY UnitsParts DEF FamiliesInv
<1>d. /\ outcome.code \in Codes
      /\ outcome.code # "failed" => outcome.now = new
  BY <1>b, OutcomesAre DEF Codes
<1>e. Range(names) = {d} \cup Range(names') /\ d \notin Range(names')
  BY <1>a, <1>b, <1>c, <1>d, CalledOK
<1>f. /\ d \in Range(Domains[f]) /\ d \in DOMAIN records[f]
      /\ First(todo)' = f /\ Wanted(d)' = Wanted(d)
  BY <1>a, <1>c, <1>e DEF CallsOK, RemoteOK, First, Wanted
<1> HIDE DEF f
<1>g. /\ \A g \in Families : \A k : <<g, k>> # <<f, d>> =>
           /\ records'[g][k] = records[g][k]
           /\ <<g, k>> \in broken' <=> <<g, k>> \in broken
      /\ records'[f][d] = outcome.now /\ broken \subseteq broken'
      /\ <<f, d>> \in broken' => outcome.code = "failed" \/ <<f, d>> \in broken
      /\ outcome.code = "failed" => <<f, d>> \in broken'
  BY <1>b, <1>c, <1>f
<1>h. resps' = [resps EXCEPT ![outcome.code] = resps[outcome.code] \cup {d}]
  BY <1>b DEF Registered
<1>i. <<f, d>> \notin broken
  BY <1>c, <1>e DEF CalledInv, f, Families
<1>1. CalledInv'
  BY <1>a, <1>b, <1>c, <1>e, <1>f DEF CalledInv, f
<1>2. DomainsAnswered'
  <2>1. ASSUME NEW k \in Range(Domains[f]) \ Range(names') PROVE \E c \in Codes : k \in resps'[c]
    <3>1. CASE k = d
      BY <1>c, <1>d, <1>h, <3>1
    <3>2. CASE k # d
      <4>1. k \in Range(Domains[f]) \ Range(names)
        BY <1>e, <2>1, <3>2
      <4>2. PICK c \in Codes : k \in resps[c]
        BY <1>c, <4>1 DEF DomainsAnswered, f
      <4>3. k \in resps'[c]
        BY <1>c, <1>h, <4>2
      <4>4. QED
        BY <4>3
    <3>3. QED
      BY <3>1, <3>2
  <2>2. ASSUME NEW c \in Codes, NEW k \in resps'[c]
        PROVE  /\ k \in Range(Domains[f]) \ Range(names')
               /\ c = "failed" <=> <<f, k>> \in broken'
               /\ c # "failed" => records'[f][k] = Wanted(k)'
    <3>1. CASE k \in resps[c]
      <4>1. /\ k \in Range(Domains[f]) \ Range(names)
            /\ c = "failed" <=> <<f, k>> \in broken
            /\ c # "failed" => records[f][k] = Wanted(k)
        BY <1>c, <3>1 DEF DomainsAnswered, f
      <4>2. k # d /\ Wanted(k)' = Wanted(k)
        BY <1>a, <1>e, <4>1 DEF Wanted
      <4>3. QED
        BY <1>c, <1>e, <1>g, <4>1, <4>2
    <3>2. CASE k \notin resps[c]
      <4>1. k = d /\ c = outcome.code
        BY <1>c, <1>d, <1>h, <2>2, <3>2
      <4>2. QED
        BY <1>d, <1>e, <1>f, <1>g, <1>i, <4>1
    <3>3. QED
      BY <3>1, <3>2
  <2>3. QED
    BY <1>f, <2>1, <2>2 DEF DomainsAnswered
<1>3. ListsAnswered'
  BY <1>a DEF ListsAnswered
<1>4. DoneInv'
  <2>1. /\ \A g : Usable(g)' = Usable(g) /\ KeptEntries(g)' = KeptEntries(g)
        /\ InCleanUp' <=> InCleanUp
    BY <1>a, ScopeSame DEF InCleanUp
  <2>2. Done' = Done
    BY <1>a, <2>1 DEF Done
  <2>3. ASSUME NEW g \in Done, NEW k \in Range(Domains[g])
        PROVE  <<g, k>> \in broken' \/ DomainRight(g, k)'
    <3>1. g # f /\ g \in Families
      BY <1>c, <2>3 DEF Done
    <3>2. <<g, k>> \in broken \/ DomainRight(g, k)
      BY <1>c, <2>3 DEF DoneInv
    <3>3. records'[g][k] = records[g][k]
      BY <1>g, <3>1
    <3>4. DomainRight(g, k) => DomainRight(g, k)'
      BY <1>a, <2>1, <3>3, DomainStaysRight
    <3>5. QED
      BY <1>g, <3>2, <3>4
  <2>4. QED
    BY <2>2, <2>3 DEF DoneInv
<1>5. NotesInv'
  <2>1. ASSUME NEW line, line.family \in Families \ todo, HonestLine(line) PROVE HonestLine(line)'
    <3>1. line.family # f /\ line.family \in Families
      BY <1>c, <2>1
    <3>2. \A n : /\ records'[line.family][n] = records[line.family][n]
                 /\ <<line.family, n>> \in broken' <=> <<line.family, n>> \in broken
      BY <1>g, <3>1
    <3>3. QED
      BY <2>1, <3>2 DEF HonestLine
  <2>2. QED
    BY <1>a, <1>c, <2>1 DEF NotesInv
<1>6. QED
  BY <1>1, <1>2, <1>3, <1>4, <1>5 DEF StagesInv

\* The lines of a message on responses.
LEMMA ResponseLines ==
  ASSUME NEW f, NEW ips, NEW answers, NEW line \in OnResponses(f, ips, answers).note
  PROVE  \E c \in {"failed", "updating", "updated"} :
           line = [what |-> c, family |-> f, names |-> answers[c], ips |-> ips]
<1>1. OnResponses(f, ips, answers).note
        = {Line(c, f, answers[c], ips) :
             c \in {k \in {"failed", "updating", "updated"} : answers[k] # {}}}
  BY DEF OnResponses
<1>2. QED
  BY <1>1 DEF Line

\* They are true if the responses are.
LEMMA ResponsesHonest ==
  ASSUME NEW f, NEW ips, NEW answers,
         \A c \in Codes : \A n \in answers[c] :
           /\ c = "failed" <=> <<f, n>> \in broken
           /\ c = "updated" /\ f # "list" => records[f][n] = ips,
         NEW line \in OnResponses(f, ips, answers).note
  PROVE  line.family = f /\ HonestLine(line)
<1>1. PICK c \in {"failed", "updating", "updated"} :
        line = [what |-> c, family |-> f, names |-> answers[c], ips |-> ips]
  BY ResponseLines
<1>2. line.what = c /\ line.family = f /\ line.names = answers[c] /\ line.ips = ips /\ c \in Codes
  BY <1>1 DEF Codes
<1>3. HonestLine(line)
  BY <1>2 DEF HonestLine
<1>4. QED
  BY <1>2, <1>3

\* The domains of a family are done.
LEMMA FinishUnits ==
  ASSUME UnitsInv, FinishFamily \/ FinishDeleting
  PROVE  StagesInv'
<1> DEFINE f == First(todo)
<1>a. /\ names = <<>> /\ todo' = todo \ {f}
      /\ UNCHANGED <<conf, names, targets, resps, remote, report, raw, broken>>
      /\ \/ FinishFamily /\ pc = "dns" /\ pc' = "detect"
         \/ FinishDeleting /\ pc = "deleting" /\ pc' = "delete"
  BY DEF FinishFamily, FinishDeleting, history
<1>b. /\ FamiliesInv /\ conf.providers \subseteq Families
      /\ CalledInv /\ DomainsAnswered /\ DoneInv /\ NotesInv /\ TargetsOK
      /\ f \in todo /\ f \in Families /\ todo \subseteq conf.providers
  BY <1>a, UnitsParts DEF FamiliesInv
<1>c. /\ InScope' = InScope /\ (InCleanUp' <=> InCleanUp)
      /\ \A g : Usable(g)' = Usable(g) /\ KeptEntries(g)' = KeptEntries(g)
  BY <1>a, ScopeSame DEF InCleanUp
<1>d. /\ \A d \in Range(Domains[f]) : \E c \in Codes : d \in resps[c]
      /\ \A c \in Codes : \A d \in resps[c] :
           /\ d \in Range(Domains[f])
           /\ c = "failed" <=> <<f, d>> \in broken
           /\ c # "failed" => records[f][d] = Wanted(d)
  <2>1. Range(names) = {}
    BY <1>a DEF Range
  <2>2. QED
    BY <1>a, <1>b, <2>1 DEF DomainsAnswered
<1> HIDE DEF f
<1>1. CalledInv'
  BY <1>a, <1>b DEF CalledInv, f
<1>2. DomainsAnswered' /\ ListsAnswered'
  BY <1>a DEF DomainsAnswered, ListsAnswered
<1>3. DoneInv'
  <2>1. Done' \subseteq Done \cup {f}
    BY <1>a, <1>c DEF Done
  <2>2. ASSUME NEW d \in Range(Domains[f]) PROVE <<f, d>> \in broken \/ DomainRight(f, d)
    <3>1. <<f, d>> \in broken \/ records[f][d] = Wanted(d)
      BY <1>d
    <3>2. CASE pc = "dns" /\ records[f][d] = Wanted(d)
      <4>1. RightAddresses(f, d, targets[d]) /\ Wanted(d) = targets[d]
        BY <1>b, <3>2 DEF TargetsOK, Wanted, f
      <4>2. QED
        BY <1>b, <3>2, <4>1, RightIs DEF InCleanUp
    <3>3. CASE pc = "deleting" /\ records[f][d] = Wanted(d)
      BY <3>3 DEF DomainRight, Wanted, InCleanUp
    <3>4. QED
      BY <1>a, <3>1, <3>2, <3>3
  <2>3. ASSUME NEW g \in Done', NEW d \in Range(Domains[g])
        PROVE  <<g, d>> \in broken' \/ DomainRight(g, d)'
    <3>1. <<g, d>> \in broken \/ DomainRight(g, d)
      BY <1>b, <2>1, <2>2, <2>3 DEF DoneInv
    <3>2. DomainRight(g, d) => DomainRight(g, d)'
      BY <1>a, <1>c, DomainStaysRight DEF remote
    <3>3. QED
      BY <1>a, <3>1, <3>2
  <2>4. QED
    BY <2>3 DEF DoneInv
<1>4. NotesInv'
  <2>1. \A line : HonestLine(line)' <=> HonestLine(line)
    BY <1>a DEF HonestLine, remote
  <2>2. PICK m : /\ msgs' = msgs \cup {m}
                 /\ \A line \in m.note : line.family = f /\ HonestLine(line)
    <3>1. CASE FinishDeleting
      <4>1. pc = "deleting" /\ msgs' = msgs \cup {OnResponses(f, {}, resps)}
        BY <1>a, <3>1 DEF FinishDeleting, FinalDeleteMessage, f
      <4>2. \A c \in Codes : \A n \in resps[c] :
              /\ c = "failed" <=> <<f, n>> \in broken
              /\ c = "updated" /\ f # "list" => records[f][n] = {}
        BY <1>d, <4>1 DEF Wanted
      <4>3. \A line \in OnResponses(f, {}, resps).note : line.family = f /\ HonestLine(line)
        BY <4>2, ResponsesHonest
      <4>4. QED
        BY <4>1, <4>3
    <3>2. CASE FinishFamily
      <4>1. /\ pc = "dns"
            /\ msgs' = msgs \cup {Merge(MissingMessages(f) \cup GroupMessages(f))}
        BY <3>2 DEF FinishFamily, f
      <4>2. MissingMessages(f) = {}
        BY <1>b, <4>1 DEF TargetsOK, MissingMessages, f
      <4>3. ASSUME NEW m \in GroupMessages(f), NEW line \in m.note
            PROVE  line.family = f /\ HonestLine(line)
        <5>1. PICK ips :
                m = OnResponses(f, ips, [c \in Codes |-> {d \in resps[c] : targets[d] = ips}])
          BY <4>3 DEF GroupMessages, UpdateMessage
        <5> DEFINE answers == [c \in Codes |-> {d \in resps[c] : targets[d] = ips}]
        <5>2. \A c \in Codes : \A n \in answers[c] :
                /\ c = "failed" <=> <<f, n>> \in broken
                /\ c = "updated" /\ f # "list" => records[f][n] = ips
          BY <1>d, <4>1 DEF Wanted
        <5> HIDE DEF answers
        <5>3. QED
          BY <4>3, <5>1, <5>2, ResponsesHonest DEF answers
      <4>4. Merge(GroupMessages(f)).note = UNION {m.note : m \in GroupMessages(f)}
        BY DEF Merge
      <4>5. \A line \in Merge(GroupMessages(f)).note : line.family = f /\ HonestLine(line)
        BY <4>3, <4>4
      <4>6. QED
        BY <4>1, <4>2, <4>5
    <3>3. QED
      BY <1>a, <3>1, <3>2
  <2>3. QED
    BY <1>a, <1>b, <2>1, <2>2 DEF NotesInv
<1>5. QED
  BY <1>1, <1>2, <1>3, <1>4 DEF StagesInv

\* The clean-up turns to a family, or the lists are turned to.
LEMMA TurnUnits ==
  ASSUME UnitsInv, TurnToFamily \/ BeginLists \/ BeginClearing
  PROVE  StagesInv'
<1>a. /\ UNCHANGED <<conf, todo, targets, msgs, wafTargets, shouldUpdateWAF>>
      /\ UNCHANGED <<remote, report, raw, broken>>
      /\ resps' = NoResponses /\ pc \in {"detect", "delete"}
      /\ pc' = "lists" => pc = "detect" /\ (names' = WAFLists \/ ~shouldUpdateWAF)
      /\ pc' = "clearing" => pc = "delete" /\ names' = WAFLists
      /\ pc' = "deleting" => pc = "delete" /\ names' = Domains[First(todo)]
      /\ pc' \in {"lists", "clearing", "deleting"}
  BY DEF TurnToFamily, BeginLists, BeginClearing, TurnToLists, history
<1>b. CalledInv /\ DoneInv /\ NotesInv /\ KnownOK
  BY UnitsParts
<1>c. InCleanUp' <=> InCleanUp
  BY <1>a DEF InCleanUp
<1>d. /\ InScope' = InScope
      /\ \A g : Usable(g)' = Usable(g) /\ KeptEntries(g)' = KeptEntries(g)
  BY <1>a, <1>c, ScopeSame
<1>e. \A c \in Codes : resps'[c] = {}
  BY <1>a DEF NoResponses
<1>1. CalledInv'
  BY <1>a, <1>b DEF CalledInv
<1>2. DomainsAnswered'
  <2>1. First(todo)' = First(todo)
    BY <1>a DEF First
  <2>2. QED
    BY <1>a, <1>e, <2>1 DEF DomainsAnswered
<1>3. ListsAnswered'
  <2>1. pc' = "lists" /\ ~shouldUpdateWAF => InScope' = {}
    <3>1. \A f \in Families : Usable(f) => shouldUpdateWAF
      BY <1>b DEF KnownOK
    <3>2. pc' = "lists" => InScope = {f \in Families : Usable(f)}
      BY <1>a DEF InScope, InCleanUp
    <3>3. QED
      BY <1>d, <3>1, <3>2
  <2>2. QED
    BY <1>a, <1>e, <2>1 DEF ListsAnswered
<1>4. DoneInv'
  <2>1. Done' = Done
    BY <1>a, <1>c, <1>d DEF Done
  <2>2. ASSUME NEW g \in Done, NEW d \in Range(Domains[g])
        PROVE  <<g, d>> \in broken' \/ DomainRight(g, d)'
    <3>1. <<g, d>> \in broken \/ DomainRight(g, d)
      BY <1>b, <2>2 DEF DoneInv
    <3>2. DomainRight(g, d) => DomainRight(g, d)'
      BY <1>a, <1>c, <1>d, DomainStaysRight DEF remote
    <3>3. QED
      BY <1>a, <3>1, <3>2
  <2>3. QED
    BY <2>1, <2>2 DEF DoneInv
<1>5. NotesInv'
  <2>1. \A line : HonestLine(line)' <=> HonestLine(line)
    BY <1>a DEF HonestLine, remote
  <2>2. QED
    BY <1>a, <1>b, <2>1 DEF NotesInv
<1>6. QED
  BY <1>1, <1>2, <1>3, <1>4, <1>5 DEF StagesInv

\* A call for a list.
LEMMA ListCallUnits ==
  ASSUME UnitsInv, pc \in {"lists", "clearing"}, NEW l \in Range(WAFLists), NEW new,
         NEW halfway \in SUBSET {"updating", "failed"}, ListCall(l, new, halfway),
         items' = [items EXCEPT ![l] = new] => \A f \in InScope : ListRight(l, f)'
  PROVE  StagesInv'
<1>a. /\ names # <<>> /\ l = Head(names) /\ names' = Tail(names)
      /\ UNCHANGED <<conf, pc, todo, targets, msgs, wafTargets, shouldUpdateWAF, records,
                     report, raw, begin, operations>>
  BY DEF ListCall
<1>b. PICK outcome \in ListOutcomes(items[l], new, halfway) :
        /\ items' = [items EXCEPT ![l] = outcome.now]
        /\ resps' = Registered(resps, l, outcome.code)
        /\ broken' = IF outcome.code = "failed" THEN broken \cup {<<"list", l>>} ELSE broken
  BY DEF ListCall
<1>c. /\ CallsOK /\ CalledInv /\ ListsAnswered /\ DoneInv /\ NotesInv
      /\ DOMAIN resps = Codes /\ DOMAIN items = Range(WAFLists)
  BY UnitsParts
<1>d. /\ outcome.code \in Codes
      /\ outcome.code \in {"noop", "updated"} => outcome.now = new
  <2>1. /\ outcome.code \in {"noop", "updated"} \cup halfway
        /\ outcome.code \in halfway \/ outcome.now = new
    BY <1>b, ListOutcomesAre
  <2>2. QED
    BY <2>1 DEF Codes
<1>e. Range(names) = {l} \cup Range(names') /\ l \notin Range(names')
  BY <1>a, <1>b, <1>c, <1>d, CalledOK
<1>f. InCleanUp' <=> InCleanUp
  BY <1>a DEF InCleanUp
<1>g. /\ InScope' = InScope
      /\ \A g : Usable(g)' = Usable(g) /\ KeptEntries(g)' = KeptEntries(g)
  BY <1>a, <1>f, ScopeSame
<1>h. resps' = [resps EXCEPT ![outcome.code] = resps[outcome.code] \cup {l}]
  BY <1>b DEF Registered
<1>i. /\ \A g, k : <<g, k>> # <<"list", l>> => (<<g, k>> \in broken' <=> <<g, k>> \in broken)
      /\ <<"list", l>> \in broken' => outcome.code = "failed" \/ <<"list", l>> \in broken
      /\ outcome.code = "failed" => <<"list", l>> \in broken'
  BY <1>b
<1>j. <<"list", l>> \notin broken
  BY <1>c, <1>e DEF CalledInv, Families
<1>1. CalledInv'
  BY <1>a, <1>b, <1>c, <1>e DEF CalledInv, First
<1>2. DomainsAnswered'
  BY <1>a DEF DomainsAnswered
<1>3. ListsAnswered'
  <2>1. ASSUME NEW k \in Range(WAFLists) \ Range(names')
        PROVE  InScope' = {} \/ \E c \in Codes : k \in resps'[c]
    <3>1. CASE k = l
      BY <1>c, <1>d, <1>h, <3>1
    <3>2. CASE k # l
      <4>1. k \in Range(WAFLists) \ Range(names)
        BY <1>e, <2>1, <3>2
      <4>2. InScope = {} \/ \E c \in Codes : k \in resps[c]
        BY <1>c, <4>1 DEF ListsAnswered
      <4>3. \A c \in Codes : resps[c] \subseteq resps'[c]
        BY <1>c, <1>h
      <4>4. QED
        BY <1>g, <4>2, <4>3
    <3>3. QED
      BY <3>1, <3>2
  <2>2. ASSUME NEW c \in Codes, NEW k \in resps'[c]
        PROVE  /\ k \in Range(WAFLists) \ Range(names')
               /\ c = "failed" <=> <<"list", k>> \in broken'
               /\ c \in {"noop", "updated"} => \A f \in InScope' : ListRight(k, f)'
    <3>1. CASE k \in resps[c]
      <4>1. /\ k \in Range(WAFLists) \ Range(names)
            /\ c = "failed" <=> <<"list", k>> \in broken
            /\ c \in {"noop", "updated"} => \A f \in InScope : ListRight(k, f)
        BY <1>c, <3>1 DEF ListsAnswered
      <4>2. k # l /\ items'[k] = items[k]
        BY <1>b, <1>c, <1>e, <4>1
      <4>3. \A f : ListRight(k, f) => ListRight(k, f)'
        BY <1>f, <1>g, <4>2, ListStaysRight
      <4>4. QED
        BY <1>e, <1>g, <1>i, <4>1, <4>2, <4>3
    <3>2. CASE k \notin resps[c]
      <4>1. k = l /\ c = outcome.code
        BY <1>c, <1>d, <1>h, <2>2, <3>2
      <4>2. c \in {"noop", "updated"} => \A f \in InScope : ListRight(k, f)'
        BY <1>b, <1>d, <4>1
      <4>3. QED
        BY <1>e, <1>g, <1>i, <1>j, <4>1, <4>2
    <3>3. QED
      BY <3>1, <3>2
  <2>3. QED
    BY <2>1, <2>2 DEF ListsAnswered
<1>4. DoneInv'
  <2>1. Done' = Done
    BY <1>a, <1>f, <1>g DEF Done
  <2>2. ASSUME NEW g \in Done, NEW d \in Range(Domains[g])
        PROVE  <<g, d>> \in broken' \/ DomainRight(g, d)'
    <3>1. <<g, d>> \in broken \/ DomainRight(g, d)
      BY <1>c, <2>2 DEF DoneInv
    <3>2. DomainRight(g, d) => DomainRight(g, d)'
      BY <1>a, <1>f, <1>g, DomainStaysRight
    <3>3. broken \subseteq broken'
      BY <1>b
    <3>4. QED
      BY <3>1, <3>2, <3>3
  <2>3. QED
    BY <2>1, <2>2 DEF DoneInv
<1>5. NotesInv'
  <2>1. ASSUME NEW line, line.family \in Families, HonestLine(line) PROVE HonestLine(line)'
    <3>1. line.family # "list"
      BY <2>1 DEF Families
    <3>2. \A n : <<line.family, n>> \in broken' <=> <<line.family, n>> \in broken
      BY <1>i, <3>1
    <3>3. QED
      BY <1>a, <2>1, <3>2 DEF HonestLine
  <2>2. QED
    BY <1>a, <1>c, <2>1 DEF NotesInv
<1>6. QED
  BY <1>1, <1>2, <1>3, <1>4, <1>5 DEF StagesInv

\* A list that has what it should hold is right in every family in scope.
LEMMA WantedRight ==
  ASSUME UnitsInv, NEW l \in Range(WAFLists), UNCHANGED <<conf, pc, raw>>,
         \/ pc = "lists" /\ items' = [items EXCEPT ![l] = WantedItems(l)]
         \/ pc = "clearing" /\ items' = [items EXCEPT ![l] = Cleared(l)],
         NEW f \in InScope
  PROVE  ListRight(l, f)'
<1>a. /\ DOMAIN items = Range(WAFLists) /\ KnownOK /\ RemoteOK
      /\ conf.providers \subseteq Families /\ KeptEntries(f)' = KeptEntries(f)
  BY UnitsParts DEF KeptEntries, KeptOf
<1>1. CASE pc = "lists"
  <2>1. f \in Families /\ Usable(f) /\ ~InCleanUp'
    BY <1>1 DEF InScope, InCleanUp
  <2>2. /\ f \in DOMAIN wafTargets /\ wafTargets[f].available
        /\ wafTargets[f].entries = {Masked(f, e) : e \in KeptEntries(f)}
    BY <1>a, <2>1 DEF KnownOK
  <2>3. /\ items[l][f] \in SUBSET RawEntries(f) /\ KeptEntries(f) \in SUBSET RawEntries(f)
        /\ f \in DOMAIN raw
    BY <1>a, <2>1 DEF RemoteOK, KnownOK, Usable, KeptEntries, KeptOf
  <2> DEFINE new == Reconciled(f, items[l][f], {Masked(f, e) : e \in KeptEntries(f)})
  <2>4. /\ \A e \in KeptEntries(f) : \E i \in new : Covers(f, i, e)
        /\ \A i \in new : \E e \in KeptEntries(f) : Covers(f, i, e)
    BY <2>1, <2>3, ReconciledRight
  <2>5. items'[l][f] = new
    <3>1. items'[l] = WantedItems(l)
      BY <1>1, <1>a
    <3>2. QED
      BY <2>1, <2>2, <3>1 DEF WantedItems
  <2> HIDE DEF new
  <2>6. QED
    BY <1>a, <2>1, <2>4, <2>5 DEF ListRight
<1>2. CASE pc = "clearing"
  <2>1. f \in conf.providers /\ f \in Families /\ InCleanUp'
    BY <1>2, <1>a DEF InScope, InCleanUp
  <2>2. items'[l] = Cleared(l)
    BY <1>2, <1>a
  <2>3. items'[l][f] = {}
    BY <2>1, <2>2 DEF Cleared
  <2>4. QED
    BY <2>1, <2>3 DEF ListRight
<1>3. QED
  BY <1>1, <1>2

\* The report changes nothing.
LEMMA EndUnits ==
  ASSUME UnitsInv, FailuresInv, EndRound \/ EndCleanUp
  PROVE  StagesInv'
<1>a. /\ UNCHANGED <<conf, msgs, remote, raw, broken>> /\ todo' = {}
      /\ \/ pc = "lists" /\ pc' = "idle"
         \/ pc = "clearing" /\ pc' = "stopped"
  BY DEF EndRound, EndCleanUp, Report, history
<1>b. CalledInv /\ DoneInv /\ NotesInv /\ todo = {}
  BY <1>a, UnitsParts DEF FailuresInv, NamingInv
<1>c. InCleanUp' <=> InCleanUp
  BY <1>a DEF InCleanUp
<1>d. /\ InScope' = InScope
      /\ \A g : Usable(g)' = Usable(g) /\ KeptEntries(g)' = KeptEntries(g)
  BY <1>a, <1>c, ScopeSame
<1>1. CalledInv'
  BY <1>a, <1>b DEF CalledInv
<1>2. DomainsAnswered' /\ ListsAnswered'
  BY <1>a DEF DomainsAnswered, ListsAnswered
<1>3. DoneInv'
  <2>1. Done' = Done
    BY <1>a, <1>b, <1>c, <1>d DEF Done
  <2>2. ASSUME NEW g \in Done, NEW d \in Range(Domains[g])
        PROVE  <<g, d>> \in broken' \/ DomainRight(g, d)'
    <3>1. <<g, d>> \in broken \/ DomainRight(g, d)
      BY <1>b, <2>2 DEF DoneInv
    <3>2. DomainRight(g, d) => DomainRight(g, d)'
      BY <1>a, <1>c, <1>d, DomainStaysRight DEF remote
    <3>3. QED
      BY <1>a, <3>1, <3>2
  <2>3. QED
    BY <2>1, <2>2 DEF DoneInv
<1>4. NotesInv'
  <2>1. \A line : HonestLine(line)' <=> HonestLine(line)
    BY <1>a DEF HonestLine, remote
  <2>2. QED
    BY <1>a, <1>b, <2>1 DEF NotesInv
<1>5. QED
  BY <1>1, <1>2, <1>3, <1>4 DEF StagesInv

\* No unit was called before the first round.
LEMMA InitUnits == Init => UnitsInv
<1> SUFFICES ASSUME Init PROVE StagesInv
  BY InitTypes DEF UnitsInv
<1>a. pc = "idle" /\ broken = {} /\ raw = Empty /\ msgs = {} /\ todo = {}
  BY DEF Init
<1>1. CalledInv /\ DomainsAnswered /\ ListsAnswered /\ NotesInv
  BY <1>a DEF CalledInv, DomainsAnswered, ListsAnswered, NotesInv
<1>2. DoneInv
  <2>1. Done = {}
    BY <1>a DEF Done, InCleanUp, Usable, Empty
  <2>2. QED
    BY <2>1 DEF DoneInv
<1>3. QED
  BY <1>1, <1>2 DEF StagesInv

\* Every step leaves the units called so far right or broken.
LEMMA NextUnits == UnitsInv /\ FailuresInv /\ [Next]_vars => UnitsInv'
<1> SUFFICES ASSUME UnitsInv, FailuresInv, [Next]_vars PROVE StagesInv'
  BY NextTypes DEF UnitsInv
<1>a. CallsOK /\ TargetsOK
  BY UnitsParts
<1>1. CASE BeginRound \/ BeginCleanUp
  BY <1>1, BeginUnits DEF BeginRound, BeginCleanUp
<1>2. ASSUME NEW f \in Families, NEW r \in Answers(f),
             DetectionFails(f, r) \/ HostIDProblem(f, r) \/ DetectionSucceeds(f, r)
      PROVE  StagesInv'
  BY <1>2, FailedDetectionUnits, DetectionUnits
<1>3. ASSUME NEW d \in Names, SetIPs(d) PROVE StagesInv'
  <2>1. CASE d \in DOMAIN targets
    <3>1. pc = "dns" /\ DomainCall(First(todo), d, targets[d]) /\ targets[d] = Wanted(d)
      BY <1>3, <2>1 DEF SetIPs, Wanted
    <3>2. QED
      BY <3>1, DomainCallUnits
  <2>2. CASE d \notin DOMAIN targets
    <3>1. pc = "dns" /\ PassOver(d)
      BY <1>3, <2>2 DEF SetIPs
    <3>2. d \in Range(names)
      BY <1>a, <3>1, HeadAndTail DEF PassOver, CallsOK
    <3>3. QED
      BY <1>a, <2>2, <3>1, <3>2 DEF CallsOK, TargetsOK
  <2>3. QED
    BY <2>1, <2>2
<1>4. ASSUME NEW d \in Names, FinalDelete(d) PROVE StagesInv'
  <2>1. pc = "deleting" /\ DomainCall(First(todo), d, {}) /\ Wanted(d) = {}
    BY <1>4 DEF FinalDelete, Wanted
  <2>2. QED
    BY <2>1, DomainCallUnits
<1>5. ASSUME NEW l \in Range(WAFLists), SetWAFList(l) \/ FinalClearWAFList(l) PROVE StagesInv'
  <2>1. CASE SetWAFList(l)
    <3>1. pc = "lists" /\ ListCall(l, WantedItems(l), {"failed"})
      BY <2>1 DEF SetWAFList
    <3>2. items' = [items EXCEPT ![l] = WantedItems(l)] => \A f \in InScope : ListRight(l, f)'
      BY <3>1, WantedRight DEF ListCall
    <3>3. {"failed"} \in SUBSET {"updating", "failed"}
      OBVIOUS
    <3>4. QED
      BY <3>1, <3>2, <3>3, ListCallUnits
  <2>2. CASE FinalClearWAFList(l)
    <3>1. pc = "clearing" /\ ListCall(l, Cleared(l), {"updating", "failed"})
      BY <2>2 DEF FinalClearWAFList
    <3>2. items' = [items EXCEPT ![l] = Cleared(l)] => \A f \in InScope : ListRight(l, f)'
      BY <3>1, WantedRight DEF ListCall
    <3>3. QED
      BY <3>1, <3>2, ListCallUnits
  <2>3. QED
    BY <1>5, <2>1, <2>2
<1>6. CASE FinishFamily \/ FinishDeleting
  BY <1>6, FinishUnits
<1>7. CASE TurnToFamily \/ BeginLists \/ BeginClearing
  BY <1>7, TurnUnits
<1>8. CASE EndRound \/ EndCleanUp
  BY <1>8, EndUnits
<1>9. CASE UNCHANGED vars
  <2>1. UNCHANGED <<conf, pc, todo, names, targets, resps, msgs, records, items, raw, broken>>
    BY <1>9 DEF vars, local, remote, history
  <2>2. InCleanUp' <=> InCleanUp
    BY <2>1 DEF InCleanUp
  <2>3. /\ InScope' = InScope
        /\ \A g : Usable(g)' = Usable(g) /\ KeptEntries(g)' = KeptEntries(g)
    BY <2>1, <2>2, ScopeSame
  <2>4. Done' = Done
    BY <2>1, <2>2, <2>3 DEF Done
  <2>5. \A f, d : DomainRight(f, d) => DomainRight(f, d)'
    BY <2>1, <2>2, <2>3, DomainStaysRight
  <2>6. \A l, f : ListRight(l, f) => ListRight(l, f)'
    BY <2>1, <2>2, <2>3, ListStaysRight
  <2>7. CalledInv /\ DomainsAnswered /\ ListsAnswered /\ DoneInv /\ NotesInv
    BY UnitsParts
  <2>8. CalledInv' /\ DomainsAnswered' /\ NotesInv'
    BY <2>1, <2>7 DEF CalledInv, DomainsAnswered, NotesInv, HonestLine, First, Wanted
  <2>9. ListsAnswered'
    BY <2>1, <2>3, <2>6, <2>7 DEF ListsAnswered
  <2>10. DoneInv'
    BY <2>1, <2>4, <2>5, <2>7 DEF DoneInv
  <2>11. QED
    BY <2>8, <2>9, <2>10 DEF StagesInv
<1>10. QED
  BY <1>1, <1>2, <1>3, <1>4, <1>5, <1>6, <1>7, <1>8, <1>9 DEF Next, UpdateIPs, FinalDeleteIPs

-----------------------------------------------------------------------------
(* The report                                                              *)

\* A step gives no report, ends a round or the clean-up, or does nothing.
LEMMA WhenReported ==
  ASSUME NamingInv, [Next]_vars
  PROVE  report' = NoReport \/ EndRound \/ EndCleanUp \/ UNCHANGED vars
<1>a. pc \notin {"idle", "stopped"} => report = NoReport
  BY DEF NamingInv
<1>1. CASE BeginRound \/ BeginCleanUp
  BY <1>1 DEF BeginRound, BeginCleanUp, BeginAt
<1>2. ASSUME NEW f \in Families, NEW r \in Answers(f),
             DetectionFails(f, r) \/ HostIDProblem(f, r) \/ DetectionSucceeds(f, r)
      PROVE  report' = NoReport
  BY <1>a, <1>2 DEF DetectionFails, HostIDProblem, DetectionSucceeds, Detected
<1>3. ASSUME NEW d \in Names, SetIPs(d) \/ FinalDelete(d) PROVE report' = NoReport
  BY <1>a, <1>3 DEF SetIPs, FinalDelete, DomainCall, PassOver
<1>4. ASSUME NEW l \in Range(WAFLists), SetWAFList(l) \/ FinalClearWAFList(l)
      PROVE  report' = NoReport
  BY <1>a, <1>4 DEF SetWAFList, FinalClearWAFList, ListCall
<1>5. CASE FinishFamily \/ FinishDeleting
  BY <1>a, <1>5 DEF FinishFamily, FinishDeleting
<1>6. CASE TurnToFamily \/ BeginLists \/ BeginClearing
  BY <1>a, <1>6 DEF TurnToFamily, BeginLists, BeginClearing, TurnToLists
<1>7. QED
  BY <1>1, <1>2, <1>3, <1>4, <1>5, <1>6 DEF Next, UpdateIPs, FinalDeleteIPs

\* What holds at the end.
EndInv == UnitsIndependent /\ HonestReport

\* At the end every domain and list was called and answered, and every line is true.
LEMMA EndReport ==
  ASSUME UnitsInv, FailuresInv, NEW good, NEW bad,
         \/ Report("lists", UpdateWAFListsMessage(resps), good, bad, "idle")
         \/ Report("clearing", FinalClearWAFListsMessage(resps), good, bad, "stopped")
  PROVE  EndInv'
<1> DEFINE last == OnResponses("list", {}, resps)
           all == Merge(msgs \cup {last})
<1>a. /\ UNCHANGED <<conf, remote, raw, broken>> /\ names = <<>>
      /\ report' = Classified(all, good, bad)
      /\ \/ pc = "lists" /\ pc' = "idle"
         \/ pc = "clearing" /\ pc' = "stopped"
  BY DEF Report, history, UpdateWAFListsMessage, FinalClearWAFListsMessage
<1>b. ListsAnswered /\ DoneInv /\ NotesInv /\ todo = {} /\ conf.providers \subseteq Families
  BY <1>a, UnitsParts DEF FailuresInv, NamingInv
<1>c. InCleanUp' <=> InCleanUp
  BY <1>a DEF InCleanUp
<1>d. /\ InScope' = InScope
      /\ \A g : Usable(g)' = Usable(g) /\ KeptEntries(g)' = KeptEntries(g)
  BY <1>a, <1>c, ScopeSame
<1>e. /\ \A f, d : DomainRight(f, d) => DomainRight(f, d)'
      /\ \A l, f : ListRight(l, f) => ListRight(l, f)'
  BY <1>a, <1>c, <1>d, DomainStaysRight, ListStaysRight DEF remote
<1>f. report'.ok = TRUE => broken = {} /\ conf.providers \subseteq InScope'
  BY <1>a, ReportNaming
<1>g. report'.note = UNION {m.note : m \in msgs \cup {last}} /\ report'.ok = all.ok
  BY <1>a DEF Classified, Merge
<1>1. \A f \in InScope : \A d \in Range(Domains[f]) : <<f, d>> \in broken \/ DomainRight(f, d)
  <2>1. InScope \subseteq Done
    BY <1>b DEF InScope, Done
  <2>2. QED
    BY <1>b, <2>1 DEF DoneInv
<1>2. ASSUME NEW l \in Range(WAFLists), <<"list", l>> \notin broken, ~Pending(l)', NEW f \in InScope
      PROVE  ListRight(l, f)
  <2>1. Range(names) = {}
    BY <1>a DEF Range
  <2>2. PICK c \in Codes : l \in resps[c]
    BY <1>a, <1>b, <1>2, <2>1 DEF ListsAnswered
  <2>3. c # "failed"
    BY <1>a, <1>b, <1>2, <2>2 DEF ListsAnswered
  <2>4. c # "updating"
    <3>1. SUFFICES ASSUME c = "updating" PROVE Pending(l)'
      BY <1>2
    <3>2. Line("updating", "list", resps["updating"], {}) \in last.note
      BY <2>2, <3>1 DEF OnResponses
    <3> HIDE DEF last
    <3>3. Line("updating", "list", resps["updating"], {}) \in report'.note
      BY <1>g, <3>2
    <3>4. QED
      BY <2>2, <3>1, <3>3 DEF Pending, Line
  <2>5. c \in {"noop", "updated"}
    BY <2>2, <2>3, <2>4 DEF Codes
  <2>6. QED
    BY <1>a, <1>b, <1>2, <2>2, <2>5 DEF ListsAnswered
<1>3. UnitsIndependent'
  <2>1. ASSUME NEW f \in InScope', NEW d \in Range(Domains[f])
        PROVE  <<f, d>> \in broken' \/ DomainRight(f, d)'
    BY <1>a, <1>d, <1>e, <1>1
  <2>2. ASSUME NEW f \in InScope', NEW l \in Range(WAFLists)
        PROVE  <<"list", l>> \in broken' \/ Pending(l)' \/ ListRight(l, f)'
    BY <1>a, <1>d, <1>e, <1>2
  <2>3. QED
    BY <2>1, <2>2 DEF UnitsIndependent
<1>4. ASSUME NEW line \in report'.note PROVE HonestLine(line)'
  <2>1. HonestLine(line)' <=> HonestLine(line)
    BY <1>a DEF HonestLine, remote
  <2>2. CASE line \in last.note
    <3>1. \A c \in Codes : \A n \in resps[c] :
            /\ c = "failed" <=> <<"list", n>> \in broken
            /\ c = "updated" /\ "list" # "list" => records["list"][n] = {}
      BY <1>a, <1>b DEF ListsAnswered
    <3>2. HonestLine(line)
      BY <2>2, <3>1, ResponsesHonest
    <3>3. QED
      BY <2>1, <3>2
  <2>3. ASSUME NEW m \in msgs, line \in m.note PROVE HonestLine(line)'
    <3>1. line.names = {} \/ HonestLine(line)
      BY <1>b, <2>3 DEF NotesInv
    <3>2. line.names = {} => HonestLine(line)
      BY DEF HonestLine
    <3>3. QED
      BY <2>1, <3>1, <3>2
  <2> HIDE DEF last
  <2>4. QED
    BY <1>4, <1>g, <2>2, <2>3
<1>5. HonestReport'
  <2>1. ASSUME Over', report'.ok, NEW f \in conf'.providers
        PROVE  /\ f \in InScope'
               /\ \A d \in Range(Domains[f]) : DomainRight(f, d)'
               /\ \A l \in Range(WAFLists) : Pending(l)' \/ ListRight(l, f)'
    <3>1. report'.ok = TRUE
      <4>1. all.ok \in BOOLEAN
        BY DEF Merge
      <4>2. QED
        BY <1>g, <2>1, <4>1
    <3>2. broken' = {} /\ f \in InScope'
      BY <1>a, <1>f, <2>1, <3>1
    <3>3. QED
      BY <1>3, <2>1, <3>2 DEF UnitsIndependent
  <2>2. QED
    BY <1>4, <2>1 DEF HonestReport, HonestLine
<1>6. QED
  BY <1>3, <1>5 DEF EndInv

\* The stages of a round end well.
RoundInv == UnitsInv /\ FailuresInv /\ EndInv

\* There is nothing to report at the start.
LEMMA InitRound == Init => RoundInv
<1> SUFFICES ASSUME Init PROVE EndInv
  BY InitUnits, InitFailures DEF RoundInv
<1>1. ~Over
  BY DEF Init, Over
<1>2. QED
  BY <1>1 DEF EndInv, UnitsIndependent, HonestReport

\* Every report is as it should be.
LEMMA NextRound == RoundInv /\ [Next]_vars => RoundInv'
<1> SUFFICES ASSUME RoundInv, [Next]_vars PROVE EndInv'
  BY NextUnits, NextFailures DEF RoundInv
<1>a. UnitsInv /\ FailuresInv /\ NamingInv /\ EndInv
  BY DEF RoundInv, FailuresInv
<1>1. CASE report' = NoReport
  <2>1. ~Over'
    BY <1>1 DEF Over, NoReport
  <2>2. QED
    BY <2>1 DEF EndInv, UnitsIndependent, HonestReport
<1>2. CASE EndRound \/ EndCleanUp
  BY <1>a, <1>2, EndReport DEF EndRound, EndCleanUp
<1>3. CASE UNCHANGED vars
  <2>1. UNCHANGED <<conf, pc, records, items, report, raw, broken>>
    BY <1>3 DEF vars, local, remote, history
  <2>2. InCleanUp' <=> InCleanUp
    BY <2>1 DEF InCleanUp
  <2>3. /\ InScope' = InScope
        /\ \A g : Usable(g)' = Usable(g) /\ KeptEntries(g)' = KeptEntries(g)
    BY <2>1, <2>2, ScopeSame
  <2>4. /\ \A f, d : DomainRight(f, d) => DomainRight(f, d)'
        /\ \A l, f : ListRight(l, f) => ListRight(l, f)'
    BY <2>1, <2>2, <2>3, DomainStaysRight, ListStaysRight
  <2>5. (Over' <=> Over) /\ \A l : Pending(l)' <=> Pending(l)
    BY <2>1 DEF Over, Pending
  <2>6. UnitsIndependent'
    BY <1>a, <2>1, <2>3, <2>4, <2>5 DEF EndInv, UnitsIndependent
  <2>7. HonestReport'
    BY <1>a, <2>1, <2>3, <2>4, <2>5 DEF EndInv, HonestReport
  <2>8. QED
    BY <2>6, <2>7 DEF EndInv
<1>4. QED
  BY <1>a, <1>1, <1>2, <1>3, WhenReported

\* At the end of a round or of the clean-up, every domain and list whose own call did
\* not fail is as it should be in each family in scope: no family waits for the other,
\* no unit for one that fails.
THEOREM UnitsAreIndependent == Spec => []UnitsIndependent
<1>1. RoundInv => UnitsIndependent
  BY DEF RoundInv, EndInv
<1>2. QED
  BY <1>1, InitRound, NextRound, PTL DEF Spec

\* A report of success is true of every managed family, and what a notifier is told to
\* be updated is.
THEOREM ReportIsHonest == Spec => []HonestReport
<1>1. RoundInv => HonestReport
  BY DEF RoundInv, EndInv
<1>2. QED
  BY <1>1, InitRound, NextRound, PTL DEF Spec
===============================================================================
