# Formal models of cloudflare-ddns

cloudflare-ddns keeps DNS records and WAF lists at Cloudflare in line with the
addresses of the machine it runs on. This directory holds TLA+ models of it, the
configurations under which TLC checks them, and proofs that TLAPS checks. Paths below
are relative to the repository; `setter.go` is `internal/setter/setter.go`, and
`cloudflare_records.go` and `cloudflare_waf.go` are under `internal/api/`.

    tlc -config MCRecordReconciler_safety.cfg MCRecordReconciler     # check a run
    tlapm RecordReconcilerProofs.tla                                 # check proofs

The other modules with proofs are `WAFListReconcilerProofs`, `HostID6Proofs`,
`UpdaterRoundProofs`, `ZoneLookupProofs`, `TraceHedgeProofs`, `LifecycleProofs` and
`SettingsProofs`.

## 1. The system

One goroutine runs a loop: wait for the schedule, detect the addresses of each IP
family, bring every configured domain and WAF list in line, report, repeat. On SIGINT or
SIGTERM it optionally deletes what it manages and exits. Nothing is persisted: the only
durable state is what Cloudflare stores. The difficulty is that this state is reached
through calls that may fail, be carried out although their reply is lost, or be carried
out late; that it is cached; and that other people edit it.

| component | state it keeps | operations | must hold |
|---|---|---|---|
| DNS record reconciliation (`setter.go`) | the plan of a running round: targets to write, outdated records to recycle or delete | `SetIPs`, `FinalDelete` | success means the records are right; no wanted address is dropped on the way; no duplicates |
| metadata reconciliation (`setter.go`, `internal/api/tags`) | none | `resolveScalarValue`, `tags.Resolve` | metadata common to all recycled records survives |
| DNS records handle (`cloudflare_records.go`) | caches of zones and of managed records per domain and family, with a time to live | `ListRecords`, `UpdateRecord`, `CreateRecord`, `DeleteRecord`, zone lookup | the cache is right or absent; only records the selector matches are touched |
| WAF list reconciliation (`setter.go`) | the plan: ranges to add, items to remove | `SetWAFList`, `FinalClearWAFList` | targets stay covered while ranges are exchanged; families whose addresses are unknown are left alone |
| WAF lists handle (`cloudflare_waf.go`) | three caches: lists of the account, ID of a list, managed items of a list | lookup, making a list, bulk creation and deletion, final clean-up | each cache is right or absent; only what is owned is deleted |
| zone lookup (`cloudflare_records.go`, `internal/domain`) | listings of names, zones of domains, each with a time to live | `listZoneMeta`, `zoneMetaOfDomain` | an answer is recent; a dead end is retried; no mistake lasts |
| updater round (`internal/updater`) | targets of the round, responses, messages | `UpdateIPs`, `FinalDeleteIPs` | one family's failure neither deletes its records nor stops the other; failures are reported |
| life cycle (`cmd/ddns/ddns.go`, `internal/signal`, `internal/cron`) | whether it is the first round, the next instant | main loop, `stopUpdating` | stops after a signal, cleans up, monitors show how it fares |
| trace hedging (`internal/provider/protocol/cloudflare_trace_hedge.go`) | goroutines, result channel, timer | `runCloudflareTraceAttempts` | first success wins, nothing is leaked, it returns |
| providers (`internal/provider`) | none | `GetRawData` | what is detected is valid or reported as unavailable |
| host IDs (`internal/hostid6`), ranges and filter (`internal/ipnet`, `internal/ipfilter`) | none | pure functions on bits | agree with their definitions |
| heartbeats, notifiers | endpoints | Start, Ping, Log, Exit; Send | order; the most severe message survives merging |
| domains, domain expressions, entries (`internal/domain`, `domainexp`, `domainentry`, `syntax`) | none | parsers, evaluation, printing, advice | what is accepted is what was written; advice is true |
| configuration (`internal/config`) | none after start | `Read`, `BuildConfig` | what is accepted can be kept; warnings are right |
| schedules, printer, files, slices | printer: hints shown once | | |
| tests, mocks, fuzzer, scripts | | | not part of the program |

Interactions. The life cycle calls the updater; the updater calls the providers and then
the setter, once per (domain, family) pair and once per list, each call under a timeout
of its own; the setter calls the handle; the handle calls Cloudflare. All of it is
synchronous. The concurrency is with Cloudflare (late requests), with other editors, with
the ageing of caches, with signals and, inside one detection, with the goroutines of the
hedged trace requests. The configuration is read and checked once, before the loop.
Units, that is (domain, family) pairs and lists, share only the cache of zones and the
cache of an account's lists.

The hard behaviours, each with its line and the properties aimed at it, are the hazards
in `PROJECT.json`.

## 2. Plan

1. *Done, checked and proved.* `RecordMetadata`, `RecordReconciler`, its abstraction
   `ServedAddresses`, and `RecordReconcilerProofs`.
2. *Done, checked and proved.* `WAFListReconciler`, its abstraction `CoveredRanges`, and
   `WAFListReconcilerProofs`.
3. *Done, checked and proved.* `Reporters` and `Lifecycle` on top of it, and
   `LifecycleProofs`.
4. *Done, checked and proved.* `TraceHedge`, which implements `OneAnswer`, and
   `TraceHedgeProofs`.
5. *Done, checked and proved.* `IPNet`, `HostID6` and `UpdateMessages`, which
   `UpdaterRound` puts together, and `HostID6Proofs` and `UpdaterRoundProofs`.
6. *Done, checked and proved.* `DomainNames`, `ZoneLookup` and `ZoneLookupProofs`.
7. *Done, checked and proved.* `DomainSets`, `Configuration`, `Settings` and
   `SettingsProofs`. *Done, model-checked.* `Syntax`, `DomainExpression`, `DomainLint`,
   `DomainEntry`, and `WrittenSettings`, which drives all of these.

Left: the name:value syntax of tags; the language of detection filters; the parsing of
trace replies.

Theorem still worth proving: what `RecordMetadata` promises for tags, apart from the
records it is written to.

The modules are written to be proved about: parameters are constants with named
assumptions, there is one action per operation, and recursive operators are kept in the
modules of item 7 that are only model-checked. Where a module that is proved about needs
one of theirs it takes it as a constant operator, for which the proofs assume nothing.

## 3. Modules

### RecordMetadata

The parameters of a record and the rule by which new ones are chosen
(`resolveScalarValue`, `tags.Resolve`): a field is inherited from the records about to be
recycled when they agree, a tag when all of them have it. Tags are opaque canonical
values.

### RecordReconciler

One (domain, family) pair: setter, handle and Cloudflare's store.

| variable | in the code |
|---|---|
| `remote` | the records at Cloudflare by ID, including those the selector does not match (external) |
| `late` | requests whose call ended in an error and which Cloudflare may still carry out (external) |
| `goal` | the targets that the updater passes to `SetIPs` |
| `cache` | `cloudflareCache.listRecords` of the pair |
| `pc`, `want`, `listed`, `todo`, `spare`, `unconfirmed`, `result` | control and local variables of `SetIPs` and `FinalDelete`; `spare` is `outdatedRecords`, or what is left of `unmatchedIDs`; `unconfirmed # {}` is `!allOK` |
| `edits` | history: whether the records changed other than by the updater's answered or failed calls since they were last fetched |

`StartRound` is `SetIPs` from `ListRecords` to the early return or the first mutation. It
is one step because it makes at most one request. Then every API call is a step:
`RecycleOutdated` (`UpdateRecord`), `CreateMissing` (`CreateRecord`), `DeleteOutdated`
(`DeleteRecord`), each with the edit it makes to the cached list; `CallErrs` for a call
that ends in an error, whatever became of the request; `CallNotSent` for one that fails
in the zone lookup; `RoundDone`. `StartFinalDelete`, `FinalDeleteRecord`,
`FinalDeleteErrs` and `FinalDeleteDone` are `FinalDelete`, which goes on after errors and
keeps the cache. `Restart` is a crash or an exit followed by a start with empty caches;
`Expire` may strike between any two calls. `OutsideEdit` and `LateLands` are the world's.
What Cloudflare stores is the normal form of what it is asked (`Normalised`): proxied
records get the automatic TTL.

### ServedAddresses

What a unit promises, with nothing but the set of served addresses: no wanted address is
taken away, a stale one goes only while a wanted one arrives or when all are served, and
an operation that ends well has left exactly the wanted addresses. The promises bind only
while nobody else has changed the records since they were fetched. `Promise` in
`RecordReconciler` is the refinement mapping: `live` is the set of addresses of managed
records, `trusted` is `edits = 0`.

### WAFListReconciler

One list: `SetWAFList`, `FinalClearWAFList` and the handle's calls.

| variable | in the code |
|---|---|
| `list`, `items`, `garbled`, `late` | the list of the configured name, its items, whether it holds an entry `readWAFListItems` rejects, and requests still in flight (external) |
| `goal` | `targetsByFamily`: a function on the families with usable targets; families that are out of scope or unavailable are not in its domain |
| `lists`, `listID`, `cached` | caches `listLists`, `listID`, `listListItems` |
| `pc`, `want`, `at`, `toCreate`, `toDelete`, `result` | control and locals of the calls; `at` is the `listID` an operation holds |
| `stale` | history: which caches, and whether the plan, may have been outdated by others |

A round is `StartFromCache` or `StartFromListing`, then `ListThere` or `MakeList`
(`ensureWAFList`), `AddItems` (`CreateWAFListItems`) and `RemoveItems`
(`DeleteWAFListItems`), each with its failures (`ListFails`, `EnsureErrs`, `AddErrs`,
`RemoveErrs`). `Resolved` and its neighbours are `wafListID`, three levels deep: the
cached ID, the cached lists, the lists fetched. The reply to a bulk call replaces the
cached items, or, if it cannot be read, fails the round and leaves them (`TakeReply`).
The final clean-up is `NothingToClean`, `DropList`, `DropListErrs`, `KeepList`, `Sweep`,
`SweepFails`, `EraseStarts`, `EraseErrs`. The asynchronous deletion may be carried out at
once or later. Prefix containment is the constant relation `Covers`; a family is a label
of a range. A lookup and the call made with its result are one step, except in
`CreateWAFListItems` and in the clean-up, where other requests come in between. That a
list may have another of the same name is left out: Cloudflare forbids it and the code
calls it impossible.

The ownership of the list (`policy`) is chosen at the start among the constant
`Policies`, so that one run covers shared lists and lists owned whole.

### CoveredRanges

What a list promises, with nothing but the set of ranges it holds. In a round they change
by exactly the targets that nothing covers and, only when there are none of these, by
exactly the ranges of known families that cover no target: all at once each time. A round
that ends well has left neither. In the clean-up the ranges in scope go, all at once or not
at all as long as the picture of the list can be trusted, and some of the old ones at most
otherwise; a clean-up that ends well has left none of them. Of a clean-up that is pending
nothing more is promised. `Promise` in `WAFListReconciler` is the refinement mapping: `held`
are the ranges of managed items, and `trusted` says that the plan was made from what is so
(and, in the clean-up, whose lookups are its own, that no cache it starts from is stale).

### Reporters and Lifecycle

`Reporters` reduces a heartbeat service to what its dashboard shows and a call to the
change it makes there: Healthchecks has Start, Ping, Log and Exit, Uptime Kuma only
pings, and `Log` reaches it only with a failure. Each service may miss each call.

| variable | in the code |
|---|---|
| `pc`, `first`, `next`, `cancelled` | `realMain` and its locals; `cancelled` is the state of the context when the round began |
| `config` | `UPDATE_CRON=@once`, `UPDATE_ON_START`, `DELETE_ON_STOP`, and whether all providers are `static.empty` or `none` |
| `toChannel`, `channel` | the registration of `signal.Setup`: signals on their way, and the buffer of two |
| `toContext`, `ctxDone` | the registration of `signal.NotifyContext` |
| `shown`, `lost` | what the dashboards show, and who missed the last call (external) |
| `published`, `cleanUps`, `outcome` | what the updater did, in as much as the loop cares |
| `apiUp` | whether the API works for the whole of the behaviour (external) |

`Boot`, `Configure`, `Top`, `Round`, `Check`, `WaitSignal`, `WaitTimer`, `StopUpdating`,
`Stop` and `GiveUp` are the pieces of `realMain` between points at which a signal makes a
difference. `Signal`, `ReachChannel`, `ReachContext` and `Tick` are the world's.

### TraceHedge and OneAnswer

`runCloudflareTraceAttempts`: a coordinator, a goroutine for each request sent, the
buffered channel, the hedge timer, and the parent context, which is cancelled or times
out at any point. `pc` names the coordinator's wait or branch; `Worker` sends a result,
`Fire` is the timer, `EndParent` the context. Whether a failed request counts as cancelled
is decided from the context when the error is seen. `timer` is `"fired"` while a value
may be waiting in `timerC`. A request is one step; which traces are good is
`attemptCloudflareTrace`.

`OneAnswer` says what the caller may rely on: a good answer is taken only while the
context lives; the detection gives up only after the context has ended or when all
endpoints have answered badly; and it decides. `Answer` in `TraceHedge` is the
refinement mapping.

### IPNet, HostID6, UpdateMessages and UpdaterRound

`IPNet` and `HostID6` scale every octet of an address down to one bit: IPv4 addresses
have 4 bits, IPv6 addresses 16, a MAC address 6, `/64` is `/8`. Everything in the code that
depends on a length falls on an octet boundary, and the operations (mask, containment,
IPv4 in IPv6, EUI-64 with its flipped bit) are the same at that scale. `Derive` and
`Incompatibility` are translated as code, with the bits of an address as a set that
`Number` turns back into one; `Fits` and `Applicable` say by arithmetic what they should
yield.

`UpdateMessages` keeps of a message whether it is a success and which lines it has, one
for monitors and one for notifiers.

`UpdaterRound` is `UpdateIPs` and `FinalDeleteIPs`. `todo` are the families still to come,
`names` the domains or lists of the current group, `targets`, `resps`, `msgs`,
`wafTargets` and `shouldUpdateWAF` the locals; `raw`, `begin` and `broken` are history.
The end of a detection is `DetectionFails` (unavailable, or a filter that rejects all),
`HostIDProblem` or `DetectionSucceeds`; then `SetIPs` per domain (which passes over a
domain without targets, as the code would if there were one), `FinishFamily`,
`SetWAFList` per list, `EndRound`; and the clean-up alike. The setter's calls are taken by
their promise: all done, or failed with the unit anywhere between the old and the new
state (`Between`), or, for the clean-up of a list, accepted and under way. That is what
`PromiseKept` establishes for one unit, a pair or a list, so the timeout of a call needs no
action of its own.

### DomainNames and ZoneLookup

A domain is the sequence of its labels. `ZoneLookup` walks over the candidates of a
domain (`DomainZones`): `Call` starts a lookup, `Known` is a hit in `zoneOfDomain`, and
`Pass`, `Find`, `Ambiguous` and `ListFails` are the outcomes at one candidate, from the
cache or by a call. `listZones` and `zoneOfDomain` carry the age of their entries; `Tick`
ages and drops them. `Change` is Cloudflare's. `soleFor`, `emptyFor` and `deadEnd` are
history: how long ago a zone was the one a walk should find, a name was unused, and what a
lookup that led nowhere had walked over.

### Syntax, DomainExpression, DomainSets, DomainLint and DomainEntry

`Syntax` is the table-driven Pratt parser on sequences of tokens; an error keeps its
cause and how far the parser came, which decides between the left forms. The three
grammars are data: `DomainListGrammar`, `ExpressionGrammar` (`DomainExpression`) and
`EntryGrammar` (`DomainEntry`). `DomainExpression` converts trees, evaluates expressions
and prints them with the fewest parentheses. `DomainSets` is the part of
`lint_semantic.go` that compares the sets of domains in a chain (which contains which,
what is redundant, what decides the chain); `DomainLint` is the rest of it and `lint.go`.
`DomainEntry` has the validation of trees, the conversion that panics on what the
validation should have refused (`Panics`), and `readDomains`, with the domains it rejects
(`Rejected`). Characters, positions, IDNA and regular expressions are tables (`Spelling`,
`MatchString`).

### Configuration, Settings and WrittenSettings

`Configuration` is `BuildConfig`: a list of reasons to refuse, in their order, the built
configuration, and its warnings. What PROXIED is parsed to and what it says of a domain
are the constant operators `ParseProxied` and `EvaluateProxied`, which run `settings`
gives the values of `DomainExpression`; `ProxiedIsParsed` says so and TLC evaluates it.

These are functions, not processes. `Settings` builds every configuration up to a size by
setting a setting or adding an entry, and states what an accepted one may be relied on for.
`WrittenSettings` adds every list of domains, by adding a word, and every expression, by
adding a term, up to a size. The invariants compare what the functions yield with what the
input means. `GrammarsAreValid` is an assumption that TLC evaluates: `MustNewPratt` does
not panic.

Definitions named "Mutation" are plausible mistakes in the definition that follows; no
specification uses them. Each property of a run is violated when the definition is
replaced by its mutation, which shows that the property can fail.

## 4. Runs

| run | question | states | result |
|---|---|---|---|
| `records_safety` | Is the cached list right, are results true, is the order of calls safe, is ownership respected, are there no new duplicates, does the unit keep the promises of `ServedAddresses`? | `TypeOK`, `CacheCoherent`, `SuccessMeansSatisfied`, `FinalDeletionAccounts`, `OwnershipRespected`, `PromiseKept`, `NoNewDuplicates` | holds |
| `records_convergence` | Once the world is quiet, do the records come to match the addresses and stay so? Does metadata that all managed records share survive recycling, with a cache that holds requested instead of stored parameters? | `Converges`, `UniformMetadataKept` | holds |
| `records_relabelled` | Are records the selector does not match invisible to mutations, as `managed-record-ownership.markdown` says? | | violated |
| `waf_safety` | Are the three caches right, is there neither a coverage gap nor a redundant item, does the list keep the promises of `CoveredRanges`, that results are true among them? | `TypeOK`, `CachesCoherent`, `NoCoverageGap`, `NoRedundantItems`, `PromiseKept` | holds |
| `waf_ownership` | Are items of others and of families out of scope left alone, in rounds and in the clean-up, for shared lists and lists owned whole, and does the clean-up report what it left behind? | `ScopeRespected`, `CleanUpAccounts` | holds |
| `waf_convergence` | Once the world is quiet, does the list come to cover the targets, even if it was deleted under a cached ID? | `Converges` | holds |
| `lifecycle` | Does the process keep updating, stop on a signal, leave nothing behind, and do dashboards that can be reached tell how it fares? | `TypeOK`, `NothingLeftBehind`, `MonitorsTellTruth`, `StopsOnSignal`, `KeepsUpdating` | holds |
| `lifecycle_once` | Does every exit with `DELETE_ON_STOP` clean up, as the README of the updater says? | | violated |
| `trace_hedge` | In every order of results, timer and end of the context: does the detection return, leave no request running, and keep the promise of `OneAnswer`? | `TypeOK`, `NothingLeftRunning`, `TimerIsFresh`, `PromiseKept`, `Returns` | holds |
| `updater_round` | Is what is out of scope kept, does no unit wait for another, is the report true, is every failure named? | `TypeOK`, `KeptOutOfScope`, `UnitsIndependent`, `HonestReport`, `FailuresNamed` | holds |
| `zone_lookup` | How old can an answer be, does a dead end mislead later lookups, is every domain found in its zone in the end? | `TypeOK`, `AnswerIsRecent`, `RetriesAfterDeadEnd`, `RightAtLast` | holds |
| `settings` | Are lists read as written and without panics, is advice on expressions true, is an accepted configuration one that can be kept, is exactly what has no effect called ignored? | `EntriesRead`, `AdviceIsTrue`, `AcceptedIsReady`, `IgnoredIsInert` | holds |

The first violation. Another party changes the comment of a record between the listing
(or, with a cached list, up to `CACHE_EXPIRATION` before) and the write; `UpdateRecord`
and `DeleteRecord` do not ask the selector again, so a record that no longer matches is
overwritten or deleted. `docs/design/features/managed-record-ownership.markdown:52` says
that unmatched records are invisible to mutation logic. Without interference the
statement holds and is proved (`OwnershipIsRespected`).

The second. With `UPDATE_CRON=@once` and `DELETE_ON_STOP=true`, which the configuration
accepts when every provider is `static.empty` or `none`, the schedule has no next instant
and the loop returns (`cmd/ddns/ddns.go:166`) without `stopUpdating`: unless a signal
comes in time, `FinalDeleteIPs` never runs and WAF lists stay. `README.markdown:631` says
of just this combination that it makes the updater try to delete the list itself.

Two observations that no run is about. The advice on a constant part of an expression
(`lint_semantic.go:75`) shows the whole setting as what "always matches" or "can never
match": what the check finds is true of the part (`AdviceIsTrue`), and only of it. And
`CACHE_EXPIRATION=0` is accepted, although `README.markdown:625` asks for a positive
duration.

### Bounds

- `MaxLate = 1`: one request that is carried out after its call gave up. A second one
  differs by what it does to records the first has left alone.
- `MaxEdits = 1`: how often others change the records before they are fetched again. One
  change already makes any cache and any plan wrong; then the safety properties stop
  binding until the next fetch, so more would only be explored without being judged. In
  `RecordReconciler` the count starts anew at every fetched listing, in
  `WAFListReconciler` it is for the whole behaviour. Runs with `0` ask what must hold
  without interference.
- `MaxForeign = 1`: records that the selector does not match, enough to be damaged.
- Three record IDs and two addresses: duplicates, a foreign record, recycling and a
  deletion besides, all in one round. The convergence run has two IDs, but two TTLs and
  both proxy modes, so that what is recycled may differ from what is stored. IDs in use
  can be handed out again once nobody remembers them, so runs do not run out of them by
  age.
- One or two list IDs (two where a list is made anew under another ID), two or three
  items, a wide range that contains a narrow one, one IPv6 range where families matter.
- `MaxSignals = 2`: the second signal comes while the first is in either registration, or
  after both; the channel holds two. One service of each kind: what differs is whether
  one is reached while another is not.
- `N = 3` endpoints, as in the program.
- One domain in both families, one in IPv6 only, one list; three host-ID policies
  (a literal that fits, a MAC address, which fits one length, and a pair of which one may
  not fit); sightings that a filter empties, that are not routable, or that are IPv4 in
  IPv6. `MaxOperations = 1`: a round remembers nothing of the one before.
- `a.b` and `*.b` share the candidate `b`, for which two accounts may have a zone.
  `Expiration = 2`: an entry can be fresh or about to expire, and the listing may be old
  when the zone is taken from it. `MaxChanges = 2`, a zone moves or is replaced.
  `MaxFailures = 1`. At most one tick falls into a lookup. The bound on the age of answers,
  `2 * (Expiration - 1) + 1`, is tight: with one less TLC finds a counterexample.
- `MaxWords = 5` of ten words of up to four tokens; `MaxTerms = 3`, of which two may
  contradict and the third be redundant; `MaxEdits = 4` settings or entries that differ
  from the defaults, enough for two domains with host IDs, a provider and a mode.
- No run has tags (`Tags = {}`): they multiply the states of the convergence run, and
  `CommonTags` treats each like a field. The proofs cover any set of tags.
- Symmetry is used for IDs, which are only compared, and not in runs with liveness.
- `IDsLeft` in the liveness property of the list: the instance has as few IDs as items,
  and when others have filled it up, creation is impossible for that reason alone.

### Fairness

- The schedule starts rounds again and again: `WF` of `StartRound` and `StartFromCache`.
  `StartFromListing` needs an answer and gets `SF`, as do the individual calls
  (`RecycleOutdated`, `CreateMissing`, `DeleteOutdated`, `MakeList`, `ListThere`,
  `AddItems`, `RemoveItems`): a call attempted again and again is confirmed some time.
  This is an assumption on the network and on Cloudflare, not on the code.
- `WF` of a round's steps while it runs: every call is under `UPDATE_TIMEOUT`.
- `WF` of expiry: the caches have a time to live, and hits do not prolong it
  (`newCache`). Convergence of the list depends on it when a list is deleted by others:
  its cached ID is dropped only by age. The mutation without expiry fails.
- A request given up on is eventually carried out or lost.

- The life cycle: `WF` of the program, every call of which has a timeout; `SF` of
  `WaitSignal`, since a select with several ready cases picks one at random and so takes a
  case that is ready again and again; `WF` of the delivery of signals and of time.
- The hedge: `WF` of the coordinator; a worker must end only when its context is over, so
  that a request may hang before; `WF` of the timeout, since the detection runs under
  `DETECTION_TIMEOUT`. The hedge timer need not fire.
- The lookup: every round looks up every domain (`SF` of `Call`, which another lookup
  may disable), the steps of a lookup and time go on.

No fairness is assumed of failures, crashes or the world. Deadlock is checked except where
the modelled program really ends (`lifecycle`, `trace_hedge`) or where the bounds end the
behaviour (`updater_round`, `settings`).

## 5. Proofs

Each module with proofs but `HostID6Proofs` proves `Spec => []Inv` (`SettingsProofs`:
`EditsSpec`) from an inductive invariant: it holds in `Init`, every action of `Next` keeps
it (a lemma per action), and it implies what is wanted. Action properties and refinements
use it in the state before the step.

### RecordReconcilerProofs

`RecordReconcilerProofs` proves, for every set of IDs, addresses, comments and parameters
and every bound, from `ConstantsAssumption`: the fallback comment matches the
selector (the configuration is rejected otherwise), Cloudflare keeps comments and
normalising twice is normalising once, the special values are no records. The last
theorem also uses `NormalisationAssumption`: normalising changes TTLs only, and only
where it ignores which one was sent.

| theorem | states |
|---|---|
| `TypeCorrect` | `TypeOK` |
| `InductiveInvariant` | `Inductive`, from which the next three follow |
| `CacheIsCoherent` | `CacheCoherent` |
| `SuccessIsTrue` | `SuccessMeansSatisfied` |
| `FinalDeletionIsComplete` | `FinalDeletionAccounts` |
| `OwnershipIsRespected` | the action property `OwnershipRespected` |
| `DuplicatesAreNotCreated` | the action property `NoNewDuplicates` |
| `UnitKeepsPromise` | `Spec => PromiseKept`: the unit implements `ServedAddresses` |
| `UniformMetadataSurvives` | the action property `UniformMetadataKept` |

The argument. That a finished round is a success is not inductive by itself: `RoundDone`
looks at the plan, not at the records. So `PlanExact` says that, undisturbed, what the
plan has yet to write and to remove is exactly what is missing and outdated at Cloudflare.
It holds at the start of a round only if the listing was right, which may come from the
cache; so `CacheCoherent` is needed. For the edits of the cache to keep it right, the
cached and the planned records must be managed ones (`AllManaged`), which follows from
`RecordMetadata`: resolved comments come from managed records or are the fallback. Every
action of `Next` has a lemma that it preserves `Inductive`. `PromiseStep` maps each
action to a step of `ServedAddresses` or to a stutter: `CallImproves` shows that whatever
became of a request, the addresses it leaves are an improvement in its sense.
For the metadata, `RecyclingInv` says that a round with something left to write either has
recycled nothing yet, so that its outdated records are stored as they were listed, or has
left a record with its own parameters. If all managed records share theirs, the shared
ones are the round's in both cases; in the first because records that are stored alike
can differ, as listed, only in a TTL that does not matter (`ResolvedAlike`).

### WAFListReconcilerProofs

For all sets of ranges, targets, comments, policies and IDs and every bound, from
`ConstantsAssumption`: the comment of new items matches the selector of every policy, a
list owned whole has a selector that matches all, ranges cover themselves and only ranges
of their family, the special values are no lists, items or caches.

| theorem | states |
|---|---|
| `TypeCorrect` | `TypeOK` |
| `InductiveInvariant` | `Inductive`, from which the others follow |
| `CachesAreCoherent` | `CachesCoherent` |
| `SuccessIsTrue` | `SuccessMeansSatisfied` |
| `NoGapOpens` | the action property `NoCoverageGap` |
| `NothingAddedTwice` | the action property `NoRedundantItems` |
| `StaysInScope` | the action property `ScopeRespected` |
| `CleanUpIsHonest` | the action property `CleanUpAccounts` |
| `ListKeepsPromise` | `Spec => PromiseKept`: the list implements `CoveredRanges` |

The argument. Types first (`BasicInv`): a list that is gone has no items, and no request,
however late, edits the items of no list. Then, for each of the three caches and for the
plan, that it is right unless others have made it otherwise, which is what `stale`
records: `LookUpRight` for the lists and the ID, only up to the clean-up, whose lookups
drop them; `ItemsRight`, which includes that a list with an entry the handle cannot read
was never cached; `PlanRight`, which says exactly what is missing and useless, and that
deletions are only left when nothing is missing. Each is preserved by itself once those
before it are known. `SuccessMeansSatisfied`, which the runs check as part of `PromiseKept`,
follows from `PlanRight`.

For the refinement, `RangesTell` translates between items and ranges: a target is missing
among the ranges if and only if the items leave it uncovered, and a range is superfluous, or
in scope, if and only if the items of that range are. The last holds because an item is
useless, or of a family, by its range alone, so items of the same range go together, which
is what makes "exactly" true of ranges although calls name items. `RoundImproves` is about
the steps of a round, of which only a bulk call that reaches Cloudflare changes anything
(`RoundEffects`); `FinalClears` and `FinalPromised` about those of the clean-up;
`PromiseStep` maps every action to a step of `CoveredRanges` or to a stutter.

### HostID6Proofs

For every address, range, literal and MAC address at the scale of `IPNet`.

| theorem | states |
|---|---|
| `DerivationsFit` | a compatible derivation yields an IPv6 address that `Fits` |

The code tests a literal by the position of its highest bit and then or-s it, octet by
octet, with the masked address. The property is arithmetic: the address minus its host
part is what it was, the host part is the literal. The argument has three steps. A number
is its digits (`NumberOfBits`, from `Quotient` down the powers of two). The bits of a
multiple of 2^n and of a number below 2^n are disjoint, and together are the bits of the
sum (`BitsOfSum`), so or-ing is adding (`CombineAdds`). The longest prefix that a literal
goes with is the one that leaves just enough room (`LongestIsLongest`), so that compatible
is the same as applicable (`ApplicableIsCompatible`), in both directions. `Power` lists the
powers of two up to 2^16: the provers know nothing of exponentiation. The last section has
what the rounds need of ranges: `MaskedRight`, and `CoversMasked`, that a range covers an
entry if and only if it covers the range of the entry.

### UpdaterRoundProofs

For all domains, lists, configurations and sightings, from `ConstantsAssumption` (domains
and lists have no duplicates, as `SortAndCompact` in `internal/config/domain.go` and
`env_waf.go` sees to; some family has a provider, every IPv6 domain has a well-formed
policy; sightings are parsed addresses; old records and items are of their family) and
`UnroutableAssumption`.

| theorem | states |
|---|---|
| `ScopeIsKept` | `KeptOutOfScope` |
| `FailuresAreNamed` | `FailuresNamed` |
| `TypeCorrect` | `TypeOK` |
| `UnitsAreIndependent` | `UnitsIndependent` |
| `ReportIsHonest` | `HonestReport` |

The argument. `ScopeInv` adds to `KeptOutOfScope` that a family is turned to once, that
the one whose domains are being updated is usable, and that `wafTargets` has available
ranges for usable families only. The step that matters is the end of a detection: what the
code finds compatible can be applied. `NamingInv` adds, for the failures, that every family
with a provider is still to come or was detected, and that a unit whose call failed is
among the responses not yet reported or named by a message gathered; `MergeNames` says that
merging loses no failure.

`TypesInv` adds to the types that during `dns` every domain of the family has targets, and
the right ones (`DerivedRight`, from `DerivationsFit`), so that `PassOver` never happens;
that the names waiting for a call are distinct; and that `wafTargets` has the masked ranges
of every usable family, which is the converse of what `ScopeInv` says.

`StagesInv` follows the units through the round. A unit of which a call failed is one whose
turn has come (`CalledInv`), hence the failure of one is never taken for that of another. A
domain of the family at hand waits, or is among the responses with a code that says truly
whether its call failed, and if it did not its records are what was wanted
(`DomainsAnswered`); for lists alike (`ListsAnswered`, with `ReconciledRight`: what is left
after reconciliation covers every entry and nothing else). A family that was worked on
stays right (`DoneInv`): later calls are for other families, because `First(todo)` has left
`todo`. A line of a message gathered names units of such a family only, so it stays true
(`NotesInv`). At the end nothing waits, and `EndReport` reads the two properties off these;
that a report of success leaves no family out and no unit broken comes from `NamingInv`.

### ZoneLookupProofs

For every expiration, all sets of zones and of domains, however they share their
suffixes, from `ConstantsAssumption` (among others: no zone has the name of the root).

| theorem | states |
|---|---|
| `TypeCorrect` | `TypeOK` |
| `AnswersAreRecent` | `AnswerIsRecent` |
| `RetriesRight` | `RetriesAfterDeadEnd` |

The argument. For the age of answers: a cached listing was true no longer ago than its
age (`ListingsRecent`); a walk has seen listings that were cached when it began or later,
so no older than `Expiration - 1`, and one tick more if time went by (`WalkRecent`); and a
cached zone was found by a walk when its own age began (`ZonesRecent`). That gives
`2 * (Expiration - 1) + 1`. For dead ends: a lookup that leads nowhere drops what it walked
over. Until the next lookup begins nothing of it is cached, and after that only what was
fetched since, by this domain or by another that shares the suffix, and is so now, as long
as Cloudflare does not change (`DeadEndsInv`).

### TraceHedgeProofs

For every number of endpoints, from `NAssumption` alone (there is at least one).

| theorem | states |
|---|---|
| `CountsAgree` | `CountInv`, from which the next three follow |
| `TypeCorrect` | `TypeOK` |
| `TimersAreFresh` | `TimerIsFresh` |
| `NothingIsLeftRunning` | `NothingLeftRunning` |
| `AnswersAreKnown` | `AnswerInv` |
| `TakesOneAnswer` | `Spec => OneAnswerSafely`: the refinement of `OneAnswer` without its fairness |

The argument. The drain stops when as many results were received as goroutines started;
that none is running then is a matter of counting, so `Accounted` says at all times that
started = running + waiting in the channel + received. The bound on the channel follows as
well: it never blocks a sender. For the refinement one has to know, when the coordinator
gives up, that every endpoint has failed, although it only looks at counts: `AnswerInv`
says that each endpoint that ended gave one result (`OneResultEach`), and that while the
context lives and nothing is decided, no request was cancelled and every result that was
judged is a failure (`OnlyFailures`).

### LifecycleProofs

For every set of heartbeat services and every number of signals, from
`ServicesAssumption` (no service is of both types) and `MaxSignalsAssumption`.

| theorem | states |
|---|---|
| `LifeInvariant` | `LifeInv`, from which the next three follow |
| `TypeCorrect` | `TypeOK` |
| `NothingIsLeftBehind` | `NothingLeftBehind` |
| `TruthIsShown` | `MonitorsTellTruth` |

The argument. `CleanedUp` follows the clean-up through the stages of stopping: none before
the loop is left, one from then on. `Reported` follows the dashboards from one message to
the next, at every point of the program between two of them and not only where
`MonitorsTellTruth` looks. `ExitStatus` ties the exit status to the way the process ended.

### SettingsProofs

Of configurations: for all edits, entries and their number, all host IDs and prefixes at
the scale of `IPNet`, and whatever `ParseProxied` and `EvaluateProxied` yield, from
`SettingsAssumption` alone (edits are of settings there are, values of the provider
settings are providers, entries are added to lists of domains). Of chains: for all
sequences of literals over all names; no assumption.

| theorem | states |
|---|---|
| `OnlyReadyIsAccepted` | `EditsSpec => []AcceptedIsReady` |
| `IgnoredMeansInert` | `EditsSpec => []IgnoredIsInert` |
| `RedundantTermsMayGo` | a chain without all the terms called redundant holds of the same domains |
| `DecidedChainsAreConstant` | a conjunction called contradictory holds of no domain, a disjunction called tautological of every one |

`EditsSpec` is the part of `WrittenSettings!Spec` that changes the settings: its other
actions leave `raw` alone, and `EditSettings` is a step of `EditsSpec`. That the run's
specification implies `EditsSpec` is read off and not proved, because it reaches recursive
operators.

The argument for the first two. `RawInv` says that every setting has a value and
that the providers are well formed: in particular that only static ones have entries, which
is what `validateStaticIP6HostIDCompatibility` relies on when it looks at nothing else
(`StaticEntriesFit`). `Acceptable` is the conjunction of the checks passed, without their
order (`FailuresAre`, `BuildIs`), and implies `Ready` conjunct by conjunct; for host IDs
because opinions that can be had are all the same one (`HostIDsAgree`), whichever the code
picks, and because a derivation without problems tried every pair (`NoProblem`).

What a configuration does depends on what `SameView` lists (`SameViewSameEffect`), and all
of that can be told from what it does (`DoesTells`). So a setting is inert exactly if no
one looks at it: `MootIsInert` in one direction, and in the other `OthersMatter`, for every
setting that differs from its default. `IgnoredAre` shows that the warnings name just the
settings no one looks at. For the IPv6 intents, `ShadowsAre`: a domain that `IP6_DOMAINS`
lists is in the one listing, any other one with host IDs is in the one group of the domains
with the same host IDs, and in no second one.

For the chains. That one redundant term may go is simple; that all may go at once needs
that not everything goes in a circle. "Goes because of" is transitive and irreflexive, since
of two equal terms the later one goes (`OrGoneTransitive`, `AndGoneTransitive`); so on the
finite chain it leads from every term to one that stays (`LeadsToAnEnd`, `OneStays`), and
that one contains it, or is contained in it (`SubsumesTransitive`).

### What is not proved

Only model-checked: liveness (out of the prover's reach), the promise of `OneAnswer` to
decide included; `EntriesRead`; and `AdviceIsTrue` as a whole, of which the two theorems
on chains are the parts that do not depend on how an expression is parsed or flattened.
What the recursive definitions of `Syntax`, `DomainExpression`, `DomainLint` and
`DomainEntry` compute cannot be proved with the installed provers; TLC evaluates them on
every input up to the bounds.

## 6. Not modelled

- Two units at a time: the program handles them one after the other, they share no record
  and no item, and the shared cache of zones is `ZoneLookup`. Two updaters on the same
  domain are two sources of `OutsideEdit`. The cache of an account's lists is shared by
  the lists of that account; a list only asks it for its own name.
- The composition of `UpdaterRound` with the reconcilers in one state space: it takes
  their calls by their promises instead.
- Token checks, permission hints, and other messages of the handle that change nothing;
  the printer, which only writes; wording and layout everywhere.
- Characters: tokenizers, IDNA, the syntax of addresses, MACs, tags and regular
  expressions. The readers of single settings (tokens, durations, prefix lengths,
  provider names), the set-up of reporters, the printed configuration, and the warnings of
  a configuration that is refused.
- The language of `IP4_DETECTION_FILTER`: a filter is the set of addresses it keeps.
- The I/O of providers (HTTP, DNS over HTTPS, interfaces, files) and of reporters; the
  third-party schedule, which here gives any next instant or none; Cloudflare and its
  library, which are modelled from how the code uses them.
- Tests, mocks, the fuzzer, and the scripts that watch Cloudflare's documentation, which
  are tooling and not part of the updater.
