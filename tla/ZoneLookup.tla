------------------------------ MODULE ZoneLookup ------------------------------
(***************************************************************************)
(* How the Cloudflare handle finds the zone of a domain                    *)
(* (internal/api/cloudflare_records.go, internal/domain): a walk over the  *)
(* suffixes of the name, with one call for each suffix that is not cached, *)
(* behind two caches that the domains share.  Zones come and go outside.   *)
(***************************************************************************)
EXTENDS Integers, Sequences, FiniteSets, DomainNames

CONSTANTS
  Domains,      \* the domains to look up
  Zones,        \* the zones there may be at Cloudflare
  NameOf,       \* the name of each zone
  Statuses,     \* the statuses they may have
  NoZone,       \* what a lookup without an answer returns
  NoDomain,     \* stands for the domain when no lookup is under way
  Expiration,   \* CACHE_EXPIRATION in clock ticks
  MaxChanges,   \* bound on the changes of zones
  MaxFailures   \* bound on the API calls that fail

\* The root is a zone of nobody at Cloudflare.
ASSUME ConstantsAssumption ==
  /\ Domains \subseteq Seq(STRING)
  /\ IsFiniteSet(Zones) /\ NoZone \notin Zones /\ NoDomain \notin Domains
  /\ \A z \in Zones : NameOf[z] \in Seq(STRING) \ {<<>>}
  /\ Statuses \subseteq {"active", "deactivated", "initializing", "moved", "pending",
                  "undocumented", "deleted", "absent"}
  /\ Expiration \in Nat \ {0} /\ MaxChanges \in Nat /\ MaxFailures \in Nat

Names == UNION {{DomainZones(d)[i] : i \in DOMAIN DomainZones(d)} : d \in Domains}

VARIABLES
  status,        \* the status of each zone; "absent" if there is none
  listZones,     \* cache: names to their zones
  zoneOfDomain,  \* cache: domains to their zone
  domain, at,    \* the lookup under way, and how many candidates it has passed
  answer,        \* what the last lookup returned
  soleFor,       \* history: how long ago each zone was the only one of its name
  emptyFor,      \* history: how long ago each name had no usable zone
  deadEnd,       \* history: candidates walked by a lookup that led nowhere, and
                 \* whether the zones are the same since the next lookup began
  ticked, changes, failures  \* for the bounds

caches == <<listZones, zoneOfDomain>>
lookup == <<domain, at>>
seen == <<soleFor, emptyFor>>
vars == <<status, caches, lookup, answer, seen, deadEnd, ticked, changes, failures>>

-----------------------------------------------------------------------------
(* The zones at Cloudflare and the clock. *)

\* The zones that a listing of a name keeps.
Usable(st, name) ==
    {z \in Zones : NameOf[z] = name /\ st[z] \notin {"absent", "deleted"}}

Sole(st, z) == Usable(st, NameOf[z]) = {z}

\* A listing is used for up to Expiration ticks, and so is the zone taken from it.
\* A lookup itself is short: at most one tick falls into it.
Oldest == 2 * (Expiration - 1) + 1
Later(n) == IF n > Oldest THEN n ELSE n + 1

\* Zones are created, set up, suspended, archived and removed.
Change(z, s) ==
    /\ changes < MaxChanges /\ s # status[z]
    /\ status' = [status EXCEPT ![z] = s]
    /\ changes' = changes + 1
    /\ soleFor' = [y \in Zones |-> IF Sole(status', y) THEN 0 ELSE soleFor[y]]
    /\ emptyFor' = [n \in Names |-> IF Usable(status', n) = {} THEN 0 ELSE emptyFor[n]]
    /\ deadEnd' = [d \in Domains |-> IF deadEnd[d].settled
                                     THEN [walked |-> 0, settled |-> FALSE]
                                     ELSE deadEnd[d]]
    /\ UNCHANGED <<caches, lookup, answer, ticked, failures>>

\* Mutation of the next: a hit renews an entry, and the entries in use are all hit.
AgedUnlessHit(cache) == [k \in DOMAIN cache |-> [cache[k] EXCEPT !.age = 0]]

\* Mutation of the next: an entry is dropped one tick late.
AgedLate(cache) ==
    [k \in {j \in DOMAIN cache : cache[j].age < Expiration} |->
        [cache[k] EXCEPT !.age = @ + 1]]

\* A cache with its entries one tick older, without those that have expired. A hit
\* does not renew an entry.
Aged(cache) ==
    [k \in {j \in DOMAIN cache : cache[j].age + 1 < Expiration} |->
        [cache[k] EXCEPT !.age = @ + 1]]

Tick ==
    /\ domain = NoDomain \/ ~ticked
    /\ ticked' = (domain # NoDomain)
    /\ listZones' = Aged(listZones)
    /\ zoneOfDomain' = Aged(zoneOfDomain)
    /\ soleFor' = [z \in Zones |-> IF Sole(status, z) THEN 0 ELSE Later(soleFor[z])]
    /\ emptyFor' = [n \in Names |-> IF Usable(status, n) = {} THEN 0 ELSE Later(emptyFor[n])]
    /\ UNCHANGED <<status, lookup, answer, deadEnd, changes, failures>>

-----------------------------------------------------------------------------
(* A lookup. *)

Put(cache, key, value) ==
    [k \in DOMAIN cache \cup {key} |->
        IF k = key THEN [value |-> value, age |-> 0] ELSE cache[k]]
Without(cache, keys) == [k \in DOMAIN cache \ keys |-> cache[k]]

\* The first n candidates of d, the ones whose listings a dead end forgets.
Traversed(d, n) == {DomainZones(d)[i] : i \in 1..n}

Return(z) ==
    /\ answer' = z /\ domain' = NoDomain /\ at' = 0 /\ ticked' = FALSE

Call(d) ==
    /\ domain = NoDomain
    /\ domain' = d /\ at' = 0
    /\ deadEnd' = [e \in Domains |-> [deadEnd[e] EXCEPT !.settled = @ \/ deadEnd[e].walked > 0]]
    /\ UNCHANGED <<status, caches, answer, seen, ticked, changes, failures>>

\* The domain was looked up not long ago.
Known ==
    /\ domain # NoDomain /\ at = 0 /\ domain \in DOMAIN zoneOfDomain
    /\ Return(zoneOfDomain[domain].value)
    /\ UNCHANGED <<status, caches, seen, deadEnd, changes, failures>>

Walking == /\ domain # NoDomain
           /\ at = 0 => domain \notin DOMAIN zoneOfDomain
           /\ at < Len(DomainZones(domain))

Name == DomainZones(domain)[at + 1]

\* Neither the root nor a name with a cached listing needs a call.
NeedsCall == Name # <<>> /\ Name \notin DOMAIN listZones

ListFails ==
    /\ Walking /\ NeedsCall /\ failures < MaxFailures
    /\ failures' = failures + 1
    /\ Return(NoZone)
    /\ UNCHANGED <<status, caches, seen, deadEnd, changes>>

\* listZoneMeta: what the walk gets to see of a name, and the cache after it.
Listing == IF Name = <<>> THEN {}
           ELSE IF NeedsCall THEN Usable(status, Name)
           ELSE listZones[Name].value

Listed == IF NeedsCall THEN Put(listZones, Name, Listing) ELSE listZones

Forget(n) ==
    /\ listZones' = Without(Listed, Traversed(domain, n))
    /\ deadEnd' = [deadEnd EXCEPT ![domain] = [walked |-> n, settled |-> FALSE]]
    /\ Return(NoZone)
    /\ UNCHANGED <<status, zoneOfDomain, seen, changes, failures>>

\* Mutation of the next: a walk that finds no zone keeps its listings.
PassKeeping ==
    /\ Walking /\ Listing = {}
    /\ listZones' = Listed
    /\ IF at + 1 < Len(DomainZones(domain))
       THEN at' = at + 1 /\ UNCHANGED <<domain, answer, deadEnd, ticked>>
       ELSE /\ deadEnd' = [deadEnd EXCEPT ![domain] = [walked |-> at + 1, settled |-> FALSE]]
            /\ Return(NoZone)
    /\ UNCHANGED <<status, zoneOfDomain, seen, changes, failures>>

Pass ==
    /\ Walking /\ Listing = {}
    /\ IF at + 1 < Len(DomainZones(domain))
       THEN /\ listZones' = Listed /\ at' = at + 1
            /\ UNCHANGED <<status, zoneOfDomain, domain, answer, seen, deadEnd,
                           ticked, changes, failures>>
       ELSE Forget(at + 1)

\* Mutation of the next: any of several zones will do.
FindFirst ==
    /\ Walking
    /\ \E z \in Listing :
        /\ listZones' = Listed
        /\ zoneOfDomain' = Put(zoneOfDomain, domain, z)
        /\ Return(z)
    /\ UNCHANGED <<status, seen, deadEnd, changes, failures>>

Find ==
    /\ Walking
    /\ \E z \in Zones :
        /\ Listing = {z}
        /\ listZones' = Listed
        /\ zoneOfDomain' = Put(zoneOfDomain, domain, z)
        /\ Return(z)
    /\ UNCHANGED <<status, seen, deadEnd, changes, failures>>

Ambiguous == Walking /\ Cardinality(Listing) > 1 /\ Forget(at + 1)

Empty == [k \in {} |-> {}]

Init ==
    /\ status \in [Zones -> Statuses]
    /\ listZones = Empty /\ zoneOfDomain = Empty
    /\ domain = NoDomain /\ at = 0 /\ answer = NoZone
    /\ soleFor = [z \in Zones |-> IF Sole(status, z) THEN 0 ELSE Oldest + 1]
    /\ emptyFor = [n \in Names |-> IF Usable(status, n) = {} THEN 0 ELSE Oldest + 1]
    /\ deadEnd = [d \in Domains |-> [walked |-> 0, settled |-> FALSE]]
    /\ ticked = FALSE /\ changes = 0 /\ failures = 0

Progress == Known \/ Pass \/ Find \/ Ambiguous

Next ==
    \/ Progress \/ ListFails \/ Tick
    \/ \E d \in Domains : Call(d)
    \/ \E z \in Zones, s \in Statuses : Change(z, s)

\* Every round looks up every domain, a call ends by its timeout, and time passes.
Fairness ==
    /\ WF_vars(Progress) /\ WF_vars(Tick)
    /\ \A d \in Domains : SF_vars(Call(d))

Spec == Init /\ [][Next]_vars /\ Fairness

-----------------------------------------------------------------------------
(* Properties. *)

TypeOK ==
    /\ status \in [Zones -> Statuses]
    /\ DOMAIN listZones \subseteq Names \ {<<>>}
    /\ \A n \in DOMAIN listZones :
         /\ \A z \in listZones[n].value : z \in Zones /\ NameOf[z] = n
         /\ listZones[n].age \in 0..(Expiration - 1)
    /\ DOMAIN zoneOfDomain \subseteq Domains
    /\ \A d \in DOMAIN zoneOfDomain :
         /\ zoneOfDomain[d].value \in Zones
         /\ NameOf[zoneOfDomain[d].value] \in Traversed(d, Len(DomainZones(d)))
         /\ zoneOfDomain[d].age \in 0..(Expiration - 1)
    /\ domain \in Domains \cup {NoDomain} /\ answer \in Zones \cup {NoZone}
    /\ at \in 0..(IF domain = NoDomain THEN 0 ELSE Len(DomainZones(domain)) - 1)

Ends == domain # NoDomain /\ domain' = NoDomain

Nearer(d, z) == {DomainZones(d)[i] : i \in {j \in DOMAIN DomainZones(d) :
                                             Len(DomainZones(d)[j]) > Len(NameOf[z])}}

\* Zones are cached twice, each time for one CACHE_EXPIRATION, and nothing that
\* goes wrong with a zone later drops them. Still an answer is never older than
\* both together: not long before it, the zone was the only usable one of its
\* name, and each name nearer to the domain had none.
AnswerIsRecent ==
    [][Ends /\ answer' # NoZone =>
         /\ soleFor[answer'] <= Oldest
         /\ \A n \in Nearer(domain, answer') : emptyFor[n] <= Oldest]_vars

\* A lookup that led nowhere leaves nothing behind that misleads the later ones:
\* with the zones as they are since the next lookup of any domain, a lookup of the
\* domain that the API answers gets what the nearest name in use among the ones
\* walked then now has, its zone or an ambiguity.
RetriesAfterDeadEnd ==
    [][Ends /\ failures' = failures /\ deadEnd[domain].settled =>
         \A i \in 1..deadEnd[domain].walked :
            LET now == Usable(status, DomainZones(domain)[i])
            IN  /\ now # {}
                /\ \A n \in Traversed(domain, i - 1) : Usable(status, n) = {}
                => answer' = IF Cardinality(now) > 1 THEN NoZone
                             ELSE CHOOSE z \in now : TRUE]_vars

\* The zone that a domain has when all candidates are seen as they are.
ZoneOf(d) ==
    LET used == {i \in DOMAIN DomainZones(d) :
                   DomainZones(d)[i] # <<>> /\ Usable(status, DomainZones(d)[i]) # {}}
        name == DomainZones(d)[CHOOSE i \in used : \A j \in used : i <= j]
    IN  IF used = {} \/ Cardinality(Usable(status, name)) > 1 THEN NoZone
        ELSE CHOOSE z \in Usable(status, name) : TRUE

\* Once zones and API settle, a domain whose zone was created, lost or replaced
\* while the updater ran is found in the zone that it has: no cached mistake lasts.
RightAtLast ==
    \A d \in Domains : <>[][Ends /\ domain = d => answer' = ZoneOf(d)]_vars

=============================================================================
