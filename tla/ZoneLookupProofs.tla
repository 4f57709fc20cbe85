--------------------------- MODULE ZoneLookupProofs ---------------------------
(***************************************************************************)
(* Theorems about ZoneLookup, for every set of domains and zones, every    *)
(* expiration time and every bound.                                        *)
(***************************************************************************)
EXTENDS ZoneLookup, FiniteSetTheorems, SequenceTheorems, TLAPS

-----------------------------------------------------------------------------
(* Candidates                                                              *)

Candidates(d) == 1 .. Len(DomainZones(d))

\* Every domain has candidates, names that get shorter one by one.
LEMMA CandidatesShrink ==
  ASSUME NEW d \in Domains
  PROVE  /\ Len(DomainZones(d)) \in Nat \ {0}
         /\ DOMAIN DomainZones(d) = Candidates(d)
         /\ \A i \in Candidates(d) : /\ DomainZones(d)[i] \in Names
                                     /\ DomainZones(d)[i] \in Seq(STRING)
         /\ \A i, j \in Candidates(d) :
              Len(DomainZones(d)[i]) > Len(DomainZones(d)[j]) => i < j
<1> DEFINE base == IF IsWildcard(d) THEN Tail(d) ELSE d
           n == Len(base)
           m == IF n = 0 THEN 1 ELSE n
<1>1. base \in Seq(STRING)
  <2>1. d \in Seq(STRING)
    BY ConstantsAssumption
  <2>2. IsWildcard(d) => Tail(d) \in Seq(STRING)
    BY <2>1, HeadTailProperties DEF IsWildcard
  <2>3. QED
    BY <2>1, <2>2
<1>2. n \in Nat /\ m \in Nat \ {0}
  BY <1>1
<1>3. DomainZones(d) = [i \in 1 .. m |-> SubSeq(base, i, n)]
  BY DEF DomainZones
<1> HIDE DEF base
<1>4. \A i \in 1 .. m : /\ SubSeq(base, i, n) \in Seq(STRING)
                        /\ Len(SubSeq(base, i, n)) = n - i + 1
  <2> SUFFICES ASSUME NEW i \in 1 .. m
               PROVE  /\ SubSeq(base, i, n) \in Seq(STRING)
                      /\ Len(SubSeq(base, i, n)) = n - i + 1
    OBVIOUS
  <2>1. i \in 1 .. n + 1
    BY <1>2
  <2>2. QED
    BY <1>1, <1>2, <2>1, SubSeqProperties
<1>5. DomainZones(d) \in Seq(Seq(STRING))
  BY <1>2, <1>3, <1>4, SeqDef
<1>6. DOMAIN DomainZones(d) = 1 .. m /\ Len(DomainZones(d)) = m
  BY <1>2, <1>3, <1>5
<1>7. \A i \in Candidates(d) : DomainZones(d)[i] \in Names
  BY <1>6 DEF Candidates, Names
<1>8. \A i \in Candidates(d) : /\ DomainZones(d)[i] \in Seq(STRING)
                               /\ Len(DomainZones(d)[i]) = n - i + 1
  BY <1>3, <1>4, <1>6 DEF Candidates
<1>9. \A i, j \in Candidates(d) :
        Len(DomainZones(d)[i]) > Len(DomainZones(d)[j]) => i < j
  BY <1>2, <1>6, <1>8 DEF Candidates
<1>10. QED
  BY <1>2, <1>6, <1>7, <1>8, <1>9 DEF Candidates

-----------------------------------------------------------------------------
(* Type correctness                                                        *)

Ages == 0 .. (Expiration - 1)
Of(n) == {z \in Zones : NameOf[z] = n}
Within(d) == {z \in Zones : NameOf[z] \in Traversed(d, Len(DomainZones(d)))}

ListingEntries(n) == [value : SUBSET Of(n), age : Ages]
ZoneEntries(d) == [value : Within(d), age : Ages]

ListingsInv(cache) ==
  /\ DOMAIN cache \subseteq Names \ {<<>>}
  /\ \A n \in DOMAIN cache : cache[n] \in ListingEntries(n)
ZonesInv(cache) ==
  /\ DOMAIN cache \subseteq Domains
  /\ \A d \in DOMAIN cache : cache[d] \in ZoneEntries(d)

\* A lookup under way has a candidate left.
WalkInv ==
  /\ domain \in Domains \cup {NoDomain} /\ answer \in Zones \cup {NoZone}
  /\ at \in 0 .. (IF domain = NoDomain THEN 0 ELSE Len(DomainZones(domain)) - 1)
  /\ ticked \in BOOLEAN /\ (ticked => domain # NoDomain)

TypeInv ==
  /\ status \in [Zones -> Statuses]
  /\ ListingsInv(listZones) /\ ZonesInv(zoneOfDomain)
  /\ WalkInv

\* The expiration time is at least one tick.
LEMMA AgesThere == 0 \in Ages /\ Expiration \in Nat \ {0}
  BY ConstantsAssumption DEF Ages

\* What is left of a cache after a tick is one tick older.
LEMMA AgedKeeps ==
  ASSUME NEW cache, NEW k \in DOMAIN Aged(cache), NEW V, cache[k] \in [value : V, age : Ages]
  PROVE  /\ k \in DOMAIN cache
         /\ Aged(cache)[k] \in [value : V, age : Ages]
         /\ Aged(cache)[k].value = cache[k].value
         /\ Aged(cache)[k].age = cache[k].age + 1
<1>1. k \in DOMAIN cache /\ cache[k].age + 1 < Expiration
      /\ Aged(cache)[k] = [cache[k] EXCEPT !.age = @ + 1]
  BY DEF Aged
<1>2. cache[k].age + 1 \in Ages
  BY <1>1, AgesThere DEF Ages
<1>3. QED
  BY <1>1, <1>2

\* The walk stands at one of the candidates.
LEMMA Standing ==
  ASSUME WalkInv, domain # NoDomain
  PROVE  /\ domain \in Domains
         /\ at \in Nat /\ at + 1 \in Candidates(domain)
         /\ Name \in Names
<1>1. domain \in Domains
  BY DEF WalkInv
<1>2. Len(DomainZones(domain)) \in Nat \ {0}
  BY <1>1, CandidatesShrink
<1>3. at \in Nat /\ at + 1 \in Candidates(domain)
  BY <1>2 DEF WalkInv, Candidates
<1>4. QED
  BY <1>1, <1>3, CandidatesShrink DEF Name

\* A listing holds zones of its name, if there is one to list.
LEMMA ListingRight ==
  ASSUME TypeInv, domain # NoDomain
  PROVE  /\ Listing \in SUBSET Of(Name)
         /\ Name = <<>> => Listing = {}
         /\ ListingsInv(Listed)
<1>1. Name \in Names
  BY Standing DEF TypeInv
<1>2. ListingsInv(listZones)
  BY DEF TypeInv
<1>3. Listing \in SUBSET Of(Name) /\ (Name = <<>> => Listing = {})
  BY <1>2 DEF Listing, NeedsCall, Usable, Of, ListingsInv, ListingEntries
<1>4. CASE NeedsCall
  <2>1. Listed = Put(listZones, Name, Listing) /\ Name # <<>>
    BY <1>4 DEF Listed, NeedsCall
  <2>2. [value |-> Listing, age |-> 0] \in ListingEntries(Name)
    BY <1>3, AgesThere DEF ListingEntries
  <2>3. /\ DOMAIN Listed = DOMAIN listZones \cup {Name}
        /\ Listed[Name] = [value |-> Listing, age |-> 0]
        /\ \A n \in DOMAIN listZones \ {Name} : Listed[n] = listZones[n]
    BY <2>1 DEF Put
  <2>4. DOMAIN Listed \subseteq Names \ {<<>>}
    BY <1>1, <1>2, <2>1, <2>3 DEF ListingsInv
  <2>5. \A n \in DOMAIN Listed : Listed[n] \in ListingEntries(n)
    BY <1>2, <2>2, <2>3 DEF ListingsInv
  <2>6. QED
    BY <1>3, <2>4, <2>5 DEF ListingsInv
<1>5. CASE ~NeedsCall
  BY <1>2, <1>3, <1>5 DEF Listed
<1>6. QED
  BY <1>3, <1>4, <1>5

\* A lookup that ends is no longer under way.
LEMMA ReturnWalk ==
  ASSUME NEW z \in Zones \cup {NoZone}, Return(z)
  PROVE  WalkInv'
<1>1. answer' = z /\ domain' = NoDomain /\ at' = 0 /\ ticked' = FALSE
  BY DEF Return
<1>2. at' \in 0 .. (IF domain' = NoDomain THEN 0 ELSE Len(DomainZones(domain')) - 1)
  BY <1>1
<1>3. QED
  BY <1>1, <1>2 DEF WalkInv

\* A dead end forgets listings and keeps the others.
LEMMA ForgetKeeps ==
  ASSUME TypeInv, domain # NoDomain, NEW n, Forget(n)
  PROVE  TypeInv' /\ DOMAIN listZones' \subseteq DOMAIN Listed
         /\ \A k \in DOMAIN listZones' : listZones'[k] = Listed[k]
<1>1. /\ DOMAIN listZones' \subseteq DOMAIN Listed
      /\ \A k \in DOMAIN listZones' : listZones'[k] = Listed[k]
  BY DEF Forget, Without
<1>2. ListingsInv(listZones')
  BY <1>1, ListingRight DEF ListingsInv
<1>3. WalkInv'
  BY ReturnWalk DEF Forget
<1>4. QED
  BY <1>1, <1>2, <1>3 DEF TypeInv, Forget

\* All is well before the first lookup.
LEMMA InitType == Init => TypeInv
<1> SUFFICES ASSUME Init PROVE TypeInv
  OBVIOUS
<1>1. domain = NoDomain /\ at = 0 /\ answer = NoZone /\ ticked = FALSE
  BY DEF Init
<1>2. at \in 0 .. (IF domain = NoDomain THEN 0 ELSE Len(DomainZones(domain)) - 1)
  BY <1>1
<1>3. WalkInv
  BY <1>1, <1>2 DEF WalkInv
<1>4. ListingsInv(listZones) /\ ZonesInv(zoneOfDomain)
  BY DEF Init, Empty, ListingsInv, ZonesInv
<1>5. QED
  BY <1>3, <1>4 DEF Init, TypeInv

\* Every step keeps the types.
LEMMA NextType == TypeInv /\ [Next]_vars => TypeInv'
<1> SUFFICES ASSUME TypeInv, [Next]_vars PROVE TypeInv'
  OBVIOUS
<1>a. /\ status \in [Zones -> Statuses] /\ WalkInv
      /\ ListingsInv(listZones) /\ ZonesInv(zoneOfDomain)
  BY DEF TypeInv
<1>1. CASE Known
  <2>1. domain # NoDomain /\ domain \in DOMAIN zoneOfDomain
    BY <1>1 DEF Known
  <2>2. zoneOfDomain[domain].value \in Zones
    BY <1>a, <2>1 DEF ZonesInv, ZoneEntries, Within
  <2>3. WalkInv'
    BY <1>1, <2>2, ReturnWalk DEF Known
  <2>4. QED
    BY <1>1, <1>a, <2>3 DEF Known, caches, TypeInv
<1>2. CASE Pass
  <2>1. domain # NoDomain
    BY <1>2 DEF Pass, Walking
  <2>2. CASE at + 1 < Len(DomainZones(domain))
    <3>1. /\ listZones' = Listed /\ at' = at + 1 /\ domain' = domain /\ answer' = answer
          /\ ticked' = ticked /\ status' = status /\ zoneOfDomain' = zoneOfDomain
      BY <1>2, <2>2 DEF Pass
    <3>2. at \in Nat /\ Len(DomainZones(domain)) \in Nat
      BY <1>a, <2>1, Standing, CandidatesShrink
    <3>3. at' \in 0 .. (IF domain' = NoDomain THEN 0 ELSE Len(DomainZones(domain')) - 1)
      BY <2>1, <2>2, <3>1, <3>2
    <3>4. WalkInv'
      BY <1>a, <3>1, <3>3 DEF WalkInv
    <3>5. QED
      BY <1>a, <2>1, <3>1, <3>4, ListingRight DEF TypeInv
  <2>3. CASE ~(at + 1 < Len(DomainZones(domain)))
    BY <1>2, <2>1, <2>3, ForgetKeeps DEF Pass
  <2>4. QED
    BY <2>2, <2>3
<1>3. CASE Find
  <2>1. PICK z \in Zones : /\ Listing = {z} /\ listZones' = Listed
                           /\ zoneOfDomain' = Put(zoneOfDomain, domain, z)
                           /\ Return(z)
    BY <1>3 DEF Find
  <2>2. domain # NoDomain
    BY <1>3 DEF Find, Walking
  <2>3. NameOf[z] = Name
    BY <2>1, <2>2, ListingRight DEF Of
  <2>4. /\ domain \in Domains /\ at + 1 \in Candidates(domain)
    BY <1>a, <2>2, Standing
  <2>5. z \in Within(domain)
    BY <2>3, <2>4 DEF Within, Traversed, Name, Candidates
  <2>6. [value |-> z, age |-> 0] \in ZoneEntries(domain)
    BY <2>5, AgesThere DEF ZoneEntries
  <2>7. ZonesInv(zoneOfDomain')
    BY <1>a, <2>1, <2>4, <2>6 DEF Put, ZonesInv
  <2>8. WalkInv'
    BY <2>1, ReturnWalk
  <2>9. QED
    BY <1>3, <1>a, <2>1, <2>2, <2>7, <2>8, ListingRight DEF Find, TypeInv
<1>4. CASE Ambiguous
  BY <1>4, ForgetKeeps DEF Ambiguous, Walking
<1>5. CASE ListFails
  BY <1>5, <1>a, ReturnWalk DEF ListFails, caches, TypeInv
<1>6. CASE Tick
  <2>1. ListingsInv(listZones')
    <3>1. \A n \in DOMAIN listZones' : n \in DOMAIN listZones /\ listZones'[n] \in ListingEntries(n)
      BY <1>6, <1>a, AgedKeeps DEF Tick, ListingsInv, ListingEntries, Aged
    <3>2. QED
      BY <1>a, <3>1 DEF ListingsInv
  <2>2. ZonesInv(zoneOfDomain')
    <3>1. \A d \in DOMAIN zoneOfDomain' : d \in DOMAIN zoneOfDomain /\ zoneOfDomain'[d] \in ZoneEntries(d)
      BY <1>6, <1>a, AgedKeeps DEF Tick, ZonesInv, ZoneEntries, Aged
    <3>2. QED
      BY <1>a, <3>1 DEF ZonesInv
  <2>3. WalkInv'
    BY <1>6, <1>a DEF Tick, WalkInv, lookup
  <2>4. QED
    BY <1>6, <1>a, <2>1, <2>2, <2>3 DEF Tick, TypeInv
<1>7. ASSUME NEW d \in Domains, Call(d) PROVE TypeInv'
  <2>1. d # NoDomain /\ Len(DomainZones(d)) \in Nat \ {0}
    BY ConstantsAssumption, CandidatesShrink
  <2>2. /\ domain' = d /\ at' = 0 /\ answer' = answer /\ ticked' = ticked /\ ~ticked
    BY <1>7, <1>a DEF Call, WalkInv
  <2>3. at' \in 0 .. (IF domain' = NoDomain THEN 0 ELSE Len(DomainZones(domain')) - 1)
    BY <2>1, <2>2
  <2>4. WalkInv'
    BY <1>a, <2>1, <2>2, <2>3 DEF WalkInv
  <2>5. QED
    BY <1>7, <1>a, <2>4 DEF Call, caches, TypeInv
<1>8. ASSUME NEW z \in Zones, NEW s \in Statuses, Change(z, s) PROVE TypeInv'
  BY <1>8, <1>a DEF Change, caches, lookup, TypeInv, WalkInv
<1>9. CASE UNCHANGED vars
  BY <1>9, <1>a DEF vars, caches, lookup, TypeInv, WalkInv
<1>10. QED
  BY <1>1, <1>2, <1>3, <1>4, <1>5, <1>6, <1>7, <1>8, <1>9 DEF Next, Progress

\* The types hold always.
LEMMA TypeInvariant == Spec => []TypeInv
  BY InitType, NextType, PTL DEF Spec

\* The caches hold listings of candidates other than the root, and zones whose name
\* is a candidate of the domain, never for as long as CACHE_EXPIRATION; a walk under
\* way has a candidate left to look at.
THEOREM TypeCorrect == Spec => []TypeOK
<1>1. ASSUME TypeInv PROVE TypeOK
  <2>1. \A n \in DOMAIN listZones :
          /\ \A z \in listZones[n].value : z \in Zones /\ NameOf[z] = n
          /\ listZones[n].age \in 0 .. (Expiration - 1)
    BY <1>1 DEF TypeInv, ListingsInv, ListingEntries, Of, Ages
  <2>2. \A d \in DOMAIN zoneOfDomain :
          /\ zoneOfDomain[d].value \in Zones
          /\ NameOf[zoneOfDomain[d].value] \in Traversed(d, Len(DomainZones(d)))
          /\ zoneOfDomain[d].age \in 0 .. (Expiration - 1)
    BY <1>1 DEF TypeInv, ZonesInv, ZoneEntries, Within, Ages
  <2>3. QED
    BY <1>1, <2>1, <2>2 DEF TypeInv, ListingsInv, ZonesInv, WalkInv, TypeOK
<1>2. QED
  BY <1>1, TypeInvariant, PTL

-----------------------------------------------------------------------------
(* How old answers are                                                     *)

\* A zone that is the only one of its name now, and a name without a usable zone
\* now, have been so for no time.
ClocksRight ==
  /\ soleFor \in [Zones -> Nat] /\ emptyFor \in [Names -> Nat]
  /\ \A z \in Zones : Sole(status, z) => soleFor[z] = 0
  /\ \A n \in Names : Usable(status, n) = {} => emptyFor[n] = 0

\* A cached listing says what was so when it was made, ...
ListingRecent(n, entry) ==
  /\ entry.value = {} => emptyFor[n] <= entry.age
  /\ \A z \in Zones : entry.value = {z} => soleFor[z] <= entry.age
ListingsRecent == \A n \in DOMAIN listZones : ListingRecent(n, listZones[n])

\* ... a walk has seen listings that were in the cache since it began, or fresh ones, ...
PassedRecent ==
  \A i \in Candidates(domain) : i <= at /\ DomainZones(domain)[i] # <<>> =>
    emptyFor[DomainZones(domain)[i]] <= Expiration - 1 + (IF ticked THEN 1 ELSE 0)
WalkRecent == domain # NoDomain => PassedRecent

\* ... and a cached zone was found by a walk at the time of its own age.
ZoneRecent(d, entry) ==
  /\ soleFor[entry.value] <= entry.age + Expiration - 1
  /\ \A n \in Nearer(d, entry.value) : emptyFor[n] <= entry.age + Expiration
ZonesRecent == \A d \in DOMAIN zoneOfDomain : ZoneRecent(d, zoneOfDomain[d])

RecentInv ==
  /\ TypeInv
  /\ ClocksRight
  /\ ListingsRecent
  /\ WalkRecent
  /\ ZonesRecent

\* The clocks run by a tick at most, and stand still or start anew otherwise.
LEMMA ClocksRun ==
  ASSUME TypeInv, ClocksRight, [Next]_vars
  PROVE  /\ ClocksRight'
         /\ Tick => /\ \A z \in Zones : soleFor'[z] <= soleFor[z] + 1
                    /\ \A n \in Names : emptyFor'[n] <= emptyFor[n] + 1
         /\ ~Tick => /\ \A z \in Zones : soleFor'[z] <= soleFor[z]
                     /\ \A n \in Names : emptyFor'[n] <= emptyFor[n]
<1>a. Oldest \in Nat
  BY AgesThere DEF Oldest
<1>1. CASE Tick
  <2>1. /\ soleFor' = [z \in Zones |-> IF Sole(status, z) THEN 0 ELSE Later(soleFor[z])]
        /\ emptyFor' = [n \in Names |-> IF Usable(status, n) = {} THEN 0 ELSE Later(emptyFor[n])]
        /\ status' = status
    BY <1>1 DEF Tick
  <2>2. \A k \in Nat : Later(k) \in Nat /\ Later(k) <= k + 1
    BY <1>a DEF Later
  <2>3. soleFor \in [Zones -> Nat] /\ emptyFor \in [Names -> Nat]
    BY DEF ClocksRight
  <2>4. soleFor' \in [Zones -> Nat] /\ emptyFor' \in [Names -> Nat]
    BY <2>1, <2>2, <2>3
  <2>5. /\ \A z \in Zones : soleFor'[z] <= soleFor[z] + 1
        /\ \A n \in Names : emptyFor'[n] <= emptyFor[n] + 1
    BY <2>1, <2>2, <2>3
  <2>6. /\ \A z \in Zones : Sole(status', z) => soleFor'[z] = 0
        /\ \A n \in Names : Usable(status', n) = {} => emptyFor'[n] = 0
    BY <2>1
  <2>7. QED
    BY <1>1, <2>4, <2>5, <2>6 DEF ClocksRight
<1>2. ASSUME NEW y \in Zones, NEW s \in Statuses, Change(y, s), ~Tick
      PROVE  /\ ClocksRight'
             /\ \A z \in Zones : soleFor'[z] <= soleFor[z]
             /\ \A n \in Names : emptyFor'[n] <= emptyFor[n]
  <2>1. /\ soleFor' = [z \in Zones |-> IF Sole(status', z) THEN 0 ELSE soleFor[z]]
        /\ emptyFor' = [n \in Names |-> IF Usable(status', n) = {} THEN 0 ELSE emptyFor[n]]
    BY <1>2 DEF Change
  <2>2. QED
    BY <2>1 DEF ClocksRight
<1>3. CASE UNCHANGED <<status, soleFor, emptyFor>> /\ ~Tick
  BY <1>3 DEF ClocksRight
<1>4. (Progress \/ ListFails \/ (\E d \in Domains : Call(d)) \/ UNCHANGED vars) =>
        UNCHANGED <<status, soleFor, emptyFor>>
  BY DEF Progress, Known, Pass, Find, Ambiguous, Forget, ListFails, Call, seen, vars
<1>5. QED
  BY <1>1, <1>2, <1>3, <1>4 DEF Next

\* What the walk sees of a name, and the listings after it, are recent.
LEMMA SeenRecent ==
  ASSUME TypeInv, ClocksRight, ListingsRecent, domain # NoDomain
  PROVE  /\ \A n \in DOMAIN Listed : ListingRecent(n, Listed[n])
         /\ Listing = {} /\ Name # <<>> => emptyFor[Name] <= Expiration - 1
         /\ \A z \in Zones : Listing = {z} => soleFor[z] <= Expiration - 1
<1>a. ListingsInv(listZones) /\ Name \in Names
  BY Standing DEF TypeInv
<1>1. CASE NeedsCall
  <2>1. Listing = Usable(status, Name) /\ Name # <<>>
    BY <1>1 DEF Listing, NeedsCall
  <2>2. Listing = {} => emptyFor[Name] = 0
    BY <1>a, <2>1 DEF ClocksRight
  <2>3. \A z \in Zones : Listing = {z} => soleFor[z] = 0
    BY <2>1 DEF ClocksRight, Sole, Usable
  <2>4. Listed = Put(listZones, Name, Listing)
    BY <1>1 DEF Listed
  <2>5. /\ Listed[Name] = [value |-> Listing, age |-> 0]
        /\ \A n \in DOMAIN Listed \ {Name} : n \in DOMAIN listZones /\ Listed[n] = listZones[n]
    BY <2>4 DEF Put
  <2>6. ListingRecent(Name, [value |-> Listing, age |-> 0])
    BY <2>2, <2>3 DEF ListingRecent
  <2>7. \A n \in DOMAIN Listed : ListingRecent(n, Listed[n])
    BY <2>5, <2>6 DEF ListingsRecent
  <2>8. QED
    BY <2>2, <2>3, <2>7, AgesThere
<1>2. CASE ~NeedsCall /\ Name # <<>>
  <2>1. Name \in DOMAIN listZones /\ Listing = listZones[Name].value /\ Listed = listZones
    BY <1>2 DEF NeedsCall, Listing, Listed
  <2>2. listZones[Name].age \in Ages
    BY <1>a, <2>1 DEF ListingsInv, ListingEntries
  <2>3. listZones[Name].age <= Expiration - 1 /\ listZones[Name].age \in Nat
    BY <2>2, AgesThere DEF Ages
  <2>4. ListingRecent(Name, listZones[Name])
    BY <2>1 DEF ListingsRecent
  <2>5. Listing = {} => emptyFor[Name] <= Expiration - 1
    BY <1>a, <2>1, <2>3, <2>4, AgesThere DEF ListingRecent, ClocksRight
  <2>6. \A z \in Zones : Listing = {z} => soleFor[z] <= Expiration - 1
    BY <2>1, <2>3, <2>4, AgesThere DEF ListingRecent, ClocksRight
  <2>7. QED
    BY <2>1, <2>5, <2>6 DEF ListingsRecent
<1>3. CASE Name = <<>>
  BY <1>3 DEF Listing, Listed, NeedsCall, ListingsRecent
<1>4. QED
  BY <1>1, <1>2, <1>3

\* Every step keeps the listings recent.
LEMMA NextListings ==
  ASSUME TypeInv, ClocksRight, ListingsRecent, [Next]_vars
  PROVE  ListingsRecent'
<1>a. /\ ListingsInv(listZones) /\ ClocksRight'
      /\ \A n \in DOMAIN listZones : n \in Names /\ listZones[n].age \in Nat
  BY ClocksRun, AgesThere DEF TypeInv, ListingsInv, ListingEntries, Ages
<1>1. CASE Tick
  <2> SUFFICES ASSUME NEW n \in DOMAIN listZones' PROVE ListingRecent(n, listZones[n])'
    BY DEF ListingsRecent
  <2>2. /\ n \in DOMAIN listZones
        /\ listZones'[n].value = listZones[n].value
        /\ listZones'[n].age = listZones[n].age + 1
    BY <1>1, <1>a, AgedKeeps DEF Tick, ListingsInv, ListingEntries, Aged
  <2>3. ListingRecent(n, listZones[n])
    BY <2>2 DEF ListingsRecent
  <2>4. emptyFor'[n] <= emptyFor[n] + 1 /\ \A z \in Zones : soleFor'[z] <= soleFor[z] + 1
    BY <1>1, <1>a, <2>2, ClocksRun
  <2>5. /\ emptyFor'[n] \in Nat /\ emptyFor[n] \in Nat /\ listZones[n].age \in Nat
        /\ \A z \in Zones : soleFor'[z] \in Nat /\ soleFor[z] \in Nat
    BY <1>a, <2>2 DEF ClocksRight
  <2>6. listZones'[n].value = {} => emptyFor'[n] <= listZones'[n].age
    BY <2>2, <2>3, <2>4, <2>5 DEF ListingRecent
  <2>7. \A z \in Zones : listZones'[n].value = {z} => soleFor'[z] <= listZones'[n].age
    BY <2>2, <2>3, <2>4, <2>5 DEF ListingRecent
  <2>8. QED
    BY <2>6, <2>7 DEF ListingRecent
<1>2. CASE ~Tick
  <2>1. /\ \A z \in Zones : soleFor'[z] <= soleFor[z]
        /\ \A n \in Names : emptyFor'[n] <= emptyFor[n]
    BY <1>2, ClocksRun
  <2>2. ASSUME NEW n \in DOMAIN listZones', NEW entry, ListingRecent(n, entry),
               entry = listZones'[n], n \in Names, entry.age \in Nat
        PROVE  ListingRecent(n, listZones[n])'
    <3>1. /\ emptyFor'[n] \in Nat /\ emptyFor[n] \in Nat
          /\ \A z \in Zones : soleFor'[z] \in Nat /\ soleFor[z] \in Nat
      BY <1>a, <2>2 DEF ClocksRight
    <3>2. QED
      BY <2>1, <2>2, <3>1 DEF ListingRecent
  <2>3. CASE \A n \in DOMAIN listZones' : n \in DOMAIN listZones /\ listZones'[n] = listZones[n]
    BY <1>a, <2>2, <2>3 DEF ListingsRecent
  <2>4. CASE domain # NoDomain /\ \A n \in DOMAIN listZones' : n \in DOMAIN Listed /\ listZones'[n] = Listed[n]
    <3>1. \A n \in DOMAIN Listed :
            n \in Names /\ Listed[n].age \in Nat /\ ListingRecent(n, Listed[n])
      BY <2>4, ListingRight, SeenRecent, AgesThere DEF ListingsInv, ListingEntries, Ages
    <3>2. QED
      BY <2>2, <2>4, <3>1 DEF ListingsRecent
  <2>5. CASE Pass \/ Ambiguous
    BY <2>4, <2>5 DEF Pass, Ambiguous, Walking, Forget, Without
  <2>6. CASE Find
    BY <2>4, <2>6 DEF Find, Walking
  <2>7. (Known \/ ListFails \/ (\E d \in Domains : Call(d))
           \/ (\E z \in Zones, s \in Statuses : Change(z, s)) \/ UNCHANGED vars)
          => listZones' = listZones
    BY DEF Known, ListFails, Call, Change, caches, vars
  <2>8. QED
    BY <1>2, <2>3, <2>5, <2>6, <2>7 DEF Next, Progress
<1>3. QED
  BY <1>1, <1>2

\* Every step keeps what a walk has seen recent.
LEMMA NextWalk ==
  ASSUME TypeInv, ClocksRight, ListingsRecent, WalkRecent, [Next]_vars
  PROVE  WalkRecent'
<1> SUFFICES ASSUME domain' # NoDomain PROVE PassedRecent'
  BY DEF WalkRecent
<1>a. /\ ClocksRight' /\ Expiration \in Nat \ {0} /\ WalkInv
      /\ domain # NoDomain => domain \in Domains /\ at \in Nat
  BY ClocksRun, AgesThere, Standing DEF TypeInv
<1>b. \A n \in Names : emptyFor[n] \in Nat /\ emptyFor'[n] \in Nat
  BY <1>a DEF ClocksRight
<1>1. CASE Tick
  <2>1. /\ domain' = domain /\ at' = at /\ ~ticked /\ ticked' = TRUE
        /\ \A n \in Names : emptyFor'[n] <= emptyFor[n] + 1
    BY <1>1, ClocksRun DEF Tick, lookup
  <2>2. ASSUME NEW i \in Candidates(domain), i <= at, DomainZones(domain)[i] # <<>>
        PROVE  emptyFor'[DomainZones(domain)[i]] <= Expiration - 1 + 1
    <3>1. DomainZones(domain)[i] \in Names
      BY <1>a, <2>1, CandidatesShrink
    <3>2. emptyFor[DomainZones(domain)[i]] <= Expiration - 1 + 0
      BY <2>1, <2>2 DEF WalkRecent, PassedRecent
    <3>3. QED
      BY <1>a, <1>b, <2>1, <3>1, <3>2
  <2>3. QED
    BY <2>1, <2>2 DEF PassedRecent, Candidates
<1>2. ASSUME ~Tick, domain' = domain, ticked' = ticked, at' \in {at, at + 1},
             at' = at + 1 => Listing = {}
      PROVE  PassedRecent'
  <2>1. \A n \in Names : emptyFor'[n] <= emptyFor[n]
    BY <1>2, ClocksRun
  <2>2. ASSUME NEW i \in Candidates(domain), i <= at', DomainZones(domain)[i] # <<>>
        PROVE  emptyFor'[DomainZones(domain)[i]]
                 <= Expiration - 1 + (IF ticked THEN 1 ELSE 0)
    <3>1. DomainZones(domain)[i] \in Names /\ i \in Nat
      BY <1>a, <1>2, CandidatesShrink DEF Candidates
    <3>2. CASE i <= at
      <4>1. emptyFor[DomainZones(domain)[i]] <= Expiration - 1 + (IF ticked THEN 1 ELSE 0)
        BY <1>2, <2>2, <3>2 DEF WalkRecent, PassedRecent
      <4>2. QED
        BY <1>a, <1>b, <2>1, <3>1, <4>1
    <3>3. CASE ~(i <= at)
      <4>1. i = at + 1 /\ Listing = {} /\ DomainZones(domain)[i] = Name
        BY <1>a, <1>2, <2>2, <3>1, <3>3 DEF Name
      <4>2. emptyFor[Name] <= Expiration - 1
        BY <1>2, <2>2, <4>1, SeenRecent
      <4>3. QED
        BY <1>a, <1>b, <2>1, <3>1, <4>1, <4>2
    <3>4. QED
      BY <3>2, <3>3
  <2>3. QED
    BY <1>2, <2>2 DEF PassedRecent, Candidates
<1>3. CASE Pass
  <2>1. domain' = domain /\ ticked' = ticked /\ at' = at + 1 /\ Listing = {}
    BY <1>3 DEF Pass, Forget, Return
  <2>2. ~Tick
    BY <1>3, <2>1, <1>a DEF Tick, lookup
  <2>3. QED
    BY <1>2, <2>1, <2>2
<1>4. ASSUME NEW d \in Domains, Call(d) PROVE PassedRecent'
  <2>1. at' = 0 /\ \A i \in Candidates(domain') : ~(i <= 0)
    BY <1>4, <1>a, CandidatesShrink DEF Call, Candidates
  <2>2. QED
    BY <2>1 DEF PassedRecent, Candidates
<1>5. ASSUME NEW z \in Zones, NEW s \in Statuses, Change(z, s), ~Tick PROVE PassedRecent'
  BY <1>2, <1>5, <1>a DEF Change, lookup, WalkInv
<1>6. CASE UNCHANGED vars /\ ~Tick
  BY <1>2, <1>6, <1>a DEF vars, lookup, WalkInv
<1>7. ~Known /\ ~Find /\ ~Ambiguous /\ ~ListFails
  BY DEF Known, Find, Ambiguous, Forget, ListFails, Return
<1>8. QED
  BY <1>1, <1>3, <1>4, <1>5, <1>6, <1>7 DEF Next, Progress

\* What a walk finds is recent.
LEMMA FoundRecent ==
  ASSUME TypeInv, ClocksRight, ListingsRecent, WalkRecent, domain # NoDomain,
         NEW z \in Zones, Listing = {z}
  PROVE  /\ soleFor[z] <= Expiration - 1
         /\ \A n \in Nearer(domain, z) : n \in Names /\ emptyFor[n] <= Expiration
<1>1. /\ domain \in Domains /\ at \in Nat /\ at + 1 \in Candidates(domain)
      /\ NameOf[z] = DomainZones(domain)[at + 1]
      /\ Expiration \in Nat \ {0}
  BY Standing, ListingRight, AgesThere DEF TypeInv, Of, Name
<1>2. ASSUME NEW n \in Nearer(domain, z)
      PROVE  n \in Names /\ emptyFor[n] <= Expiration
  <2>1. PICK i \in Candidates(domain) :
          /\ n = DomainZones(domain)[i]
          /\ Len(DomainZones(domain)[i]) > Len(DomainZones(domain)[at + 1])
    BY <1>1, CandidatesShrink DEF Nearer
  <2>2. i < at + 1 /\ n \in Names
    BY <1>1, <2>1, CandidatesShrink
  <2>3. n # <<>>
    <3>1. /\ DomainZones(domain)[at + 1] \in Seq(STRING)
          /\ Len(DomainZones(domain)[at + 1]) \in Nat
      BY <1>1, CandidatesShrink
    <3>2. QED
      BY <2>1, <3>1
  <2>4. i <= at
    BY <1>1, <2>2 DEF Candidates
  <2>5. emptyFor[n] <= Expiration - 1 + (IF ticked THEN 1 ELSE 0)
    BY <2>1, <2>3, <2>4 DEF WalkRecent, PassedRecent
  <2>6. emptyFor[n] \in Nat
    BY <2>2 DEF ClocksRight
  <2>7. QED
    BY <1>1, <2>2, <2>5, <2>6
<1>3. QED
  BY <1>2, SeenRecent

\* Every step keeps the cached zones recent.
LEMMA NextZones ==
  ASSUME TypeInv, ClocksRight, ListingsRecent, WalkRecent, ZonesRecent, [Next]_vars
  PROVE  ZonesRecent'
<1>a. /\ ZonesInv(zoneOfDomain) /\ ClocksRight /\ ClocksRight' /\ Expiration \in Nat \ {0}
      /\ \A z \in Zones : soleFor[z] \in Nat /\ soleFor'[z] \in Nat
      /\ \A n \in Names : emptyFor[n] \in Nat /\ emptyFor'[n] \in Nat
  BY ClocksRun, AgesThere DEF TypeInv, ClocksRight
<1>b. \A d \in DOMAIN zoneOfDomain :
        /\ d \in Domains /\ zoneOfDomain[d].value \in Zones /\ zoneOfDomain[d].age \in Nat
        /\ ZoneRecent(d, zoneOfDomain[d])
        /\ Nearer(d, zoneOfDomain[d].value) \subseteq Names
  <2> SUFFICES ASSUME NEW d \in DOMAIN zoneOfDomain
               PROVE  /\ d \in Domains /\ zoneOfDomain[d].value \in Zones
                      /\ zoneOfDomain[d].age \in Nat
                      /\ ZoneRecent(d, zoneOfDomain[d])
                      /\ Nearer(d, zoneOfDomain[d].value) \subseteq Names
    OBVIOUS
  <2>1. d \in Domains /\ zoneOfDomain[d].value \in Zones /\ zoneOfDomain[d].age \in Nat
    BY <1>a DEF ZonesInv, ZoneEntries, Within, Ages
  <2>2. Nearer(d, zoneOfDomain[d].value) \subseteq Names
    BY <2>1, CandidatesShrink DEF Nearer
  <2>3. QED
    BY <2>1, <2>2 DEF ZonesRecent
<1>1. CASE Tick
  <2> SUFFICES ASSUME NEW d \in DOMAIN zoneOfDomain' PROVE ZoneRecent(d, zoneOfDomain[d])'
    BY DEF ZonesRecent
  <2>1. /\ d \in DOMAIN zoneOfDomain
        /\ zoneOfDomain'[d].value = zoneOfDomain[d].value
        /\ zoneOfDomain'[d].age = zoneOfDomain[d].age + 1
    BY <1>1, <1>a, AgedKeeps DEF Tick, ZonesInv, ZoneEntries, Aged
  <2>2. /\ \A z \in Zones : soleFor'[z] <= soleFor[z] + 1
        /\ \A n \in Names : emptyFor'[n] <= emptyFor[n] + 1
    BY <1>1, ClocksRun
  <2>3. soleFor'[zoneOfDomain'[d].value] <= zoneOfDomain'[d].age + Expiration - 1
    BY <1>a, <1>b, <2>1, <2>2 DEF ZoneRecent
  <2>4. \A n \in Nearer(d, zoneOfDomain'[d].value) : emptyFor'[n] <= zoneOfDomain'[d].age + Expiration
    BY <1>a, <1>b, <2>1, <2>2 DEF ZoneRecent
  <2>5. QED
    BY <2>3, <2>4 DEF ZoneRecent, Nearer
<1>2. ASSUME ~Tick, NEW d \in Domains, NEW entry, ZoneRecent(d, entry),
             entry.value \in Zones, entry.age \in Nat, Nearer(d, entry.value) \subseteq Names
      PROVE  /\ soleFor'[entry.value] <= entry.age + Expiration - 1
             /\ \A n \in Nearer(d, entry.value) : emptyFor'[n] <= entry.age + Expiration
  <2>1. /\ \A z \in Zones : soleFor'[z] <= soleFor[z]
        /\ \A n \in Names : emptyFor'[n] <= emptyFor[n]
    BY <1>2, ClocksRun
  <2>2. QED
    BY <1>2, <1>a, <2>1 DEF ZoneRecent
<1>3. CASE ~Tick /\ zoneOfDomain' = zoneOfDomain
  BY <1>2, <1>3, <1>b DEF ZonesRecent, ZoneRecent, Nearer
<1>4. CASE Find
  <2>1. PICK z \in Zones : /\ Listing = {z} /\ domain # NoDomain
                           /\ zoneOfDomain' = Put(zoneOfDomain, domain, z)
    BY <1>4 DEF Find, Walking
  <2>2. domain \in Domains
    BY <2>1, Standing DEF TypeInv
  <2>3. ~Tick
    BY <1>4, <2>1, <2>2, ConstantsAssumption DEF Find, Return, Tick, lookup
  <2>4. /\ DOMAIN zoneOfDomain' = DOMAIN zoneOfDomain \cup {domain}
        /\ zoneOfDomain'[domain] = [value |-> z, age |-> 0]
        /\ \A d \in DOMAIN zoneOfDomain \ {domain} : zoneOfDomain'[d] = zoneOfDomain[d]
    BY <2>1 DEF Put
  <2>5. /\ ZoneRecent(domain, [value |-> z, age |-> 0])
        /\ Nearer(domain, z) \subseteq Names
    BY <1>a, <2>1, FoundRecent DEF ZoneRecent
  <2>6. \A d \in DOMAIN zoneOfDomain' :
          /\ d \in Domains /\ zoneOfDomain'[d].value \in Zones /\ zoneOfDomain'[d].age \in Nat
          /\ ZoneRecent(d, zoneOfDomain'[d])
          /\ Nearer(d, zoneOfDomain'[d].value) \subseteq Names
    BY <1>b, <2>2, <2>4, <2>5
  <2>7. QED
    BY <1>2, <2>3, <2>6 DEF ZonesRecent, ZoneRecent, Nearer
<1>5. (Known \/ Pass \/ Ambiguous \/ ListFails \/ (\E d \in Domains : Call(d))
         \/ (\E z \in Zones, s \in Statuses : Change(z, s)) \/ UNCHANGED vars)
        => zoneOfDomain' = zoneOfDomain
  BY DEF Known, Pass, Ambiguous, Forget, ListFails, Call, Change, caches, vars
<1>6. QED
  BY <1>1, <1>3, <1>4, <1>5 DEF Next, Progress

\* Nothing is cached at first.
LEMMA InitRecent == Init => RecentInv
<1> SUFFICES ASSUME Init PROVE RecentInv
  OBVIOUS
<1>1. TypeInv
  BY InitType
<1>2. Oldest + 1 \in Nat
  BY AgesThere DEF Oldest
<1>3. ClocksRight
  BY <1>2 DEF Init, ClocksRight
<1>4. ListingsRecent /\ WalkRecent /\ ZonesRecent
  BY DEF Init, Empty, ListingsRecent, WalkRecent, ZonesRecent
<1>5. QED
  BY <1>1, <1>3, <1>4 DEF RecentInv

\* A zone is cached twice, each time for one CACHE_EXPIRATION and no hit renews an
\* entry, so that no answer is older than both together, plus the tick that may
\* fall into the walk: whatever changes at Cloudflare and whatever calls fail, an
\* answer was right not longer ago.
THEOREM AnswersAreRecent == Spec => AnswerIsRecent
<1>1. RecentInv /\ [Next]_vars => RecentInv'
  BY NextType, ClocksRun, NextListings, NextWalk, NextZones DEF RecentInv
<1>2. Spec => []RecentInv
  BY <1>1, InitRecent, PTL DEF Spec
<1>3. ASSUME RecentInv, [Next]_vars, Ends, answer' # NoZone
      PROVE  /\ soleFor[answer'] <= Oldest
             /\ \A n \in Nearer(domain, answer') : emptyFor[n] <= Oldest
  <2>a. /\ TypeInv /\ ClocksRight /\ ListingsRecent /\ WalkRecent /\ ZonesRecent
        /\ domain # NoDomain /\ domain' = NoDomain
        /\ Expiration \in Nat \ {0}
    BY <1>3, AgesThere DEF RecentInv, Ends
  <2>b. domain \in Domains
    BY <2>a, Standing DEF TypeInv
  <2>1. CASE Find
    <3>1. PICK z \in Zones : Listing = {z} /\ answer' = z
      BY <2>1 DEF Find, Return
    <3>2. /\ soleFor[z] <= Expiration - 1 /\ soleFor[z] \in Nat
          /\ \A n \in Nearer(domain, z) : emptyFor[n] <= Expiration /\ emptyFor[n] \in Nat
      BY <2>a, <3>1, FoundRecent DEF ClocksRight
    <3>3. QED
      BY <2>a, <3>1, <3>2 DEF Oldest
  <2>2. CASE Known
    <3>1. domain \in DOMAIN zoneOfDomain /\ answer' = zoneOfDomain[domain].value
      BY <2>2 DEF Known, Return
    <3>2. /\ zoneOfDomain[domain].age \in Nat /\ zoneOfDomain[domain].age <= Expiration - 1
          /\ answer' \in Zones /\ ZoneRecent(domain, zoneOfDomain[domain])
      BY <2>a, <3>1 DEF TypeInv, ZonesInv, ZoneEntries, Within, Ages, ZonesRecent
    <3>3. soleFor[answer'] \in Nat /\ \A n \in Nearer(domain, answer') : emptyFor[n] \in Nat
      BY <2>a, <2>b, <3>2, CandidatesShrink DEF ClocksRight, Nearer
    <3>4. QED
      BY <2>a, <3>1, <3>2, <3>3 DEF ZoneRecent, Oldest
  <2>3. ~Pass /\ ~Ambiguous /\ ~ListFails
    BY <1>3, <2>a DEF Pass, Ambiguous, Forget, ListFails, Return
  <2>4. ~Tick /\ ~(\E d \in Domains : Call(d)) /\ ~UNCHANGED vars
        /\ ~(\E z \in Zones, s \in Statuses : Change(z, s))
    BY <2>a DEF Tick, Call, Change, lookup, vars
  <2>5. QED
    BY <1>3, <2>1, <2>2, <2>3, <2>4 DEF Next, Progress
<1>4. RecentInv /\ [Next]_vars =>
        (Ends /\ answer' # NoZone =>
           /\ soleFor[answer'] <= Oldest
           /\ \A n \in Nearer(domain, answer') : emptyFor[n] <= Oldest)
  BY <1>3
<1>5. QED
  BY <1>2, <1>4, PTL DEF Spec, AnswerIsRecent

-----------------------------------------------------------------------------
(* Dead ends                                                               *)

Candidate(d, i) == DomainZones(d)[i]
Walked(d) == 1 .. deadEnd[d].walked

\* The domain has the zone that the candidates once walked lead to, as they are now.
ZoneRight(d, z) ==
  \E j \in Candidates(d) :
    \A i \in Walked(d) : /\ i < j => Usable(status, Candidate(d, i)) = {}
                         /\ i = j => Usable(status, Candidate(d, i)) = {z}

\* What is cached of the candidates of a dead end was fetched since. Until the next
\* lookup there is nothing of them; after it nothing that is not so now.
DeadEndInv(d) ==
  /\ deadEnd[d].settled => deadEnd[d].walked > 0
  /\ deadEnd[d].walked > 0 /\ ~deadEnd[d].settled =>
       /\ domain = NoDomain
       /\ d \notin DOMAIN zoneOfDomain
       /\ \A i \in Walked(d) : Candidate(d, i) \notin DOMAIN listZones
  /\ \A i \in Walked(d) : Candidate(d, i) \in DOMAIN listZones =>
       listZones[Candidate(d, i)].value = Usable(status, Candidate(d, i))
  /\ deadEnd[d].walked > 0 /\ d \in DOMAIN zoneOfDomain => ZoneRight(d, zoneOfDomain[d].value)
  /\ domain = d => \A i \in Walked(d) : i <= at => Usable(status, Candidate(d, i)) = {}

DeadEndsInv ==
  /\ TypeInv
  /\ deadEnd \in [Domains -> [walked : Nat, settled : BOOLEAN]]
  /\ \A d \in Domains : Walked(d) \subseteq Candidates(d) /\ DeadEndInv(d)
  /\ failures \in Nat
  /\ domain # NoDomain /\ at > 0 => domain \notin DOMAIN zoneOfDomain

\* Candidates are names, and those walked among them.
LEMMA WalkedThere ==
  ASSUME DeadEndsInv, NEW d \in Domains, NEW i \in Walked(d)
  PROVE  /\ i \in Candidates(d) /\ i \in Nat \ {0}
         /\ Candidate(d, i) \in Names
         /\ deadEnd[d].walked \in Nat /\ deadEnd[d].walked > 0
  BY CandidatesShrink DEF DeadEndsInv, Walked, Candidates, Candidate

\* Where a dead end was walked, a later walk sees the zones as they are now.
LEMMA ListingNow ==
  ASSUME DeadEndsInv, domain # NoDomain, NEW d \in Domains, NEW i \in Walked(d),
         Name = Candidate(d, i)
  PROVE  Listing = Usable(status, Name)
<1>1. CASE Name = <<>>
  <2>1. Usable(status, <<>>) = {}
    BY ConstantsAssumption DEF Usable
  <2>2. QED
    BY <1>1, <2>1 DEF Listing
<1>2. CASE Name # <<>>
  BY <1>2 DEF Listing, NeedsCall, DeadEndsInv, DeadEndInv
<1>3. QED
  BY <1>1, <1>2

\* So are the listings after it.
LEMMA ListedNow ==
  ASSUME DeadEndsInv, domain # NoDomain, NEW d \in Domains, NEW i \in Walked(d),
         Candidate(d, i) \in DOMAIN Listed
  PROVE  Listed[Candidate(d, i)].value = Usable(status, Candidate(d, i))
<1>1. CASE Candidate(d, i) = Name /\ NeedsCall
  BY <1>1, ListingNow DEF Listed, Put
<1>2. CASE Candidate(d, i) # Name \/ ~NeedsCall
  <2>1. /\ Candidate(d, i) \in DOMAIN listZones
        /\ Listed[Candidate(d, i)] = listZones[Candidate(d, i)]
    BY <1>2 DEF Listed, Put
  <2>2. QED
    BY <2>1 DEF DeadEndsInv, DeadEndInv
<1>3. QED
  BY <1>1, <1>2

\* With the zones, the dead end and what the caches still hold of it unchanged,
\* nothing about a dead end changes.
LEMMA DeadEndStays ==
  ASSUME DeadEndsInv, NEW d \in Domains,
         status' = status, deadEnd'[d].walked = deadEnd[d].walked,
         deadEnd'[d].settled \in BOOLEAN,
         deadEnd'[d].walked > 0 =>
           deadEnd'[d].settled \/ (~deadEnd[d].settled /\ domain' = NoDomain),
         deadEnd'[d].walked = 0 => ~deadEnd'[d].settled,
         \A n \in DOMAIN listZones' :
           \/ n \in DOMAIN listZones /\ listZones'[n].value = listZones[n].value
           \/ domain # NoDomain /\ n \in DOMAIN Listed /\ listZones'[n] = Listed[n],
         d \in DOMAIN zoneOfDomain' =>
           \/ d \in DOMAIN zoneOfDomain /\ zoneOfDomain'[d].value = zoneOfDomain[d].value
           \/ /\ deadEnd[d].settled \/ deadEnd[d].walked = 0
              /\ deadEnd[d].walked > 0 => ZoneRight(d, zoneOfDomain'[d].value),
         domain' = d => \/ at' = 0
                        \/ domain = d /\ at' = at
                        \/ domain = d /\ at' = at + 1 /\ Listing = {}
  PROVE  DeadEndInv(d)'
<1>a. /\ DeadEndInv(d) /\ Walked(d)' = Walked(d) /\ WalkInv
      /\ \A i \in Walked(d) : Candidate(d, i)' = Candidate(d, i)
      /\ deadEnd[d].walked \in Nat /\ deadEnd[d].settled \in BOOLEAN
  BY DEF DeadEndsInv, TypeInv, Walked, Candidate
<1>1. deadEnd'[d].settled => deadEnd'[d].walked > 0
  BY <1>a
<1>2. deadEnd'[d].walked > 0 /\ ~deadEnd'[d].settled =>
        /\ domain' = NoDomain
        /\ d \notin DOMAIN zoneOfDomain'
        /\ \A i \in Walked(d) : Candidate(d, i) \notin DOMAIN listZones'
  BY <1>a DEF DeadEndInv
<1>3. \A i \in Walked(d) : Candidate(d, i) \in DOMAIN listZones' =>
        listZones'[Candidate(d, i)].value = Usable(status, Candidate(d, i))
  BY <1>a, ListedNow DEF DeadEndInv
<1>4. deadEnd'[d].walked > 0 /\ d \in DOMAIN zoneOfDomain' => ZoneRight(d, zoneOfDomain'[d].value)
  BY <1>a DEF DeadEndInv
<1>5. ASSUME domain' = d, NEW i \in Walked(d), i <= at'
      PROVE  Usable(status, Candidate(d, i)) = {}
  <2>1. i \in Nat \ {0}
    BY WalkedThere
  <2>2. CASE at' = 0
    BY <1>5, <2>1, <2>2
  <2>3. CASE domain = d /\ i <= at
    BY <1>a, <2>3 DEF DeadEndInv
  <2>4. CASE domain = d /\ at' = at + 1 /\ Listing = {} /\ ~(i <= at)
    <3>1. d # NoDomain
      BY ConstantsAssumption
    <3>2. at \in Nat
      BY <1>a, <2>4, <3>1, Standing
    <3>3. i = at + 1
      BY <1>5, <2>1, <2>4, <3>2
    <3>4. Name = Candidate(d, i)
      BY <2>4, <3>3 DEF Name, Candidate
    <3>5. QED
      BY <2>4, <3>1, <3>4, ListingNow
  <2>5. QED
    BY <1>5, <2>2, <2>3, <2>4
<1>6. ZoneRight(d, zoneOfDomain'[d].value) => ZoneRight(d, zoneOfDomain[d].value)'
  BY <1>a DEF ZoneRight, Walked, Candidate
<1>7. QED
  BY <1>a, <1>1, <1>2, <1>3, <1>4, <1>5, <1>6 DEF DeadEndInv

\* During a walk every dead end is settled.
LEMMA SettledInWalk ==
  ASSUME DeadEndsInv, domain # NoDomain, NEW d \in Domains, deadEnd[d].walked > 0
  PROVE  deadEnd[d].settled
  BY DEF DeadEndsInv, DeadEndInv

\* A lookup that leads nowhere starts a dead end of its own and ends no other.
LEMMA ForgetDeadEnd ==
  ASSUME DeadEndsInv, Walking, Forget(at + 1), NEW d \in Domains
  PROVE  Walked(d)' \subseteq Candidates(d) /\ DeadEndInv(d)'
<1>a. /\ WalkInv /\ domain # NoDomain /\ domain \in Domains
      /\ at \in Nat /\ at + 1 \in Candidates(domain)
      /\ Len(DomainZones(domain)) \in Nat \ {0}
  BY Standing, CandidatesShrink DEF DeadEndsInv, TypeInv, Walking
<1>b. /\ listZones' = Without(Listed, Traversed(domain, at + 1))
      /\ deadEnd' = [deadEnd EXCEPT ![domain] = [walked |-> at + 1, settled |-> FALSE]]
      /\ domain' = NoDomain /\ status' = status /\ zoneOfDomain' = zoneOfDomain
  BY DEF Forget, Return
<1>c. /\ \A n \in DOMAIN listZones' : n \in DOMAIN Listed /\ listZones'[n] = Listed[n]
      /\ \A i \in 1 .. at + 1 : Candidate(domain, i) \notin DOMAIN listZones'
  BY <1>b DEF Without, Traversed, Candidate
<1>d. deadEnd \in [Domains -> [walked : Nat, settled : BOOLEAN]]
  BY DEF DeadEndsInv
<1>1. CASE d = domain
  <2>1. deadEnd'[d].walked = at + 1 /\ deadEnd'[d].settled = FALSE
    BY <1>a, <1>b, <1>d, <1>1
  <2>2. Walked(d)' = 1 .. at + 1 /\ at + 1 > 0
    BY <1>a, <2>1 DEF Walked
  <2>3. Walked(d)' \subseteq Candidates(d)
    BY <1>a, <1>1, <2>2 DEF Candidates
  <2>4. d \notin DOMAIN zoneOfDomain'
    BY <1>a, <1>b, <1>1 DEF DeadEndsInv, Walking
  <2>5. \A i \in Walked(d)' : Candidate(d, i) \notin DOMAIN listZones'
    BY <1>c, <1>1, <2>2
  <2>6. d # NoDomain
    BY <1>a, <1>1
  <2>7. QED
    BY <1>b, <2>1, <2>2, <2>3, <2>4, <2>5, <2>6 DEF DeadEndInv, Candidate
<1>2. CASE d # domain
  <2>1. deadEnd'[d] = deadEnd[d] /\ deadEnd[d] \in [walked : Nat, settled : BOOLEAN]
    BY <1>b, <1>d, <1>2
  <2>2. deadEnd[d].walked > 0 => deadEnd[d].settled
    BY <1>a, SettledInWalk
  <2>3. deadEnd[d].walked = 0 => ~deadEnd[d].settled
    BY <2>1 DEF DeadEndsInv, DeadEndInv
  <2>4. d # NoDomain
    BY ConstantsAssumption
  <2>5. DeadEndInv(d)'
    BY <1>a, <1>b, <1>c, <2>1, <2>2, <2>3, <2>4, DeadEndStays
  <2>6. QED
    BY <2>1, <2>5 DEF DeadEndsInv, Walked
<1>3. QED
  BY <1>1, <1>2

\* Every step keeps dead ends as they should be.
LEMMA NextDeadEnd ==
  ASSUME DeadEndsInv, [Next]_vars, NEW d \in Domains
  PROVE  Walked(d)' \subseteq Candidates(d) /\ DeadEndInv(d)'
<1>a. /\ TypeInv /\ WalkInv /\ d # NoDomain
      /\ deadEnd \in [Domains -> [walked : Nat, settled : BOOLEAN]]
      /\ deadEnd[d].walked \in Nat /\ deadEnd[d].settled \in BOOLEAN
      /\ DeadEndInv(d) /\ Walked(d) \subseteq Candidates(d)
      /\ deadEnd[d].walked = 0 => ~deadEnd[d].settled
  BY ConstantsAssumption DEF DeadEndsInv, TypeInv, DeadEndInv
<1>1. ASSUME deadEnd' = deadEnd PROVE Walked(d)' \subseteq Candidates(d)
  BY <1>a, <1>1 DEF Walked
<1>b. deadEnd[d].walked > 0 => deadEnd[d].settled \/ (~deadEnd[d].settled /\ domain = NoDomain)
  BY SettledInWalk
<1>2. CASE /\ deadEnd' = deadEnd /\ status' = status
           /\ listZones' = listZones /\ zoneOfDomain' = zoneOfDomain
           /\ \/ domain' = NoDomain
              \/ domain' = domain /\ at' = at
  BY <1>a, <1>b, <1>1, <1>2, DeadEndStays
<1>3. CASE Known \/ ListFails
  BY <1>2, <1>3 DEF Known, ListFails, Return, caches
<1>4. CASE Pass
  <2>1. domain # NoDomain
    BY <1>4 DEF Pass, Walking
  <2>2. CASE at + 1 < Len(DomainZones(domain))
    <3>1. /\ listZones' = Listed /\ zoneOfDomain' = zoneOfDomain /\ status' = status
          /\ domain' = domain /\ at' = at + 1 /\ deadEnd' = deadEnd /\ Listing = {}
      BY <1>4, <2>2 DEF Pass
    <3>2. QED
      BY <1>a, <1>b, <1>1, <2>1, <3>1, DeadEndStays
  <2>3. CASE ~(at + 1 < Len(DomainZones(domain)))
    BY <1>4, <2>3, ForgetDeadEnd DEF Pass
  <2>4. QED
    BY <2>2, <2>3
<1>5. CASE Find
  <2>1. PICK z \in Zones : /\ Listing = {z} /\ domain # NoDomain /\ listZones' = Listed
                           /\ zoneOfDomain' = Put(zoneOfDomain, domain, z)
                           /\ domain' = NoDomain /\ deadEnd' = deadEnd /\ status' = status
    BY <1>5 DEF Find, Walking, Return
  <2>2. ASSUME d = domain PROVE ZoneRight(d, z)
    <3>1. at \in Nat /\ at + 1 \in Candidates(d)
      BY <1>a, <2>1, <2>2, Standing
    <3>2. ASSUME NEW i \in Walked(d), i < at + 1
          PROVE  Usable(status, Candidate(d, i)) = {}
      BY <1>a, <2>2, <3>1, <3>2, WalkedThere DEF DeadEndInv
    <3>3. ASSUME NEW i \in Walked(d), i = at + 1
          PROVE  Usable(status, Candidate(d, i)) = {z}
      BY <2>1, <2>2, <3>3, ListingNow DEF Name, Candidate
    <3>4. QED
      BY <3>1, <3>2, <3>3 DEF ZoneRight
  <2>3. d \in DOMAIN zoneOfDomain' =>
          \/ d \in DOMAIN zoneOfDomain /\ zoneOfDomain'[d].value = zoneOfDomain[d].value
          \/ d = domain /\ zoneOfDomain'[d].value = z
    BY <2>1 DEF Put
  <2>4. deadEnd[d].settled \/ deadEnd[d].walked = 0
    BY <1>a, <2>1, SettledInWalk
  <2>5. DeadEndInv(d)'
    BY <1>a, <1>b, <2>1, <2>2, <2>3, <2>4, DeadEndStays
  <2>6. QED
    BY <1>1, <2>1, <2>5
<1>6. CASE Ambiguous
  BY <1>6, ForgetDeadEnd DEF Ambiguous
<1>7. CASE Tick
  <2>1. /\ deadEnd' = deadEnd /\ status' = status /\ domain' = domain /\ at' = at
        /\ listZones' = Aged(listZones) /\ zoneOfDomain' = Aged(zoneOfDomain)
    BY <1>7 DEF Tick, lookup
  <2>2. \A n \in DOMAIN listZones' : n \in DOMAIN listZones /\ listZones'[n].value = listZones[n].value
    BY <1>a, <2>1, AgedKeeps DEF TypeInv, ListingsInv, ListingEntries, Aged
  <2>3. d \in DOMAIN zoneOfDomain' =>
          d \in DOMAIN zoneOfDomain /\ zoneOfDomain'[d].value = zoneOfDomain[d].value
    BY <1>a, <2>1, AgedKeeps DEF TypeInv, ZonesInv, ZoneEntries, Aged
  <2>4. QED
    BY <1>a, <1>b, <1>1, <2>1, <2>2, <2>3, DeadEndStays
<1>8. ASSUME NEW e \in Domains, Call(e) PROVE Walked(d)' \subseteq Candidates(d) /\ DeadEndInv(d)'
  <2>1. /\ status' = status /\ listZones' = listZones /\ zoneOfDomain' = zoneOfDomain /\ at' = 0
        /\ deadEnd' = [f \in Domains |-> [deadEnd[f] EXCEPT !.settled = @ \/ deadEnd[f].walked > 0]]
    BY <1>8 DEF Call, caches
  <2>2. /\ deadEnd'[d].walked = deadEnd[d].walked
        /\ deadEnd'[d].settled = (deadEnd[d].settled \/ deadEnd[d].walked > 0)
    BY <1>a, <2>1
  <2>a. /\ deadEnd'[d].settled \in BOOLEAN
        /\ deadEnd'[d].walked > 0 => deadEnd'[d].settled
        /\ deadEnd'[d].walked = 0 => ~deadEnd'[d].settled
    <3>1. CASE deadEnd[d].walked > 0
      <4>1. deadEnd'[d].settled = TRUE
        BY <2>2, <3>1
      <4>2. QED
        BY <1>a, <2>2, <3>1, <4>1
    <3>2. CASE deadEnd[d].walked = 0
      <4>1. deadEnd'[d].settled = FALSE
        BY <1>a, <2>2, <3>2
      <4>2. QED
        BY <2>2, <3>2, <4>1
    <3>3. QED
      BY <1>a, <3>1, <3>2
  <2>b. d \in DOMAIN zoneOfDomain' =>
          d \in DOMAIN zoneOfDomain /\ zoneOfDomain'[d].value = zoneOfDomain[d].value
    BY <2>1
  <2>c. \A n \in DOMAIN listZones' : n \in DOMAIN listZones /\ listZones'[n].value = listZones[n].value
    BY <2>1
  <2>3. DeadEndInv(d)'
    BY <2>1, <2>2, <2>a, <2>b, <2>c, DeadEndStays
  <2>4. QED
    BY <1>a, <2>2, <2>3 DEF Walked
<1>9. ASSUME NEW z \in Zones, NEW s \in Statuses, Change(z, s)
      PROVE  Walked(d)' \subseteq Candidates(d) /\ DeadEndInv(d)'
  <2>1. /\ listZones' = listZones /\ zoneOfDomain' = zoneOfDomain
        /\ domain' = domain /\ at' = at
        /\ deadEnd'[d] = IF deadEnd[d].settled THEN [walked |-> 0, settled |-> FALSE] ELSE deadEnd[d]
    BY <1>9 DEF Change, caches, lookup
  <2>2. CASE deadEnd'[d].walked = 0
    <3>1. ~deadEnd'[d].settled
      BY <1>a, <2>1, <2>2
    <3>2. Walked(d)' = {}
      BY <2>2 DEF Walked
    <3>3. QED
      BY <2>2, <3>1, <3>2 DEF DeadEndInv
  <2>3. CASE deadEnd'[d].walked # 0
    <3>1. deadEnd'[d] = deadEnd[d] /\ ~deadEnd[d].settled /\ deadEnd[d].walked > 0
      BY <1>a, <2>1, <2>3
    <3>2. /\ domain = NoDomain /\ d \notin DOMAIN zoneOfDomain
          /\ \A i \in Walked(d) : Candidate(d, i) \notin DOMAIN listZones
      BY <1>a, <3>1 DEF DeadEndInv
    <3>3. Walked(d)' = Walked(d)
      BY <3>1 DEF Walked
    <3>4. QED
      BY <1>a, <2>1, <3>1, <3>2, <3>3 DEF DeadEndInv, Candidate
  <2>4. QED
    BY <2>2, <2>3
<1>10. CASE UNCHANGED vars
  BY <1>2, <1>10 DEF vars, caches, lookup
<1>11. QED
  BY <1>3, <1>4, <1>5, <1>6, <1>7, <1>8, <1>9, <1>10 DEF Next, Progress

\* There is no dead end at first.
LEMMA InitDeadEnds == Init => DeadEndsInv
<1> SUFFICES ASSUME Init PROVE DeadEndsInv
  OBVIOUS
<1>1. TypeInv
  BY InitType
<1>2. /\ deadEnd = [d \in Domains |-> [walked |-> 0, settled |-> FALSE]]
      /\ failures = 0 /\ domain = NoDomain
  BY DEF Init
<1>3. \A d \in Domains : Walked(d) = {} /\ deadEnd[d].walked = 0 /\ ~deadEnd[d].settled
  BY <1>2 DEF Walked
<1>4. \A d \in Domains : Walked(d) \subseteq Candidates(d) /\ DeadEndInv(d)
  BY <1>3 DEF DeadEndInv
<1>5. QED
  BY <1>1, <1>2, <1>4 DEF DeadEndsInv

\* What every step keeps.
LEMMA NextDeadEnds == DeadEndsInv /\ [Next]_vars => DeadEndsInv'
<1> SUFFICES ASSUME DeadEndsInv, [Next]_vars PROVE DeadEndsInv'
  OBVIOUS
<1>a. /\ TypeInv /\ failures \in Nat
      /\ deadEnd \in [Domains -> [walked : Nat, settled : BOOLEAN]]
      /\ domain # NoDomain /\ at > 0 => domain \notin DOMAIN zoneOfDomain
      /\ domain # NoDomain => domain \in Domains /\ at \in Nat
  BY Standing DEF DeadEndsInv, TypeInv
<1>1. TypeInv'
  BY <1>a, NextType
<1>2. \A d \in Domains : Walked(d)' \subseteq Candidates(d) /\ DeadEndInv(d)'
  BY NextDeadEnd
<1>3. failures' \in Nat
  BY <1>a DEF Next, Progress, Known, Pass, Find, Ambiguous, Forget, ListFails, Tick, Call, Change, vars
<1>4. deadEnd' \in [Domains -> [walked : Nat, settled : BOOLEAN]]
  <2>1. CASE \E d \in Domains : Call(d)
    <3>1. deadEnd' = [e \in Domains |-> [deadEnd[e] EXCEPT !.settled = @ \/ deadEnd[e].walked > 0]]
      BY <2>1 DEF Call
    <3>2. ASSUME NEW e \in Domains
          PROVE  deadEnd'[e] \in [walked : Nat, settled : BOOLEAN]
      <4>1. deadEnd[e] \in [walked : Nat, settled : BOOLEAN]
        BY <1>a
      <4>2. (deadEnd[e].settled \/ deadEnd[e].walked > 0) \in BOOLEAN
        BY ZenonT(10)
      <4>3. deadEnd'[e] = [deadEnd[e] EXCEPT !.settled = deadEnd[e].settled \/ deadEnd[e].walked > 0]
        BY <3>1
      <4>4. QED
        BY <4>1, <4>2, <4>3
    <3>3. QED
      BY <3>1, <3>2
  <2>2. CASE \E z \in Zones, s \in Statuses : Change(z, s)
    BY <1>a, <2>2 DEF Change
  <2>3. CASE Pass \/ Ambiguous
    <3>1. deadEnd' = deadEnd \/ deadEnd' = [deadEnd EXCEPT ![domain] = [walked |-> at + 1, settled |-> FALSE]]
      BY <2>3 DEF Pass, Ambiguous, Forget
    <3>2. domain # NoDomain
      BY <2>3 DEF Pass, Ambiguous, Walking
    <3>3. [walked |-> at + 1, settled |-> FALSE] \in [walked : Nat, settled : BOOLEAN]
      BY <1>a, <3>2
    <3>4. CASE deadEnd' = deadEnd
      BY <1>a, <3>4
    <3>5. CASE deadEnd' = [deadEnd EXCEPT ![domain] = [walked |-> at + 1, settled |-> FALSE]]
      BY <1>a, <3>3, <3>5
    <3>6. QED
      BY <3>1, <3>4, <3>5
  <2>4. (Known \/ Find \/ ListFails \/ Tick \/ UNCHANGED vars) => deadEnd' = deadEnd
    BY DEF Known, Find, ListFails, Tick, vars
  <2>5. QED
    BY <1>a, <2>1, <2>2, <2>3, <2>4 DEF Next, Progress
<1>5. ASSUME domain' # NoDomain, at' > 0 PROVE domain' \notin DOMAIN zoneOfDomain'
  <2>1. CASE Pass
    <3>1. /\ domain' = domain /\ zoneOfDomain' = zoneOfDomain /\ domain # NoDomain
          /\ at = 0 => domain \notin DOMAIN zoneOfDomain
      BY <1>5, <2>1 DEF Pass, Forget, Return, Walking
    <3>2. QED
      BY <1>a, <3>1
  <2>2. CASE domain' = domain /\ at' = at /\ DOMAIN zoneOfDomain' \subseteq DOMAIN zoneOfDomain
    BY <1>5, <1>a, <2>2
  <2>3. ~Known /\ ~Find /\ ~Ambiguous /\ ~ListFails /\ ~(\E d \in Domains : Call(d))
    BY <1>5 DEF Known, Find, Ambiguous, Forget, ListFails, Return, Call
  <2>4. (Tick \/ (\E z \in Zones, s \in Statuses : Change(z, s)) \/ UNCHANGED vars) =>
          domain' = domain /\ at' = at /\ DOMAIN zoneOfDomain' \subseteq DOMAIN zoneOfDomain
    BY DEF Tick, Change, vars, lookup, caches, Aged
  <2>5. QED
    BY <2>1, <2>2, <2>3, <2>4 DEF Next, Progress
<1>6. QED
  BY <1>1, <1>2, <1>3, <1>4, <1>5 DEF DeadEndsInv

\* A lookup that ends without a failed call returned what its candidates say.
LEMMA HowItEnds ==
  ASSUME [Next]_vars, Ends, failures \in Nat, failures' = failures
  PROVE  \/ domain \in DOMAIN zoneOfDomain /\ answer' = zoneOfDomain[domain].value
         \/ \E z \in Zones : Listing = {z} /\ answer' = z
         \/ Listing = {} /\ ~(at + 1 < Len(DomainZones(domain)))
         \/ Cardinality(Listing) > 1 /\ answer' = NoZone
<1>1. Known => domain \in DOMAIN zoneOfDomain /\ answer' = zoneOfDomain[domain].value
  BY DEF Known, Return
<1>2. Find => \E z \in Zones : Listing = {z} /\ answer' = z
  BY DEF Find, Return
<1>3. Pass => Listing = {} /\ ~(at + 1 < Len(DomainZones(domain)))
  BY DEF Pass, Ends
<1>4. Ambiguous => Cardinality(Listing) > 1 /\ answer' = NoZone
  BY DEF Ambiguous, Forget, Return
<1>5. ~ListFails
  BY DEF ListFails
<1>6. ~Tick /\ ~UNCHANGED vars /\ ~(\E z \in Zones, s \in Statuses : Change(z, s))
  BY DEF Ends, Tick, vars, lookup, Change
<1>7. ~(\E d \in Domains : Call(d))
  BY DEF Ends, Call
<1>8. QED
  BY <1>1, <1>2, <1>3, <1>4, <1>5, <1>6, <1>7 DEF Next, Progress

\* When a candidate of the dead end is the first one in use, the lookup gets to it
\* and returns what is there.
LEMMA AnswerAfterDeadEnd ==
  ASSUME DeadEndsInv, [Next]_vars, Ends, failures' = failures, deadEnd[domain].settled,
         NEW i \in Walked(domain),
         Usable(status, Candidate(domain, i)) # {},
         \A k \in 1 .. i - 1 : Usable(status, Candidate(domain, k)) = {}
  PROVE  answer' = IF Cardinality(Usable(status, Candidate(domain, i))) > 1 THEN NoZone
                   ELSE CHOOSE z \in Usable(status, Candidate(domain, i)) : TRUE
<1> DEFINE now == Usable(status, Candidate(domain, i))
<1>a. /\ domain # NoDomain /\ domain \in Domains /\ DeadEndInv(domain)
      /\ at \in Nat /\ at + 1 \in Candidates(domain)
      /\ Name = Candidate(domain, at + 1)
  BY Standing DEF DeadEndsInv, TypeInv, Ends, Name, Candidate
<1>b. /\ i \in Candidates(domain) /\ i \in Nat \ {0} /\ deadEnd[domain].walked \in Nat
      /\ deadEnd[domain].walked > 0
      /\ Len(DomainZones(domain)) \in Nat
  BY <1>a, WalkedThere, CandidatesShrink
<1>1. ~(i <= at)
  BY <1>a, <1>b DEF DeadEndInv
<1>2. at + 1 \in Walked(domain) /\ Listing = Usable(status, Name)
  <2>1. at + 1 \in Walked(domain)
    BY <1>a, <1>b, <1>1 DEF Walked
  <2>2. QED
    BY <1>a, <2>1, ListingNow
<1>3. i = at + 1 \/ (at + 1 \in 1 .. i - 1)
  BY <1>a, <1>b, <1>1
<1>4. i # at + 1 => Listing = {}
  BY <1>a, <1>2, <1>3
<1>5. i = at + 1 => Listing = now
  BY <1>a, <1>2
<1>6. ASSUME NEW z, now = {z}, answer' = z
      PROVE  answer' = IF Cardinality(now) > 1 THEN NoZone ELSE CHOOSE y \in now : TRUE
  <2>1. Cardinality(now) = 1
    BY <1>6, FS_Singleton
  <2>2. (CHOOSE y \in now : TRUE) = z
    BY <1>6
  <2>3. QED
    BY <1>6, <2>1, <2>2
<1> HIDE DEF now
<1>7. CASE domain \in DOMAIN zoneOfDomain /\ answer' = zoneOfDomain[domain].value
  <2>1. PICK j \in Candidates(domain) :
          \A k \in Walked(domain) :
            /\ k < j => Usable(status, Candidate(domain, k)) = {}
            /\ k = j => Usable(status, Candidate(domain, k)) = {answer'}
    BY <1>a, <1>b, <1>7 DEF DeadEndInv, ZoneRight
  <2>2. j \in Nat \ {0}
    BY <1>b DEF Candidates
  <2>3. ~(i < j)
    BY <2>1
  <2>4. ASSUME j < i PROVE FALSE
    <3>1. j \in Walked(domain) /\ j \in 1 .. i - 1
      BY <1>b, <2>2, <2>4 DEF Walked
    <3>2. QED
      BY <2>1, <3>1
  <2>5. i = j
    BY <1>b, <2>2, <2>3, <2>4
  <2>6. now = {answer'}
    BY <2>1, <2>5 DEF now
  <2>7. QED
    BY <1>6, <2>6 DEF now
<1>8. CASE \E z \in Zones : Listing = {z} /\ answer' = z
  BY <1>4, <1>5, <1>6, <1>8 DEF now
<1>9. CASE Listing = {} /\ ~(at + 1 < Len(DomainZones(domain)))
  <2>1. i = at + 1
    BY <1>a, <1>b, <1>1, <1>9 DEF Candidates
  <2>2. QED
    BY <1>5, <1>9, <2>1 DEF now
<1>10. CASE Cardinality(Listing) > 1 /\ answer' = NoZone
  <2>1. Listing # {}
    BY <1>10, FS_EmptySet
  <2>2. QED
    BY <1>4, <1>5, <1>10, <2>1 DEF now
<1>11. QED
  BY <1>7, <1>8, <1>9, <1>10, HowItEnds DEF DeadEndsInv

\* A lookup that led nowhere leaves nothing behind that misleads the later ones.
THEOREM RetriesRight == Spec => RetriesAfterDeadEnd
<1>1. DeadEndsInv /\ [Next]_vars =>
        (Ends /\ failures' = failures /\ deadEnd[domain].settled =>
         \A i \in 1..deadEnd[domain].walked :
            LET now == Usable(status, DomainZones(domain)[i])
            IN  /\ now # {}
                /\ \A n \in Traversed(domain, i - 1) : Usable(status, n) = {}
                => answer' = IF Cardinality(now) > 1 THEN NoZone
                             ELSE CHOOSE z \in now : TRUE)
  <2> SUFFICES ASSUME DeadEndsInv, [Next]_vars,
                      Ends, failures' = failures, deadEnd[domain].settled,
                      NEW i \in 1..deadEnd[domain].walked,
                      Usable(status, DomainZones(domain)[i]) # {},
                      \A n \in Traversed(domain, i - 1) : Usable(status, n) = {}
               PROVE  answer' = IF Cardinality(Usable(status, DomainZones(domain)[i])) > 1
                                THEN NoZone
                                ELSE CHOOSE z \in Usable(status, DomainZones(domain)[i]) : TRUE
    OBVIOUS
  <2>1. i \in Walked(domain)
    BY DEF Walked
  <2>2. \A k \in 1 .. i - 1 : Usable(status, Candidate(domain, k)) = {}
    BY DEF Traversed, Candidate
  <2>3. QED
    BY <2>1, <2>2, AnswerAfterDeadEnd DEF Candidate
<1>2. QED
  BY <1>1, InitDeadEnds, NextDeadEnds, PTL DEF Spec, RetriesAfterDeadEnd
=============================================================================
