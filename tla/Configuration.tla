----------------------------- MODULE Configuration -----------------------------
(***************************************************************************)
(* From the settings to what the updater runs with (internal/config).  A   *)
(* raw configuration has a value for every setting, by its name; building  *)
(* it either refuses it or gives the configuration of the updater with the *)
(* warnings. The warnings of a configuration that is refused are left out. *)
(***************************************************************************)
LOCAL INSTANCE Integers
LOCAL INSTANCE FiniteSetsExt

CONSTANTS
  Unroutable,            \* per family, the addresses that are no global unicast addresses
  HostIDs,               \* the host IDs that the texts of a hostid6 field stand for
  ParseProxied(_),       \* domainexp.ParseExpression: the expression that PROXIED is
  EvaluateProxied(_, _)  \* domainexp.Evaluate: what it says of a domain

IDs == INSTANCE HostID6

ASSUME HostIDsAssumption ==
  /\ \A t \in DOMAIN HostIDs : IDs!Derivation(HostIDs[t])
  /\ HostIDs["preserve"] = IDs!Preserve

NoProvider == [kind |-> "none", entries |-> {}]
Detecting == [kind |-> "detecting", entries |-> {}]
Static(entries) == [kind |-> "static", entries |-> entries]
IsExplicitEmpty(provider) == provider = Static({})

\* The settings that the checks of a configuration look at, with their defaults.
DefaultRaw ==
    [IP4_PROVIDER |-> Detecting, IP6_PROVIDER |-> Detecting,
     IP4_DETECTION_FILTER |-> "keep-all", IP6_DETECTION_FILTER |-> "keep-all",
     IP4_DEFAULT_PREFIX_LEN |-> 32, IP6_DEFAULT_PREFIX_LEN |-> 64,
     DOMAINS |-> <<>>, IP4_DOMAINS |-> <<>>, IP6_DOMAINS |-> <<>>, WAF_LISTS |-> {},
     UPDATE_CRON |-> "@every 5m", UPDATE_ON_START |-> TRUE, DELETE_ON_STOP |-> FALSE,
     TTL |-> "auto", PROXIED |-> <<[kind |-> "atom", text |-> "false"]>>,
     RECORD_COMMENT |-> "", MANAGED_RECORDS_COMMENT_REGEX |-> "",
     WAF_LIST_DESCRIPTION |-> "", WAF_LIST_ITEM_COMMENT |-> "",
     MANAGED_WAF_LIST_ITEMS_COMMENT_REGEX |-> ""]

ProviderOf == [IP4 |-> "IP4_PROVIDER", IP6 |-> "IP6_PROVIDER"]
FilterOf == [IP4 |-> "IP4_DETECTION_FILTER", IP6 |-> "IP6_DETECTION_FILTER"]
PrefixLenOf == [IP4 |-> "IP4_DEFAULT_PREFIX_LEN", IP6 |-> "IP6_DEFAULT_PREFIX_LEN"]
DomainsOf == [IP4 |-> "IP4_DOMAINS", IP6 |-> "IP6_DOMAINS"]

\* Regular expressions: the empty one matches everything, another one the text it
\* is, and one does not compile.
Compiles(regex) == regex # "("
MatchString(regex, text) == regex = "" \/ regex = text

Refused(cause) == [ok |-> FALSE, cause |-> cause]

-----------------------------------------------------------------------------
(* Domains and their host IDs: normalizeDomains. *)

EntriesIn(raw, settings) == UNION {{raw[s][i] : i \in DOMAIN raw[s]} : s \in settings}
ProjectDomains(raw, settings) == {e.domain : e \in EntriesIn(raw, settings)}

ByFamily(raw) == [f \in IDs!Families |-> ProjectDomains(raw, {DomainsOf[f], "DOMAINS"})]

SetOf(opinion) == {HostIDs[t] : t \in opinion}
OpinionsOf(entry) == {SetOf(entry.opinions[j]) : j \in DOMAIN entry.opinions}

\* The settings that may give host IDs, and those that they give to a domain.
HostID6Settings == {"DOMAINS", "IP6_DOMAINS"}
OpinionsOn(raw, settings, d) ==
    UNION {OpinionsOf(e) : e \in {x \in EntriesIn(raw, settings) : x.domain = d}}

\* There are host IDs in an opinion, and the first on a domain is like all others.
Agree(opinions) == \A s, t \in opinions : s # {} /\ s = t

\* Mutation of the next: the opinions of one setting are forgotten in the other.
OpinionsMergeApart(raw) ==
    \A d \in ByFamily(raw)["IP6"] : \A s \in HostID6Settings : Agree(OpinionsOn(raw, {s}, d))

\* mergeHostID6Opinions: whether all opinions can be had.
OpinionsMerge(raw) ==
    \A d \in ByFamily(raw)["IP6"] : Agree(OpinionsOn(raw, HostID6Settings, d))

ExplicitHostID6(raw) ==
    {d \in ByFamily(raw)["IP6"] : OpinionsOn(raw, HostID6Settings, d) # {}}

HostID6(raw) ==
    [d \in ByFamily(raw)["IP6"] |-> IF d \in ExplicitHostID6(raw)
                                   THEN CHOOSE s \in OpinionsOn(raw, HostID6Settings, d) : TRUE
                                   ELSE {IDs!Preserve}]

-----------------------------------------------------------------------------
(* The checks of BuildConfig. *)

\* A provider that nothing uses is taken for none.
IsUsed(raw, f) == ByFamily(raw)[f] # {} \/ raw.WAF_LISTS # {}
Managed(raw) == {f \in IDs!Families : raw[ProviderOf[f]] # NoProvider /\ IsUsed(raw, f)}
ActiveDomains(raw) == UNION {ByFamily(raw)[f] : f \in Managed(raw)}

\* The families whose detection can find nothing.
IsOff(raw, f) == f \in Managed(raw) => IsExplicitEmpty(raw[ProviderOf[f]])

\* validateStaticIP6HostIDCompatibility
StaticIP6Compatible(raw) ==
    "IP6" \in Managed(raw) /\ raw.IP6_PROVIDER.kind = "static"
      => IDs!DeriveDomains(HostID6(raw), raw.IP6_PROVIDER.entries,
                           ByFamily(raw)["IP6"]).problems = {}

\* A selector that is used must compile and match what is written under it.
SelectorFails(used, regex, comment) ==
    used /\ (Compiles(regex) => ~MatchString(regex, comment))

\* The reasons to refuse a configuration, in the order of the checks.
Failures(raw) ==
    LET once == raw.UPDATE_CRON = "@once"
        usesRecords == ActiveDomains(raw) # {}
    IN  <<<<~OpinionsMerge(raw), "conflicting host IDs">>,
          <<\A f \in IDs!Families : ~IsUsed(raw, f), "nothing specified">>,
          <<once /\ ~raw.UPDATE_ON_START, "never updates">>,
          <<Managed(raw) = {}, "nothing to update">>,
          <<~StaticIP6Compatible(raw), "incompatible host IDs">>,
          <<once /\ raw.DELETE_ON_STOP /\ \E f \in IDs!Families : ~IsOff(raw, f),
            "useless detection">>,
          <<usesRecords /\ ~ParseProxied(raw.PROXIED).ok, "PROXIED">>,
          <<SelectorFails(usesRecords, raw.MANAGED_RECORDS_COMMENT_REGEX, raw.RECORD_COMMENT),
            "MANAGED_RECORDS_COMMENT_REGEX">>,
          <<SelectorFails(raw.WAF_LISTS # {}, raw.MANAGED_WAF_LIST_ITEMS_COMMENT_REGEX,
                          raw.WAF_LIST_ITEM_COMMENT),
            "MANAGED_WAF_LIST_ITEMS_COMMENT_REGEX">>>>

-----------------------------------------------------------------------------
(* Warnings. *)

Ignored(setting) == [kind |-> "ignored", setting |-> setting]
IgnoredListing(family, domains) == [kind |-> "listing", family |-> family, domains |-> domains]
IgnoredHostID6(set, domains) == [kind |-> "hostid6", set |-> set, domains |-> domains]
SuspiciousMAC(mac, domains) == [kind |-> "MAC", mac |-> mac, domains |-> domains]
NotIsolated(setting) == [kind |-> "not isolated", setting |-> setting]
CleanUpOnly(families) == [kind |-> "clean-up only", families |-> families]

RecordSettings == {"TTL", "PROXIED", "RECORD_COMMENT", "MANAGED_RECORDS_COMMENT_REGEX"}
WAFSettings == {"WAF_LIST_DESCRIPTION", "WAF_LIST_ITEM_COMMENT",
                "MANAGED_WAF_LIST_ITEMS_COMMENT_REGEX"}

IgnoredSettings(raw) ==
    {ProviderOf[f] : f \in {g \in IDs!Families : raw[ProviderOf[g]] # NoProvider
                                                 /\ ~IsUsed(raw, g)}}
    \cup {s \in (IF ActiveDomains(raw) = {} THEN RecordSettings ELSE {})
                \cup (IF raw.WAF_LISTS = {} THEN WAFSettings ELSE {})
                \cup UNION {{FilterOf[f], PrefixLenOf[f]} : f \in IDs!Families \ Managed(raw)} :
            raw[s] # DefaultRaw[s]}

\* Mutation of the next: a listing does not stand for its host IDs.
UnlistedHostID6Every(raw) == ExplicitHostID6(raw)

\* The host IDs whose domains no listing in IP6_DOMAINS speaks for.
UnlistedHostID6(raw) == ExplicitHostID6(raw) \ ProjectDomains(raw, {"IP6_DOMAINS"})

\* warnShadowedFamilyIntents: what is said of a family only, and disabled with it.
ShadowedFamilyIntents(raw) ==
    {IgnoredListing(f, ProjectDomains(raw, {DomainsOf[f]})) :
        f \in {g \in IDs!Families \ Managed(raw) : ProjectDomains(raw, {DomainsOf[g]}) # {}}}
    \cup (IF "IP6" \in Managed(raw) THEN {}
          ELSE {IgnoredHostID6(HostID6(raw)[d],
                               {e \in UnlistedHostID6(raw) : HostID6(raw)[e] = HostID6(raw)[d]}) :
                  d \in UnlistedHostID6(raw)})

\* warnSuspiciousMACs: no address, everyone's, or a group's. An octet is 0 or ff.
SuspiciousMACs(raw) ==
    LET UsersOf(mac) == {d \in DOMAIN HostID6(raw) : IDs!MAC(mac) \in HostID6(raw)[d]}
    IN  IF "IP6" \in Managed(raw) /\ ExplicitHostID6(raw) # {}
        THEN {SuspiciousMAC(mac, UsersOf(mac)) :
                mac \in {m \in IDs!MACAddrs : (m = 0 \/ m \div 32 = 1) /\ UsersOf(m) # {}}}
        ELSE {}

\* One side says what is its own, the other only marks what it writes.
OwnershipGaps(raw) ==
    IF ActiveDomains(raw) = {} \/ raw.WAF_LISTS = {} THEN {}
    ELSE {NotIsolated(s) :
            s \in {t \in {"MANAGED_RECORDS_COMMENT_REGEX", "MANAGED_WAF_LIST_ITEMS_COMMENT_REGEX"} :
                     LET dns == t = "MANAGED_RECORDS_COMMENT_REGEX"
                     IN  /\ raw[t] = ""
                         /\ raw[IF dns THEN "RECORD_COMMENT" ELSE "WAF_LIST_ITEM_COMMENT"] # ""
                         /\ raw[IF dns THEN "MANAGED_WAF_LIST_ITEMS_COMMENT_REGEX"
                                       ELSE "MANAGED_RECORDS_COMMENT_REGEX"] # ""}}

Warnings(raw) ==
    {Ignored(s) : s \in IgnoredSettings(raw)}
    \cup ShadowedFamilyIntents(raw) \cup SuspiciousMACs(raw) \cup OwnershipGaps(raw)
    \cup (IF \A f \in IDs!Families : IsOff(raw, f) THEN {CleanUpOnly(Managed(raw))} ELSE {})

-----------------------------------------------------------------------------
(* The configuration that is built. *)

HostID6Policies(raw) == IF "IP6" \in Managed(raw) THEN HostID6(raw) ELSE [d \in {} |-> {}]

BuiltConfig(raw) ==
    [provider |-> [f \in Managed(raw) |-> raw[ProviderOf[f]]],
     detectionFilter |-> [f \in Managed(raw) |-> raw[FilterOf[f]]],
     defaultPrefixLen |-> [f \in IDs!Families |-> raw[PrefixLenOf[f]]],
     domains |-> ByFamily(raw),
     hostID6 |-> HostID6Policies(raw),
     wafLists |-> raw.WAF_LISTS,
     ttl |-> raw.TTL,
     proxied |-> [d \in ActiveDomains(raw) |-> EvaluateProxied(ParseProxied(raw.PROXIED).value, d)],
     recordComment |-> raw.RECORD_COMMENT,
     managedRecords |-> IF ActiveDomains(raw) = {} THEN "" ELSE raw.MANAGED_RECORDS_COMMENT_REGEX,
     wafListDescription |-> raw.WAF_LIST_DESCRIPTION,
     wafListItemComment |-> raw.WAF_LIST_ITEM_COMMENT,
     managedWAFListItems |->
       IF raw.WAF_LISTS = {} THEN "" ELSE raw.MANAGED_WAF_LIST_ITEMS_COMMENT_REGEX,
     allowWholeWAFListDeleteOnShutdown |->
       raw.WAF_LISTS = {} \/ raw.MANAGED_WAF_LIST_ITEMS_COMMENT_REGEX = "",
     updateCron |-> raw.UPDATE_CRON,
     updateOnStart |-> raw.UPDATE_ON_START,
     deleteOnStop |-> raw.DELETE_ON_STOP]

\* The first check that fails refuses the configuration.
BuildConfig(raw) ==
    LET failures == Failures(raw)
        failed == {i \in DOMAIN failures : failures[i][1]}
    IN  IF failed # {} THEN Refused(failures[Min(failed)][2])
        ELSE [ok |-> TRUE, value |-> BuiltConfig(raw), warnings |-> Warnings(raw)]
===============================================================================
