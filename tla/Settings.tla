------------------------------- MODULE Settings -------------------------------
(***************************************************************************)
(* The settings of the updater, edited one after the other, and what an    *)
(* operator may rely on when a configuration is accepted. Nothing else     *)
(* happens here: the steps only lead to every configuration up to a size.  *)
(***************************************************************************)
EXTENDS Configuration, FiniteSets
LOCAL INSTANCE Integers
LOCAL INSTANCE Sequences

CONSTANTS
  Edits,       \* the settings with their values, as pairs
  NewEntries,  \* the entries that may be added to a list of domains, as pairs
  MaxEdits     \* bound on how many settings and entries differ from the defaults

ProviderSettings == {ProviderOf[f] : f \in IDs!Families}

\* Static prefixes are known before the first round, and nothing of the others is.
IsProvider(p) ==
  \/ p \in {NoProvider, Detecting}
  \/ p = Static(p.entries) /\ p.entries \subseteq IDs!RawEntries("IP6")

ASSUME SettingsAssumption ==
  /\ \A e \in Edits : /\ e[1] \in DOMAIN DefaultRaw
                      /\ e[1] \in ProviderSettings => IsProvider(e[2])
  /\ \A e \in NewEntries : e[1] \in {"DOMAINS", "IP4_DOMAINS", "IP6_DOMAINS"}
  /\ MaxEdits \in Nat

VARIABLES
  raw,   \* the settings
  edits  \* how many of them were edited

NoEdit == raw = DefaultRaw /\ edits = 0

Edit ==
  /\ edits < MaxEdits
  /\ \E e \in Edits : /\ raw[e[1]] = DefaultRaw[e[1]] /\ e[2] # DefaultRaw[e[1]]
                      /\ raw' = [raw EXCEPT ![e[1]] = e[2]]
  /\ edits' = edits + 1

AddEntry ==
  /\ edits < MaxEdits
  /\ \E e \in NewEntries : raw' = [raw EXCEPT ![e[1]] = Append(@, e[2])]
  /\ edits' = edits + 1

EditsSpec == NoEdit /\ [][Edit \/ AddEntry]_<<raw, edits>>

-----------------------------------------------------------------------------
(* What a configuration comes to. *)
\* What the updater can keep: there is a family to update and every one has something
\* to do; a round will come, and detection can matter to what is left; every domain to
\* update is proxied or not; every IPv6 domain has the host IDs that each opinion on it
\* asks for, and they fit fixed prefixes; what is written is under its own selector;
\* and a whole list is only deleted where all its items are managed.
Ready(c) ==
  /\ DOMAIN c.provider # {} /\ DOMAIN c.detectionFilter = DOMAIN c.provider
  /\ \A f \in DOMAIN c.provider :
       /\ c.provider[f] # NoProvider
       /\ c.domains[f] # {} \/ c.wafLists # {}
       /\ c.domains[f] \subseteq DOMAIN c.proxied
  /\ c.updateCron = "@once" =>
       /\ c.updateOnStart
       /\ c.deleteOnStop => \A f \in DOMAIN c.provider : c.provider[f] = Static({})
  /\ "IP6" \in DOMAIN c.provider =>
       /\ DOMAIN c.hostID6 = c.domains["IP6"]
       /\ \A e \in EntriesIn(raw, HostID6Settings) : OpinionsOf(e) \subseteq {c.hostID6[e.domain]}
       /\ \A d \in DOMAIN c.hostID6 : c.hostID6[d] # {}
       /\ \A d \in DOMAIN c.hostID6, e \in c.provider["IP6"].entries :
            \A v \in c.hostID6[d] : IDs!Compatible(e, v)
  /\ DOMAIN c.proxied # {} => MatchString(c.managedRecords, c.recordComment)
  /\ c.wafLists # {} => /\ MatchString(c.managedWAFListItems, c.wafListItemComment)
                        /\ c.allowWholeWAFListDeleteOnShutdown
                             => MatchString(c.managedWAFListItems, "any comment")

\* BuildConfig accepts a configuration only if the updater can keep it.
AcceptedIsReady ==
  \A build \in {BuildConfig(raw)} : build.ok => \A c \in {build.value} : Ready(c)

\* What the updater does with a configuration depends on this part of it.
Effective(c) ==
  LET families == DOMAIN c.provider
      usesRecords == DOMAIN c.proxied # {}
  IN  [provider |-> c.provider, detectionFilter |-> c.detectionFilter,
       prefixLen |-> [f \in families |-> c.defaultPrefixLen[f]],
       domains |-> [f \in families |-> c.domains[f]],
       hostID6 |-> c.hostID6, wafLists |-> c.wafLists,
       records |-> IF usesRecords
                   THEN <<c.ttl, c.proxied, c.recordComment, c.managedRecords>> ELSE <<>>,
       items |-> IF c.wafLists = {} THEN <<>>
                 ELSE <<c.wafListDescription, c.wafListItemComment, c.managedWAFListItems,
                        c.allowWholeWAFListDeleteOnShutdown>>,
       lifecycle |-> <<c.updateCron, c.updateOnStart, c.deleteOnStop>>]

\* The setting without a say: an absent provider, and the default of the others.
Without(setting) ==
  [raw EXCEPT ![setting] = IF setting \in {"IP4_PROVIDER", "IP6_PROVIDER"}
                           THEN NoProvider ELSE DefaultRaw[setting]]

Optional == DOMAIN DefaultRaw
              \ {"DOMAINS", "IP4_DOMAINS", "IP6_DOMAINS", "WAF_LISTS"}

SameEffect(build, without) == without.ok /\ Effective(without.value) = Effective(build.value)

\* The warnings that say of this domain that something of IPv6 is ignored.
Shadows(warnings, d) ==
  {w \in warnings : /\ w.kind \in {"listing", "hostid6"}
                    /\ w.kind = "listing" => w.family = "IP6"
                    /\ d \in w.domains}

\* A setting is said to be ignored exactly if the updater would do the same without
\* it (PROXIED is not said to be when it is merely of no consequence).
CallsWhatIsInert(build) ==
  \A s \in Optional :
    \/ Ignored(s) \notin build.warnings /\ (s = "PROXIED" \/ raw[s] = Without(s)[s])
    \/ /\ raw[s] # Without(s)[s]
       /\ Ignored(s) \in build.warnings <=> SameEffect(build, BuildConfig(Without(s)))

\* If IPv6 is disabled, every domain that IP6_DOMAINS lists or that has host IDs is
\* named in exactly one warning, and no domain otherwise.
IsShadowed(build, d) ==
  /\ "IP6" \notin DOMAIN build.value.provider
  /\ d \in ProjectDomains(raw, {"IP6_DOMAINS"}) \cup ExplicitHostID6(raw)

CallsWhatIsShadowed(build) ==
  \A d \in ByFamily(raw)["IP6"] :
    Cardinality(Shadows(build.warnings, d)) = IF IsShadowed(build, d) THEN 1 ELSE 0

\* Of a configuration that BuildConfig accepts, nothing is ignored in silence, and
\* nothing is called ignored that matters.
IgnoredIsInert ==
  \A build \in {BuildConfig(raw)} :
    build.ok => CallsWhatIsInert(build) /\ CallsWhatIsShadowed(build)
===============================================================================
