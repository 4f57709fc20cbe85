---------------------------- MODULE MCUpdaterRound ----------------------------
(***************************************************************************)
(* A small instance of UpdaterRound for TLC: one domain for both families  *)
(* and one for IPv6 only, one WAF list.                                    *)
(***************************************************************************)
EXTENDS UpdaterRound

MCUnroutable == [IP4 |-> {0, 15}, IP6 |-> {0, 1}]
MCDomains == [IP4 |-> <<"both">>, IP6 |-> <<"both", "six">>]
MCWAFLists == <<"list">>

Seen(f, a, n) == [fam |-> f, addr |-> a, len |-> n]

\* Two IPv4 addresses, one of which a filter may drop; one in IPv6 disguise; one
\* that is not routable.
MCSightings4 ==
  {{}, {Seen("IP4", 5, 4)}, {Seen("IP4", 5, 4), Seen("IP4", 9, 2)},
   {Seen("IP6", 48 + 9, 16)}, {Seen("IP4", 5, 4), Seen("IP4", 15, 4)}}

\* An IPv6 address in a /64, with all bits of the prefix set; another in a longer
\* prefix; a disguised IPv4 address.
MCSightings6 ==
  {{}, {Seen("IP6", 65534, 8)}, {Seen("IP6", 65534, 8), Seen("IP6", 4106, 12)},
   {Seen("IP6", 48 + 9, 16)}}
MCSightings == [IP4 |-> MCSightings4, IP6 |-> MCSightings6]

MCPolicies ==
  {[d \in {"both", "six"} |-> IF d = "both" THEN {Preserve} ELSE vs] :
     vs \in {{Literal(5)}, {MAC(9)}, {Preserve, Literal(258)}}}
MCFilters == {[IP4 |-> Addrs("IP4"), IP6 |-> Addrs("IP6")], [IP4 |-> {9}, IP6 |-> {4106}]}
MCConfigurations ==
  [providers : {Families, {"IP4"}, {"IP6"}}, kept : MCFilters, policies : MCPolicies]

MCOldRecords == [IP4 |-> {{5}}, IP6 |-> {{65534}}]
MCOldItems ==
  [IP4 |-> {{}, {[addr |-> 4, len |-> 2]}}, IP6 |-> {{[addr |-> 65280, len |-> 8]}}]
===============================================================================
