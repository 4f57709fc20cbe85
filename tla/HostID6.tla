-------------------------------- MODULE HostID6 --------------------------------
(***************************************************************************)
(* Which IPv6 addresses a domain is to have, given the detected entries    *)
(* and the domain's host-ID policy (internal/hostid6): a set of            *)
(* derivations, each of which keeps the host bits, replaces them by those  *)
(* of a literal, or by the Modified EUI-64 identifier of a MAC address.    *)
(* One bit stands for one octet, as in IPNet.                              *)
(***************************************************************************)
EXTENDS IPNet

Preserve == [kind |-> "preserve"]
Literal(a) == [kind |-> "literal", literal |-> a]
MAC(mac) == [kind |-> "mac", mac |-> mac]

\* A MAC address has six octets: the interface identifier has two more between
\* its halves, ff and fe, and one bit of the first octet flipped.
MACAddrs == 0 .. 63
MACHost(mac) ==
  LET upper == mac \div 8
      lower == mac % 8
  IN  ((upper + 4) % 8) * 32 + 16 + lower

\* Where the interface identifier begins.
ExactPrefixLen == 8

Derivation(v) ==
  \/ v = Preserve
  \/ v.kind = "literal" /\ v = Literal(v.literal) /\ v.literal \in Addrs("IP6")
  \/ v.kind = "mac" /\ v = MAC(v.mac) /\ v.mac \in MACAddrs

\* The position of the highest bit set.
LiteralMaxPrefixLen(a) ==
  IF a = 0 THEN BitLen["IP6"]
  ELSE CHOOSE len \in 0 .. BitLen["IP6"] - 1 :
         2^(BitLen["IP6"] - len - 1) <= a /\ a < 2^(BitLen["IP6"] - len)

BitSet(a) == {i \in 0 .. BitLen["IP6"] - 1 : (a \div 2^i) % 2 = 1}

\* The number that has the given bits set.
Number(bits) ==
  LET value(i) == IF i \in bits THEN 2^i ELSE 0
  IN  value(0) + value(1) + value(2) + value(3) + value(4) + value(5) + value(6) + value(7)
      + value(8) + value(9) + value(10) + value(11) + value(12) + value(13) + value(14) + value(15)

\* Mutations of the next: the observed host bits shine through; numbers are added.
CombineUnmasked(e, host) == Number(BitSet(e.addr) \cup BitSet(host))
CombineAdding(e, host) == e.addr + host

\* combine: the masked address, bit by bit or-ed with the host ID
Combine(e, host) == Number(BitSet(Masked("IP6", e).addr) \cup BitSet(host))

-----------------------------------------------------------------------------

\* Why a derivation cannot be applied to an entry, with the length it asks for.
Incompatibility(e, v) ==
  CASE v.kind = "literal" /\ e.len > LiteralMaxPrefixLen(v.literal) ->
         [kind |-> "LiteralPrefixTooLong", bound |-> LiteralMaxPrefixLen(v.literal)]
    [] v.kind = "mac" /\ e.len > ExactPrefixLen ->
         [kind |-> "MACPrefixTooLong", bound |-> ExactPrefixLen]
    [] v.kind = "mac" /\ e.len < ExactPrefixLen ->
         [kind |-> "MACPrefixTooShort", bound |-> ExactPrefixLen]
    [] OTHER -> [kind |-> "none", bound |-> e.len]

\* Mutation of the next: a literal goes with a prefix of any length.
CompatibleUnlessMAC(e, v) == v.kind = "literal" \/ Incompatibility(e, v).kind = "none"
Compatible(e, v) == Incompatibility(e, v).kind = "none"

\* Derive, of a compatible derivation
Derive(e, v) ==
  CASE v.kind = "preserve" -> e.addr
    [] v.kind = "literal" -> Combine(e, v.literal)
    [] v.kind = "mac" -> Combine(e, MACHost(v.mac))

\* The pairs of an entry and a derivation, for the domains in question.
Attempts(policies, entries, domains) ==
  UNION {{d} \X entries \X policies[d] : d \in domains}

\* The problems of all domains, those of one kind and bound together.
ProblemGroups(policies, entries, domains) ==
  LET bad == {t \in Attempts(policies, entries, domains) : ~Compatible(t[2], t[3])}
      key(t) == Incompatibility(t[2], t[3])
      group(k) == {t \in bad : key(t) = k}
  IN  {[problem |-> k, domains |-> {t[1] : t \in group(k)},
        derivations |-> {t[3] : t \in group(k)}, observed |-> {t[2] : t \in group(k)}]
         : k \in {key(t) : t \in bad}}

\* Mutation of the next: what could be derived is used.
DeriveSurvivors(policies, entries, domains) ==
  [targets |->
     [d \in domains |-> {Derive(t[2], t[3]) : t \in
        {u \in Attempts(policies, entries, {d}) : Compatible(u[2], u[3])}}],
   problems |-> {}]

\* DeriveDomains: the targets of all domains, or of none if there is a problem.
DeriveDomains(policies, entries, domains) ==
  LET problems == ProblemGroups(policies, entries, domains)
  IN  [targets |-> IF problems # {} THEN [d \in {} |-> {}]
                   ELSE [d \in domains |-> {Derive(t[2], t[3]) : t \in Attempts(policies, entries, {d})}],
       problems |-> problems]

-----------------------------------------------------------------------------

\* What a derivation is to yield, bit by bit: the prefix of the entry, and in the
\* host part the observed bits, the literal or the identifier of the MAC address.
\* A literal must lie within the host part, an identifier must be all of it.
Applicable(e, v) ==
  CASE v.kind = "preserve" -> TRUE
    [] v.kind = "literal" -> v.literal < 2^(BitLen["IP6"] - e.len)
    [] v.kind = "mac" -> e.len = ExactPrefixLen
HostID(e, v) ==
  CASE v.kind = "preserve" -> HostPart("IP6", e.addr, e.len)
    [] v.kind = "literal" -> v.literal
    [] v.kind = "mac" -> MACHost(v.mac)
Fits(a, e, v) ==
  /\ NetworkPart("IP6", a, e.len) = NetworkPart("IP6", e.addr, e.len)
  /\ HostPart("IP6", a, e.len) = HostID(e, v)
===============================================================================
