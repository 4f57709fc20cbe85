--------------------------------- MODULE IPNet ---------------------------------
(***************************************************************************)
(* Addresses and ranges of the two IP families (internal/ipnet), with      *)
(* every octet of an address scaled down to one bit: an IPv4 address has   *)
(* four bits, an IPv6 address sixteen, and the ranges that the code writes *)
(* /8, /64 and /96 are /1, /8 and /12 here.                                *)
(***************************************************************************)
EXTENDS Integers, FiniteSets

CONSTANT
  Unroutable   \* per family, the addresses that are no global unicast addresses

Families == {"IP4", "IP6"}

\* All: IPv4 comes first.
First(families) == IF "IP4" \in families THEN "IP4" ELSE "IP6"

BitLen == [IP4 |-> 4, IP6 |-> 16]
Addrs(f) == 0 .. 2^BitLen[f] - 1

\* An address with the length of its prefix; the host bits of the address count.
RawEntries(f) == [addr : Addrs(f), len : 0 .. BitLen[f]]

ASSUME UnroutableAssumption ==
  Unroutable \in [Families -> SUBSET Nat]

HostPart(f, a, len) == a % 2^(BitLen[f] - len)
NetworkPart(f, a, len) == a - HostPart(f, a, len)

\* RawEntry.Masked
Masked(f, e) == [e EXCEPT !.addr = NetworkPart(f, e.addr, e.len)]

\* netip.Prefix.Contains: only the bits of the prefix are compared.
Contains(f, p, a) == NetworkPart(f, p.addr, p.len) = NetworkPart(f, a, p.len)

\* Every address of q is one of p.
Covers(f, p, q) == p.len <= q.len /\ Contains(f, p, q.addr)

-----------------------------------------------------------------------------
(* Normalisation of what a detection or the configuration says. A parsed   *)
(* address is one of IPv4 or of IPv6; an IPv6 address of ::ffff:0:0/96 is  *)
(* an IPv4 address in disguise.                                            *)

MapLen == 12
Parsed(s) ==
  /\ s.fam \in Families
  /\ s.addr \in Addrs(s.fam)
  /\ s.len \in 0 .. BitLen[s.fam]

Is4In6(s) == s.fam = "IP6" /\ s.addr \div 2^BitLen["IP4"] = 3
Unmap(s) == s.addr % 2^BitLen["IP4"]

\* ValidateAndNormalizeIP, as far as the address goes: whether it is one of the
\* family that names a host of its own.
Valid(f, s) ==
  /\ \/ s.fam = f /\ ~Is4In6(s)
     \/ f = "IP4" /\ Is4In6(s)
  /\ (IF Is4In6(s) THEN Unmap(s) ELSE s.addr) \notin Unroutable[f]

ValidEntry(f, s) == Valid(f, s) /\ (Is4In6(s) => s.len >= MapLen)

\* NormalizeRawEntryIP of a valid entry
NormalizeRawEntryIP(s) ==
  IF Is4In6(s) THEN [addr |-> Unmap(s), len |-> s.len - MapLen]
  ELSE [addr |-> s.addr, len |-> s.len]

Unavailable == [available |-> FALSE, entries |-> {}]
Known(entries) == [available |-> TRUE, entries |-> entries]

\* NormalizeDetectedRawEntries: one bad entry spoils them all.
NormalizeDetectedRawEntries(f, seen) ==
  IF \A s \in seen : ValidEntry(f, s) THEN Known({NormalizeRawEntryIP(s) : s \in seen})
  ELSE Unavailable

\* NormalizeDetectedRawIPs: bare addresses are given the default length.
NormalizeDetectedRawIPs(f, seen, defaultLen) ==
  IF \A s \in seen : Valid(f, s)
  THEN Known({[addr |-> IF Is4In6(s) THEN Unmap(s) ELSE s.addr, len |-> defaultLen] : s \in seen})
  ELSE Unavailable
===============================================================================
