------------------------------ MODULE MCSettings ------------------------------
(***************************************************************************)
(* A small instance of WrittenSettings for TLC: names under b, one of them *)
(* too short, one malformed and one a wildcard.                            *)
(***************************************************************************)
EXTENDS WrittenSettings

Spelled(labels) == [labels |-> labels, valid |-> TRUE]
MCSpelling ==
  [t \in {"a.b", "x.a.b", "*.a.b", "b", ".", "bad."} |->
     CASE t = "a.b" -> Spelled(<<"a", "b">>)
       [] t = "x.a.b" -> Spelled(<<"x", "a", "b">>)
       [] t = "*.a.b" -> Spelled(<<"*", "a", "b">>)
       [] t = "b" -> Spelled(<<"b">>)
       [] t = "." -> Spelled(<<>>)
       [] t = "bad." -> [labels |-> <<"bad", "b">>, valid |-> FALSE]]

MCHostIDs ==
  [t \in {"preserve", "::5", "0::5", "MAC9", "MACff"} |->
     CASE t = "preserve" -> [kind |-> "preserve"]
       [] t \in {"::5", "0::5"} -> [kind |-> "literal", literal |-> 5]
       [] t = "MAC9" -> [kind |-> "mac", mac |-> 9]
       [] t = "MACff" -> [kind |-> "mac", mac |-> 63]]
MCUnroutable == [IP4 |-> {0, 15}, IP6 |-> {0, 1}]

A(text) == AtomToken(text)
S(text) == SymbolToken(text)
MCWords ==
  {<<A("a.b")>>, <<A("b")>>, <<S(",")>>, <<S("{")>>, <<S("}")>>, <<S("["), A("preserve")>>,
   <<A("::5"), S("]")>>, <<A("hostid6"), S("=")>>, <<A("preserve")>>,
   <<A("mac"), S("("), A("MAC9"), S(")")>>}

AB == <<"a", "b">>
XAB == <<"x", "a", "b">>
StarAB == <<"*", "a", "b">>
MCMoreTerms == {Is(<<AB>>), Sub(<<AB>>), Sub(<<<<"b">>>>), Lit(TRUE)}
MCTerms ==
  MCMoreTerms \cup {Is(<<XAB>>), Is(<<StarAB, AB>>), Sub(<<<<>>>>), Sub(<<<<"b">>, AB>>)}
MCProbes ==
  {AB, XAB, StarAB, <<"c", "b">>, <<"y", "x", "a", "b">>, <<"*", "b">>, <<"b", "c">>, Stranger,
   <<"*", "x", "a", "b">>}

Entry(domain, opinions) == [domain |-> domain, opinions |-> opinions]
Prefix(len) == [addr |-> 65280, len |-> len]
MCEdits ==
  ({"IP4_PROVIDER", "IP6_PROVIDER"} \X {NoProvider, Static({})})
  \cup ({"IP6_PROVIDER"} \X {Static({Prefix(8)}), Static({Prefix(14)})})
  \cup {<<"IP4_DETECTION_FILTER", "10.0.0.0/8">>, <<"IP6_DEFAULT_PREFIX_LEN", 56>>,
        <<"WAF_LISTS", {"list"}>>, <<"UPDATE_CRON", "@once">>, <<"UPDATE_ON_START", FALSE>>,
        <<"DELETE_ON_STOP", TRUE>>, <<"TTL", "60">>, <<"PROXIED", <<A("is")>>>>,
        <<"PROXIED", <<A("is"), S("("), A("a.b"), S(")")>>>>}
  \cup ({"RECORD_COMMENT", "WAF_LIST_ITEM_COMMENT"} \X {"mine"})
  \cup ({"MANAGED_RECORDS_COMMENT_REGEX", "MANAGED_WAF_LIST_ITEMS_COMMENT_REGEX"}
          \X {"mine", "("})

MCParseProxied(tokens) ==
  CASE tokens = <<A("false")>> -> [ok |-> TRUE, value |-> Lit(FALSE)]
    [] tokens = <<A("is"), S("("), A("a.b"), S(")")>> -> [ok |-> TRUE, value |-> Is(<<AB>>)]
    [] OTHER -> [ok |-> FALSE]

\* In a setting of IPv6, a host ID or none, or two that cannot be had together, in one
\* setting or across two.
MCNewEntries ==
  ({"DOMAINS", "IP6_DOMAINS"}
     \X {Entry(AB, <<>>), Entry(AB, <<{"::5"}>>), Entry(XAB, <<{"0::5", "preserve"}>>)})
  \cup {<<"DOMAINS", Entry(AB, <<{"0::5"}, {"MACff"}>>)>>,
        <<"IP6_DOMAINS", Entry(AB, <<{"MACff"}>>)>>}
  \cup ({"IP4_DOMAINS"} \X {Entry(AB, <<>>), Entry(XAB, <<>>)})
===============================================================================
