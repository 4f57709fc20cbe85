---------------------------- MODULE MCZoneLookup ----------------------------
EXTENDS ZoneLookup

CONSTANTS near, far, twin

\* a.b and *.b, which share the candidate b.
MCDomains == {<<"a", "b">>, <<"*", "b">>}

\* One zone of a.b, and two accounts with a zone of b.
MCNameOf == [z \in {near, far, twin} |-> IF z = near THEN <<"a", "b">> ELSE <<"b">>]
=============================================================================
