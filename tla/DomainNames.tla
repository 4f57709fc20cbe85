----------------------------- MODULE DomainNames -----------------------------
(***************************************************************************)
(* Domains and suffixes (internal/domain).  A name is the sequence of its  *)
(* labels, a wildcard has "*" for its first label, and the root is empty.  *)
(***************************************************************************)
LOCAL INSTANCE Integers
LOCAL INSTANCE Sequences

IsWildcard(name) == name # <<>> /\ Head(name) = "*"

HasStrictSuffix(name, suffix) ==
    LET n == Len(name) - Len(suffix)
    IN  n > 0 /\ SubSeq(name, n + 1, Len(name)) = suffix

\* The candidates for the zone of a domain, nearest first.  *.b and b have the
\* same ones, and only a domain that is the root has the root among them.
DomainZones(name) ==
    LET base == IF IsWildcard(name) THEN Tail(name) ELSE name
        n == Len(base)
    IN  [i \in 1..(IF n = 0 THEN 1 ELSE n) |-> SubSeq(base, i, n)]

\* A spelling is a text after IDNA normalisation: its labels, and whether they are
\* well formed.  New classifies a target domain; a short one is accepted by is().
NewDomain(spelling) ==
    IF Len(spelling.labels) < 2 THEN "too few labels"
    ELSE IF spelling.valid THEN "valid" ELSE "malformed"

NewSuffix(spelling) ==
    IF IsWildcard(spelling.labels) THEN "wildcard"
    ELSE IF spelling.valid THEN "valid" ELSE "malformed"
=============================================================================
