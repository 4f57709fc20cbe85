------------------------------ MODULE DomainSets ------------------------------
(***************************************************************************)
(* Sets of domains and how they compare (internal/domainexp:               *)
(* lint_semantic.go), for the advice on PROXIED expressions. An atom is    *)
(* is() or sub() of one name, a literal is an atom that may be negated.    *)
(***************************************************************************)
EXTENDS DomainNames
LOCAL INSTANCE Integers
LOCAL INSTANCE Sequences

AtomSet(kind, name) == [kind |-> kind, name |-> name]
Literal(negated, set) == [negated |-> negated, set |-> set]

\* Whether the set p contains the set q.
Subsumes(p, q) ==
    \/ p = q
    \/ p.kind = "sub" /\ HasStrictSuffix(q.name, p.name)

Disjoint(p, q) ==
    CASE p.kind = "is" /\ q.kind = "is" -> p.name # q.name
      [] p.kind = "is" /\ q.kind = "sub" -> ~HasStrictSuffix(p.name, q.name)
      [] p.kind = "sub" /\ q.kind = "is" -> ~HasStrictSuffix(q.name, p.name)
      [] OTHER -> /\ p.name # q.name
                  /\ ~HasStrictSuffix(p.name, q.name)
                  /\ ~HasStrictSuffix(q.name, p.name)

-----------------------------------------------------------------------------
(* Literals that are joined by && or ||. *)

\* A literal that has no effect among others joined by op.
RedundantTerm(op, lits, i) ==
    [rule |-> "redundant term", op |-> op, among |-> lits, index |-> i]

PositivePairs(lits) ==
    {p \in (DOMAIN lits) \X (DOMAIN lits) :
        p[1] # p[2] /\ ~lits[p[1]].negated /\ ~lits[p[2]].negated}

\* Mutation of the next: of two that are the same, both go.
FirstToGoBoth(lits, i, j) == TRUE

\* Of two that are the same, the later one goes.
FirstToGo(lits, i, j) == lits[i].set # lits[j].set \/ i >= j

OrRedundancies(lits) ==
    {RedundantTerm("||", lits, p[1]) :
        p \in {q \in PositivePairs(lits) : /\ Subsumes(lits[q[2]].set, lits[q[1]].set)
                                           /\ FirstToGo(lits, q[1], q[2])}}

AndRedundancies(lits) ==
    {RedundantTerm("&&", lits, p[1]) :
        p \in {q \in PositivePairs(lits) : /\ Subsumes(lits[q[1]].set, lits[q[2]].set)
                                           /\ FirstToGo(lits, q[1], q[2])}}

Contradictory(lits) ==
    \E i, j \in DOMAIN lits :
        /\ i # j /\ ~lits[i].negated
        /\ IF lits[j].negated THEN Subsumes(lits[j].set, lits[i].set)
                              ELSE Disjoint(lits[i].set, lits[j].set)

Tautological(lits) ==
    \E i, j \in DOMAIN lits :
        ~lits[i].negated /\ lits[j].negated /\ Subsumes(lits[i].set, lits[j].set)

-----------------------------------------------------------------------------
(* What they mean. *)

InSet(set, d) == IF set.kind = "is" THEN d = set.name ELSE HasStrictSuffix(d, set.name)

Holds(lit, d) == IF lit.negated THEN ~InSet(lit.set, d) ELSE InSet(lit.set, d)

HoldsOf(op, lits, kept, d) ==
    IF op = "&&" THEN \A i \in kept : Holds(lits[i], d) ELSE \E i \in kept : Holds(lits[i], d)
=============================================================================
