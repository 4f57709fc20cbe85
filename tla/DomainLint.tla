------------------------------ MODULE DomainLint ------------------------------
(***************************************************************************)
(* The advice on PROXIED expressions (internal/domainexp: lint.go and      *)
(* lint_semantic.go).  A finding keeps what it is about, beside what its   *)
(* message shows, for the properties.                                      *)
(***************************************************************************)
EXTENDS DomainExpression, DomainSets
LOCAL INSTANCE Integers
LOCAL INSTANCE Sequences
LOCAL INSTANCE SequencesExt

RECURSIVE Walk(_), Operands(_, _)

\* The nodes of an expression in pre-order.
Walk(expr) ==
    <<expr>> \o CASE expr.op = "!" -> Walk(expr.of)
                  [] expr.op \in {"&&", "||"} -> Walk(expr.left) \o Walk(expr.right)
                  [] OTHER -> <<>>

Nodes(expr) == ToSet(Walk(expr))

\* flatten: the operands of the longest chain of op at the root.
Operands(expr, op) ==
    IF expr.op = op THEN Operands(expr.left, op) \o Operands(expr.right, op) ELSE <<expr>>

-----------------------------------------------------------------------------
(* The shape of an expression: rules R1 and R2. *)

HasAnyAtom(expr) == \E e \in Nodes(expr) : e.op \in {"is", "sub"}

RECURSIVE HasPositiveAtom(_, _)

HasPositiveAtom(expr, negated) ==
    CASE expr.op \in {"is", "sub"} -> ~negated
      [] expr.op = "literal" -> TRUE
      [] expr.op = "!" -> HasPositiveAtom(expr.of, ~negated)
      [] OTHER -> HasPositiveAtom(expr.left, negated) \/ HasPositiveAtom(expr.right, negated)

NegationFinding(expr, suggestion) ==
    [rule |-> "redundant negation", about |-> expr, suggestion |-> suggestion]
ExclusionFinding(branch) == [rule |-> "exclusion only", about |-> branch]

ShapeFindings(expr) ==
    {NegationFinding(e, IF e.of.op = "!" THEN e.of.of ELSE Lit(~e.of.value)) :
        e \in {n \in Nodes(expr) : n.op = "!" /\ n.of.op \in {"!", "literal"}}}
    \cup UNION {{ExclusionFinding(b) :
                   b \in {o \in ToSet(Operands(e, "||")) :
                            HasAnyAtom(o) /\ ~HasPositiveAtom(o, FALSE)}} :
                e \in {n \in Nodes(expr) : n.op = "||"}}

-----------------------------------------------------------------------------
(* Terms of a chain. *)

\* atomsOfCall: a call is the disjunction of the atoms of its names.
AtomsOfCall(expr) ==
    [i \in DOMAIN expr.names |-> Literal(FALSE, AtomSet(expr.op, expr.names[i]))]

\* asLiteral, as a sequence of at most one.
AsLiteral(expr, negated) ==
    IF expr.op \in {"is", "sub"} /\ Len(expr.names) = 1
    THEN <<Literal(negated, AtomSet(expr.op, expr.names[1]))>> ELSE <<>>

\* classifyTerm: the literal that an operand of a chain is, if it is one.
TermLiteral(expr) ==
    IF expr.op = "!" THEN AsLiteral(expr.of, TRUE) ELSE AsLiteral(expr, FALSE)

\* A disjunction as literals, calls of several names in pieces.
DisjunctLiterals(expr) ==
    IF expr.op \in {"is", "sub"} THEN AtomsOfCall(expr) ELSE TermLiteral(expr)

-----------------------------------------------------------------------------
(* Rules R3 and R4. *)

ConstantFinding(value, expr) == [rule |-> "constant", value |-> value, about |-> expr]
RedundantConstant(value, expr) == [rule |-> "redundant constant", value |-> value, about |-> expr]

\* analyzeConjunction and analyzeDisjunction of a chain with this operator: the
\* constant that decides it, the one that does nothing, and its literals.
AnalyzeChain(chain) ==
    LET operands == Operands(chain, chain.op)
        deciding == chain.op = "||"
        lits == FlattenSeq([i \in DOMAIN operands |-> TermLiteral(operands[i])])
        atoms == FlattenSeq([i \in DOMAIN operands |-> DisjunctLiterals(operands[i])])
        decided == \/ Lit(deciding) \in ToSet(operands)
                   \/ IF deciding THEN Tautological(lits) ELSE Contradictory(lits)
        idle == Lit(~deciding) \in ToSet(operands) /\ Len(operands) > 1
    IN  (IF decided THEN {ConstantFinding(deciding, chain)} ELSE {})
        \cup (IF idle THEN {RedundantConstant(~deciding, chain)} ELSE {})
        \cup (IF deciding THEN OrRedundancies(atoms) ELSE AndRedundancies(lits))

IsAlwaysTrueAtom(expr) == expr = Sub(<<<<>>>>)

RECURSIVE ConstValue(_)

\* constValue: the values that expr may have as far as constants and sub(.) tell.
ConstValue(expr) ==
    CASE expr.op = "literal" -> {expr.value}
      [] IsAlwaysTrueAtom(expr) -> {TRUE}
      [] expr.op = "!" -> {~v : v \in ConstValue(expr.of)}
      [] expr.op = "&&" -> {v /\ w : v \in ConstValue(expr.left), w \in ConstValue(expr.right)}
      [] expr.op = "||" -> {v \/ w : v \in ConstValue(expr.left), w \in ConstValue(expr.right)}
      [] OTHER -> BOOLEAN

SemanticFindings(expr) ==
    UNION {AnalyzeChain(e) : e \in {n \in Nodes(expr) : n.op \in {"&&", "||"}}}
    \cup UNION {OrRedundancies(AtomsOfCall(e)) :
                  e \in {n \in Nodes(expr) : n.op \in {"is", "sub"} /\ Len(n.names) > 1}}
    \cup (IF \E e \in Nodes(expr) : IsAlwaysTrueAtom(e)
          THEN {ConstantFinding(v, expr) : v \in {w \in BOOLEAN : ConstValue(expr) = {w}}}
          ELSE {})

LintExpression(expr) == ShapeFindings(expr) \cup SemanticFindings(expr)
=============================================================================
