--------------------------- MODULE DomainExpression ---------------------------
(***************************************************************************)
(* The lists of domains and the boolean expressions of PROXIED             *)
(* (internal/domainexp): how their trees become lists and expressions,     *)
(* what an expression says of a domain, and how it is printed.             *)
(***************************************************************************)
EXTENDS Syntax, DomainNames
LOCAL INSTANCE Integers
LOCAL INSTANCE Sequences

CONSTANT Spelling  \* what the texts that are no other word spell as a domain

ASSUME SpellingAssumption ==
  \A text \in DOMAIN Spelling : /\ DOMAIN Spelling[text] = {"labels", "valid"}
                                /\ Spelling[text].labels \in Seq(STRING)
                                /\ Spelling[text].valid \in BOOLEAN

Spell(text) == IF text \in DOMAIN Spelling THEN Spelling[text]
               ELSE [labels |-> <<text>>, valid |-> TRUE]

-----------------------------------------------------------------------------
(* Grammars. *)

\* The forms of a list with commas too many or too few.
ListForms ==
    <<Form("leading", <<Symbol(","), Hole(6)>>),
      Form("comma only", <<Symbol(",")>>),
      Form("comma", <<Hole(5), Symbol(","), Hole(6)>>),
      Form("trailing", <<Hole(5), Symbol(",")>>),
      ImplicitForm("missing", 5, 6)>>

DomainListGrammar == Grammar(ListForms, TRUE)

ExpressionGrammar ==
    Grammar(<<Form("is()", <<Keyword("is"), Symbol("("), Symbol(")")>>),
              Form("is", <<Keyword("is"), Symbol("("), Hole(0), Symbol(")")>>),
              Form("sub()", <<Keyword("sub"), Symbol("("), Symbol(")")>>),
              Form("sub", <<Keyword("sub"), Symbol("("), Hole(0), Symbol(")")>>),
              Form("!", <<Symbol("!"), Hole(30)>>),
              Form("group", <<Symbol("("), Hole(0), Symbol(")")>>),
              Form("&&", <<Hole(20), Symbol("&&"), Hole(21)>>),
              Form("||", <<Hole(10), Symbol("||"), Hole(11)>>)>> \o ListForms, FALSE)

-----------------------------------------------------------------------------
(* Lists of domains. *)

\* What a conversion gives, and the things to warn about that it met.
Built(value, notes) == [ok |-> TRUE, value |-> value, notes |-> notes]
Unbuilt(cause, notes) == [ok |-> FALSE, cause |-> cause, notes |-> notes]
Noting(built, notes) == [built EXCEPT !.notes = @ \cup notes]

RECURSIVE FlattenDomainList(_)

\* The texts of a list in order.
FlattenDomainList(tree) ==
    CASE tree.id = "empty" -> Built(<<>>, {})
      [] tree.id = "atom" -> Built(<<tree.text>>, {})
      [] tree.id \in {"comma", "missing"} ->
           LET left == FlattenDomainList(tree.args[1])
               met == left.notes \cup (IF tree.id = "missing" THEN {"missing comma"} ELSE {})
               right == FlattenDomainList(tree.args[2])
           IN  IF ~left.ok THEN left
               ELSE IF ~right.ok THEN Noting(right, met)
               ELSE Built(left.value \o right.value, met \cup right.notes)
      [] tree.id = "comma only" -> Built(<<>>, {"extra comma"})
      [] tree.id = "leading" -> Noting(FlattenDomainList(tree.args[1]), {"extra comma"})
      [] tree.id = "trailing" -> FlattenDomainList(tree.args[1])
      [] OTHER -> Unbuilt("unexpected token", {})

\* A list that takes valid domains only.
Domains(list) ==
    LET Verdict(text) == NewDomain(Spell(text))
    IN  IF ~list.ok THEN list
        ELSE IF \E i \in DOMAIN list.value : Verdict(list.value[i]) # "valid"
        THEN Unbuilt(Verdict(SelectSeq(list.value, LAMBDA t : Verdict(t) # "valid")[1]),
                     list.notes)
        ELSE Built([i \in DOMAIN list.value |-> Spell(list.value[i]).labels], list.notes)

DomainsOfTree(parsed) ==
    IF parsed.ok THEN Domains(FlattenDomainList(parsed.tree)) ELSE Unbuilt(parsed.cause, {})

ParseList(in) == DomainsOfTree(Parse(DomainListGrammar, in))

-----------------------------------------------------------------------------
(* Expressions. *)

Lit(value) == [op |-> "literal", value |-> value]
Is(names) == [op |-> "is", names |-> names]
Sub(names) == [op |-> "sub", names |-> names]
Not(expr) == [op |-> "!", of |-> expr]
Binary(op, left, right) == [op |-> op, left |-> left, right |-> right]

TrueWords == {"1", "t", "T", "TRUE", "true", "True"}
FalseWords == {"0", "f", "F", "FALSE", "false", "False"}

\* is() and sub() over the texts of a list. A domain that is too short stays in
\* is(), a wildcard is left out of sub(), and anything malformed is an error.
CallOf(function, list) ==
    LET Verdict(text) == IF function = "is" THEN NewDomain(Spell(text))
                                            ELSE NewSuffix(Spell(text))
        malformed == {i \in DOMAIN list.value : Verdict(list.value[i]) = "malformed"}
        \* The arguments after the first malformed one are not looked at.
        read == IF malformed = {} THEN list.value
                ELSE SubSeq(list.value, 1, (CHOOSE i \in malformed :
                                              \A j \in malformed : i <= j) - 1)
        kept == SelectSeq(read, LAMBDA t : Verdict(t) # "wildcard")
        notes == list.notes
                 \cup (IF list.value = <<>> THEN {"empty call"} ELSE {})
                 \cup ({Verdict(read[i]) : i \in DOMAIN read} \ {"valid"})
        names == [i \in DOMAIN kept |-> Spell(kept[i]).labels]
    IN  IF ~list.ok THEN list
        ELSE IF malformed # {} THEN Unbuilt("malformed", notes)
        ELSE Built(IF function = "is" THEN Is(names) ELSE Sub(names), notes)

BuildCall(function, tree) ==
    CallOf(function, IF tree.args = <<>> THEN Built(<<>>, {})
                     ELSE FlattenDomainList(tree.args[1]))

RECURSIVE BuildExpr(_)

BuildExpr(tree) ==
    CASE tree.id = "atom" ->
           IF tree.text \in TrueWords \cup FalseWords
           THEN Built(Lit(tree.text \in TrueWords), {})
           ELSE Unbuilt("unexpected boolean token", {})
      [] tree.id = "!" ->
           LET operand == BuildExpr(tree.args[1])
           IN  IF operand.ok THEN Built(Not(operand.value), operand.notes) ELSE operand
      [] tree.id \in {"&&", "||"} ->
           LET left == BuildExpr(tree.args[1])
               right == BuildExpr(tree.args[2])
           IN  IF ~left.ok THEN left
               ELSE IF ~right.ok THEN Noting(right, left.notes)
               ELSE Built(Binary(tree.id, left.value, right.value),
                          left.notes \cup right.notes)
      [] tree.id = "group" -> BuildExpr(tree.args[1])
      [] tree.id \in {"is", "is()"} -> BuildCall("is", tree)
      [] tree.id \in {"sub", "sub()"} -> BuildCall("sub", tree)
      [] OTHER -> Unbuilt("unexpected boolean token", {})

BooleanOfTree(parsed) ==
    IF parsed.ok THEN BuildExpr(parsed.tree)
    ELSE Unbuilt(IF parsed.cause = "unexpected end" THEN "not a boolean expression"
                 ELSE parsed.cause, {})

ParseBoolean(in) == BooleanOfTree(Parse(ExpressionGrammar, in))

RECURSIVE Evaluate(_, _), ExprTokens(_, _)

Evaluate(expr, dom) ==
    CASE expr.op = "literal" -> expr.value
      [] expr.op = "is" -> \E i \in DOMAIN expr.names : expr.names[i] = dom
      [] expr.op = "sub" -> \E i \in DOMAIN expr.names : HasStrictSuffix(dom, expr.names[i])
      [] expr.op = "!" -> ~Evaluate(expr.of, dom)
      [] expr.op = "&&" -> Evaluate(expr.left, dom) /\ Evaluate(expr.right, dom)
      [] expr.op = "||" -> Evaluate(expr.left, dom) \/ Evaluate(expr.right, dom)

Precedence(op) == CASE op = "||" -> 1 [] op = "&&" -> 2 [] op = "!" -> 3

Wrap(tokens, op, context) ==
    IF Precedence(op) < context THEN <<SymbolToken("(")>> \o tokens \o <<SymbolToken(")")>>
    ELSE tokens

NameToken(name) == AtomToken(CHOOSE t \in DOMAIN Spelling : Spelling[t] =
                                    [labels |-> name, valid |-> TRUE])

\* exprString: the tokens of an expression in a context, with parentheses where
\* it binds less tightly than the context does.
ExprTokens(expr, context) ==
    CASE expr.op = "literal" -> <<AtomToken(IF expr.value THEN "true" ELSE "false")>>
      [] expr.op \in {"is", "sub"} ->
           <<AtomToken(expr.op), SymbolToken("(")>>
             \o [i \in 1..(2 * Len(expr.names) - 1) |->
                   IF i % 2 = 0 THEN SymbolToken(",") ELSE NameToken(expr.names[(i + 1) \div 2])]
             \o <<SymbolToken(")")>>
      [] expr.op = "!" -> Wrap(<<SymbolToken("!")>> \o ExprTokens(expr.of, Precedence("!")),
                               "!", context)
      [] OTHER -> Wrap(ExprTokens(expr.left, Precedence(expr.op)) \o <<SymbolToken(expr.op)>>
                         \o ExprTokens(expr.right, Precedence(expr.op)),
                       expr.op, context)
=============================================================================
