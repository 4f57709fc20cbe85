-------------------------------- MODULE Syntax --------------------------------
(***************************************************************************)
(* The table-driven Pratt parser behind the configuration syntaxes         *)
(* (internal/syntax).  Input is a sequence of tokens: characters, spaces   *)
(* and byte positions are left out, and an error keeps its cause and how   *)
(* far the parser had come.                                                *)
(***************************************************************************)
LOCAL INSTANCE Integers
LOCAL INSTANCE Sequences

AtomToken(text) == [kind |-> "atom", text |-> text]
SymbolToken(text) == [kind |-> "symbol", text |-> text]
EOF == [kind |-> "eof", text |-> ""]

\* The parts of a pattern: words that an atom must match, symbols, and holes for
\* expressions that bind at least so tightly.
Keyword(text) == [kind |-> "atom", text |-> text, power |-> 0]
Symbol(text) == [kind |-> "symbol", text |-> text, power |-> 0]
Hole(power) == [kind |-> "hole", text |-> "", power |-> power]

\* A rule starts with a word or symbol (null form), with a hole before one (left
\* form), or is implicit: two holes.
Form(id, pattern) == [id |-> id, pattern |-> pattern]
ImplicitForm(id, left, right) == Form(id, <<Hole(left), Hole(right)>>)
Grammar(rules, empty) == [rules |-> rules, empty |-> empty]

Atom(text) == [id |-> "atom", text |-> text, args |-> <<>>]
Op(id, args) == [id |-> id, text |-> "", args |-> args]
EmptyTree == Op("empty", <<>>)

Parsed(tree, pos) == [ok |-> TRUE, tree |-> tree, pos |-> pos]
ParseError(cause, progress) == [ok |-> FALSE, cause |-> cause, progress |-> progress]

-----------------------------------------------------------------------------
(* A grammar by the first token of its rules. *)

Matches(part, token) == part.kind = token.kind /\ part.text = token.text

NullRules(g, token) == SelectSeq(g.rules, LAMBDA r : Matches(r.pattern[1], token))

LeftRules(g, token) ==
    SelectSeq(g.rules, LAMBDA r : r.pattern[1].kind = "hole"
                                  /\ Matches(r.pattern[2], token))

ImplicitRules(g) == SelectSeq(g.rules, LAMBDA r : r.pattern[1].kind = "hole"
                                                  /\ r.pattern[2].kind = "hole")

\* Whether NewPratt takes a list of rules, which MustNewPratt relies on.
ValidGrammar(g) ==
    \A i \in DOMAIN g.rules :
        LET pattern == g.rules[i].pattern
        IN  /\ pattern # <<>>
            /\ \A j \in DOMAIN pattern : IF pattern[j].kind = "hole" THEN pattern[j].power >= 0
                                                                     ELSE pattern[j].text # ""
            /\ pattern[1].kind = "hole" => Len(pattern) > 1
            /\ pattern[1].kind = "hole" /\ pattern[2].kind = "hole" => Len(pattern) = 2

-----------------------------------------------------------------------------
(* Parsing. Position i is the next of the tokens in; the end is never consumed. *)

Peek(in, i) == IF i <= Len(in) THEN in[i] ELSE EOF
Consumed(in, i) == IF i <= Len(in) THEN i + 1 ELSE i

CanStartExpression(g, token) == token.kind = "atom" \/ NullRules(g, token) # <<>>

\* The left forms for the next token; implicit ones only if there is no other.
SelectLeftForms(g, token, power) ==
    LET Eligible(rules) == SelectSeq(rules, LAMBDA r : r.pattern[1].power >= power)
        explicit == Eligible(LeftRules(g, token))
    IN  IF explicit = <<>> /\ CanStartExpression(g, token)
        THEN Eligible(ImplicitRules(g)) ELSE explicit

Expect(part, in, i) ==
    IF Matches(part, Peek(in, i)) THEN Parsed(EmptyTree, Consumed(in, i))
    ELSE ParseError(IF Peek(in, i) = EOF THEN "missing token" ELSE "expected token", i)

RECURSIVE ParseExpression(_, _, _, _), ParseFormTail(_, _, _, _, _, _),
          FirstForm(_, _, _, _, _), ExtendLeft(_, _, _, _)

\* The rest of a pattern, with the arguments its holes have so far.
ParseFormTail(g, in, i, id, parts, args) ==
    IF parts = <<>> THEN Parsed(Op(id, args), i)
    ELSE LET hole == Head(parts).kind = "hole"
             part == IF hole THEN ParseExpression(g, in, i, Head(parts).power)
                     ELSE Expect(Head(parts), in, i)
         IN  IF ~part.ok THEN part
             ELSE ParseFormTail(g, in, part.pos, id, Tail(parts),
                                IF hole THEN Append(args, part.tree) ELSE args)

\* The first of the forms that matches, or else the error that came farthest, the
\* earlier of two that came equally far.
FirstForm(g, in, i, forms, args) ==
    LET form == Head(forms)
        this == ParseFormTail(g, in, i, form.id, Tail(form.pattern), args)
    IN  IF this.ok \/ Len(forms) = 1 THEN this
        ELSE LET rest == FirstForm(g, in, i, Tail(forms), args)
             IN  IF rest.ok \/ rest.progress > this.progress THEN rest ELSE this

ParseNull(g, in, i, token) ==
    IF NullRules(g, token) # <<>> THEN FirstForm(g, in, i, NullRules(g, token), <<>>)
    ELSE IF token.kind = "atom" THEN Parsed(Atom(token.text), i)
    ELSE ParseError(IF token = EOF THEN "unexpected end" ELSE "unexpected token", i)

\* left, extended by every left form that binds tightly enough.
ExtendLeft(g, in, left, power) ==
    LET forms == SelectLeftForms(g, Peek(in, left.pos), power)
    IN  IF ~left.ok \/ forms = <<>> THEN left
        ELSE LET next == FirstForm(g, in, left.pos, forms, <<left.tree>>)
             IN  IF next.ok THEN ExtendLeft(g, in, next, power) ELSE next

ParseExpression(g, in, i, power) ==
    LET null == ParseNull(g, in, Consumed(in, i), Peek(in, i))
    IN  IF null.ok THEN ExtendLeft(g, in, null, power) ELSE null

Parse(g, in) ==
    IF in = <<>> THEN IF g.empty THEN Parsed(EmptyTree, 1)
                      ELSE ParseError("unexpected end", 0)
    ELSE LET whole == ParseExpression(g, in, 1, 0)
         IN  IF whole.ok /\ whole.pos <= Len(in)
             THEN ParseError("unexpected token", whole.pos) ELSE whole
=============================================================================
