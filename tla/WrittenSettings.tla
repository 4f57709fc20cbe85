---------------------------- MODULE WrittenSettings ----------------------------
(***************************************************************************)
(* What an operator may write, and what the updater makes of it: a list of *)
(* domains token by token, a PROXIED expression term by term, and the      *)
(* settings one after the other. The properties compare what the code says *)
(* of a text or an expression with what it means.                          *)
(***************************************************************************)
EXTENDS Settings, DomainLint
LOCAL INSTANCE Integers
LOCAL INSTANCE Sequences
LOCAL INSTANCE SequencesExt
LOCAL INSTANCE FiniteSets

CONSTANTS
  Words,       \* the sequences of tokens that a list is typed in
  MaxWords,    \* bound on how many of them make a list
  Terms,       \* the expressions that others begin with
  MoreTerms,   \* the expressions that are combined with them
  MaxTerms,    \* bound on how many terms make an expression
  Probes       \* the domains that tell expressions apart

Entries == INSTANCE DomainEntry
             WITH Literals <- {t \in DOMAIN HostIDs : HostIDs[t].kind = "literal"},
                  MACs <- {t \in DOMAIN HostIDs : HostIDs[t].kind = "mac"}

ASSUME WrittenSettingsAssumption ==
  /\ \A w \in Words : \A i \in DOMAIN w : w[i].kind \in {"atom", "symbol"}
  /\ MaxWords \in Nat /\ MaxTerms \in Nat

\* What PROXIED may be is parsed as the grammar says.
ASSUME ProxiedIsParsed ==
  \A tokens \in {DefaultRaw.PROXIED} \cup {e[2] : e \in {x \in Edits : x[1] = "PROXIED"}} :
    /\ ParseProxied(tokens).ok = ParseBoolean(tokens).ok
    /\ ParseProxied(tokens).ok => ParseProxied(tokens).value = ParseBoolean(tokens).value

\* MustNewPratt does not panic when the program starts.
ASSUME GrammarsAreValid ==
  \A g \in {DomainListGrammar, ExpressionGrammar, Entries!EntryGrammar} : ValidGrammar(g)

VARIABLES
  words,  \* a list of domains, in words
  expr,   \* a PROXIED expression
  count   \* how many words or terms that makes

vars == <<words, expr, count, raw, edits>>

NoExpr == Lit(FALSE)

Init == words = <<>> /\ expr = NoExpr /\ count = 0 /\ NoEdit

\* One of the three is written at a time.
Type ==
  /\ expr = NoExpr /\ NoEdit /\ count < MaxWords
  /\ \E w \in Words : words' = Append(words, w)
  /\ count' = count + 1
  /\ UNCHANGED <<expr, raw, edits>>

Start ==
  /\ count = 0 /\ NoEdit
  /\ expr' \in Terms
  /\ count' = 1
  /\ UNCHANGED <<words, raw, edits>>

Negate ==
  /\ expr # NoExpr /\ (expr.op = "!" => expr.of.op # "!")
  /\ expr' = Not(expr)
  /\ UNCHANGED <<words, count, raw, edits>>

Combine ==
  /\ expr # NoExpr /\ count < MaxTerms
  /\ \E op \in {"&&", "||"}, t \in MoreTerms : \E n \in {t, Not(t)} :
       expr' \in {Binary(op, expr, n), Binary(op, n, expr)}
  /\ count' = count + 1
  /\ UNCHANGED <<words, raw, edits>>

EditSettings ==
  /\ count = 0
  /\ Edit \/ AddEntry
  /\ UNCHANGED <<words, expr, count>>

Next == Type \/ Start \/ Negate \/ Combine \/ EditSettings

Spec == Init /\ [][Next]_vars

-----------------------------------------------------------------------------
(* Lists of domains. *)

Tokens == FlattenSeq(words)
IsPlain == \A i \in DOMAIN Tokens : Tokens[i].kind = "atom" \/ Tokens[i].text = ","

Depth(i) ==
  LET Count(brackets) == Cardinality({j \in 1..i : Tokens[j].kind = "symbol"
                                                   /\ Tokens[j].text \in brackets})
  IN  Count({"{", "[", "("}) - Count({"}", "]", ")"})

\* Where the domains of the list are, and the opinions on the i-th of them.
DomainPlaces ==
  SelectSeq([i \in DOMAIN Tokens |-> i],
            LAMBDA i : Tokens[i].kind = "atom" /\ Depth(i) = 0)
OpinionPlaces(i) ==
  {j \in DOMAIN Tokens :
     /\ Tokens[j] = SymbolToken("=")
     /\ j > DomainPlaces[i]
     /\ i < Len(DomainPlaces) => j < DomainPlaces[i + 1]}

\* As the plain lists are read.
AsList(parsed, read, list) ==
  /\ read.ok = list.ok
  /\ read.ok => /\ [i \in DOMAIN read.value |-> read.value[i].domain] = list.value
                /\ ToSet(parsed.state.diagnostics) = list.notes

AsWritten(entries, places) ==
  /\ Len(entries) = Len(places)
  /\ \A i \in DOMAIN entries :
       /\ entries[i].domain = Spell(Tokens[places[i]].text).labels
       /\ Len(entries[i].opinions) = Cardinality(OpinionPlaces(i))

\* What the parser of the entries takes says what was written: it never trips over
\* a tree that the validation let through; a list without errors has the domains
\* that stand outside all brackets, in their order, each with the opinions that
\* follow it; and a list without host IDs is read as the plain lists of domains
\* are, with the same warnings.
EntriesRead ==
  \A parsed \in {Entries!ParseEntries(Tokens)}, read \in {Entries!ReadDomains("DOMAINS", Tokens)} :
    /\ parsed.ok => ~parsed.state.panicked
    /\ read.ok => AsWritten(read.value, DomainPlaces)
    /\ IsPlain => AsList(parsed, read, ParseList(Tokens))

-----------------------------------------------------------------------------
(* Advice. *)

SameMeaning(e, f) == \A d \in Probes : Evaluate(e, d) = Evaluate(f, d)

Excludes(branch) == \A e \in Nodes(branch) : ~IsAlwaysTrueAtom(e)

\* A domain that no expression speaks of.
Stranger == <<"stranger", "c">>

ReadsBack(negation, back) == back.ok /\ SameMeaning(negation.about, back.value)

TrueFinding(f) ==
  CASE f.rule = "redundant negation" -> ReadsBack(f, ParseBoolean(ExprTokens(f.suggestion, 0)))
    [] f.rule = "constant" -> SameMeaning(f.about, Lit(f.value))
    [] f.rule = "exclusion only" -> Excludes(f.about) => Evaluate(f.about, Stranger)
    [] OTHER -> TRUE

\* The terms that findings say may go from a chain, all of them at once.
MayGo(chain, terms) ==
  LET kept == DOMAIN chain.among \ {t.index : t \in terms}
  IN  \A d \in Probes : HoldsOf(chain.op, chain.among, kept, d)
                          = HoldsOf(chain.op, chain.among, DOMAIN chain.among, d)

\* The advice on an expression is true of what it means: a simpler form, read back
\* as it is printed, means the same; what is called constant is; all the terms of a
\* chain that are called redundant may go together; and a branch that is said to
\* only exclude does match a domain that nothing in it mentions.
AdviceIsTrue ==
  \A findings \in {LintExpression(expr)} : \A f \in findings :
    /\ TrueFinding(f)
    /\ f.rule = "redundant term" =>
         MayGo(f, {g \in findings : g.rule = f.rule /\ g.op = f.op /\ g.among = f.among})
===============================================================================
