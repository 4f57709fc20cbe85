------------------------------ MODULE DomainEntry ------------------------------
(***************************************************************************)
(* The entries of DOMAINS, IP4_DOMAINS and IP6_DOMAINS                     *)
(* (internal/domainentry): domains with host IDs, in a list that forgives  *)
(* commas at its top level only.  A tree is validated first; its           *)
(* conversion panics on a shape that the validation should have refused.   *)
(***************************************************************************)
EXTENDS Syntax, DomainNames
LOCAL INSTANCE Integers
LOCAL INSTANCE Sequences
LOCAL INSTANCE SequencesExt

CONSTANTS
  Spelling,  \* what the texts that are no other word spell as a domain
  Literals,  \* the texts that are valid IPv6 host-ID literals
  MACs       \* the texts that are MAC addresses

Spell(text) == IF text \in DOMAIN Spelling THEN Spelling[text]
               ELSE [labels |-> <<text>>, valid |-> TRUE]

EntryGrammar ==
    Grammar(<<Form("fields empty", <<Hole(40), Symbol("{"), Symbol("}")>>),
              Form("fields", <<Hole(40), Symbol("{"), Hole(20), Symbol("}")>>),
              Form("assign", <<Hole(30), Symbol("="), Hole(31)>>),
              Form("mac", <<Keyword("mac"), Symbol("("), Hole(40), Symbol(")")>>),
              Form("bracket", <<Symbol("["), Hole(20), Symbol("]")>>),
              Form("comma", <<Hole(20), Symbol(","), Hole(21)>>),
              Form("trailing", <<Hole(20), Symbol(",")>>),
              Form("leading", <<Symbol(","), Hole(6)>>),
              Form("comma only", <<Symbol(",")>>),
              ImplicitForm("missing", 5, 6)>>, TRUE)

IsAtom(tree) == tree.id = "atom"

-----------------------------------------------------------------------------
(* Validation. *)

RECURSIVE IsPlainList(_), ValidValueList(_), ValidFieldList(_), ValidList(_)

IsPlainList(tree) ==
    \/ tree.id \in {"atom", "comma only"}
    \/ /\ tree.id \in {"comma", "missing", "trailing", "leading"}
       /\ \A i \in DOMAIN tree.args : IsPlainList(tree.args[i])

\* validateValueList and validateValue: a list of values is strict.
ValidValueList(tree) ==
    \/ IsAtom(tree)
    \/ tree.id = "mac" /\ IsAtom(tree.args[1])
    \/ /\ tree.id \in {"bracket", "comma", "trailing"}
       /\ \A i \in DOMAIN tree.args : ValidValueList(tree.args[i])

ValidValue(tree) == tree.id \notin {"comma", "trailing"} /\ ValidValueList(tree)

\* Mutation of the next: a field list forgives commas like the top level does.
ValidFieldListLoose(tree) ==
    \/ tree.id = "assign" /\ IsAtom(tree.args[1]) /\ ValidValue(tree.args[2])
    \/ /\ tree.id \in {"comma", "trailing", "leading", "comma only"}
       /\ \A i \in DOMAIN tree.args : ValidFieldList(tree.args[i])

ValidFieldList(tree) ==
    \/ tree.id = "assign" /\ IsAtom(tree.args[1]) /\ ValidValue(tree.args[2])
    \/ /\ tree.id \in {"comma", "trailing"}
       /\ \A i \in DOMAIN tree.args : ValidFieldList(tree.args[i])

ValidList(tree) ==
    \/ tree.id \in {"empty", "atom", "comma only"}
    \/ tree.id = "fields empty" /\ IsAtom(tree.args[1])
    \/ tree.id = "fields" /\ IsAtom(tree.args[1]) /\ ValidFieldList(tree.args[2])
    \/ /\ tree.id \in {"comma", "trailing", "leading"}
       /\ \A i \in DOMAIN tree.args : ValidList(tree.args[i])
    \/ tree.id = "missing" /\ IsPlainList(tree)

-----------------------------------------------------------------------------
(* Conversion. *)

\* What the conversion has: entries, diagnostics in order, whether it failed at a
\* point from which only an explicit comma resumes, and whether it panicked.
State(entries, diagnostics, failed, panicked) ==
    [entries |-> entries, diagnostics |-> diagnostics, failed |-> failed,
     panicked |-> panicked]

Fails(diagnostic) == State(<<>>, <<diagnostic>>, TRUE, FALSE)
Panics == State(<<>>, <<>>, TRUE, TRUE)
Succeeds(values) == State(values, <<>>, FALSE, FALSE)

\* Extra and missing commas are recorded once.
Commas == {"extra comma", "missing comma"}
Recorded(diagnostics, more) ==
    diagnostics \o SelectSeq(more, LAMBDA d : d \notin Commas
                                     \/ \A i \in DOMAIN diagnostics : diagnostics[i] # d)

\* One part after the other, whether or not the first failed.
Both(left, right) ==
    State(left.entries \o right.entries, Recorded(left.diagnostics, right.diagnostics),
          left.failed \/ right.failed, left.panicked \/ right.panicked)

\* One part after the other, unless the first failed.
Then(left, right) == IF left.failed THEN left ELSE Both(left, right)

Noting(diagnostic) == State(<<>>, <<diagnostic>>, FALSE, FALSE)

RECURSIVE HostID6Values(_), BuildFields(_), BuildList(_)

\* buildHostID6ValueList and buildHostID6Values.
HostID6Values(tree) ==
    CASE IsAtom(tree) -> IF tree.text = "preserve" \/ tree.text \in Literals
                         THEN Succeeds(<<tree.text>>) ELSE Fails("invalid hostid6")
      [] tree.id = "mac" ->
           IF ~IsAtom(tree.args[1]) THEN Panics
           ELSE IF tree.args[1].text \in MACs THEN Succeeds(<<tree.args[1].text>>)
           ELSE Fails("invalid MAC")
      [] tree.id \in {"bracket", "trailing"} -> HostID6Values(tree.args[1])
      [] tree.id = "comma" -> Then(HostID6Values(tree.args[1]), HostID6Values(tree.args[2]))
      [] OTHER -> Panics

\* The opinion of one assignment is the set of its values.
BuildAssignment(tree) ==
    LET values == HostID6Values(tree.args[2])
    IN  IF ~IsAtom(tree.args[1]) THEN Panics
        ELSE IF tree.args[1].text # "hostid6" THEN Fails("unknown field")
        ELSE IF tree.args[2].id \in {"comma", "trailing"} THEN Panics
        ELSE IF values.failed THEN values
        ELSE Succeeds(<<{values.entries[i] : i \in DOMAIN values.entries}>>)

BuildFields(tree) ==
    CASE tree.id = "assign" -> BuildAssignment(tree)
      [] tree.id = "comma" -> Then(BuildFields(tree.args[1]), BuildFields(tree.args[2]))
      [] tree.id = "trailing" -> BuildFields(tree.args[1])
      [] OTHER -> Panics

Entry(domain, opinions) == [domain |-> domain, opinions |-> opinions]

BuildEntry(tree) ==
    LET atom == IF IsAtom(tree) THEN tree ELSE tree.args[1]
        fields == IF tree.id = "fields" THEN BuildFields(tree.args[2]) ELSE Succeeds(<<>>)
    IN  IF ~IsAtom(atom) THEN Panics
        ELSE IF NewDomain(Spell(atom.text)) # "valid" THEN Fails("invalid domain")
        ELSE IF fields.failed THEN State(<<>>, fields.diagnostics, TRUE, fields.panicked)
        ELSE Succeeds(<<Entry(Spell(atom.text).labels, fields.entries)>>)

BuildList(tree) ==
    CASE tree.id = "empty" -> Succeeds(<<>>)
      [] tree.id \in {"atom", "fields empty", "fields"} -> BuildEntry(tree)
      [] tree.id = "comma" -> Both(BuildList(tree.args[1]), BuildList(tree.args[2]))
      [] tree.id = "missing" ->
           LET left == Both(BuildList(tree.args[1]), Noting("missing comma"))
           IN  Then(left, BuildList(tree.args[2]))
      [] tree.id = "trailing" -> BuildList(tree.args[1])
      [] tree.id = "leading" -> Both(Noting("extra comma"), BuildList(tree.args[1]))
      [] tree.id = "comma only" -> Noting("extra comma")
      [] OTHER -> Panics

Rejected(cause) == [ok |-> FALSE, cause |-> cause]

\* Parse: what the reader of a setting gets.
EntriesOf(parsed) ==
    IF ~parsed.ok THEN Rejected(parsed.cause)
    ELSE IF ~ValidList(parsed.tree) THEN Rejected("unexpected token")
    ELSE [ok |-> TRUE, state |-> BuildList(parsed.tree)]

ParseEntries(in) == EntriesOf(Parse(EntryGrammar, in))

\* readDomains (internal/config): host IDs make no sense for IPv4.
Admitted(setting, parsed) ==
    IF ~parsed.ok THEN parsed
    ELSE IF \E d \in ToSet(parsed.state.diagnostics) : d \notin Commas
    THEN Rejected("invalid entry")
    ELSE IF setting = "IP4_DOMAINS"
            /\ \E e \in ToSet(parsed.state.entries) : e.opinions # <<>>
    THEN Rejected("hostid6 for IPv4")
    ELSE [ok |-> TRUE, value |-> parsed.state.entries]

ReadDomains(setting, in) == Admitted(setting, ParseEntries(in))
=============================================================================
