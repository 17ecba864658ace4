-------------------------- MODULE AuthLogicParser --------------------------
(***************************************************************************)
(* From the parse tree of an authorization logic program to its abstract   *)
(* syntax (ir/auth_logic/ast_construction.cc).                             *)
(*                                                                         *)
(* A parse tree is a sequence of statements in the order of the file.  A   *)
(* `canSay` phrase, nested in the tree, is the sequence of its principals, *)
(* outermost first.  An argument is a term, or a multi-line literal: its   *)
(* text without the line breaks, and the number of those.                  *)
(***************************************************************************)
EXTENDS AuthLogicAst

MultilineLiteral(text, breaks) == [multiline |-> text, breaks |-> breaks]

Sanitize(argument) ==
  IF "multiline" \in DOMAIN argument THEN Literal(argument.multiline) ELSE argument

ConstructPrincipal(text) == Principal(Literal(text))

SanitizedArguments(arguments) == [i \in DOMAIN arguments |-> Sanitize(arguments[i])]

ConstructPredicate(tree) ==
  Predicate(<<tree.relation>>, SanitizedArguments(tree.arguments),
            IF tree.negated THEN kNegated ELSE kPositive)

ConstructVerbphrase(left, verbphrase) ==
  IF verbphrase.form = "predphrase"
    THEN Attribute(left, ConstructPredicate(verbphrase.predicate))
    ELSE CanActAs(left, ConstructPrincipal(verbphrase.principal))

ConstructFlatFact(tree) ==
  IF tree.form = "prinFact"
    THEN ConstructVerbphrase(ConstructPrincipal(tree.principal), tree.verbphrase)
    ELSE PredicateFact(ConstructPredicate(tree.predicate))

ConstructRvalue(tree) ==
  IF tree.form = "binop"
    THEN PredicateFact(Predicate(<<tree.operator>>, SanitizedArguments(tree.arguments), kPositive))
    ELSE ConstructFlatFact(tree)

\* Faulty: the chain in the order of the text.
PushBack(chain, principal) == Append(chain, ConstructPrincipal(principal))

\* Each `canSay` pushes its principal onto the front of the chain.
PushFront(chain, principal) == <<ConstructPrincipal(principal)>> \o chain

ConstructFact(tree) ==
  Fact(FoldLeft(PushFront, <<>>, tree.canSay), ConstructFlatFact(tree.flatFact))

ConstructArgumentType(tree) ==
  CASE tree.form = "numberType" -> MakeNumberType
    [] tree.form = "principalType" -> MakePrincipalType
    [] tree.form = "customType" -> MakeCustomType(tree.name)

\* The first name is the relation's, the others are those of its parameters.
ConstructRelationDeclaration(tree) ==
  RelationDeclaration(<<tree.names[1]>>, tree.attribute,
    [i \in DOMAIN tree.types |-> Argument(tree.names[i + 1], ConstructArgumentType(tree.types[i]))])

ConstructQuery(tree) ==
  Query(<<tree.name>>, ConstructPrincipal(tree.principal), ConstructFact(tree.fact))

ConstructAssertion(tree) ==
  IF tree.form = "fact"
    THEN FactAssertion(ConstructFact(tree.fact))
    ELSE ConditionalAssertion(ConstructFact(tree.fact),
                              [i \in DOMAIN tree.rvalues |-> ConstructRvalue(tree.rvalues[i])])

\* "P says a." and "P says { a1 a2 }"; the key names of exportTo are not read.
ConstructSaysAssertion(tree) ==
  SaysAssertion(ConstructPrincipal(tree.principal),
                [i \in DOMAIN tree.assertions |-> ConstructAssertion(tree.assertions[i])])

StatementsOf(tree, statement) ==
  SelectSeq(tree, LAMBDA s : s.statement = statement)

\* The statements of each kind in order; imports and keys are not looked at.
ConstructProgram(tree) ==
  LET declarations == StatementsOf(tree, "relationDeclaration")
      says == StatementsOf(tree, "saysAssertion")
      queries == StatementsOf(tree, "query")
  IN  Program([i \in DOMAIN declarations |-> ConstructRelationDeclaration(declarations[i])],
              [i \in DOMAIN says |-> ConstructSaysAssertion(says[i])],
              [i \in DOMAIN queries |-> ConstructQuery(queries[i])])
=============================================================================
