------------------------- MODULE AuthLogicLowering -------------------------
(***************************************************************************)
(* The translation of LoweringToDatalogPass                                *)
(* (ir/auth_logic/lowering_ast_datalog.cc), one node of the syntax at a    *)
(* time.  A translation starts from the number n of fresh variables made   *)
(* so far and returns the number after it.                                 *)
(***************************************************************************)
EXTENDS UniverseRelations

FreshVar(n) == Fresh(n + 1)

PushOntoPredicate(modifier, newArgs, predicate) ==
  Predicate(modifier \o predicate.name, newArgs \o predicate.args, predicate.sign)
PushPrincipal(modifier, principal, predicate) ==
  PushOntoPredicate(modifier, <<principal>>, predicate)
Says(speaker, predicate) == PushPrincipal(<<"says_">>, speaker, predicate)
CanSay(delegatee, predicate) == PushPrincipal(<<"canSay_">>, delegatee, predicate)

AttributeToDLIR(attribute) == PushPrincipal(<<>>, attribute.principal, attribute.predicate)
CanActAsToDLIR(canActAs) ==
  Predicate(<<"canActAs">>, <<canActAs.left, canActAs.right>>, kPositive)

\* speaker says Y pred :- speaker says Y canActAs X, speaker says X pred
SpokenAttributeToDLIR(speaker, attribute, n) ==
  LET y == FreshVar(n)
  IN  Rule(Says(speaker, AttributeToDLIR(Attribute(y, attribute.predicate))),
           <<Says(speaker, CanActAsToDLIR(CanActAs(y, attribute.principal))),
             Says(speaker, AttributeToDLIR(attribute))>>)

\* speaker says Y canActAs Z :- speaker says Y canActAs X, speaker says X canActAs Z
SpokenCanActAsToDLIR(speaker, canActAs, n) ==
  LET y == FreshVar(n)
  IN  Rule(Says(speaker, CanActAsToDLIR(CanActAs(y, canActAs.right))),
           <<Says(speaker, CanActAsToDLIR(CanActAs(y, canActAs.left))),
             Says(speaker, CanActAsToDLIR(canActAs))>>)

BaseFactToDLIR(speaker, baseFact, n) ==
  CASE baseFact.kind = "predicate" ->
         [predicate |-> baseFact.predicate, rules |-> <<>>, fresh |-> n]
    [] baseFact.kind = "attribute" ->
         [predicate |-> AttributeToDLIR(baseFact),
          rules |-> <<SpokenAttributeToDLIR(speaker, baseFact, n)>>, fresh |-> n + 1]
    [] baseFact.kind = "canActAs" ->
         [predicate |-> CanActAsToDLIR(baseFact),
          rules |-> <<SpokenCanActAsToDLIR(speaker, baseFact, n)>>, fresh |-> n + 1]

\* speaker says inner :- F says inner, speaker says F canSay inner
DelegationRule(speaker, inner, n) ==
  LET delegate == FreshVar(n)
  IN  Rule(Says(speaker, inner), <<Says(delegate, inner), Says(speaker, CanSay(delegate, inner))>>)

\* One turn of the loop over the delegation chain.
Delegate(speaker, dlir, delegatee) ==
  [predicate |-> CanSay(delegatee, dlir.predicate),
   rules |-> Append(dlir.rules, DelegationRule(speaker, dlir.predicate, dlir.fresh)),
   fresh |-> dlir.fresh + 1]

FactToDLIR(speaker, fact, n) ==
  FoldLeft(LAMBDA dlir, delegatee : Delegate(speaker, dlir, delegatee),
           BaseFactToDLIR(speaker, fact.baseFact, n), fact.delegationChain)

\* The conditions of an assertion, each said by its speaker; their rules are
\* dropped but not their fresh variables.
ConditionsToDLIR(speaker, rhs, n) ==
  FoldLeft(LAMBDA done, baseFact :
             LET dlir == BaseFactToDLIR(speaker, baseFact, done.fresh)
             IN  [rhs |-> Append(done.rhs, Says(speaker, dlir.predicate)), fresh |-> dlir.fresh],
           [rhs |-> <<>>, fresh |-> n], rhs)

\* GenerateDLIRAssertions, for both kinds of assertion.
SingleSaysAssertionToDLIR(speaker, assertion, n) ==
  LET conditional == assertion.kind = "conditional"
      conditions == ConditionsToDLIR(speaker, IF conditional THEN assertion.rhs ELSE <<>>, n)
      dlir == FactToDLIR(speaker, IF conditional THEN assertion.lhs ELSE assertion.fact,
                         conditions.fresh)
  IN  [rules |-> Append(dlir.rules, Rule(Says(speaker, dlir.predicate), conditions.rhs)),
       fresh |-> dlir.fresh]

kDummyPredicate == Predicate(<<"grounded_dummy">>, <<Literal("dummy_var")>>, kPositive)

QueryToDLIR(query, n) ==
  LET dlir == FactToDLIR(query.principal, query.fact, n)
  IN  [rule |-> Rule(Predicate(query.name, <<Literal("dummy_var")>>, kPositive),
                     <<Says(query.principal, dlir.predicate), kDummyPredicate>>),
       fresh |-> dlir.fresh]

-----------------------------------------------------------------------------
(* Delegation depths: a function from names of base facts. *)

BaseName(fact) == BaseFactToDLIR(Literal("speaker"), fact.baseFact, 0).predicate.name

UpdateCanSayDepth(depths, fact) ==
  LET name == BaseName(fact)
      depth == Len(fact.delegationChain)
  IN  [x \in DOMAIN depths \cup {name} |->
         IF x # name THEN depths[x]
         ELSE IF name \in DOMAIN depths /\ depths[name] > depth THEN depths[name] ELSE depth]

-----------------------------------------------------------------------------
(* Declarations. *)

PrincipalArgument(name) == Argument(name, MakePrincipalType)

TransformAttributeDeclaration(declaration) ==
  IF ~declaration.isAttribute THEN declaration
  ELSE RelationDeclaration(declaration.name, FALSE,
         <<PrincipalArgument("attribute_prin")>> \o declaration.arguments)

CanSayDeclaration(declaration) ==
  RelationDeclaration(<<"canSay_">> \o declaration.name, FALSE,
                      <<PrincipalArgument("delegatee")>> \o declaration.arguments)

\* Faulty: only the deepest delegation is declared.
DeepestDelegationDeclaration(built, declaration, depth) ==
  Append(built, FoldLeft(LAMBDA d, i : CanSayDeclaration(d), declaration, [i \in 1 .. depth |-> i]))

\* The declarations of one predicate, at the end of those built so far: the first
\* from the predicate's own, the i-th from the element i - 1 of all of them.
DelegationDeclarations(built, declaration, depth) ==
  FoldLeft(LAMBDA all, i :
             Append(all, CanSayDeclaration(IF i = 1 THEN declaration ELSE all[i - 1])),
           built, [i \in 1 .. depth |-> i])

\* `order` is the order in which the hash map of depths is read.
GetCanSayDeclarations(declarations, depths, order) ==
  LET declared == {declarations[i].name : i \in DOMAIN declarations}
      first(name) == declarations[CHOOSE i \in DOMAIN declarations :
                       declarations[i].name = name /\ \A j \in 1 .. i - 1 : declarations[j].name # name]
  IN  FoldLeft(LAMBDA built, name :
                 IF name \in declared
                   THEN DelegationDeclarations(built, first(name), depths[name]) ELSE built,
               <<>>, order)

CanActAsDeclaration ==
  RelationDeclaration(<<"canActAs">>, FALSE, <<PrincipalArgument("p1"), PrincipalArgument("p2")>>)

GetSaysExtendRelationDeclaration(declaration) ==
  RelationDeclaration(<<"says_">> \o declaration.name, FALSE,
                      <<PrincipalArgument("speaker")>> \o declaration.arguments)

RelationDeclarationToDLIR(declarations, depths, order) ==
  LET transformed ==
        [i \in DOMAIN declarations |-> TransformAttributeDeclaration(declarations[i])]
      all == transformed \o GetCanSayDeclarations(transformed, depths, order)
               \o <<CanActAsDeclaration>>
  IN  [i \in DOMAIN all |-> GetSaysExtendRelationDeclaration(all[i])]

DummyDeclaration(name) ==
  RelationDeclaration(name, FALSE, <<Argument("dummy_param", MakeCustomType("DummyType"))>>)
QueryRelationDeclarationToDLIR(queries) ==
  [i \in DOMAIN queries |-> DummyDeclaration(queries[i].name)]
    \o <<DummyDeclaration(<<"grounded_dummy">>)>>
=============================================================================
