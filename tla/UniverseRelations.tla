------------------------- MODULE UniverseRelations -------------------------
(***************************************************************************)
(* InsertUniverseRelations (ir/auth_logic/universe_relation_insertion.cc)  *)
(* and the environments it reads: the relations a program declares and the *)
(* types of its constants.                                                 *)
(*                                                                         *)
(* The environments are hash maps: where the code iterates over one, the   *)
(* order is arbitrary, and it only changes the order of facts and of       *)
(* declarations, which mean the same in any order.                         *)
(***************************************************************************)
EXTENDS AuthLogicAst

CONSTANT MaxInt    \* the largest int, which SimpleAtoi can return

\* A quoted name, or digits that are an int.
IsNameConstant(id) ==
  \/ "literal" \in DOMAIN id
  \/ "numeral" \in DOMAIN id /\ id.numeral <= MaxInt

-----------------------------------------------------------------------------
(* DeclarationEnvironment. *)

DeclaredNames(program) ==
  {program.declarations[i].name : i \in DOMAIN program.declarations}

\* AddDeclaration meets a name it has already.
DeclaredTwice(program) ==
  \E i, j \in DOMAIN program.declarations :
    i < j /\ program.declarations[i].name = program.declarations[j].name

GetDeclaration(program, name) ==
  program.declarations[CHOOSE i \in DOMAIN program.declarations :
                         program.declarations[i].name = name]

-----------------------------------------------------------------------------
(* TypeEnvironment.  An argument without a parameter is read past the end  *)
(* of a vector; programs with such a predicate have no defined meaning.    *)

ParameterType(program, predicate, i) ==
  IF IsNumericOperator(predicate)
    THEN MakeNumberType
    ELSE GetDeclaration(program, predicate.name).arguments[i].type

\* Faulty: variables are typed too.
AddTypingOfVariables(id, type) == {<<id, type>>}

\* The typings that visiting a leaf adds or checks.
AddTyping(id, type) == IF IsNameConstant(id) THEN {<<id, type>>} ELSE {}
LeafTypings(program, leaf) ==
  CASE leaf.kind = "principal" -> AddTyping(leaf.principal, MakePrincipalType)
    [] leaf.kind = "predicate" ->
         UNION {AddTyping(leaf.predicate.args[i], ParameterType(program, leaf.predicate, i)) :
                  i \in DOMAIN leaf.predicate.args}
    [] leaf.kind = "declaration" -> {}

\* GetDeclarationOrFatal is called for every predicate but the comparisons.
UsesUndeclared(program) ==
  \E predicate \in {leaf.predicate : leaf \in ToSet(PredicatesIn(VisitProgram(program)))} :
    ~IsNumericOperator(predicate) /\ predicate.name \notin DeclaredNames(program)

LiteralTypes(program) ==
  UNION {LeafTypings(program, leaf) : leaf \in ToSet(VisitProgram(program))}

\* AddTyping finds another type.
TypedTwice(program) ==
  \E x, y \in LiteralTypes(program) : x[1] = y[1] /\ x[2] # y[2]

\* A CHECK or LOG(FATAL) ends the process while the environments are built.
InsertionDies(program) ==
  DeclaredTwice(program) \/ UsesUndeclared(program) \/ TypedTwice(program)

-----------------------------------------------------------------------------
(* The transformation. *)

InSomeOrder(S) == FoldSet(LAMBDA x, seq : Append(seq, x), <<>>, S)

TypeToUniverseName(type) == <<"is", type.name>>

MakeUniverseMembershipFact(element, type) ==
  PredicateFact(Predicate(TypeToUniverseName(type), <<element>>, kPositive))

TypeToUniverseDeclaration(type) ==
  RelationDeclaration(TypeToUniverseName(type), FALSE, <<Argument("x", type)>>)

\* Every constant principal says of every constant that it is in its universe.
GetUniverseDefiningFacts(program) ==
  LET typings == LiteralTypes(program)
      principals == {x[1] : x \in {y \in typings : y[2].kind = "kPrincipal"}}
  IN  InSomeOrder({SaysAssertion(p, <<FactAssertion(Fact(<<>>, MakeUniverseMembershipFact(x[1], x[2])))>>) :
                  p \in principals, x \in typings})

GetUniverseDeclarations(program) ==
  {TypeToUniverseDeclaration(type) :
     type \in {MakeNumberType, MakePrincipalType}
              \cup UNION {{d.arguments[i].type : i \in DOMAIN d.arguments} :
                            d \in ToSet(program.declarations)}}

\* Conditions for the arguments, and the principals, that are not constants.
LeafConditions(program, leaf) ==
  IF leaf.kind = "principal"
    THEN IF IsNameConstant(leaf.principal) THEN <<>>
         ELSE <<MakeUniverseMembershipFact(leaf.principal, MakePrincipalType)>>
    ELSE LET predicate == leaf.predicate
             condition(i) ==
               MakeUniverseMembershipFact(predicate.args[i], ParameterType(program, predicate, i))
             ungrounded == SelectSeq([i \in DOMAIN predicate.args |-> i],
                                     LAMBDA i : ~IsNameConstant(predicate.args[i]))
         IN  [k \in DOMAIN ungrounded |-> condition(ungrounded[k])]

GetUniverseConditions(program, baseFact) ==
  LET visit == VisitBaseFact(baseFact)
  IN  FlattenSeq([i \in DOMAIN visit |-> LeafConditions(program, visit[i])])

AddUniverseConditions(program, assertion) ==
  IF assertion.kind = "conditional"
    THEN ConditionalAssertion(assertion.lhs,
           GetUniverseConditions(program, assertion.lhs.baseFact) \o assertion.rhs)
    ELSE LET conditions == GetUniverseConditions(program, assertion.fact.baseFact)
         IN  IF conditions = <<>> THEN assertion
             ELSE ConditionalAssertion(assertion.fact, conditions)

InsertUniverseRelations(program) ==
  Program(program.declarations \o InSomeOrder(GetUniverseDeclarations(program)),
          GetUniverseDefiningFacts(program) \o
            [i \in DOMAIN program.saysAssertions |->
               SaysAssertion(program.saysAssertions[i].principal,
                 [j \in DOMAIN program.saysAssertions[i].assertions |->
                    AddUniverseConditions(program, program.saysAssertions[i].assertions[j])])],
          program.queries)
=============================================================================
