---------------------------- MODULE AuthLogicAst ----------------------------
(***************************************************************************)
(* The abstract syntax of authorization logic (ir/auth_logic/ast.h) and    *)
(* what a traversing visitor meets in it, in order.                        *)
(*                                                                         *)
(* A principal is a term.  A visit is the sequence of the leaves (with     *)
(* kind "principal", "predicate" or "declaration") that a visitor's        *)
(* PreVisit and Visit are called with; the visitors of the compiler        *)
(* combine what they return in that order or act by side effect.           *)
(***************************************************************************)
EXTENDS DatalogProgram, SequencesExt

Principal(name) == name

PredicateFact(predicate) == [kind |-> "predicate", predicate |-> predicate]
Attribute(principal, predicate) ==
  [kind |-> "attribute", principal |-> principal, predicate |-> predicate]
CanActAs(left, right) == [kind |-> "canActAs", left |-> left, right |-> right]

Fact(delegationChain, baseFact) ==
  [delegationChain |-> delegationChain, baseFact |-> baseFact]

ConditionalAssertion(lhs, rhs) == [kind |-> "conditional", lhs |-> lhs, rhs |-> rhs]
FactAssertion(fact) == [kind |-> "fact", fact |-> fact]

SaysAssertion(principal, assertions) ==
  [principal |-> principal, assertions |-> assertions]

Query(name, principal, fact) == [name |-> name, principal |-> principal, fact |-> fact]

Program(declarations, saysAssertions, queries) ==
  [declarations |-> declarations, saysAssertions |-> saysAssertions, queries |-> queries]

-----------------------------------------------------------------------------
(* AuthLogicAstTraversingVisitor. *)

VisitPrincipal(principal) == <<[kind |-> "principal", principal |-> principal]>>
VisitPredicate(predicate) == <<[kind |-> "predicate", predicate |-> predicate]>>
VisitDeclaration(declaration) ==
  <<[kind |-> "declaration", declaration |-> declaration]>>

\* FoldAccept: the leaves of the visits of a sequence of nodes.
FoldAccept(visits) == FlattenSeq(visits)

VisitBaseFact(baseFact) ==
  CASE baseFact.kind = "predicate" -> VisitPredicate(baseFact.predicate)
    [] baseFact.kind = "attribute" ->
         VisitPrincipal(baseFact.principal) \o VisitPredicate(baseFact.predicate)
    [] baseFact.kind = "canActAs" ->
         VisitPrincipal(baseFact.left) \o VisitPrincipal(baseFact.right)

VisitFact(fact) ==
  FoldAccept([i \in DOMAIN fact.delegationChain |-> VisitPrincipal(fact.delegationChain[i])])
    \o VisitBaseFact(fact.baseFact)

VisitAssertion(assertion) ==
  IF assertion.kind = "fact"
    THEN VisitFact(assertion.fact)
    ELSE VisitFact(assertion.lhs)
           \o FoldAccept([i \in DOMAIN assertion.rhs |-> VisitBaseFact(assertion.rhs[i])])

VisitSaysAssertion(says) ==
  VisitPrincipal(says.principal)
    \o FoldAccept([i \in DOMAIN says.assertions |-> VisitAssertion(says.assertions[i])])

VisitQuery(query) == VisitPrincipal(query.principal) \o VisitFact(query.fact)

VisitProgram(program) ==
  FoldAccept([i \in DOMAIN program.declarations |-> VisitDeclaration(program.declarations[i])])
    \o FoldAccept([i \in DOMAIN program.saysAssertions |->
                     VisitSaysAssertion(program.saysAssertions[i])])
    \o FoldAccept([i \in DOMAIN program.queries |-> VisitQuery(program.queries[i])])

PredicatesIn(visit) == SelectSeq(visit, LAMBDA leaf : leaf.kind = "predicate")
=============================================================================
