---------------------------- MODULE MCAuthLogic ----------------------------
(***************************************************************************)
(* Policies of two principals and one constant of another type: two or     *)
(* three assertions, of every form the grammar has, and a query.           *)
(***************************************************************************)
EXTENDS AuthLogicSemantics

Pred(relation, arguments) == [relation |-> relation, arguments |-> arguments, negated |-> FALSE]
Not(predicate) == [predicate EXCEPT !.negated = TRUE]
PredFact(predicate) == [form |-> "predFact", predicate |-> predicate]
Has(principal, predicate) ==
  [form |-> "prinFact", principal |-> principal,
   verbphrase |-> [form |-> "predphrase", predicate |-> predicate]]
Acts(principal, other) ==
  [form |-> "prinFact", principal |-> principal,
   verbphrase |-> [form |-> "actsAsPhrase", principal |-> other]]
Binop(operator, x, y) == [form |-> "binop", operator |-> operator, arguments |-> <<x, y>>]
Phrase(canSay, flat) == [canSay |-> canSay, flatFact |-> flat]
Plain(fact) == [form |-> "fact", fact |-> fact]
If(fact, rvalues) == [form |-> "hornClause", fact |-> fact, rvalues |-> rvalues]
SaysTree(principal, assertions) ==
  [statement |-> "saysAssertion", principal |-> principal, assertions |-> assertions]
Ask(name, principal, fact) ==
  [statement |-> "query", name |-> name, principal |-> principal, fact |-> fact]
Decl(relation, attribute, types) ==
  [statement |-> "relationDeclaration", attribute |-> attribute,
   names |-> <<relation>> \o [i \in DOMAIN types |-> "x"], types |-> types]
Import == [statement |-> "importAssertion"]

T == [form |-> "customType", name |-> "T"]
Tag == [form |-> "customType", name |-> "Tag"]
PrincipalType == [form |-> "principalType"]
NumberType == [form |-> "numberType"]
x == Variable("x")
y == Variable("y")
c == Literal("c")

Declarations ==
  <<Decl("p", FALSE, <<T>>), Decl("q", FALSE, <<PrincipalType, T>>),
    Decl("r", TRUE, <<T>>), Decl("n", FALSE, <<NumberType>>), Decl("t", FALSE, <<Tag>>)>>

P(term) == PredFact(Pred("p", <<term>>))
Q(first, second) == PredFact(Pred("q", <<first, second>>))
R(principal, term) == Has(principal, Pred("r", <<term>>))
N(number) == PredFact(Pred("n", <<number>>))

\* What A says first; B says p of c where it helps.
First ==
  {Plain(Phrase(<<>>, P(c))), Plain(Phrase(<<"B">>, P(c))), Plain(Phrase(<<"B">>, P(x))),
   Plain(Phrase(<<"B", "B">>, P(x))), Plain(Phrase(<<"B", "A">>, P(c))),
   Plain(Phrase(<<"B">>, R("B", c))), Plain(Phrase(<<"B">>, Acts("A", "B"))),
   Plain(Phrase(<<>>, Acts("A", "B"))), Plain(Phrase(<<>>, R("B", x))),
   If(Phrase(<<"B">>, P(x)), <<Q(Literal("A"), x)>>),
   If(Phrase(<<>>, P(x)), <<Q(y, x), Binop("!=", y, Literal("A"))>>),
   Plain(Phrase(<<"B">>, P(Fresh(1)))), Plain(Phrase(<<>>, N(Numeral(5)))),
   Plain(Phrase(<<>>, N(Numeral(7)))), Plain(Phrase(<<>>, N(c)))}

Second ==
  {Plain(Phrase(<<>>, Q(Literal("B"), MultilineLiteral("c", 1)))),
   Plain(Phrase(<<"A">>, Q(x, y))), Plain(Phrase(<<"B", "A">>, Q(Literal("A"), c))),
   Plain(Phrase(<<>>, R("B", c))), Plain(Phrase(<<"A">>, P(c))),
   If(Phrase(<<>>, P(x)), <<R("A", x)>>), If(Phrase(<<>>, R("A", c)), <<Acts("A", "B"), P(c)>>),
   Plain(Phrase(<<>>, Acts("B", "C"))),
   If(Phrase(<<>>, Q(x, y)), <<Has("B", Not(Pred("r", <<y>>)))>>),
   If(Phrase(<<>>, P(c)), <<Has("A", Not(Pred("r", <<x>>)))>>)}

Third ==
  {Plain(Phrase(<<>>, P(c))), Plain(Phrase(<<"A">>, P(c))), Plain(Phrase(<<>>, R("C", c))),
   Plain(Phrase(<<>>, PredFact(Pred("t", <<Literal("g")>>))))}

Questions ==
  {Phrase(<<>>, P(c)), Phrase(<<>>, Q(x, y)), Phrase(<<"B">>, P(x)), Phrase(<<>>, R("A", x))}

\* Declarations as they should be, without p, and with p twice.
Headers == {Declarations, Tail(Declarations), Append(Declarations, Decl("p", TRUE, <<T>>))}

MCPolicies ==
  {d \o <<SaysTree("A", <<f, s>>), Import, SaysTree("B", <<t>>), Ask("q1", "A", question)>> :
     d \in {Declarations}, f \in First, s \in Second, t \in Third, question \in Questions}
  \cup
  {d \o <<SaysTree("A", <<f>>), Ask("q1", "A", Phrase(<<>>, R("A", x))), Ask("q2", "B", Phrase(<<>>, P(x)))>> :
     d \in Headers, f \in First}
=============================================================================
