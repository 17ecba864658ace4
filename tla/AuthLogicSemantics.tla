------------------------- MODULE AuthLogicSemantics -------------------------
(***************************************************************************)
(* What a policy in authorization logic means, what the Datalog program    *)
(* made from it derives, and the properties that relate the two.           *)
(*                                                                         *)
(* The meaning is read off the parse tree, along the description at the    *)
(* top of ir/auth_logic/lowering_ast_datalog.h: who believes what.  A      *)
(* belief has a speaker, the principals of its `canSay` phrases (outermost *)
(* first), a relation, the principal an attribute is about (or Nobody) and *)
(* arguments.                                                              *)
(***************************************************************************)
EXTENDS AuthLogicCompiler

CONSTANT Nobody

IsVariable(term) == "variable" \in DOMAIN term \/ "fresh" \in DOMAIN term
IsNegated(predicate) == predicate.sign = kNegated

\* Comparisons of other kinds are left to Souffle.
Compare(operator, x, y) == IF operator = <<"=">> THEN x = y ELSE x # y

-----------------------------------------------------------------------------
(* The derivations of a Datalog program: facts are names with arguments.   *)

Value(term, binding) == IF IsVariable(term) THEN binding[term] ELSE term
Bound(term, binding) == ~IsVariable(term) \/ term \in DOMAIN binding
Instance(predicate, binding) ==
  [name |-> predicate.name,
   args |-> [i \in DOMAIN predicate.args |-> Value(predicate.args[i], binding)]]

\* The bindings that extend one so that the predicate becomes the fact.
Extensions(predicate, binding, fact) ==
  LET args == predicate.args
      new == {args[i] : i \in {j \in DOMAIN args : ~Bound(args[j], binding)}}
      extended == binding @@ [v \in new |-> fact.args[CHOOSE i \in DOMAIN args : args[i] = v]]
  IN  IF /\ fact.name = predicate.name
         /\ Len(fact.args) = Len(args)
         /\ \A i \in DOMAIN args : Value(args[i], extended) = fact.args[i]
      THEN {extended} ELSE {}

\* Negations and comparisons are looked at once their variables are bound; a
\* negation looks at the facts `assumed`.
Holds(predicate, binding, assumed) ==
  IF IsNumericOperator(predicate)
    THEN Compare(predicate.name, Value(predicate.args[1], binding), Value(predicate.args[2], binding))
    ELSE Instance(predicate, binding) \notin assumed

Positive(predicate) == ~IsNumericOperator(predicate) /\ ~IsNegated(predicate)

Bindings(rhs, facts, assumed) ==
  LET joined == FoldLeft(LAMBDA bindings, predicate :
                           UNION {Extensions(predicate, b, f) : b \in bindings, f \in facts},
                         {<<>>}, SelectSeq(rhs, Positive))
  IN  {b \in joined : \A i \in DOMAIN rhs : Positive(rhs[i]) \/ Holds(rhs[i], b, assumed)}

RECURSIVE LeastModel(_, _, _)
LeastModel(rs, facts, assumed) ==
  LET next == facts \cup UNION {{Instance(r.lhs, b) : b \in Bindings(r.rhs, facts, assumed)} : r \in rs}
  IN  IF next = facts THEN facts ELSE LeastModel(rs, next, assumed)

\* The model of a stratified program: assume it false, then what follows, ...
RECURSIVE StableModel(_, _)
StableModel(rs, assumed) ==
  LET model == LeastModel(rs, {}, assumed)
  IN  IF model = assumed THEN model ELSE StableModel(rs, model)

DatalogModel(d) == StableModel(ToSet(d.rules), {})

-----------------------------------------------------------------------------
(* The meaning of a parse tree. *)

\* Every assertion with its speaker: a fact and its conditions.
SourceAssertions ==
  UNION {{[speaker |-> tree[i].principal, fact |-> a.fact,
           rvalues |-> IF a.form = "fact" THEN <<>> ELSE a.rvalues] :
            a \in ToSet(tree[i].assertions)} :
           i \in {j \in DOMAIN tree : tree[j].statement = "saysAssertion"}}
SourceQueries == {tree[i] : i \in {j \in DOMAIN tree : tree[j].statement = "query"}}
SourceDeclarations ==
  {tree[i] : i \in {j \in DOMAIN tree : tree[j].statement = "relationDeclaration"}}

SourceArgument(argument) ==
  IF "multiline" \in DOMAIN argument THEN Literal(argument.multiline) ELSE argument
SourceArguments(arguments) == [i \in DOMAIN arguments |-> SourceArgument(arguments[i])]

\* What a flat fact says of whom.
Statement(flat) ==
  IF flat.form = "predFact"
    THEN [relation |-> flat.predicate.relation, subject |-> Nobody,
          args |-> SourceArguments(flat.predicate.arguments)]
  ELSE IF flat.verbphrase.form = "predphrase"
    THEN [relation |-> flat.verbphrase.predicate.relation, subject |-> flat.principal,
          args |-> SourceArguments(flat.verbphrase.predicate.arguments)]
    ELSE [relation |-> "canActAs", subject |-> flat.principal,
          args |-> <<Literal(flat.verbphrase.principal)>>]

IsNegatedFlat(flat) ==
  \/ flat.form = "predFact" /\ flat.predicate.negated
  \/ flat.form = "prinFact" /\ flat.verbphrase.form = "predphrase" /\ flat.verbphrase.predicate.negated

SourceFacts ==
  {a.fact : a \in SourceAssertions} \cup {q.fact : q \in SourceQueries}
SourceFlatFacts ==
  {f.flatFact : f \in SourceFacts}
    \cup UNION {{r \in ToSet(a.rvalues) : r.form # "binop"} : a \in SourceAssertions}
SourceComparisons ==
  UNION {{r \in ToSet(a.rvalues) : r.form = "binop"} : a \in SourceAssertions}

\* The types of the parameters of a relation.
SourceTypes(relation) ==
  LET declaration == CHOOSE d \in SourceDeclarations : d.names[1] = relation
  IN  [i \in DOMAIN declaration.types |-> ConstructArgumentType(declaration.types[i])]
SourcePrincipals ==
  {a.speaker : a \in SourceAssertions} \cup {q.principal : q \in SourceQueries}
    \cup UNION {ToSet(f.canSay) : f \in SourceFacts}
    \cup {f.principal : f \in {g \in SourceFlatFacts : g.form = "prinFact"}}
    \cup {f.verbphrase.principal :
            f \in {g \in SourceFlatFacts : g.form = "prinFact" /\ g.verbphrase.form = "actsAsPhrase"}}

\* The constants of the program with the types of their places.
SourceTypings ==
  LET stated == {Statement(f) : f \in SourceFlatFacts}
      typed == {<<Literal(p), MakePrincipalType>> : p \in SourcePrincipals}
        \cup UNION {{<<s.args[i], SourceTypes(s.relation)[i]>> : i \in DOMAIN s.args} :
                      s \in {t \in stated : t.relation # "canActAs"}}
        \cup UNION {{<<c.arguments[i], MakeNumberType>> : i \in {1, 2}} : c \in SourceComparisons}
  IN  {x \in typed : ~IsVariable(x[1])}

TermVariables(args) == {args[i] : i \in {j \in DOMAIN args : IsVariable(args[j])}}
RvalueArguments(r) == IF r.form = "binop" THEN SourceArguments(r.arguments) ELSE Statement(r).args

\* The values of the variables of an assertion: a variable of its fact has a value
\* of each type it is used at, any other variable a value that the conditions allow.
SourceBindings(assertion, typings) ==
  LET head == Statement(assertion.fact.flatFact)
      vars_ == TermVariables(head.args)
                 \cup UNION {TermVariables(RvalueArguments(r)) : r \in ToSet(assertion.rvalues)}
      ofType(v) == {i \in DOMAIN head.args : head.args[i] = v}
      values(v) == {x[1] : x \in {y \in typings :
                      \A i \in ofType(v) : <<y[1], SourceTypes(head.relation)[i]>> \in typings}}
  IN  {b \in [vars_ -> {x[1] : x \in typings}] : \A v \in vars_ : b[v] \in values(v)}

Ground(args, binding) == [i \in DOMAIN args |-> Value(args[i], binding)]
Belief(speaker, chain, statement, binding) ==
  [speaker |-> speaker, chain |-> chain, relation |-> statement.relation,
   subject |-> statement.subject, args |-> Ground(statement.args, binding)]

Believes(r, speaker, binding, beliefs, assumed) ==
  IF r.form = "binop"
    THEN LET args == Ground(SourceArguments(r.arguments), binding)
         IN  Compare(<<r.operator>>, args[1], args[2])
    ELSE LET belief == Belief(speaker, <<>>, Statement(r), binding)
         IN  IF IsNegatedFlat(r) THEN belief \notin assumed ELSE belief \in beliefs

\* A says fact :- conditions, for all that A believes of the conditions.
Asserted(instances, beliefs, assumed) ==
  {x.belief : x \in {y \in instances :
     \A r \in y.conditions : Believes(r, y.belief.speaker, y.binding, beliefs, assumed)}}

\* A says f if D says f and A says D canSay f.
Delegations(beliefs) ==
  {[b EXCEPT !.chain = Tail(@)] :
     b \in {c \in beliefs : /\ c.chain # <<>>
                            /\ [c EXCEPT !.speaker = Head(c.chain), !.chain = Tail(@)] \in beliefs}}

\* A says Y has a property if A says X has it and A says Y canActAs X.
Inherited(beliefs) ==
  LET flat == {b \in beliefs : b.chain = <<>> /\ b.subject # Nobody}
      roles == {b \in flat : b.relation = "canActAs"}
  IN  UNION {{[b EXCEPT !.subject = role.subject] :
                b \in {c \in flat : c.speaker = role.speaker /\ Literal(c.subject) = role.args[1]}} :
               role \in roles}

RECURSIVE LeastBeliefs(_, _, _)
LeastBeliefs(instances, beliefs, assumed) ==
  LET next == beliefs \cup Asserted(instances, beliefs, assumed)
                \cup Delegations(beliefs) \cup Inherited(beliefs)
  IN  IF next = beliefs THEN beliefs ELSE LeastBeliefs(instances, next, assumed)

RECURSIVE StableBeliefs(_, _)
StableBeliefs(instances, assumed) ==
  LET beliefs == LeastBeliefs(instances, {}, assumed)
  IN  IF beliefs = assumed THEN beliefs ELSE StableBeliefs(instances, beliefs)

Beliefs ==
  LET typings == SourceTypings
      instances ==
        UNION {{[belief |-> Belief(a.speaker, a.fact.canSay, Statement(a.fact.flatFact), b),
                 conditions |-> ToSet(a.rvalues), binding |-> b] :
                  b \in SourceBindings(a, typings)} : a \in SourceAssertions}
  IN  StableBeliefs(instances, {})

\* A query is true of what its principal believes, for some values of its variables.
Answers(query, beliefs) ==
  LET asked == Statement(query.fact.flatFact)
  IN  \E b \in beliefs :
        /\ b.speaker = query.principal /\ b.chain = query.fact.canSay
        /\ b.relation = asked.relation /\ b.subject = asked.subject
        /\ \A i \in DOMAIN asked.args :
             /\ IsVariable(asked.args[i]) \/ asked.args[i] = b.args[i]
             /\ \A j \in DOMAIN asked.args : asked.args[i] = asked.args[j] => b.args[i] = b.args[j]

-----------------------------------------------------------------------------
(* Properties. *)

\* The state has the shape that the passes expect of each other.
TypeOK ==
  /\ phase \in {"read", "insert", "assertions", "queries", "declarations", "emit", "write",
                "exited", "died"}
  /\ freshVarCount \in Nat
  /\ \A name \in DOMAIN canSayDepth : canSayDepth[name] \in Nat
  /\ file \in {Nothing, "partial", "whole"} /\ exitCode \in {Nothing, 0, 1, 2}
  /\ phase \in {"assertions", "queries", "declarations"} => program # Nothing
  /\ phase = "emit" => datalog # Nothing
  /\ (exitCode = 0) = (file # Nothing)

AllSourceArguments ==
  UNION {ToSet(Statement(f).args) : f \in SourceFlatFacts}
    \cup UNION {ToSet(SourceArguments(c.arguments)) : c \in SourceComparisons}

\* The names and numerals for which the lowering is meant: no variable of the
\* policy is named like a fresh one, and every numeral is an int.
NamesAreUsual ==
  \A term \in AllSourceArguments :
    "fresh" \notin DOMAIN term /\ ("numeral" \in DOMAIN term => term.numeral <= MaxInt)

\* A variable of a negation or a comparison also stands in another condition
\* or in the fact; the passes do nothing for one that does not.
ConditionsGrounded ==
  \A a \in SourceAssertions :
    LET positive == {r \in ToSet(a.rvalues) : r.form # "binop" /\ ~IsNegatedFlat(r)}
        ground == TermVariables(Statement(a.fact.flatFact).args)
                    \cup UNION {TermVariables(RvalueArguments(r)) : r \in positive}
    IN  \A r \in ToSet(a.rvalues) : TermVariables(RvalueArguments(r)) \subseteq ground

IsUniverseRelation(name) == Len(name) > 1 /\ name[2] = "is"

\* The name of a predicate that is delegated along a chain of `depth` principals.
DelegationName(depth, name) == <<"says_">> \o [i \in 1 .. depth |-> "canSay_"] \o name

BeliefFact(belief) ==
  LET names(principals) == [i \in DOMAIN principals |-> Literal(principals[i])]
  IN  [name |-> DelegationName(Len(belief.chain), <<belief.relation>>),
       args |-> <<Literal(belief.speaker)>> \o names(belief.chain)
                  \o (IF belief.subject = Nobody THEN <<>> ELSE <<Literal(belief.subject)>>)
                  \o belief.args]
AnswerFact(name) == [name |-> <<name>>, args |-> kDummyPredicate.args]

\* The Datalog program derives what the policy says: every principal's beliefs, by its
\* own assertions, by delegation and through canActAs, and exactly the queries that hold;
\* nothing else but the universes.
BeliefsPreserved ==
  phase = "emit" /\ NamesAreUsual /\ ConditionsGrounded =>
    LET beliefs == Beliefs
    IN  {f \in DatalogModel(datalog) : ~IsUniverseRelation(f.name)} =
          {BeliefFact(b) : b \in beliefs}
            \cup {AnswerFact(q.name) : q \in {x \in SourceQueries : Answers(x, beliefs)}}
            \cup {AnswerFact("grounded_dummy")}

RuleGrounded(r) ==
  LET ground == UNION {TermVariables(r.rhs[i].args) : i \in {j \in DOMAIN r.rhs : Positive(r.rhs[j])}}
  IN  \A predicate \in {r.lhs} \cup ToSet(r.rhs) : TermVariables(predicate.args) \subseteq ground

\* Souffle gets the predefined relations and types from elsewhere, unless all are
\* to be declared.
DeclarationsOf(name) ==
  {i \in DOMAIN text.declarations : text.declarations[i].name = name}
Predefined(name) == ~skipDeclarations /\ name \in PredefinedRelations
DeclaredOnce(predicate) ==
  IF Predefined(predicate.name) THEN DeclarationsOf(predicate.name) = {}
  ELSE \E i \in DOMAIN text.declarations :
         /\ DeclarationsOf(predicate.name) = {i}
         /\ Len(text.declarations[i].arguments) = Len(predicate.args)
TypeKnown(type) == type.name \in text.types \/ (~skipDeclarations /\ type.name \in PredefinedTypes)

IsDelegation(predicate, depths, name) ==
  \E depth \in depths : predicate.name = DelegationName(depth, name)

\* The body of the program has no declaration of canActAs to make delegations from:
\* it is declared after them, and its delegations never are.
DelegatesCanActAs(predicate) ==
  IsDelegation(predicate, 1 .. Len(predicate.name), <<"canActAs">>)

\* Chains of two and more, where the declaration of another relation may be taken
\* for the previous one (see DelegationsDeclared).
MayBeMisdeclared(predicate) ==
  LET declared == Delegated \ {<<"canActAs">>}
  IN  /\ Cardinality(declared) > 1
      /\ \E name \in declared : IsDelegation(predicate, 2 .. Len(predicate.name), name)

IsDeclared(predicate) ==
  IF DelegatesCanActAs(predicate) THEN DeclarationsOf(predicate.name) = {}
  ELSE MayBeMisdeclared(predicate) \/ DeclaredOnce(predicate)

\* Souffle can compile what is printed: every relation of a rule or an output is
\* declared once, with as many arguments, every type is declared, and every rule is
\* grounded, if the conditions of the policy are. Two kinds of policies it cannot
\* compile or may not be able to: a delegation of canActAs is never declared, and one
\* over two and more principals only as it should if no other relation is delegated.
TextCompiles ==
  phase = "write" /\ ConditionsGrounded /\ NamesAreUsual =>
    /\ \A r \in ToSet(text.rules) :
         /\ RuleGrounded(r)
         /\ \A predicate \in {r.lhs} \cup ToSet(r.rhs) :
              IsNumericOperator(predicate) \/ IsDeclared(predicate)
    /\ \A output \in ToSet(text.outputs) : Cardinality(DeclarationsOf(output)) = 1
    /\ \A d \in ToSet(text.declarations) : \A argument \in ToSet(d.arguments) : TypeKnown(argument.type)

UsedRelations == {Statement(f).relation : f \in SourceFlatFacts} \ {"canActAs"}
IllTyped ==
  \/ \E i, j \in DOMAIN tree :
       /\ i # j /\ tree[i].statement = "relationDeclaration" /\ tree[j].statement = "relationDeclaration"
       /\ tree[i].names[1] = tree[j].names[1]
  \/ ~(UsedRelations \subseteq {d.names[1] : d \in SourceDeclarations})
  \/ \E x, y \in SourceTypings : x[1] = y[1] /\ x[2] # y[2]

\* The CHECKs of the passes refuse the policies that use a relation without a
\* declaration or with two, or a constant with two types, and no others.
DiesOnlyOnIllTyped ==
  NamesAreUsual =>
    /\ phase = "died" => IllTyped
    /\ phase \in {"assertions", "write"} => ~IllTyped

\* lowering_ast_datalog.h: "we generate declarations for (1..n)", n the maximum depth
\* at which a predicate is delegated. This is about the predicates that the policy
\* declares: TextCompiles says that the sentence fails for canActAs throughout.
DelegationsDeclared ==
  phase = "write" =>
    \A name \in Delegated \ {<<"canActAs">>} : \A depth \in 1 .. canSayDepth[name] :
      Cardinality(DeclarationsOf(DelegationName(depth, name))) = 1
=============================================================================
