--------------------------- MODULE DatalogProgram ---------------------------
(***************************************************************************)
(* The Datalog programs that authorization logic is lowered to             *)
(* (ir/datalog/program.h).                                                 *)
(*                                                                         *)
(* A relation's name is the sequence of its parts: "says_canSay_p" is      *)
(* <<"says_", "canSay_", "p">>.  A term is a quoted literal, a numeral, a   *)
(* variable of the program or a variable the lowering makes up.            *)
(***************************************************************************)
EXTENDS Integers, Sequences, FiniteSets

kPositive == "positive"
kNegated == "negated"

Literal(text) == [literal |-> text]
Numeral(n) == [numeral |-> n]
Variable(name) == [variable |-> name]
Fresh(n) == [fresh |-> n]

Predicate(name, args, sign) == [name |-> name, args |-> args, sign |-> sign]

IsNumericOperator(predicate) ==
  predicate.name \in {<<"<">>, <<">">>, <<"=">>, <<"!=">>, <<"<=">>, <<">=">>}

(***************************************************************************)
(* ArgumentType: two types are equal if their kinds and names are.         *)
(***************************************************************************)
MakePrincipalType == [kind |-> "kPrincipal", name |-> "Principal"]
MakeNumberType == [kind |-> "kNumber", name |-> "Number"]
MakeCustomType(name) == [kind |-> "kCustom", name |-> name]

Argument(name, type) == [name |-> name, type |-> type]

RelationDeclaration(name, isAttribute, arguments) ==
  [name |-> name, isAttribute |-> isAttribute, arguments |-> arguments]

Rule(lhs, rhs) == [lhs |-> lhs, rhs |-> rhs]

DatalogProgram(declarations, rules, outputs) ==
  [declarations |-> declarations, rules |-> rules, outputs |-> outputs]
=============================================================================
