----------------------------- MODULE SqlDecoder -----------------------------
(***************************************************************************)
(* DecodeExpressionArena (src/frontends/sql/decode.cc) and the             *)
(* DecoderContext it fills: from a sequence of identified expressions to   *)
(* the operations of one block.  An expression refers to others by id;     *)
(* the value of the last one is the output of the query.                   *)
(*                                                                         *)
(* Names and paths are strings, the empty one stands for a missing field.  *)
(* The result of the k-th operation of the block is the value              *)
(* OperationResult(k); every operator of the front end has one result.     *)
(***************************************************************************)
EXTENDS Naturals, FiniteSets, SequencesExt

SourceTableColumn(path) == [variant |-> "column", path |-> path]
Literal(str) == [variant |-> "literal", str |-> str]
MergeOperation(inputs, controlInputs) ==
  [variant |-> "merge", inputs |-> inputs, controlInputs |-> controlInputs]
TagTransform(node, rule, preconditions) ==
  [variant |-> "transform", node |-> node, rule |-> rule, preconditions |-> preconditions]
VariantNotSet == [variant |-> "none"]
IdExpressionPair(id, expression) == [id |-> id, expression |-> expression]

\* The values of the message Expression; an id is a uint64.
IsExpression(e) ==
  \/ e.variant = "none" /\ e = VariantNotSet
  \/ e.variant = "column" /\ e = SourceTableColumn(e.path)
  \/ e.variant = "literal" /\ e = Literal(e.str)
  \/ /\ e.variant = "merge" /\ e = MergeOperation(e.inputs, e.controlInputs)
     /\ e.inputs \in Seq(Nat) /\ e.controlInputs \in Seq(Nat)
  \/ /\ e.variant = "transform" /\ e = TagTransform(e.node, e.rule, e.preconditions)
     /\ e.node \in Nat /\ e.preconditions \in [DOMAIN e.preconditions -> Nat]
     /\ IsFiniteSet(DOMAIN e.preconditions)

IsArena(pairs) ==
  /\ pairs \in Seq(ToSet(pairs))
  /\ \A pair \in ToSet(pairs) : pair.id \in Nat /\ IsExpression(pair.expression)

OperationResult(k) == [operation |-> k]
StoredValue(path) == [storage |-> path]

Operation(operator, attributes, inputs) ==
  [operator |-> operator, attributes |-> attributes, inputs |-> inputs]
NoAttributes == <<>>

LiteralOp(str) == Operation("sql.literal", [literal_string |-> str], <<>>)

MergeOp(direct, control) ==
  Operation("sql.merge", [control_input_start_index |-> Len(direct)], direct \o control)

\* Faulty: the positions of the preconditions start at the transformed value.
PositionFromZero(order, name) == (CHOOSE i \in DOMAIN order : order[i] = name) - 1

\* The position of a precondition among the inputs; the transformed value has 0.
Position(order, name) == CHOOSE i \in DOMAIN order : order[i] = name

\* Preconditions share the attributes of the operation with the rule name.
TagTransformOp(rule, value, order, values) ==
  Operation("sql.tag_transform",
            [name \in {"rule_name"} \cup ToSet(order) |->
               IF name = "rule_name" THEN rule ELSE Position(order, name)],
            <<value>> \o [i \in DOMAIN order |-> values[order[i]]])

SqlOutputOp(value) == Operation("sql.sql_output", NoAttributes, <<value>>)

-----------------------------------------------------------------------------
(***************************************************************************)
(* What the readers of these operations return; indices count from 0.      *)
(***************************************************************************)
GetDirectInputs(op) == SubSeq(op.inputs, 1, op.attributes["control_input_start_index"])
GetControlInputs(op) ==
  SubSeq(op.inputs, op.attributes["control_input_start_index"] + 1, Len(op.inputs))

GetTransformedValue(op) == op.inputs[1]
GetPreconditions(op) ==
  [name \in DOMAIN op.attributes \ {"rule_name"} |-> op.inputs[op.attributes[name] + 1]]

-----------------------------------------------------------------------------
VARIABLES
  arena,       \* the argument: a sequence of pairs
  next,        \* the position of the next pair
  idToValue,   \* id_to_value
  storages,    \* the storages of the context
  operations,  \* the operations of the top level block
  decoding     \* "decode", then "decoded" or "died" (a CHECK failed)

decoderVars == <<arena, next, idToValue, storages, operations, decoding>>

DecoderInit ==
  /\ next = 1 /\ idToValue = <<>> /\ storages = {} /\ operations = <<>>
  /\ decoding = "decode"

Id == arena[next].id
Expr == arena[next].expression

\* Faulty: id 0, which stands for a missing reference, is looked up as well.
HasAnyValue(id) == id \in DOMAIN idToValue

\* GetValue passes its checks.  Id 0 can be registered, but not used.
HasValue(id) == id # 0 /\ id \in DOMAIN idToValue

\* Faulty: an id that is used again gets the new value.
MayRegisterAgain(id) == TRUE

\* RegisterValue passes its check.
MayRegister(id) == id \notin DOMAIN idToValue

\* The checks for one expression, in the decoder and in the operations.
Passes(expr) ==
  \/ expr.variant = "column" /\ expr.path # ""
  \/ expr.variant = "literal" /\ expr.str # ""
  \/ /\ expr.variant = "merge" /\ expr.inputs # <<>>
     /\ \A id \in ToSet(expr.inputs \o expr.controlInputs) : HasValue(id)
  \/ /\ expr.variant = "transform" /\ expr.node # 0 /\ expr.rule # ""
     /\ \A id \in {expr.node} \cup Range(expr.preconditions) : HasValue(id)
     /\ "rule_name" \notin DOMAIN expr.preconditions

MoreToDecode == decoding = "decode" /\ next <= Len(arena)
At(variant) ==
  MoreToDecode /\ Expr.variant = variant /\ Passes(Expr) /\ MayRegister(Id)

RegisterValue(value) ==
  /\ idToValue' = [id \in DOMAIN idToValue \cup {Id} |-> IF id = Id THEN value ELSE idToValue[id]]
  /\ next' = next + 1 /\ UNCHANGED <<arena, decoding>>

AddOperation(op) ==
  /\ operations' = Append(operations, op)
  /\ RegisterValue(OperationResult(Len(operations) + 1))
  /\ UNCHANGED storages

\* Every column is a storage of its own, made when it is first seen.
DecodeSourceTableColumn ==
  /\ At("column")
  /\ storages' = storages \cup {Expr.path}
  /\ RegisterValue(StoredValue(Expr.path))
  /\ UNCHANGED operations

DecodeLiteral == At("literal") /\ AddOperation(LiteralOp(Expr.str))

\* Faulty: the values of control inputs come first.
ControlFirst(direct, control) == MergeOp(control, direct)

Merged(direct, control) == MergeOp(direct, control)

DecodeMergeOperation ==
  LET ValuesOf(ids) == [i \in DOMAIN ids |-> idToValue[ids[i]]]
  IN  /\ At("merge")
      /\ AddOperation(Merged(ValuesOf(Expr.inputs), ValuesOf(Expr.controlInputs)))

\* The preconditions come in the order of a hash map.
DecodeTagTransform ==
  /\ At("transform")
  /\ \E order \in SetToSeqs(DOMAIN Expr.preconditions) :
       AddOperation(
         TagTransformOp(Expr.rule, idToValue[Expr.node], order,
                        [name \in DOMAIN Expr.preconditions |-> idToValue[Expr.preconditions[name]]]))

\* The value decoded last is the output; BuildTopLevelBlock ends the block.
DecodeOutput ==
  /\ decoding = "decode" /\ next > Len(arena) /\ arena # <<>>
  /\ operations' = Append(operations, SqlOutputOp(idToValue[Last(arena).id]))
  /\ decoding' = "decoded"
  /\ UNCHANGED <<arena, next, idToValue, storages>>

DecodeDies ==
  /\ \/ MoreToDecode /\ ~(Passes(Expr) /\ MayRegister(Id))
     \/ decoding = "decode" /\ arena = <<>>
  /\ decoding' = "died"
  /\ UNCHANGED <<arena, next, idToValue, storages, operations>>

DecoderNext ==
  \/ DecodeSourceTableColumn \/ DecodeLiteral \/ DecodeMergeOperation
  \/ DecodeTagTransform \/ DecodeOutput \/ DecodeDies

-----------------------------------------------------------------------------
(***************************************************************************)
(* What an arena means: the tree of each of its expressions.               *)
(***************************************************************************)
Children(expr) ==
  CASE expr.variant = "merge" -> ToSet(expr.inputs \o expr.controlInputs)
    [] expr.variant = "transform" -> {expr.node} \cup Range(expr.preconditions)
    [] OTHER -> {}

\* sql_ir.proto: every required field is there, ids are given once, and every
\* reference is to an earlier expression.
WellFormedExpression(expr, earlier) ==
  /\ expr \notin {VariantNotSet, SourceTableColumn(""), Literal("")}
  /\ expr.variant = "merge" => expr.inputs # <<>>
  /\ expr.variant = "transform" =>
       expr.rule # "" /\ "rule_name" \notin DOMAIN expr.preconditions
  /\ Children(expr) \subseteq earlier \ {0}

IdsBefore(pairs, i) == {pairs[j].id : j \in 1..(i - 1)}

WellFormed(pairs) ==
  /\ pairs # <<>>
  /\ \A i, j \in DOMAIN pairs : i # j => pairs[i].id # pairs[j].id
  /\ \A i \in DOMAIN pairs : WellFormedExpression(pairs[i].expression, IdsBefore(pairs, i))

\* The tree of an expression, from those of the ids it refers to.
TreeOver(expr, below) ==
  CASE expr.variant = "merge" ->
         [merge |-> [j \in DOMAIN expr.inputs |-> below[expr.inputs[j]]],
          control |-> [j \in DOMAIN expr.controlInputs |-> below[expr.controlInputs[j]]]]
    [] expr.variant = "transform" ->
         [transform |-> below[expr.node], rule |-> expr.rule,
          preconditions |-> [name \in DOMAIN expr.preconditions |->
                               below[expr.preconditions[name]]]]
    [] expr.variant = "column" -> [column |-> expr.path]
    [] OTHER -> [literal |-> expr.str]

PositionOf(pairs, id) == CHOOSE j \in DOMAIN pairs : pairs[j].id = id

TreeOfExpression(pairs, k) ==
  LET tree[i \in DOMAIN pairs] ==
        TreeOver(pairs[i].expression,
                 [id \in Children(pairs[i].expression) |-> tree[PositionOf(pairs, id)]])
  IN  tree[k]

\* The tree of the result of an operation, from those of its inputs.
TreeOfResult(op, below) ==
  LET Trees(values) == [j \in DOMAIN values |-> below[values[j]]]
  IN  CASE op.operator = "sql.merge" ->
             [merge |-> Trees(GetDirectInputs(op)), control |-> Trees(GetControlInputs(op))]
        [] op.operator = "sql.tag_transform" ->
             [transform |-> below[GetTransformedValue(op)], rule |-> op.attributes["rule_name"],
              preconditions |-> Trees(GetPreconditions(op))]
        [] OTHER -> [literal |-> op.attributes["literal_string"]]

TreeOfValue(ops, value) ==
  LET stored == {StoredValue(s) : s \in storages}
      tree[v \in {OperationResult(k) : k \in DOMAIN ops} \cup stored] ==
        IF v \in stored THEN [column |-> v.storage]
        ELSE TreeOfResult(ops[v.operation], [w \in ToSet(ops[v.operation].inputs) |-> tree[w]])
  IN  tree[value]
=============================================================================
