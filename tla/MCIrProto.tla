----------------------------- MODULE MCIrProto -----------------------------
(***************************************************************************)
(* Modules of three operations in two blocks, whose operands are results   *)
(* of any of them, arguments of a block, or stored values; and translation *)
(* units of three operations whose ids and references may clash or dangle. *)
(***************************************************************************)
EXTENDS IrProto

CONSTANTS A, B   \* operators: A has one result, B two

MCOperators == A :> 1 @@ B :> 2
NoAttributes == <<>>
Attributes(kind) == "n" :> kind

Operands ==
  {AnyValue, StoredValue, BlockArgument(<<1>>, 0), BlockArgument(<<2>>, 0),
   OperationResult(<<1, 1>>, 0), OperationResult(<<1, 2>>, 1), OperationResult(<<2, 1>>, 0)}
InputLists ==
  {<<>>} \cup {<<v>> : v \in Operands}
  \cup {<<OperationResult(<<2, 1>>, 0), v>> : v \in {BlockArgument(<<1>>, 0), OperationResult(<<1, 1>>, 0)}}

Source(i, j, k, results) ==
  [operators |-> MCOperators,
   blocks |-> <<Block(<<Operation(A, i, NoAttributes), Operation(B, j, Attributes("int64"))>>, results),
                Block(<<Operation(A, k, Attributes("string"))>>, <<>>)>>]

MCSources ==
  {Source(i, j, k, <<>>) : i \in InputLists, j \in InputLists, k \in InputLists}
  \cup {Source(i, <<>>, <<>>, results) :
          i \in InputLists,
          results \in {"x" :> OperationResult(<<2, 1>>, 0) @@ "y" :> BlockArgument(<<2>>, 0),
                      "x" :> StoredValue}}

UnitInputs ==
  {<<>>, <<UnsetValue>>, <<AnyValue, BlockArgument(1, 0)>>}
  \cup {<<OperationResult(id, 0)>> : id \in 1 .. 3} \cup {<<BlockArgument(id, 0)>> : id \in 1 .. 2}

MCUnits ==
  {Unit(operators,
        <<WithId(1, Block(<<WithId(1, Operation(A, i, Attributes("int64"))),
                            WithId(id2, Operation(B, j, NoAttributes))>>, results)),
          WithId(b, Block(IF id3 = 0 THEN <<>> ELSE <<WithId(id3, Operation(A, i, Attributes(kind)))>>, <<>>))>>) :
     operators \in {{A}, {A, B}}, id2 \in 1 .. 2, id3 \in 0 .. 3, b \in 1 .. 2,
     i \in UnitInputs, j \in UnitInputs, kind \in {"int64", "unset"},
     results \in {<<>>, "x" :> UnsetValue, "x" :> AnyValue}}
=============================================================================
