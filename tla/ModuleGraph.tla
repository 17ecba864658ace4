---------------------------- MODULE ModuleGraph ----------------------------
(***************************************************************************)
(* The dataflow graph of an IR module (src/analysis/common/module_graph):  *)
(* values and operations are its nodes, an edge goes from a value to each  *)
(* operation that has it as an input and from an operation to each of its  *)
(* results.  A module is a record with                                     *)
(*   ops     the operations of all its blocks,                             *)
(*   inputs  the sequence of input values of each operation,               *)
(*   outputs the number of return values of each operation's operator.     *)
(* A value is the result <<op, i>> of an operation or an entry value: a    *)
(* block argument, a stored value or Any.  The values a storage was filled *)
(* from are not edges: the visitor looks at operations only.               *)
(***************************************************************************)
EXTENDS Naturals, Sequences

CONSTANTS
  Operation,    \* the operations modules are built from
  EntryValue    \* the values that are not operation results

OperationResult == Operation \X (Nat \ {0})

ASSUME EntryValueAssumption == EntryValue \cap OperationResult = {}

Value == EntryValue \cup OperationResult

IsModule(m) ==
  /\ m.ops \subseteq Operation
  /\ m.inputs \in [m.ops -> Seq(Value)]
  /\ m.outputs \in [m.ops -> Nat]

\* The values an operation reads, in any position.
InputValues(m, op) == {m.inputs[op][i] : i \in DOMAIN m.inputs[op]}

\* GetResults: the result values of an operation.
Results(m, op) == {<<op, i>> : i \in 1 .. m.outputs[op]}

\* GetUses: the operations that have v among their inputs.
Uses(m, v) == {op \in m.ops : v \in InputValues(m, op)}

\* The value nodes of the graph.
ValueNodes(m) == UNION {InputValues(m, op) \cup Results(m, op) : op \in m.ops}
=============================================================================
