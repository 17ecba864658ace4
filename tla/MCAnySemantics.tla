--------------------------- MODULE MCAnySemantics ---------------------------
(***************************************************************************)
(* The fixpoint loop with arbitrary semantics over the four states of a    *)
(* lattice that is not a chain.  A module of two operations carries its    *)
(* transformers: an operation applies some function to the union or the    *)
(* intersection of its inputs, which may be its own results and the entry  *)
(* value; the second one has that union or intersection as a second        *)
(* result.  The theorems say the same of every semantics.                  *)
(***************************************************************************)
EXTENDS ModuleFixpoint, FiniteSets, Sequences

CONSTANTS EntryA, OpA, OpB

MCOperation == {OpA, OpB}
MCEntryValue == {EntryA}
OutputsOf == [op \in MCOperation |-> IF op = OpB THEN 2 ELSE 1]
MCValues == {EntryA, <<OpA, 1>>, <<OpB, 1>>, <<OpB, 2>>}

MCState == SUBSET {1, 2}
NoFact == {}
UnionJoin(a, b) == a \cup b
FirstFact(v) == {1}

\* Functions that keep bottom; the second set also has those that may fail.
TotalFunctions == {f \in [MCState -> MCState] : f[{}] = {}}
Functions == {f \in [MCState -> MCState \cup {CheckFailure}] : f[{}] = {}}
IsMonotone(f) ==
  \A x, y \in MCState :
    x \subseteq y /\ f[y] # CheckFailure => f[x] # CheckFailure /\ f[x] \subseteq f[y]

Code(inputs, combine, function) ==
  [inputs |-> inputs, combine |-> combine, function |-> function]

UnaryCode(fs) == {Code(<<v>>, "union", f) : v \in MCValues, f \in fs}
BinaryCode(fs) ==
  {Code(<<vw[1], vw[2]>>, c, f) :
     vw \in {<<EntryA, <<OpA, 1>>>>, <<<<OpB, 2>>, <<OpA, 1>>>>},
     c \in {"union", "intersection"}, f \in fs}

Program(a, b) ==
  LET code == [op \in MCOperation |-> IF op = OpA THEN a ELSE b]
  IN [ops |-> MCOperation,
      inputs |-> [op \in MCOperation |-> code[op].inputs],
      outputs |-> OutputsOf,
      combine |-> [op \in MCOperation |-> code[op].combine],
      function |-> [op \in MCOperation |-> code[op].function]]

Combined(kind, states) ==
  LET every == {states[i] : i \in DOMAIN states}
  IN IF kind = "union" THEN UNION every
     ELSE {x \in UNION every : \A s \in every : x \in s}

MCTransformer(m, op, states) ==
  LET in == Combined(m.combine[op], states)
      out == m.function[op][in]
  IN IF out = CheckFailure THEN CheckFailure
     ELSE SubSeq(<<out, in>>, 1, m.outputs[op])

\* The binary operation is monotone and may fail, the unary one is any.
MCModules ==
  {Program(a, b) : a \in UnaryCode(TotalFunctions),
                   b \in BinaryCode({f \in Functions : IsMonotone(f)})}
=============================================================================
