------------------------------- MODULE IrText -------------------------------
(***************************************************************************)
(* IR as text: IrVisitor (src/parser/ir/ir_parser.cc) builds a module from *)
(* a program, in which operands may be defined further down; IRPrinter     *)
(* (src/ir/ir_printer.h) and DatalogLoweringVisitor (src/backends/         *)
(* policy_engine/souffle) write the module again, one operation after the  *)
(* other.  SsaNames (src/ir/ssa_names.h) carries the names in between.     *)
(*                                                                         *)
(* A program is a sequence of blocks, a block a sequence of statements.    *)
(* The number n stands for the name "%n", so that names in a program and   *)
(* generated names may coincide; other names are model values.             *)
(***************************************************************************)
EXTENDS Naturals, FiniteSets, SequencesExt

CONSTANTS
  Programs,  \* the programs that are parsed
  AnyValue   \* the operand and value <<ANY>>

\* The attributes of a statement are a list of names (numbers, in the order
\* of the names); their payloads do not matter here.
Statement(results, operator, attributes, inputs) ==
  [results |-> results, operator |-> operator,
   attributes |-> attributes, inputs |-> inputs]

\* The index-th result of the s-th operation of block b.
OperationResult(b, s, index) == <<b, s, index>>

IsSequence(s) == s \in Seq(ToSet(s))

\* A sequence of sequences of statements.
IsProgram(text) ==
  /\ IsSequence(text)
  /\ \A b \in DOMAIN text :
       /\ IsSequence(text[b])
       /\ \A s \in DOMAIN text[b] :
            LET st == text[b][s]
            IN /\ st = Statement(st.results, st.operator, st.attributes, st.inputs)
               /\ IsSequence(st.results) /\ AnyValue \notin ToSet(st.results)
               /\ st.attributes \in Seq(Nat) /\ IsSequence(st.inputs)

\* No operand that names a result is taken for <<ANY>>, and no value.
ASSUME ProgramsAssumption ==
  /\ \A text \in Programs : IsProgram(text)
  /\ AnyValue \notin Nat /\ AnyValue \notin Nat \X Nat \X Nat

VARIABLES
  program,      \* the parse tree
  pc,           \* the loop that is running
  block, next,  \* the position of its next step
  operators,    \* the operators of the context: their numbers of results
  temporaries,  \* temporary_name_to_value, of the block
  operations,   \* the operations of the block, with the inputs added so far
  module,       \* the blocks of the module
  names,        \* SsaNames: the ids of values
  client,       \* who writes the module
  output        \* what it has written

vars == <<program, pc, block, next, operators, temporaries, operations, module,
          names, client, output>>

\* A map after insertions: what it has stays.
Inserted(map, more) ==
  [x \in DOMAIN map \cup DOMAIN more |-> IF x \in DOMAIN map THEN map[x] ELSE more[x]]

Init ==
  /\ program \in Programs
  /\ pc = "collect" /\ block = 1 /\ next = 1
  /\ operators = <<>> /\ temporaries = <<>> /\ operations = <<>>
  /\ module = <<>> /\ names = <<>>
  /\ client = "none" /\ output = <<>>

-----------------------------------------------------------------------------
(* Parsing.  Any failed CHECK ends the process. *)

Dies ==
  /\ pc' = "died"
  /\ UNCHANGED <<program, block, next, operators, temporaries, operations,
                 module, names, client, output>>

\* MaybeRegisterOperator accepts the number of results.
OperatorAgrees(st) ==
  st.operator \in DOMAIN operators => operators[st.operator] = Len(st.results)

\* The insertions into temporary_name_to_value all succeed.
ResultsAreNew(st) ==
  /\ IsInjective(st.results)
  /\ \A i \in DOMAIN st.results : st.results[i] \notin DOMAIN temporaries

\* Faulty: every temporary is the operation's default result.
TemporariesDefault(b, s, st) ==
  [name \in ToSet(st.results) |-> OperationResult(b, s, 1)]

\* The temporaries that hold the results of a statement.
TemporariesOf(b, s, st) ==
  [name \in ToSet(st.results) |->
     LET i == CHOOSE i \in DOMAIN st.results : st.results[i] = name
     IN OperationResult(b, s, i)]

\* visitOperation, and the first loop of visitBlock: an operation without
\* inputs, and the temporaries that hold its results.
VisitOperation ==
  /\ pc = "collect" /\ block <= Len(program) /\ next <= Len(program[block])
  /\ LET st == program[block][next]
     IN IF IsInjective(st.attributes) /\ OperatorAgrees(st) /\ ResultsAreNew(st)
        THEN /\ operators' = Inserted(operators, [o \in {st.operator} |-> Len(st.results)])
             /\ operations' = Append(operations,
                  [operator |-> st.operator, outputs |-> Len(st.results),
                   attributes |-> ToSet(st.attributes), inputs |-> <<>>])
             /\ temporaries' = Inserted(temporaries, TemporariesOf(block, next, st))
             /\ next' = next + 1
             /\ UNCHANGED <<program, pc, block, module, names, client, output>>
        ELSE Dies

\* Faulty: only the results of the block's first operation are named.
IdsOfFirst ==
  [v \in {w \in Range(temporaries) : w[2] = 1} |->
     CHOOSE name \in DOMAIN temporaries : temporaries[name] = v]

\* The names of the block's temporaries.
IdsOfTemporaries ==
  [v \in Range(temporaries) |->
     CHOOSE name \in DOMAIN temporaries : temporaries[name] = v]

\* Every temporary is added to SsaNames; none of the values has an id yet.
NameTemporaries ==
  /\ pc = "collect" /\ block <= Len(program) /\ next > Len(program[block])
  /\ names' = Inserted(names, IdsOfTemporaries)
  /\ pc' = "resolve" /\ next' = 1
  /\ UNCHANGED <<program, block, operators, temporaries, operations, module, client, output>>

\* The second loop of visitBlock: the inputs of one operation.
ResolveInputs ==
  /\ pc = "resolve" /\ next <= Len(operations)
  /\ LET inputs == program[block][next].inputs
     IN IF ToSet(inputs) \subseteq DOMAIN temporaries \cup {AnyValue}
        THEN /\ operations' = [operations EXCEPT ![next].inputs =
                  [i \in DOMAIN inputs |->
                     IF inputs[i] = AnyValue THEN AnyValue ELSE temporaries[inputs[i]]]]
             /\ next' = next + 1
             /\ UNCHANGED <<program, pc, block, operators, temporaries, module,
                            names, client, output>>
        ELSE Dies

\* Faulty: the table of temporaries is kept from block to block.
AddBlockKeepingTemporaries ==
  /\ pc = "resolve" /\ next > Len(operations)
  /\ module' = Append(module, operations)
  /\ operations' = <<>>
  /\ pc' = "collect" /\ block' = block + 1 /\ next' = 1
  /\ UNCHANGED <<program, operators, temporaries, names, client, output>>

AddBlock ==
  /\ pc = "resolve" /\ next > Len(operations)
  /\ module' = Append(module, operations)
  /\ operations' = <<>> /\ temporaries' = <<>>
  /\ pc' = "collect" /\ block' = block + 1 /\ next' = 1
  /\ UNCHANGED <<program, operators, names, client, output>>

-----------------------------------------------------------------------------
(* Writing. *)

\* Faulty: the values of every block are numbered from zero.
NumberedPerBlock(table, value) ==
  Inserted(table, [v \in {value} |-> Cardinality({w \in DOMAIN table : w[1] = v[1]})])

\* The id of a value, or a new one made from the size of the table.
GetOrCreateID(table, value) ==
  Inserted(table, [v \in {value} |-> Cardinality(DOMAIN table)])

Printers == {"print", "print fresh"}
Lowerings == {"facts", "facts fresh"}

\* The ids of an operation's inputs are made before those of its results;
\* the printer goes through the inputs forwards, rfold backwards.
NamesAfter(b, s, op) ==
  LET inputs == IF client \in Printers THEN op.inputs ELSE Reverse(op.inputs)
      values == inputs \o [i \in 1 .. op.outputs |-> OperationResult(b, s, i)]
      table[n \in 0 .. Len(values)] ==
        IF n = 0 THEN names
        ELSE IF values[n] = AnyValue THEN table[n - 1]
        ELSE GetOrCreateID(table[n - 1], values[n])
  IN table[Len(values)]

\* IRPrinter and DatalogLoweringVisitor can each be given the parser's names,
\* as a test and ir_to_operation_facts do, or start from fresh ones.
StartWriting ==
  /\ pc = "collect" /\ block > Len(program)
  /\ client' \in Printers \cup Lowerings
  /\ names' = IF client' \in {"print", "facts"} THEN names ELSE <<>>
  /\ output' = [b \in DOMAIN module |-> <<>>]
  /\ pc' = "write" /\ block' = 1 /\ next' = 1
  /\ UNCHANGED <<program, operators, temporaries, operations, module>>

\* The names of a set, sorted.
InOrder(S) == CHOOSE s \in SetToSeqs(S) : \A i, j \in DOMAIN s : i < j => s[i] < s[j]

\* PreVisit(operation): attributes are sorted by name.
WriteOperation ==
  /\ pc = "write" /\ block <= Len(module) /\ next <= Len(module[block])
  /\ LET op == module[block][next]
         table == NamesAfter(block, next, op)
     IN /\ names' = table
        /\ output' = [output EXCEPT ![block] = Append(@,
             Statement([i \in 1 .. op.outputs |-> table[OperationResult(block, next, i)]],
                       op.operator,
                       InOrder(op.attributes),
                       [i \in DOMAIN op.inputs |->
                          IF op.inputs[i] = AnyValue THEN AnyValue ELSE table[op.inputs[i]]]))]
  /\ next' = next + 1
  /\ UNCHANGED <<program, pc, block, operators, temporaries, operations, module, client>>

NextBlock ==
  /\ pc = "write" /\ block <= Len(module) /\ next > Len(module[block])
  /\ block' = block + 1 /\ next' = 1
  /\ UNCHANGED <<program, pc, operators, temporaries, operations, module,
                 names, client, output>>

Next ==
  \/ VisitOperation \/ NameTemporaries \/ ResolveInputs \/ AddBlock
  \/ StartWriting \/ WriteOperation \/ NextBlock

Spec == Init /\ [][Next]_vars

Parsed == pc = "write" \/ (pc = "collect" /\ block > Len(program))
Written == pc = "write" /\ block > Len(module)

-----------------------------------------------------------------------------
(* What a program means, said of the whole of it. *)

Definitions(text, b) ==
  UNION {{<<text[b][s].results[i], OperationResult(b, s, i)>> :
            i \in DOMAIN text[b][s].results} : s \in DOMAIN text[b]}

DefinedNames(text, b) == {d[1] : d \in Definitions(text, b)}

Statements(text) == UNION {ToSet(text[b]) : b \in DOMAIN text}

WellFormed(text) ==
  /\ \A st \in Statements(text) : IsInjective(st.attributes)
  /\ \A st, other \in Statements(text) :
       st.operator = other.operator => Len(st.results) = Len(other.results)
  /\ \A b \in DOMAIN text :
       /\ \A d, e \in Definitions(text, b) : d[1] = e[1] => d = e
       /\ \A s \in DOMAIN text[b] :
            ToSet(text[b][s].inputs) \subseteq DefinedNames(text, b) \cup {AnyValue}

\* The result that a name stands for in a block.
Denoted(text, b, name) == (CHOOSE d \in Definitions(text, b) : d[1] = name)[2]

Meaning(text) ==
  [b \in DOMAIN text |->
     [s \in DOMAIN text[b] |->
        LET st == text[b][s]
        IN [operator |-> st.operator, outputs |-> Len(st.results),
            attributes |-> ToSet(st.attributes),
            inputs |-> [i \in DOMAIN st.inputs |->
              IF st.inputs[i] = AnyValue THEN AnyValue
              ELSE Denoted(text, b, st.inputs[i])]]]]

Normalized(text) ==
  [b \in DOMAIN text |->
     [s \in DOMAIN text[b] |->
        [text[b][s] EXCEPT !.attributes = InOrder(ToSet(@))]]]

\* All operations in one list: facts do not say which block they are from.
Joined(blocks) == <<FlattenSeq(blocks)>>

\* Where a result is in that list.
Moved(v) ==
  IF v = AnyValue THEN AnyValue
  ELSE OperationResult(1, Len(FlattenSeq(SubSeq(module, 1, v[1] - 1))) + v[2], v[3])

JoinedModule ==
  Joined([b \in DOMAIN module |->
            [s \in DOMAIN module[b] |->
               [module[b][s] EXCEPT !.inputs = [i \in DOMAIN @ |-> Moved(@[i])]]]])

-----------------------------------------------------------------------------
TypeOK ==
  /\ pc \in {"collect", "resolve", "write", "died"}
  /\ \A v \in Range(temporaries) \cup DOMAIN names :
       /\ v[1] \in 1 .. Len(program) /\ v[2] \in DOMAIN program[v[1]]
       /\ v[3] \in DOMAIN program[v[1]][v[2]].results
  /\ client \in {"none"} \cup Printers \cup Lowerings

(***************************************************************************)
(* The parser dies exactly on the programs that are not well formed:       *)
(* although it checks in two loops per block, statement by statement, no   *)
(* order of the definitions and uses gets past it or is wrongly refused.   *)
(***************************************************************************)
RefusesExactlyMalformed ==
  /\ pc = "died" => ~WellFormed(program)
  /\ Parsed => WellFormed(program)

(***************************************************************************)
(* The module that was built has the program's data flow: every operand is *)
(* the result that carries its name in the same block, wherever it stands. *)
(***************************************************************************)
ModuleHasMeaning == Parsed => module = Meaning(program)

(***************************************************************************)
(* Printed text parses to the module it was printed from, whichever names  *)
(* it is printed with; with the parser's names it is the program again,    *)
(* attributes in order.                                                    *)
(***************************************************************************)
PrintedTextRoundTrips ==
  Written /\ client \in Printers =>
    /\ WellFormed(output) /\ Meaning(output) = module
    /\ client = "print" => output = Normalized(program)

(***************************************************************************)
(* The facts that the Souffle policy engine loads have the data flow of    *)
(* the module: read as one list of operations they define each name once,  *)
(* and every operand is the result that it is in the module.               *)
(***************************************************************************)
FactsKeepDataFlow ==
  Written /\ client = "facts fresh" =>
    WellFormed(Joined(output)) /\ Meaning(Joined(output)) = JoinedModule
=============================================================================
