------------------------------ MODULE IrProto ------------------------------
(***************************************************************************)
(* IR modules as protos: IRToProto (src/ir/ir_to_proto.cc) writes a module *)
(* as a translation unit, ProtoToIR (src/ir/proto_to_ir.cc) builds one     *)
(* from a translation unit, which IRToProto wrote or a front end did.      *)
(*                                                                         *)
(* A module is a sequence of blocks, a block has operations and results.   *)
(* References to operations and blocks are things in a module (<<b, s>> is *)
(* the s-th operation of block b, <<b>> the block) and ids in a proto.     *)
(* An object that ProtoToIR makes is known by the id it was made for.      *)
(***************************************************************************)
EXTENDS Naturals, FiniteSets, SequencesExt

CONSTANTS
  Sources,  \* the modules that are written: [operators, blocks]
  Units     \* the translation units that are read

AnyValue == [kind |-> "any"]
OperationResult(thing, index) == [kind |-> "result", of |-> thing, index |-> index]
BlockArgument(thing, index) == [kind |-> "argument", of |-> thing, index |-> index]
StoredValue == [kind |-> "stored"]
UnsetValue == [kind |-> "unset"]   \* a proto value without a variant
Refers(v) == v.kind \in {"result", "argument"}

\* Attributes map names to the kinds of their payloads, results names to values.
Operation(operator, inputs, attributes) ==
  [operator |-> operator, inputs |-> inputs, attributes |-> attributes]
Block(operations, results) == [operations |-> operations, results |-> results]
WithId(id, thing) == [id |-> id, thing |-> thing]
Unit(operators, blocks) == [operators |-> operators, blocks |-> blocks]

IsSequence(s) == s \in Seq(ToSet(s))
IsMap(f) == f = [x \in DOMAIN f |-> f[x]]
IsReference(v) == v = OperationResult(v.of, v.index) \/ v = BlockArgument(v.of, v.index)
IsBlock(b) ==
  /\ b = Block(b.operations, b.results)
  /\ IsSequence(b.operations) /\ IsMap(b.results) /\ IsFiniteSet(DOMAIN b.results)
IsOperation(op) ==
  /\ op = Operation(op.operator, op.inputs, op.attributes)
  /\ IsSequence(op.inputs) /\ IsMap(op.attributes)

\* What a module refers to is in the module.
IsSource(m) ==
  LET IsValue(v) ==
        \/ v \in {AnyValue, StoredValue}
        \/ /\ IsReference(v)
           /\ \E b \in DOMAIN m.blocks :
                IF v.kind = "argument" THEN v.of = <<b>>
                ELSE \E s \in DOMAIN m.blocks[b].operations : v.of = <<b, s>>
  IN /\ m = [operators |-> m.operators, blocks |-> m.blocks]
     /\ IsMap(m.operators) /\ IsSequence(m.blocks)
     /\ \A b \in DOMAIN m.blocks :
          /\ IsBlock(m.blocks[b]) /\ \A v \in Range(m.blocks[b].results) : IsValue(v)
          /\ \A s \in DOMAIN m.blocks[b].operations :
               LET op == m.blocks[b].operations[s]
               IN /\ IsOperation(op) /\ \A v \in ToSet(op.inputs) : IsValue(v)
                  /\ op.operator \in DOMAIN m.operators /\ "unset" \notin Range(op.attributes)

IsUnit(u) ==
  LET IsValue(v) == v \in {AnyValue, UnsetValue} \/ IsReference(v)
  IN /\ u = Unit(u.operators, u.blocks) /\ IsSequence(u.blocks)
     /\ \A b \in DOMAIN u.blocks :
          /\ u.blocks[b] = WithId(u.blocks[b].id, u.blocks[b].thing)
          /\ IsBlock(u.blocks[b].thing)
          /\ \A s \in DOMAIN u.blocks[b].thing.operations :
               LET op == u.blocks[b].thing.operations[s]
               IN /\ op = WithId(op.id, op.thing) /\ IsOperation(op.thing)
                  /\ \A v \in ToSet(op.thing.inputs) : IsValue(v)

\* A module stands in an IRContext that knows its operators; an attribute has
\* a payload.  A unit may name what it does not have.
ASSUME SourcesAssumption == \A m \in Sources : IsSource(m)
ASSUME UnitsAssumption == \A u \in Units : IsUnit(u)

VARIABLES
  source,       \* the module that is written, or none
  tu,           \* the translation unit
  usedIds,      \* used_ids_: the ids of things
  context,      \* the operators of the context: their numbers of results
  pc,           \* the pass that is running
  block, next,  \* the position of its next step
  operations,   \* operations_: the objects made for ids
  moved,        \* those that operations_ no longer owns
  builders,     \* blocks_: the block under construction, by id
  names,        \* SsaNames: the ids of values
  module        \* the blocks of the new module, in order

written == <<source, tu, usedIds>>
built == <<operations, moved, builders, names, module>>
vars == <<written, context, pc, block, next, built>>

\* A map after insertions: what it has stays.
Inserted(map, more) ==
  [x \in DOMAIN map \cup DOMAIN more |-> IF x \in DOMAIN map THEN map[x] ELSE more[x]]

NoSource == [operators |-> <<>>, blocks |-> <<>>]
BlocksOf(blocks) == [b \in DOMAIN blocks |-> blocks[b].thing]

Init ==
  /\ \/ /\ source \in Sources /\ context = source.operators
        /\ tu = Unit({}, [b \in DOMAIN source.blocks |-> WithId(0, Block(<<>>, <<>>))])
        /\ pc = "write"
     \/ source = NoSource /\ context = <<>> /\ tu \in Units /\ pc = "register"
  /\ usedIds = <<>> /\ block = 1 /\ next = 1
  /\ operations = <<>> /\ moved = {} /\ builders = <<>> /\ names = <<>> /\ module = <<>>

\* A failed CHECK ends the process, in one converter or the other.
Dies ==
  /\ pc' = IF pc = "write" THEN "diedWriting" ELSE "died"
  /\ UNCHANGED <<written, context, block, next, built>>

-----------------------------------------------------------------------------
(* IRToProto. *)

\* Faulty: a thing that has an id gets a new one.
NewID(ids, thing) == Inserted([t \in {thing} |-> Cardinality(DOMAIN ids) + 1], ids)

\* The id of a thing, or the next one: ids count from 1.
GetID(ids, thing) == Inserted(ids, [t \in {thing} |-> Cardinality(DOMAIN ids) + 1])

\* The ids after those of the things that values refer to.
GetIDs(ids, values) ==
  LET table[n \in 0 .. Len(values)] ==
        IF n = 0 THEN ids
        ELSE IF Refers(values[n]) THEN GetID(table[n - 1], values[n].of)
        ELSE table[n - 1]
  IN table[Len(values)]

ValueToProto(v, ids) == IF Refers(v) THEN [v EXCEPT !.of = ids[@]] ELSE v

\* The inputs get their ids before the operation does.
OperationToProto ==
  /\ pc = "write" /\ block <= Len(source.blocks)
  /\ next <= Len(source.blocks[block].operations)
  /\ LET op == source.blocks[block].operations[next]
         ids == GetID(GetIDs(usedIds, op.inputs), <<block, next>>)
     IN IF StoredValue \in ToSet(op.inputs) THEN Dies
        ELSE /\ usedIds' = ids
             /\ tu' = [tu EXCEPT !.blocks[block].thing.operations = Append(@,
                  WithId(ids[<<block, next>>],
                         [op EXCEPT !.inputs = [i \in DOMAIN @ |-> ValueToProto(@[i], ids)]]))]
             /\ next' = next + 1
             /\ UNCHANGED <<source, context, pc, block, built>>

\* The results of a block, in the order of the hash map, and the block's id.
BlockToProto ==
  /\ pc = "write" /\ block <= Len(source.blocks)
  /\ next > Len(source.blocks[block].operations)
  /\ LET results == source.blocks[block].results
     IN \/ StoredValue \in Range(results) /\ Dies
        \/ /\ StoredValue \notin Range(results)
           /\ \E order \in SetToSeqs(DOMAIN results) :
                LET ids == GetID(GetIDs(usedIds, [i \in DOMAIN order |-> results[order[i]]]), <<block>>)
                IN /\ usedIds' = ids
                   /\ tu' = [tu EXCEPT !.blocks[block].id = ids[<<block>>],
                               !.blocks[block].thing.results =
                                  [n \in DOMAIN results |-> ValueToProto(results[n], ids)]]
           /\ block' = block + 1 /\ next' = 1
           /\ UNCHANGED <<source, context, pc, built>>

\* The unit names the operators; it is read with this context or a new one.
StartReading ==
  /\ pc = "write" /\ block > Len(source.blocks)
  /\ tu' = [tu EXCEPT !.operators = DOMAIN source.operators]
  /\ context' \in {context, <<>>}
  /\ pc' = "register" /\ block' = 1
  /\ UNCHANGED <<source, usedIds, next, built>>

-----------------------------------------------------------------------------
(* ProtoToIR: three passes over the unit. *)

\* Operators that are new to the context have one result.
RegisterOperators ==
  /\ pc = "register"
  /\ context' = Inserted(context, [name \in tu.operators |-> 1])
  /\ pc' = "preVisit"
  /\ UNCHANGED <<written, block, next, built>>

InPass(pass) == pc = pass /\ block <= Len(tu.blocks)
BlockProto == tu.blocks[block].thing
AtOperation == next <= Len(BlockProto.operations)
OperationProto == BlockProto.operations[next].thing
OperationId == BlockProto.operations[next].id
BlockId == tu.blocks[block].id

NextOperation == next' = next + 1 /\ UNCHANGED <<written, context, pc, block>>
NextBlock == block' = block + 1 /\ next' = 1 /\ UNCHANGED <<written, context, pc>>
NextPass(pass, successor) ==
  /\ pc = pass /\ block > Len(tu.blocks)
  /\ pc' = successor /\ block' = 1 /\ next' = 1
  /\ UNCHANGED <<written, context, built>>

GetOrCreateName(table, value) == Inserted(table, [v \in {value} |-> Cardinality(DOMAIN table)])

NewOperation(proto) == [operator |-> proto.operator, inputs |-> <<>>, attributes |-> <<>>, parent |-> 0]

\* Faulty: results are named when an operand refers to them.
NamesOnUse(table, id) == table

\* The default result is named; that an object with a used id is destroyed
\* again, and its name stays, shows in no module that is returned.
NamesOfOperation(table, id) == GetOrCreateName(table, OperationResult(id, 0))

\* Every block starts with the insertion of a builder for its id.
BuildersWith(id) == Inserted(builders, [b \in {id} |-> [state |-> "open", operations |-> <<>>]])

PreVisitOperation ==
  /\ InPass("preVisit") /\ AtOperation
  /\ IF OperationProto.operator \in DOMAIN context /\ UnsetValue \notin ToSet(OperationProto.inputs)
     THEN /\ operations' = Inserted(operations, [id \in {OperationId} |-> NewOperation(OperationProto)])
          /\ names' = NamesOfOperation(names, OperationId)
          /\ builders' = BuildersWith(BlockId)
          /\ NextOperation /\ UNCHANGED <<moved, module>>
     ELSE Dies

\* After the operations the results, which must have variants.
PreVisitBlock ==
  /\ InPass("preVisit") /\ ~AtOperation
  /\ IF UnsetValue \notin Range(BlockProto.results)
     THEN /\ builders' = BuildersWith(BlockId)
          /\ NextBlock /\ UNCHANGED <<operations, moved, names, module>>
     ELSE Dies

Resolves(v) ==
  /\ v.kind = "result" => v.of \in DOMAIN operations
  /\ v.kind = "argument" => v.of \in DOMAIN builders

\* Faulty: results are skipped.
AcceptsAnyResults(results) == TRUE

\* AddResult wants the name declared as an output, and no output ever is.
AcceptsResults(results) == results = <<>>

\* The values that become inputs are named.
NamesAfter(values) ==
  LET table[n \in 0 .. Len(values)] ==
        IF n = 0 THEN names ELSE GetOrCreateName(table[n - 1], values[n])
  IN table[Len(values)]

\* A block's results come first.  AddInput appends, AddAttribute keeps what
\* is there.
ToIROperation ==
  /\ InPass("toIR") /\ AtOperation
  /\ LET inputs == OperationProto.inputs
         attributes == OperationProto.attributes
     IN IF /\ AcceptsResults(BlockProto.results)
           /\ \A v \in ToSet(inputs) : Resolves(v)
           /\ "unset" \notin Range(attributes)
        THEN /\ operations' = [operations EXCEPT ![OperationId].inputs = @ \o inputs,
                                                 ![OperationId].attributes = Inserted(@, attributes)]
             /\ names' = NamesAfter(inputs)
             /\ NextOperation /\ UNCHANGED <<moved, builders, module>>
        ELSE Dies

ToIRBlock ==
  /\ InPass("toIR") /\ ~AtOperation
  /\ IF AcceptsResults(BlockProto.results)
     THEN NextBlock /\ UNCHANGED built
     ELSE Dies

\* Faulty: an operation stays with the block that has it already.
MayAddMoved(id) == TRUE

\* AddOperation wants an open block and an operation without a parent,
\* the object and not the null pointer that moving it leaves.
MayAdd(id) ==
  id \notin moved /\ operations[id].parent = 0 /\ builders[BlockId].state = "open"

PostVisitOperation ==
  /\ InPass("postVisit") /\ AtOperation
  /\ IF MayAdd(OperationId)
     THEN /\ moved' = moved \cup {OperationId}
          /\ operations' = [operations EXCEPT ![OperationId].parent = BlockId]
          /\ builders' = [builders EXCEPT ![BlockId].operations = Append(@, OperationId)]
          /\ NextOperation /\ UNCHANGED <<names, module>>
     ELSE Dies

\* build() and AddBlock.
PostVisitBlock ==
  /\ InPass("postVisit") /\ ~AtOperation
  /\ IF builders[BlockId].state = "open"
     THEN /\ builders' = [builders EXCEPT ![BlockId].state = "built"]
          /\ module' = Append(module, BlockId)
          /\ NextBlock /\ UNCHANGED <<operations, moved, names>>
     ELSE Dies

\* Convert checks that everything found its owner.
Convert ==
  /\ pc = "postVisit" /\ block > Len(tu.blocks)
  /\ pc' = IF (\A b \in DOMAIN builders : builders[b].state = "built") /\ moved = DOMAIN operations
           THEN "done" ELSE "died"
  /\ UNCHANGED <<written, context, block, next, built>>

Next ==
  \/ OperationToProto \/ BlockToProto \/ StartReading \/ RegisterOperators
  \/ PreVisitOperation \/ PreVisitBlock \/ NextPass("preVisit", "toIR")
  \/ ToIROperation \/ ToIRBlock \/ NextPass("toIR", "postVisit")
  \/ PostVisitOperation \/ PostVisitBlock \/ Convert

Spec == Init /\ [][Next]_vars

-----------------------------------------------------------------------------
TypeOK ==
  /\ pc \in {"write", "register", "preVisit", "toIR", "postVisit", "done",
            "died", "diedWriting"}
  /\ moved \subseteq DOMAIN operations
  /\ \A id \in DOMAIN operations : operations[id].parent \in {0} \cup DOMAIN builders
  /\ ToSet(module) \subseteq DOMAIN builders
  /\ \A v \in DOMAIN names : Refers(v) =>
       v.of \in IF v.kind = "result" THEN DOMAIN operations ELSE DOMAIN builders

\* The operations of a unit, or of the source, at their positions.
PositionsOf(blocks) ==
  UNION {{<<b, s>> : s \in DOMAIN blocks[b].operations} : b \in DOMAIN blocks}
At(blocks, p) == blocks[p[1]].operations[p[2]]

(***************************************************************************)
(* A unit is well formed if ids are unique, values and attributes have     *)
(* variants, and what is named is there.  A block may have no results.     *)
(***************************************************************************)
WellFormed ==
  LET blocks == BlocksOf(tu.blocks)
      places == PositionsOf(blocks)
      ids == {At(blocks, p).id : p \in places}
      blockIds == {tu.blocks[b].id : b \in DOMAIN blocks}
      Names(v) == /\ v.kind # "unset"
                  /\ v.kind = "result" => v.of \in ids
                  /\ v.kind = "argument" => v.of \in blockIds
  IN /\ \A p, q \in places : At(blocks, p).id = At(blocks, q).id => p = q
     /\ \A b, c \in DOMAIN blocks : tu.blocks[b].id = tu.blocks[c].id => b = c
     /\ \A b \in DOMAIN blocks : blocks[b].results = <<>>
     /\ \A p \in places :
          LET op == At(blocks, p).thing
          IN /\ op.operator \in DOMAIN context
             /\ \A v \in ToSet(op.inputs) : Names(v)
             /\ "unset" \notin Range(op.attributes)

(***************************************************************************)
(* ProtoToIR dies exactly on malformed units.  An id that is used twice is *)
(* found in the last pass only: until then two operations share an object  *)
(* and its inputs.  The final CHECKs of Convert never find anything.       *)
(***************************************************************************)
ReadingDiesExactlyOnMalformed ==
  /\ pc = "done" => WellFormed
  /\ pc = "died" => ~WellFormed /\ block <= Len(tu.blocks)

(***************************************************************************)
(* What is returned is the unit: its operations in their blocks and order, *)
(* each with its own inputs and attributes, and with its block as parent.  *)
(***************************************************************************)
ModuleIsUnit ==
  pc = "done" =>
    /\ module = [b \in DOMAIN tu.blocks |-> tu.blocks[b].id]
    /\ \A b \in DOMAIN module :
         LET made == builders[module[b]].operations
         IN [s \in DOMAIN made |-> WithId(made[s], operations[made[s]])] =
            [s \in DOMAIN tu.blocks[b].thing.operations |->
               LET proto == tu.blocks[b].thing.operations[s]
               IN WithId(proto.id, [operator |-> proto.thing.operator, inputs |-> proto.thing.inputs,
                                    attributes |-> proto.thing.attributes, parent |-> module[b]])]

(***************************************************************************)
(* ir_to_proto_test.cc, RoundTripPreservesAllInformation: a module that is *)
(* written and read again has the data flow it had, whatever the order of  *)
(* definitions and uses; its operators have their numbers of results if    *)
(* these are one, or if the context knew them.  Only a stored value or a   *)
(* result of a block is in the way.                                        *)
(***************************************************************************)
Origin(id) == CHOOSE thing \in DOMAIN usedIds : usedIds[thing] = id
Recovered(v) == IF Refers(v) THEN [v EXCEPT !.of = Origin(@)] ELSE v

IsStuck(b) ==
  b.results # <<>> \/ \E op \in ToSet(b.operations) : StoredValue \in ToSet(op.inputs)

RoundTripKeepsDataFlow ==
  pc \in {"done", "died", "diedWriting"} /\ source # NoSource =>
    IF \E b \in DOMAIN source.blocks : IsStuck(source.blocks[b]) THEN pc # "done" ELSE
    /\ pc = "done" /\ IsInjective(usedIds)
    /\ [b \in DOMAIN module |->
          LET made == builders[module[b]].operations
          IN Block([s \in DOMAIN made |->
               LET op == operations[made[s]]
               IN Operation(op.operator, [i \in DOMAIN op.inputs |-> Recovered(op.inputs[i])],
                            op.attributes)], <<>>)] = source.blocks
    /\ \A o \in DOMAIN source.operators : context[o] \in {source.operators[o], 1}

(***************************************************************************)
(* The same test compares the printed text: in the names that are returned *)
(* the results are numbered in the order of the operations, although       *)
(* operands may refer to later ones.                                       *)
(***************************************************************************)
ResultsNamedInOrder ==
  pc = "done" =>
    LET ids == FlattenSeq([b \in DOMAIN module |-> builders[module[b]].operations])
    IN \A k \in DOMAIN ids : /\ OperationResult(ids[k], 0) \in DOMAIN names
                             /\ names[OperationResult(ids[k], 0)] = k - 1
=============================================================================
