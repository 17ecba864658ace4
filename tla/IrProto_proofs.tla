---------------------------- MODULE IrProto_proofs ----------------------------
(***************************************************************************)
(* Proofs about IrProto: what ProtoToIR makes of a unit, when it dies, and *)
(* what is left of a module that IRToProto wrote.                          *)
(*                                                                         *)
(* Inv says, at every position of each of the three passes, which objects, *)
(* builders and blocks there are and what they hold; it needs nothing but  *)
(* the shape of units.  SourceInv says how much of the module the unit     *)
(* has at every position of IRToProto, under which ids, and that reading   *)
(* leaves it alone.  NamesInv says which names the results have.           *)
(***************************************************************************)
EXTENDS IrProto, FiniteRecursion, SequenceTheorems, FiniteSetTheorems

\* The operations of a block of the unit, and the s-th of them.
Ops(b) == tu.blocks[b].thing.operations
Op(b, s) == Ops(b)[s].thing
Id(b, s) == Ops(b)[s].id
IdOf(b) == tu.blocks[b].id

\* The passes are running, or have ended well.
Reading == pc \in {"preVisit", "toIR", "postVisit", "done"}

\* What the passes have gone through.
Before(b, s) == b < block \/ (b = block /\ s < next)
Visited(b, s) == pc \in {"toIR", "postVisit", "done"} \/ (pc = "preVisit" /\ Before(b, s))
Filled(b, s) == pc \in {"postVisit", "done"} \/ (pc = "toIR" /\ Before(b, s))
Added(b, s) == pc = "done" \/ (pc = "postVisit" /\ Before(b, s))
VisitedBlock(b) == pc \in {"toIR", "postVisit", "done"} \/ (pc = "preVisit" /\ b < block)
FilledBlock(b) == pc \in {"postVisit", "done"} \/ (pc = "toIR" /\ b < block)
AddedBlock(b) == pc = "done" \/ (pc = "postVisit" /\ b < block)

\* Outside of IRToProto there is a unit; before the passes there is nothing else.
UnitInv ==
  /\ pc \in {"write", "register", "preVisit", "toIR", "postVisit", "done", "died", "diedWriting"}
  /\ pc \notin {"write", "diedWriting"} => IsUnit(tu)
  /\ pc \in {"write", "register"} =>
       operations = <<>> /\ moved = {} /\ builders = <<>> /\ names = <<>> /\ module = <<>>
  /\ pc = "register" => block = 1 /\ next = 1

\* The position of a pass is in the unit.
PlaceInv ==
  Reading =>
    /\ block \in 1 .. Len(tu.blocks) + 1 /\ next \in Nat \ {0}
    /\ block <= Len(tu.blocks) => next <= Len(Ops(block)) + 1
    /\ block > Len(tu.blocks) => next = 1
    /\ pc = "done" => block > Len(tu.blocks)

\* Every visited operation has an object, every object was visited; those that
\* have moved are those of the operations that were added, each of its own.
ObjectsInv ==
  Reading =>
    /\ \A id \in DOMAIN operations :
         /\ \E b \in DOMAIN tu.blocks : \E s \in DOMAIN Ops(b) : Visited(b, s) /\ id = Id(b, s)
         /\ operations[id] = [operator |-> operations[id].operator, inputs |-> operations[id].inputs,
                              attributes |-> operations[id].attributes, parent |-> operations[id].parent]
         /\ id \notin moved => operations[id].parent = 0
    /\ \A b \in DOMAIN tu.blocks : \A s \in DOMAIN Ops(b) : Visited(b, s) =>
         /\ Id(b, s) \in DOMAIN operations /\ Op(b, s).operator \in DOMAIN context
         /\ UnsetValue \notin ToSet(Op(b, s).inputs)
    /\ \A id : id \in moved <=>
         \E b \in DOMAIN tu.blocks : \E s \in DOMAIN Ops(b) : Added(b, s) /\ id = Id(b, s)
    /\ \A b, c \in DOMAIN tu.blocks : \A s \in DOMAIN Ops(b) : \A t \in DOMAIN Ops(c) :
         Added(b, s) /\ Added(c, t) /\ Id(b, s) = Id(c, t) => b = c /\ s = t

\* What has been filled had inputs that resolve and no result of a block.
FilledInv ==
  Reading =>
    \A b \in DOMAIN tu.blocks :
      /\ FilledBlock(b) => tu.blocks[b].thing.results = <<>>
      /\ \A s \in DOMAIN Ops(b) : Filled(b, s) =>
           /\ \A v \in ToSet(Op(b, s).inputs) : Resolves(v)
           /\ "unset" \notin Range(Op(b, s).attributes)

\* Every visited block has a builder; a builder is built when its block has
\* been added, and until then it has the operations of the current block.
BuildersInv ==
  Reading =>
    /\ \A id \in DOMAIN builders :
         /\ \E b \in DOMAIN tu.blocks : id = IdOf(b)
         /\ builders[id] = [state |-> builders[id].state, operations |-> builders[id].operations]
         /\ builders[id].state \in {"open", "built"}
         /\ builders[id].state = "built" <=> \E b \in DOMAIN tu.blocks : AddedBlock(b) /\ id = IdOf(b)
         /\ builders[id].state = "open" => builders[id].operations =
              IF pc = "postVisit" /\ block <= Len(tu.blocks) /\ id = IdOf(block)
              THEN [s \in 1 .. next - 1 |-> Id(block, s)] ELSE <<>>
    /\ \A b \in DOMAIN tu.blocks :
         /\ VisitedBlock(b) => IdOf(b) \in DOMAIN builders
         /\ AddedBlock(b) => builders[IdOf(b)].operations = [s \in DOMAIN Ops(b) |-> Id(b, s)]
    /\ \A b, c \in DOMAIN tu.blocks : AddedBlock(b) /\ AddedBlock(c) /\ IdOf(b) = IdOf(c) => b = c
    /\ module = [b \in 1 .. IF pc \in {"postVisit", "done"} THEN block - 1 ELSE 0 |-> IdOf(b)]

\* No two operations share an id.
UniqueIds ==
  \A b, c \in DOMAIN tu.blocks : \A s \in DOMAIN Ops(b) : \A t \in DOMAIN Ops(c) :
    Id(b, s) = Id(c, t) => b = c /\ s = t

\* What is made of an operation, if its id is its own.
ContentInv ==
  Reading /\ UniqueIds =>
    \A b \in DOMAIN tu.blocks : \A s \in DOMAIN Ops(b) : Visited(b, s) =>
      operations[Id(b, s)] =
        [operator |-> Op(b, s).operator,
         inputs |-> IF Filled(b, s) THEN Op(b, s).inputs ELSE <<>>,
         attributes |-> IF Filled(b, s) THEN Op(b, s).attributes ELSE <<>>,
         parent |-> IF Added(b, s) THEN IdOf(b) ELSE 0]

\* Only a malformed unit is refused, and always at one of its blocks.
VerdictInv == pc = "died" => ~WellFormed /\ block <= Len(tu.blocks)

\* What holds of the three passes.
Inv == UnitInv /\ PlaceInv /\ ObjectsInv /\ FilledInv /\ BuildersInv /\ ContentInv /\ VerdictInv

\* How much of a block has been written.
WrittenTo(b) ==
  IF pc # "write" \/ b < block THEN Len(source.blocks[b].operations)
  ELSE IF b = block THEN next - 1 ELSE 0
WrittenBlock(b) == pc # "write" \/ b < block

\* The unit is, or will be, what IRToProto writes.
FromSource == pc = "write" \/ (source # NoSource /\ pc # "diedWriting")

\* An operation as a proto, with these ids.
OperationProtoOf(ids, thing, op) ==
  WithId(ids[thing],
         Operation(op.operator, [i \in DOMAIN op.inputs |-> ValueToProto(op.inputs[i], ids)], op.attributes))

\* Ids count from 1.
Numbered(ids) ==
  /\ ids = [t \in DOMAIN ids |-> ids[t]] /\ IsFiniteSet(DOMAIN ids) /\ IsInjective(ids)
  /\ \A t \in DOMAIN ids : ids[t] \in Nat /\ ids[t] <= Cardinality(DOMAIN ids)

\* What the value refers to has an id.
HasId(ids, v) == Refers(v) => v.of \in DOMAIN ids

\* The operations of the module that is written.
SrcOps(b) == source.blocks[b].operations
SrcOp(b, s) == SrcOps(b)[s]

\* What is written of a block: n operations, or the whole block.
WrittenTill(ids, b, n, whole) ==
  /\ tu.blocks[b] = WithId(IF whole THEN ids[<<b>>] ELSE 0,
                           Block([s \in 1 .. n |-> OperationProtoOf(ids, <<b, s>>, SrcOp(b, s))],
                                 tu.blocks[b].thing.results))
  /\ IsMap(tu.blocks[b].thing.results)
  /\ DOMAIN tu.blocks[b].thing.results = IF whole THEN DOMAIN source.blocks[b].results ELSE {}
  /\ \A s \in 1 .. n :
       /\ <<b, s>> \in DOMAIN ids
       /\ \A v \in ToSet(SrcOp(b, s).inputs) : v # StoredValue /\ HasId(ids, v)
  /\ whole => <<b>> \in DOMAIN ids

\* The unit has what has been written of the module, under ids that stay; the
\* context is the one that the module stands in, or a new one.
SourceInv ==
  FromSource =>
    /\ source \in Sources /\ Numbered(usedIds)
    /\ tu = Unit(IF pc = "write" THEN {} ELSE DOMAIN source.operators, [b \in DOMAIN source.blocks |-> tu.blocks[b]])
    /\ \A b \in DOMAIN source.blocks : WrittenTill(usedIds, b, WrittenTo(b), WrittenBlock(b))
    /\ pc = "write" =>
         /\ block \in 1 .. Len(source.blocks) + 1 /\ next \in Nat \ {0} /\ context = source.operators
         /\ block <= Len(source.blocks) => next <= Len(SrcOps(block)) + 1
         /\ block > Len(source.blocks) => next = 1
    /\ pc = "register" => context \in {source.operators, <<>>}
    /\ pc \notin {"write", "register"} =>
         \E c \in {source.operators, <<>>} : context = Inserted(c, [name \in tu.operators |-> 1])

\* Writing stops at what no proto can say.
StuckInv ==
  pc = "diedWriting" => source \in Sources /\ \E b \in DOMAIN source.blocks : IsStuck(source.blocks[b])

\* The ids of the operations, block by block.
IdLists == [b \in DOMAIN tu.blocks |-> [s \in DOMAIN Ops(b) |-> Id(b, s)]]

\* The result of an operation.
ResultOf(b, s) == OperationResult(Id(b, s), 0)

\* Where ids are unique the results of visited operations have their numbers,
\* and in the first pass nothing else is named.
NamesInv ==
  Reading /\ UniqueIds =>
    /\ IsMap(names)
    /\ \A b \in DOMAIN tu.blocks : \A s \in DOMAIN Ops(b) : Visited(b, s) =>
         ResultOf(b, s) \in DOMAIN names /\ names[ResultOf(b, s)] = Offset(IdLists, b) + s - 1
    /\ pc = "preVisit" =>
         /\ IsFiniteSet(DOMAIN names) /\ Cardinality(DOMAIN names) = Offset(IdLists, block) + next - 1
         /\ \A v \in DOMAIN names :
              \E b \in DOMAIN tu.blocks : \E s \in DOMAIN Ops(b) : Visited(b, s) /\ v = ResultOf(b, s)

-----------------------------------------------------------------------------
\* A value that a well-formed unit may have.
Named(v) ==
  /\ v.kind # "unset"
  /\ v.kind = "result" => \E b \in DOMAIN tu.blocks : \E s \in DOMAIN Ops(b) : v.of = Id(b, s)
  /\ v.kind = "argument" => \E b \in DOMAIN tu.blocks : v.of = IdOf(b)

\* The positions of the operations of a unit.
LEMMA PositionIn ==
  \A p : p \in PositionsOf(BlocksOf(tu.blocks)) <=>
           \E b \in DOMAIN tu.blocks : \E s \in DOMAIN Ops(b) : p = <<b, s>>
<1>1. /\ DOMAIN BlocksOf(tu.blocks) = DOMAIN tu.blocks
      /\ \A b \in DOMAIN tu.blocks : BlocksOf(tu.blocks)[b].operations = Ops(b)
  BY DEF BlocksOf, Ops
<1>2. QED
  BY <1>1 DEF PositionsOf

\* The operation at a position.
LEMMA OperationAt ==
  \A b \in DOMAIN tu.blocks : \A s : At(BlocksOf(tu.blocks), <<b, s>>) = Ops(b)[s]
BY DEF At, BlocksOf, Ops

\* A unit is well formed if it is so block by block and operation by operation.
LEMMA WellFormedIs ==
  WellFormed <=>
    /\ UniqueIds
    /\ \A b, c \in DOMAIN tu.blocks : IdOf(b) = IdOf(c) => b = c
    /\ \A b \in DOMAIN tu.blocks : tu.blocks[b].thing.results = <<>>
    /\ \A b \in DOMAIN tu.blocks : \A s \in DOMAIN Ops(b) :
         /\ Op(b, s).operator \in DOMAIN context
         /\ \A v \in ToSet(Op(b, s).inputs) : Named(v)
         /\ "unset" \notin Range(Op(b, s).attributes)
<1> DEFINE blocks == BlocksOf(tu.blocks)
           places == PositionsOf(blocks)
           ids == {At(blocks, p).id : p \in places}
           blockIds == {tu.blocks[b].id : b \in DOMAIN blocks}
           Names(v) == /\ v.kind # "unset"
                       /\ v.kind = "result" => v.of \in ids
                       /\ v.kind = "argument" => v.of \in blockIds
           Unique == \A p, q \in places : At(blocks, p).id = At(blocks, q).id => p = q
           UniqueBlocks == \A b, c \in DOMAIN blocks : tu.blocks[b].id = tu.blocks[c].id => b = c
           NoResults == \A b \in DOMAIN blocks : blocks[b].results = <<>>
           Good == \A p \in places :
                     /\ At(blocks, p).thing.operator \in DOMAIN context
                     /\ \A v \in ToSet(At(blocks, p).thing.inputs) : Names(v)
                     /\ "unset" \notin Range(At(blocks, p).thing.attributes)
<1>1. WellFormed <=> Unique /\ UniqueBlocks /\ NoResults /\ Good
  BY DEF WellFormed
<1>2. /\ DOMAIN blocks = DOMAIN tu.blocks
      /\ \A b \in DOMAIN tu.blocks : blocks[b].results = tu.blocks[b].thing.results
  BY DEF BlocksOf
<1>3. \A p : p \in places <=> \E b \in DOMAIN tu.blocks : \E s \in DOMAIN Ops(b) : p = <<b, s>>
  BY PositionIn
<1>4. \A b \in DOMAIN tu.blocks : \A s : At(blocks, <<b, s>>) = Ops(b)[s]
  BY OperationAt
<1>5. \A i : i \in ids <=> \E b \in DOMAIN tu.blocks : \E s \in DOMAIN Ops(b) : i = Id(b, s)
  <2>1. \A i : i \in ids <=> \E p \in places : i = At(blocks, p).id
    OBVIOUS
  <2> HIDE DEF places, blocks, ids
  <2>2. ASSUME NEW i, i \in ids
        PROVE  \E b \in DOMAIN tu.blocks : \E s \in DOMAIN Ops(b) : i = Id(b, s)
    <3>1. PICK p \in places : i = At(blocks, p).id
      BY <2>1, <2>2
    <3>2. PICK b \in DOMAIN tu.blocks : \E s \in DOMAIN Ops(b) : p = <<b, s>>
      BY <1>3, Zenon
    <3>3. PICK s \in DOMAIN Ops(b) : p = <<b, s>>
      BY <3>2
    <3>4. At(blocks, p) = Ops(b)[s]
      BY <1>4, <3>3
    <3>5. QED
      BY <3>1, <3>4, Zenon DEF Id
  <2>3. ASSUME NEW i, NEW b \in DOMAIN tu.blocks, NEW s \in DOMAIN Ops(b), i = Id(b, s)
        PROVE  i \in ids
    <3>1. <<b, s>> \in places
      BY <1>3, Zenon
    <3>2. At(blocks, <<b, s>>) = Ops(b)[s]
      BY <1>4, Zenon
    <3>3. QED
      BY <2>1, <2>3, <3>1, <3>2, Zenon DEF Id
  <2>4. QED
    BY <2>2, <2>3, Zenon
<1>6. \A i : i \in blockIds <=> \E b \in DOMAIN tu.blocks : i = IdOf(b)
  BY <1>2 DEF IdOf
<1> HIDE DEF blocks, places
<1>7. Unique <=> UniqueIds
  <2>1. ASSUME Unique, NEW b \in DOMAIN tu.blocks, NEW c \in DOMAIN tu.blocks,
               NEW s \in DOMAIN Ops(b), NEW t \in DOMAIN Ops(c), Id(b, s) = Id(c, t)
        PROVE  b = c /\ s = t
    <3>1. <<b, s>> \in places /\ <<c, t>> \in places
      BY <1>3, Zenon
    <3>2. At(blocks, <<b, s>>).id = At(blocks, <<c, t>>).id
      <4>1. At(blocks, <<b, s>>) = Ops(b)[s] /\ At(blocks, <<c, t>>) = Ops(c)[t]
        BY <1>4, Zenon
      <4>2. QED
        BY <2>1, <4>1, Zenon DEF Id
    <3>3. <<b, s>> = <<c, t>>
      BY <2>1, <3>1, <3>2, Zenon
    <3>4. QED
      BY <3>3
  <2>2. ASSUME UniqueIds, NEW p \in places, NEW q \in places, At(blocks, p).id = At(blocks, q).id
        PROVE  p = q
    <3>1a. PICK b \in DOMAIN tu.blocks : \E s \in DOMAIN Ops(b) : p = <<b, s>>
      BY <1>3, Zenon
    <3>1. PICK s \in DOMAIN Ops(b) : p = <<b, s>>
      BY <3>1a
    <3>2a. PICK c \in DOMAIN tu.blocks : \E t \in DOMAIN Ops(c) : q = <<c, t>>
      BY <1>3, Zenon
    <3>2. PICK t \in DOMAIN Ops(c) : q = <<c, t>>
      BY <3>2a
    <3>3. At(blocks, p) = Ops(b)[s] /\ At(blocks, q) = Ops(c)[t]
      BY <1>4, <3>1, <3>2, Zenon
    <3>4. Id(b, s) = Id(c, t)
      BY <2>2, <3>3, Zenon DEF Id
    <3>5. b = c /\ s = t
      BY <2>2, <3>4, ZenonT(60) DEF UniqueIds
    <3>6. QED
      BY <3>1, <3>2, <3>5
  <2>3. QED
    BY <2>1, <2>2, Zenon DEF UniqueIds
<1>8. UniqueBlocks <=> \A b, c \in DOMAIN tu.blocks : IdOf(b) = IdOf(c) => b = c
  BY <1>2 DEF IdOf
<1>9. NoResults <=> \A b \in DOMAIN tu.blocks : tu.blocks[b].thing.results = <<>>
  BY <1>2
<1> HIDE DEF ids, blockIds
<1>10. \A v : Names(v) <=> Named(v)
  BY <1>5, <1>6 DEF Named
<1> HIDE DEF Names
<1>11. Good <=> \A b \in DOMAIN tu.blocks : \A s \in DOMAIN Ops(b) :
         /\ Op(b, s).operator \in DOMAIN context
         /\ \A v \in ToSet(Op(b, s).inputs) : Named(v)
         /\ "unset" \notin Range(Op(b, s).attributes)
  <2>1. ASSUME Good, NEW b \in DOMAIN tu.blocks, NEW s \in DOMAIN Ops(b)
        PROVE  /\ Op(b, s).operator \in DOMAIN context
               /\ \A v \in ToSet(Op(b, s).inputs) : Named(v)
               /\ "unset" \notin Range(Op(b, s).attributes)
    <3>1. <<b, s>> \in places
      BY <1>3, Zenon
    <3>2. At(blocks, <<b, s>>).thing = Op(b, s)
      BY <1>4, Zenon DEF Op
    <3>3. /\ Op(b, s).operator \in DOMAIN context
          /\ \A v \in ToSet(Op(b, s).inputs) : Names(v)
          /\ "unset" \notin Range(Op(b, s).attributes)
      BY <2>1, <3>1, <3>2, Zenon
    <3>4. QED
      BY <1>10, <3>3, Zenon
  <2>2. ASSUME \A b \in DOMAIN tu.blocks : \A s \in DOMAIN Ops(b) :
                 /\ Op(b, s).operator \in DOMAIN context
                 /\ \A v \in ToSet(Op(b, s).inputs) : Named(v)
                 /\ "unset" \notin Range(Op(b, s).attributes),
               NEW p \in places
        PROVE  /\ At(blocks, p).thing.operator \in DOMAIN context
               /\ \A v \in ToSet(At(blocks, p).thing.inputs) : Names(v)
               /\ "unset" \notin Range(At(blocks, p).thing.attributes)
    <3>1a. PICK b \in DOMAIN tu.blocks : \E s \in DOMAIN Ops(b) : p = <<b, s>>
      BY <1>3, Zenon
    <3>1. PICK s \in DOMAIN Ops(b) : p = <<b, s>>
      BY <3>1a
    <3>2. At(blocks, p).thing = Op(b, s)
      BY <1>4, <3>1, Zenon DEF Op
    <3>3. QED
      BY <1>10, <2>2, <3>2, Zenon
  <2>3. QED
    BY <2>1, <2>2, Zenon
<1>12. QED
  BY <1>1, <1>7, <1>8, <1>9, <1>11

\* What a unit is made of.
LEMMA UnitFacts ==
  ASSUME IsUnit(tu)
  PROVE  /\ Len(tu.blocks) \in Nat /\ DOMAIN tu.blocks = 1 .. Len(tu.blocks)
         /\ \A b \in DOMAIN tu.blocks :
              /\ Len(Ops(b)) \in Nat /\ DOMAIN Ops(b) = 1 .. Len(Ops(b))
              /\ IsMap(tu.blocks[b].thing.results)
              /\ \A s \in DOMAIN Ops(b) :
                   /\ Ops(b)[s] = WithId(Id(b, s), Op(b, s))
                   /\ Op(b, s) = Operation(Op(b, s).operator, Op(b, s).inputs, Op(b, s).attributes)
                   /\ IsSequence(Op(b, s).inputs) /\ IsMap(Op(b, s).attributes)
                   /\ \A v \in ToSet(Op(b, s).inputs) : v \in {AnyValue, UnsetValue} \/ IsReference(v)
<1>1. \A q : IsSequence(q) => Len(q) \in Nat /\ DOMAIN q = 1 .. Len(q)
  BY DEF IsSequence
<1>2. IsSequence(tu.blocks)
  BY DEF IsUnit
<1>3. ASSUME NEW b \in DOMAIN tu.blocks
      PROVE  /\ Len(Ops(b)) \in Nat /\ DOMAIN Ops(b) = 1 .. Len(Ops(b))
             /\ IsMap(tu.blocks[b].thing.results)
             /\ \A s \in DOMAIN Ops(b) :
                   /\ Ops(b)[s] = WithId(Id(b, s), Op(b, s))
                   /\ Op(b, s) = Operation(Op(b, s).operator, Op(b, s).inputs, Op(b, s).attributes)
                   /\ IsSequence(Op(b, s).inputs) /\ IsMap(Op(b, s).attributes)
                   /\ \A v \in ToSet(Op(b, s).inputs) : v \in {AnyValue, UnsetValue} \/ IsReference(v)
  <2>1. IsSequence(Ops(b)) /\ IsMap(tu.blocks[b].thing.results)
    BY DEF IsUnit, IsBlock, Ops
  <2>2. ASSUME NEW s \in DOMAIN Ops(b)
        PROVE  /\ Ops(b)[s] = WithId(Id(b, s), Op(b, s))
               /\ IsOperation(Op(b, s))
               /\ \A v \in ToSet(Op(b, s).inputs) : v \in {AnyValue, UnsetValue} \/ IsReference(v)
    BY DEF IsUnit, Ops, Id, Op
  <2>3. QED
    BY <1>1, <2>1, <2>2 DEF IsOperation
<1>4. QED
  BY <1>1, <1>2, <1>3

\* A value without a variant is the only one of its kind.
LEMMA UnsetIs ==
  ASSUME NEW v, v \in {AnyValue, UnsetValue} \/ IsReference(v)
  PROVE  /\ v = UnsetValue <=> v.kind = "unset"
         /\ Refers(v) <=> IsReference(v)
BY DEF AnyValue, UnsetValue, IsReference, OperationResult, BlockArgument, Refers

\* What is inserted in an empty map is the map.
LEMMA InsertedEmpty ==
  ASSUME NEW map, IsMap(map)
  PROVE  Inserted(<<>>, map) = map
BY DEF Inserted, IsMap

-----------------------------------------------------------------------------
(* The passes. *)

\* No pass has started.
LEMMA InitInv == Init => Inv
<1> SUFFICES ASSUME Init PROVE Inv
  OBVIOUS
<1>1. pc \in {"write", "register"} /\ operations = <<>> /\ moved = {} /\ builders = <<>>
      /\ names = <<>> /\ module = <<>> /\ block = 1 /\ next = 1
      /\ (pc = "register" => tu \in Units)
  BY DEF Init
<1>2. QED
  BY <1>1, UnitsAssumption
     DEF Inv, UnitInv, PlaceInv, ObjectsInv, FilledInv, BuildersInv, ContentInv, VerdictInv, Reading

\* The invariant is a matter of the variables alone.
LEMMA StutterInv == Inv /\ UNCHANGED vars => Inv'
<1> SUFFICES ASSUME Inv, UNCHANGED vars PROVE Inv'
  OBVIOUS
<1> USE DEF vars, written, built
<1>1. /\ \A b, s : /\ Visited(b, s)' = Visited(b, s) /\ Filled(b, s)' = Filled(b, s) /\ Added(b, s)' = Added(b, s)
                   /\ Op(b, s)' = Op(b, s) /\ Id(b, s)' = Id(b, s)
      /\ \A b : /\ VisitedBlock(b)' = VisitedBlock(b) /\ FilledBlock(b)' = FilledBlock(b)
                /\ AddedBlock(b)' = AddedBlock(b) /\ Ops(b)' = Ops(b) /\ IdOf(b)' = IdOf(b)
      /\ Reading' = Reading /\ UniqueIds' = UniqueIds /\ WellFormed' = WellFormed
      /\ \A v : Resolves(v)' = Resolves(v)
  BY DEF Visited, Filled, Added, Before, VisitedBlock, FilledBlock, AddedBlock, Ops, Op, Id, IdOf,
         Reading, UniqueIds, WellFormed, Resolves
<1>2. UnitInv' /\ PlaceInv'
  BY <1>1 DEF Inv, UnitInv, PlaceInv
<1>3. ObjectsInv'
  BY <1>1 DEF Inv, ObjectsInv
<1>4. FilledInv'
  BY <1>1 DEF Inv, FilledInv
<1>5. BuildersInv'
  BY <1>1 DEF Inv, BuildersInv
<1>6. ContentInv' /\ VerdictInv'
  BY <1>1 DEF Inv, ContentInv, VerdictInv
<1>7. QED
  BY <1>2, <1>3, <1>4, <1>5, <1>6 DEF Inv

-----------------------------------------------------------------------------
(* What moves when a pass moves on. *)

\* The unit and the context stay.
UnitStays ==
  /\ tu' = tu /\ context' = context
  /\ \A b : Ops(b)' = Ops(b) /\ IdOf(b)' = IdOf(b)
  /\ \A b, s : Op(b, s)' = Op(b, s) /\ Id(b, s)' = Id(b, s)
  /\ UniqueIds' = UniqueIds /\ WellFormed' = WellFormed

\* What is said of the unit depends on the unit and the context alone.
LEMMA SameUnit == ASSUME tu' = tu, context' = context PROVE UnitStays
BY DEF UnitStays, Ops, Op, Id, IdOf, UniqueIds, WellFormed

\* Another operation, or another block, is done with in this pass.
OperationDone ==
  \A b \in DOMAIN tu.blocks : \A s \in DOMAIN Ops(b) :
    /\ Visited(b, s)' <=> Visited(b, s) \/ (pc = "preVisit" /\ b = block /\ s = next)
    /\ Filled(b, s)' <=> Filled(b, s) \/ (pc = "toIR" /\ b = block /\ s = next)
    /\ Added(b, s)' <=> Added(b, s) \/ (pc = "postVisit" /\ b = block /\ s = next)
BlockDone ==
  \A b \in DOMAIN tu.blocks :
    /\ VisitedBlock(b)' <=> VisitedBlock(b) \/ (pc = "preVisit" /\ b = block)
    /\ FilledBlock(b)' <=> FilledBlock(b) \/ (pc = "toIR" /\ b = block)
    /\ AddedBlock(b)' <=> AddedBlock(b) \/ (pc = "postVisit" /\ b = block)
SameOperations ==
  \A b \in DOMAIN tu.blocks : \A s \in DOMAIN Ops(b) :
    /\ Visited(b, s)' <=> Visited(b, s)
    /\ Filled(b, s)' <=> Filled(b, s)
    /\ Added(b, s)' <=> Added(b, s)
SameBlocks ==
  \A b \in DOMAIN tu.blocks :
    /\ VisitedBlock(b)' <=> VisitedBlock(b)
    /\ FilledBlock(b)' <=> FilledBlock(b)
    /\ AddedBlock(b)' <=> AddedBlock(b)

\* The passes.
Passes == {"preVisit", "toIR", "postVisit"}

\* Where a pass is, and what the handler that runs reads there.
LEMMA Here ==
  ASSUME Inv, NEW pass \in Passes, InPass(pass)
  PROVE  /\ Reading /\ IsUnit(tu) /\ pc = pass /\ block \in DOMAIN tu.blocks
         /\ block \in Nat /\ next \in Nat \ {0} /\ next <= Len(Ops(block)) + 1
         /\ Len(tu.blocks) \in Nat /\ DOMAIN tu.blocks = 1 .. Len(tu.blocks)
         /\ Len(Ops(block)) \in Nat /\ DOMAIN Ops(block) = 1 .. Len(Ops(block))
         /\ BlockProto = tu.blocks[block].thing /\ BlockId = IdOf(block)
         /\ AtOperation <=> next <= Len(Ops(block))
         /\ AtOperation => next \in DOMAIN Ops(block)
         /\ OperationProto = Op(block, next) /\ OperationId = Id(block, next)
<1>1. Reading /\ IsUnit(tu) /\ pc = pass /\ block <= Len(tu.blocks)
  BY DEF Inv, UnitInv, InPass, Passes, Reading
<1>2. /\ Len(tu.blocks) \in Nat /\ DOMAIN tu.blocks = 1 .. Len(tu.blocks)
      /\ \A b \in DOMAIN tu.blocks : Len(Ops(b)) \in Nat /\ DOMAIN Ops(b) = 1 .. Len(Ops(b))
  BY <1>1, UnitFacts
<1>3. /\ block \in 1 .. Len(tu.blocks) + 1 /\ next \in Nat \ {0} /\ next <= Len(Ops(block)) + 1
  BY <1>1 DEF Inv, PlaceInv
<1>4. block \in DOMAIN tu.blocks /\ block \in Nat
  BY <1>1, <1>2, <1>3
<1>5. /\ BlockProto = tu.blocks[block].thing /\ BlockId = IdOf(block)
      /\ OperationProto = Op(block, next) /\ OperationId = Id(block, next)
      /\ AtOperation <=> next <= Len(Ops(block))
  BY DEF BlockProto, BlockId, OperationProto, OperationId, AtOperation, IdOf, Op, Id, Ops
<1>6. Len(Ops(block)) \in Nat /\ DOMAIN Ops(block) = 1 .. Len(Ops(block))
  BY <1>2, <1>4
<1>7. AtOperation => next \in DOMAIN Ops(block)
  BY <1>3, <1>5, <1>6
<1>8. QED
  BY <1>1, <1>2, <1>3, <1>4, <1>5, <1>6, <1>7

\* A handler of an operation leaves that operation done and nothing else.
LEMMA OperationStep ==
  ASSUME Inv, NEW pass \in Passes, InPass(pass), AtOperation, NextOperation
  PROVE  /\ UnitStays /\ OperationDone /\ SameBlocks
         /\ Reading' /\ UnitInv' /\ PlaceInv' /\ VerdictInv'
         /\ pc' = pc /\ block' = block /\ next' = next + 1
<1>1. /\ Reading /\ IsUnit(tu) /\ pc = pass /\ block \in 1 .. Len(tu.blocks)
      /\ next \in Nat \ {0} /\ next <= Len(Ops(block)) /\ Len(tu.blocks) \in Nat /\ Len(Ops(block)) \in Nat
  BY Here
<1>2. pc' = pc /\ block' = block /\ next' = next + 1 /\ tu' = tu /\ context' = context
  BY DEF NextOperation, written
<1>3. UnitStays
  BY <1>2, SameUnit
<1>4. Reading' /\ VerdictInv'
  BY <1>1, <1>2 DEF Reading, VerdictInv, Passes
<1>5. UnitInv'
  BY <1>1, <1>2 DEF Passes, UnitInv, IsUnit
<1>6. PlaceInv'
  <2>1. Len(Ops(block)') = Len(Ops(block)) /\ Ops(block') = Ops(block)
    BY <1>2, <1>3, Zenon DEF UnitStays
  <2>2. QED
    BY <1>1, <1>2, <1>3, <2>1 DEF PlaceInv, Passes, UnitStays
<1>7. ASSUME NEW b \in DOMAIN tu.blocks, NEW s \in DOMAIN Ops(b)
      PROVE  Before(b, s)' <=> Before(b, s) \/ (b = block /\ s = next)
  <2>1. b \in Nat /\ s \in Nat
    BY <1>1, UnitFacts
  <2>2. QED
    BY <1>1, <1>2, <2>1 DEF Before
<1>8. OperationDone
  BY <1>1, <1>2, <1>7 DEF OperationDone, Visited, Filled, Added, Passes
<1>9. SameBlocks
  BY <1>2 DEF SameBlocks, VisitedBlock, FilledBlock, AddedBlock
<1>10. QED
  BY <1>2, <1>3, <1>4, <1>5, <1>6, <1>8, <1>9

\* A handler of a block leaves that block done and nothing else.
LEMMA BlockStep ==
  ASSUME Inv, NEW pass \in Passes, InPass(pass), ~AtOperation, NextBlock
  PROVE  /\ UnitStays /\ SameOperations /\ BlockDone
         /\ Reading' /\ UnitInv' /\ PlaceInv' /\ VerdictInv'
         /\ pc' = pc /\ block' = block + 1 /\ next' = 1 /\ next = Len(Ops(block)) + 1
<1>1. /\ Reading /\ IsUnit(tu) /\ pc = pass /\ block \in 1 .. Len(tu.blocks)
      /\ next \in Nat \ {0} /\ ~(next <= Len(Ops(block))) /\ Len(tu.blocks) \in Nat
      /\ Len(Ops(block)) \in Nat /\ next <= Len(Ops(block)) + 1 /\ block \in DOMAIN tu.blocks
  BY Here
<1>2. pc' = pc /\ block' = block + 1 /\ next' = 1 /\ tu' = tu /\ context' = context
  BY DEF NextBlock, written
<1>3. UnitStays
  BY <1>2, SameUnit
<1>4. Reading' /\ VerdictInv'
  BY <1>1, <1>2 DEF Reading, VerdictInv, Passes
<1>5. UnitInv'
  BY <1>1, <1>2 DEF Passes, UnitInv, IsUnit
<1>6. PlaceInv'
  <2>1. block + 1 <= Len(tu.blocks) => 1 <= Len(Ops(block + 1)) + 1
    <3>1. block + 1 <= Len(tu.blocks) => block + 1 \in DOMAIN tu.blocks
      BY <1>1, UnitFacts
    <3>2. block + 1 \in DOMAIN tu.blocks => Len(Ops(block + 1)) \in Nat
      BY <1>1, UnitFacts
    <3>3. QED
      BY <3>1, <3>2
  <2>2. Ops(block)' = Ops(block + 1)
    BY <1>2 DEF Ops
  <2>3. QED
    BY <1>1, <1>2, <1>3, <2>1, <2>2 DEF PlaceInv, Passes, UnitStays
<1>7. ASSUME NEW b \in DOMAIN tu.blocks, NEW s \in DOMAIN Ops(b)
      PROVE  Before(b, s)' <=> Before(b, s)
  <2>1. b \in Nat /\ s \in Nat \ {0} /\ (b = block => s < next)
    BY <1>1, UnitFacts
  <2>2. QED
    BY <1>1, <1>2, <2>1 DEF Before
<1>8. SameOperations
  BY <1>1, <1>2, <1>7 DEF SameOperations, Visited, Filled, Added, Passes
<1>9. BlockDone
  <2>1. \A b \in DOMAIN tu.blocks : b \in Nat
    BY <1>1, UnitFacts
  <2>2. QED
    BY <1>1, <1>2, <2>1 DEF BlockDone, VisitedBlock, FilledBlock, AddedBlock
<1>10. QED
  BY <1>1, <1>2, <1>3, <1>4, <1>5, <1>6, <1>8, <1>9

\* A failed CHECK keeps the invariant when the unit is malformed.
LEMMA DiesInv ==
  ASSUME Inv, Reading, Dies, ~WellFormed, block <= Len(tu.blocks)
  PROVE  Inv'
<1>1. pc' = "died" /\ tu' = tu /\ context' = context /\ block' = block
  BY DEF Reading, Dies, written
<1>2. ~Reading'
  BY <1>1 DEF Reading
<1>3. UnitInv'
  BY <1>1 DEF Inv, UnitInv, Reading, IsUnit
<1>4. VerdictInv'
  BY <1>1, SameUnit DEF VerdictInv, UnitStays
<1>5. QED
  BY <1>2, <1>3, <1>4 DEF Inv, PlaceInv, ObjectsInv, FilledInv, BuildersInv, ContentInv

\* The first visit to a block makes its builder.
LEMMA BuilderInserted ==
  ASSUME Inv, Reading, Reading', pc = "preVisit", pc' = "preVisit", tu' = tu, module' = module,
         block \in DOMAIN tu.blocks, builders' = BuildersWith(IdOf(block)),
         \A b : Ops(b)' = Ops(b) /\ IdOf(b)' = IdOf(b),
         \A b, s : Id(b, s)' = Id(b, s),
         \A b \in DOMAIN tu.blocks :
           /\ VisitedBlock(b)' => VisitedBlock(b) \/ b = block
           /\ ~AddedBlock(b)' /\ ~AddedBlock(b)
  PROVE  BuildersInv'
<1> DEFINE id == IdOf(block)
<1>1. /\ DOMAIN builders' = DOMAIN builders \cup {id}
      /\ \A i \in DOMAIN builders : builders'[i] = builders[i]
      /\ id \notin DOMAIN builders => builders'[id] = [state |-> "open", operations |-> <<>>]
  BY DEF BuildersWith, Inserted
<1> HIDE DEF id
<1>2. ASSUME NEW i \in DOMAIN builders'
      PROVE  /\ \E b \in DOMAIN tu.blocks : i = IdOf(b)
             /\ builders'[i] = [state |-> builders'[i].state, operations |-> builders'[i].operations]
             /\ builders'[i].state = "open" /\ builders'[i].operations = <<>>
  <2>1. CASE i \in DOMAIN builders
    <3>1. /\ \E b \in DOMAIN tu.blocks : i = IdOf(b)
          /\ builders[i] = [state |-> builders[i].state, operations |-> builders[i].operations]
          /\ builders[i].state \in {"open", "built"}
          /\ builders[i].state = "built" <=> \E b \in DOMAIN tu.blocks : AddedBlock(b) /\ i = IdOf(b)
          /\ builders[i].state = "open" => builders[i].operations = <<>>
      BY <2>1 DEF Inv, BuildersInv
    <3>2. QED
      BY <1>1, <2>1, <3>1
  <2>2. CASE i \notin DOMAIN builders
    <3>1. i = id /\ builders'[i] = [state |-> "open", operations |-> <<>>]
      BY <1>1, <2>2
    <3>2. QED
      BY <3>1 DEF id
  <2>3. QED
    BY <2>1, <2>2
<1>3. ASSUME NEW b \in DOMAIN tu.blocks, VisitedBlock(b)'
      PROVE  IdOf(b) \in DOMAIN builders'
  <2>1. VisitedBlock(b) => IdOf(b) \in DOMAIN builders
    BY DEF Inv, BuildersInv
  <2>2. QED
    BY <1>1, <1>3, <2>1 DEF id
<1>4. module' = [b \in 1 .. 0 |-> IdOf(b)]
  BY DEF Inv, BuildersInv
<1>5. QED
  BY <1>2, <1>3, <1>4 DEF BuildersInv

-----------------------------------------------------------------------------
(* The first pass. *)

\* PreVisit of an operation makes an object for its id, or finds one there.
LEMMA PreVisitOperationInv == Inv /\ PreVisitOperation => Inv'
<1> SUFFICES ASSUME Inv, PreVisitOperation PROVE Inv'
  OBVIOUS
<1> DEFINE id == Id(block, next)
           op == Op(block, next)
<1>1. InPass("preVisit") /\ AtOperation /\ "preVisit" \in Passes
  BY DEF PreVisitOperation, Passes
<1>2. /\ Reading /\ IsUnit(tu) /\ pc = "preVisit" /\ block \in DOMAIN tu.blocks /\ next \in DOMAIN Ops(block)
      /\ OperationProto = op /\ OperationId = id /\ BlockId = IdOf(block) /\ block <= Len(tu.blocks)
      /\ block \in Nat /\ next \in Nat
  BY <1>1, Here
<1> HIDE DEF id, op
<1>3. CASE ~(op.operator \in DOMAIN context /\ UnsetValue \notin ToSet(op.inputs))
  <2>1. Dies
    BY <1>2, <1>3 DEF PreVisitOperation
  <2>2. ~WellFormed
    <3>1. UnsetValue.kind = "unset"
      BY DEF UnsetValue
    <3>2. ~Named(UnsetValue)
      BY <3>1 DEF Named
    <3>3. QED
      BY <1>2, <1>3, <3>2, WellFormedIs DEF op
  <2>3. QED
    BY <1>2, <2>1, <2>2, DiesInv
<1>4. CASE op.operator \in DOMAIN context /\ UnsetValue \notin ToSet(op.inputs)
  <2>1. /\ operations' = Inserted(operations, [x \in {id} |-> NewOperation(op)])
        /\ builders' = BuildersWith(IdOf(block)) /\ NextOperation /\ moved' = moved /\ module' = module
    BY <1>2, <1>4 DEF PreVisitOperation
  <2>2. /\ UnitStays /\ OperationDone /\ SameBlocks /\ Reading' /\ UnitInv' /\ PlaceInv' /\ VerdictInv'
        /\ pc' = pc /\ block' = block /\ next' = next + 1
    BY <1>1, <2>1, OperationStep
  <2>3. /\ tu' = tu /\ context' = context
        /\ \A b : Ops(b)' = Ops(b) /\ IdOf(b)' = IdOf(b)
        /\ \A b, s : Op(b, s)' = Op(b, s) /\ Id(b, s)' = Id(b, s)
        /\ UniqueIds' = UniqueIds
    BY <2>2 DEF UnitStays
  <2>4. \A b \in DOMAIN tu.blocks : \A s \in DOMAIN Ops(b) :
          /\ Visited(b, s)' <=> Visited(b, s) \/ (b = block /\ s = next)
          /\ ~Filled(b, s)' /\ ~Added(b, s)' /\ ~Added(b, s) /\ ~Filled(b, s)
    BY <1>2, <2>2 DEF OperationDone, Filled, Added
  <2>5. \A b \in DOMAIN tu.blocks :
          (VisitedBlock(b)' <=> VisitedBlock(b)) /\ ~FilledBlock(b)' /\ ~AddedBlock(b)' /\ ~AddedBlock(b)
    BY <1>2, <2>2 DEF SameBlocks, FilledBlock, AddedBlock
  <2>6. /\ DOMAIN operations' = DOMAIN operations \cup {id}
        /\ \A i \in DOMAIN operations : operations'[i] = operations[i]
        /\ id \notin DOMAIN operations => operations'[id] = NewOperation(op)
    BY <2>1 DEF Inserted
  <2>7. ObjectsInv'
    <3>1. ASSUME NEW i \in DOMAIN operations'
          PROVE  /\ \E b \in DOMAIN tu.blocks : \E s \in DOMAIN Ops(b) : Visited(b, s)' /\ i = Id(b, s)
                 /\ operations'[i] = [operator |-> operations'[i].operator, inputs |-> operations'[i].inputs,
                                attributes |-> operations'[i].attributes, parent |-> operations'[i].parent]
                 /\ i \notin moved => operations'[i].parent = 0
      <4>1. CASE i \in DOMAIN operations
        BY <1>2, <2>4, <2>6, <4>1 DEF Inv, ObjectsInv
      <4>2. CASE i \notin DOMAIN operations
        <5>1. i = id /\ operations'[i] = NewOperation(op)
          BY <2>6, <4>2, Zenon
        <5>2. QED
          BY <1>2, <2>4, <5>1 DEF NewOperation, id
      <4>3. QED
        BY <4>1, <4>2
    <3>2. ASSUME NEW b \in DOMAIN tu.blocks, NEW s \in DOMAIN Ops(b), Visited(b, s)'
          PROVE  /\ Id(b, s) \in DOMAIN operations' /\ Op(b, s).operator \in DOMAIN context
                 /\ UnsetValue \notin ToSet(Op(b, s).inputs)
      <4>1. CASE Visited(b, s)
        BY <1>2, <2>6, <4>1 DEF Inv, ObjectsInv
      <4>2. CASE b = block /\ s = next
        BY <1>4, <2>6, <4>2 DEF id, op
      <4>3. QED
        BY <2>4, <3>2, <4>1, <4>2
    <3>3. \A i : i \notin moved
      BY <1>2, <2>4 DEF Inv, ObjectsInv
    <3>4. QED
      BY <2>1, <2>3, <2>4, <3>1, <3>2, <3>3 DEF ObjectsInv
  <2>8. FilledInv'
    BY <2>3, <2>4, <2>5 DEF FilledInv
  <2>9. BuildersInv'
    BY <1>2, <2>1, <2>2, <2>3, <2>5, BuilderInserted
  <2>10. ContentInv'
    <3> SUFFICES ASSUME UniqueIds, NEW b \in DOMAIN tu.blocks, NEW s \in DOMAIN Ops(b), Visited(b, s)'
                 PROVE  operations'[Id(b, s)] = [operator |-> Op(b, s).operator, inputs |-> <<>>,
                                                 attributes |-> <<>>, parent |-> 0]
      BY <2>3, <2>4 DEF ContentInv
    <3>1. CASE Visited(b, s)
      <4>1. Id(b, s) \in DOMAIN operations
        BY <1>2, <3>1 DEF Inv, ObjectsInv
      <4>2. operations[Id(b, s)] = [operator |-> Op(b, s).operator, inputs |-> <<>>,
                                    attributes |-> <<>>, parent |-> 0]
        BY <1>2, <2>4, <3>1 DEF Inv, ContentInv
      <4>3. QED
        BY <2>6, <4>1, <4>2, Zenon
    <3>2. CASE ~Visited(b, s)
      <4>1. b = block /\ s = next
        BY <2>4, <3>2
      <4>2. id \notin DOMAIN operations
        <5>1. ASSUME id \in DOMAIN operations PROVE FALSE
          <6>1. PICK c \in DOMAIN tu.blocks : \E t \in DOMAIN Ops(c) : Visited(c, t) /\ id = Id(c, t)
            BY <1>2, <5>1, Zenon DEF Inv, ObjectsInv
          <6>2. PICK t \in DOMAIN Ops(c) : Visited(c, t) /\ id = Id(c, t)
            BY <6>1
          <6>3. c = b /\ t = s
            BY <4>1, <6>2, Zenon DEF UniqueIds, id
          <6>4. QED
            BY <3>2, <6>2, <6>3
        <5>2. QED
          BY <5>1
      <4>3. operations'[id] = NewOperation(op)
        BY <2>6, <4>2, Zenon
      <4>4. QED
        BY <4>1, <4>3 DEF id, op, NewOperation
    <3>3. QED
      BY <3>1, <3>2
  <2>11. QED
    BY <2>2, <2>7, <2>8, <2>9, <2>10 DEF Inv
<1>5. QED
  BY <1>3, <1>4

\* PreVisit of a block makes a builder for its id, or finds one there.
LEMMA PreVisitBlockInv == Inv /\ PreVisitBlock => Inv'
<1> SUFFICES ASSUME Inv, PreVisitBlock PROVE Inv'
  OBVIOUS
<1>1. InPass("preVisit") /\ ~AtOperation /\ "preVisit" \in Passes
  BY DEF PreVisitBlock, Passes
<1>2. /\ Reading /\ IsUnit(tu) /\ pc = "preVisit" /\ block \in DOMAIN tu.blocks
      /\ BlockProto = tu.blocks[block].thing /\ BlockId = IdOf(block) /\ block <= Len(tu.blocks)
      /\ block \in Nat /\ next \in Nat
  BY <1>1, Here
<1>3. CASE UnsetValue \in Range(tu.blocks[block].thing.results)
  <2>1. Dies
    BY <1>2, <1>3 DEF PreVisitBlock
  <2>2. ~WellFormed
    <3>1. tu.blocks[block].thing.results # <<>>
      BY <1>3 DEF Range
    <3>2. QED
      BY <1>2, <3>1, WellFormedIs
  <2>3. QED
    BY <1>2, <2>1, <2>2, DiesInv
<1>4. CASE UnsetValue \notin Range(tu.blocks[block].thing.results)
  <2>1. /\ builders' = BuildersWith(IdOf(block)) /\ NextBlock
        /\ operations' = operations /\ moved' = moved /\ module' = module
    BY <1>2, <1>4 DEF PreVisitBlock
  <2>2. /\ UnitStays /\ SameOperations /\ BlockDone /\ Reading' /\ UnitInv' /\ PlaceInv' /\ VerdictInv'
        /\ pc' = pc /\ block' = block + 1 /\ next' = 1
    BY <1>1, <2>1, BlockStep
  <2>3. /\ tu' = tu /\ context' = context
        /\ \A b : Ops(b)' = Ops(b) /\ IdOf(b)' = IdOf(b)
        /\ \A b, s : Op(b, s)' = Op(b, s) /\ Id(b, s)' = Id(b, s)
        /\ UniqueIds' = UniqueIds
    BY <2>2 DEF UnitStays
  <2>4. \A b \in DOMAIN tu.blocks : \A s \in DOMAIN Ops(b) :
          /\ Visited(b, s)' <=> Visited(b, s)
          /\ ~Filled(b, s)' /\ ~Added(b, s)' /\ ~Added(b, s) /\ ~Filled(b, s)
    BY <1>2, <2>2 DEF SameOperations, Filled, Added
  <2>5. \A b \in DOMAIN tu.blocks :
          /\ VisitedBlock(b)' <=> VisitedBlock(b) \/ b = block
          /\ ~FilledBlock(b)' /\ ~AddedBlock(b)' /\ ~AddedBlock(b)
    BY <1>2, <2>2 DEF BlockDone, FilledBlock, AddedBlock
  <2>6. ObjectsInv'
    BY <1>2, <2>1, <2>3, <2>4 DEF Inv, ObjectsInv
  <2>7. FilledInv'
    BY <2>3, <2>4, <2>5 DEF FilledInv
  <2>8. BuildersInv'
    BY <1>2, <2>1, <2>2, <2>3, <2>5, BuilderInserted
  <2>9. ContentInv'
    BY <1>2, <2>1, <2>3, <2>4 DEF Inv, ContentInv
  <2>10. QED
    BY <2>2, <2>6, <2>7, <2>8, <2>9 DEF Inv
<1>5. QED
  BY <1>3, <1>4

-----------------------------------------------------------------------------
(* The second pass. *)

\* RegisterOperators leaves all that there is to visit.
LEMMA RegisterOperatorsInv == Inv /\ RegisterOperators => Inv'
<1> SUFFICES ASSUME Inv, RegisterOperators PROVE Inv'
  OBVIOUS
<1>1. /\ pc = "register" /\ pc' = "preVisit" /\ tu' = tu /\ block = 1 /\ next = 1 /\ block' = 1 /\ next' = 1
      /\ operations = <<>> /\ moved = {} /\ builders = <<>> /\ module = <<>>
      /\ operations' = <<>> /\ moved' = {} /\ builders' = <<>> /\ module' = <<>>
      /\ IsUnit(tu)
  BY DEF RegisterOperators, Inv, UnitInv, written, built
<1>2. UnitInv'
  BY <1>1 DEF UnitInv, IsUnit
<1>3. /\ Len(tu.blocks) \in Nat /\ DOMAIN tu.blocks = 1 .. Len(tu.blocks)
      /\ \A b \in DOMAIN tu.blocks : Len(Ops(b)) \in Nat /\ DOMAIN Ops(b) = 1 .. Len(Ops(b))
  BY <1>1, UnitFacts
<1>4. PlaceInv'
  BY <1>1, <1>3, SMTT(30) DEF PlaceInv, Ops
<1>5. /\ \A b : Ops(b)' = Ops(b)
      /\ \A b \in DOMAIN tu.blocks : ~FilledBlock(b)' /\ ~AddedBlock(b)' /\ ~VisitedBlock(b)'
      /\ \A b \in DOMAIN tu.blocks : \A s \in DOMAIN Ops(b) :
           ~Filled(b, s)' /\ ~Added(b, s)' /\ ~Visited(b, s)'
  BY <1>1, <1>3 DEF FilledBlock, AddedBlock, VisitedBlock, Filled, Added, Visited, Before, Ops
<1>6. ObjectsInv'
  BY <1>1, <1>5 DEF ObjectsInv
<1>7. FilledInv'
  BY <1>1, <1>5 DEF FilledInv
<1>8. BuildersInv'
  BY <1>1, <1>5 DEF BuildersInv
<1>9. ContentInv' /\ VerdictInv'
  BY <1>1, <1>5 DEF ContentInv, VerdictInv
<1>10. QED
  BY <1>2, <1>4, <1>6, <1>7, <1>8, <1>9 DEF Inv

\* A pass is over when it has gone through every operation.
LEMMA PassDone ==
  ASSUME Inv, NEW pass \in Passes, pc = pass, block > Len(tu.blocks)
  PROVE  /\ Reading /\ IsUnit(tu) /\ next = 1 /\ block = Len(tu.blocks) + 1
         /\ Len(tu.blocks) \in Nat /\ DOMAIN tu.blocks = 1 .. Len(tu.blocks)
         /\ \A b \in DOMAIN tu.blocks : b < block
         /\ \A b \in DOMAIN tu.blocks : \A s \in DOMAIN Ops(b) : Before(b, s)
<1>1. Reading /\ IsUnit(tu)
  BY DEF Inv, UnitInv, Passes, Reading
<1>2. Len(tu.blocks) \in Nat /\ DOMAIN tu.blocks = 1 .. Len(tu.blocks)
  BY <1>1, UnitFacts
<1>3. next = 1 /\ block = Len(tu.blocks) + 1
  BY <1>1, <1>2 DEF Inv, PlaceInv
<1>4. \A b \in DOMAIN tu.blocks : b < block
  BY <1>2, <1>3
<1>5. QED
  BY <1>1, <1>2, <1>3, <1>4 DEF Before

\* A pass that has gone through all blocks has done all its work.
LEMMA NextPassInv ==
  ASSUME NEW pass, NEW successor, Inv, NextPass(pass, successor),
         (pass = "preVisit" /\ successor = "toIR") \/ (pass = "toIR" /\ successor = "postVisit")
  PROVE  Inv'
<1>1. /\ pc = pass /\ pc' = successor /\ block > Len(tu.blocks) /\ pass \in Passes
      /\ tu' = tu /\ context' = context /\ block' = 1 /\ next' = 1
      /\ operations' = operations /\ moved' = moved /\ builders' = builders /\ module' = module
  BY DEF NextPass, written, built, Passes
<1>2. /\ Reading /\ IsUnit(tu) /\ next = 1 /\ block = Len(tu.blocks) + 1
      /\ Len(tu.blocks) \in Nat /\ DOMAIN tu.blocks = 1 .. Len(tu.blocks)
      /\ \A b \in DOMAIN tu.blocks : b < block
      /\ \A b \in DOMAIN tu.blocks : \A s \in DOMAIN Ops(b) : Before(b, s)
  BY <1>1, PassDone
<1>3. Reading' /\ VerdictInv'
  BY <1>1 DEF Reading, VerdictInv
<1>4. UnitInv'
  <2>1. IsUnit(tu')
    BY <1>1, <1>2
  <2>2. QED
    BY <1>1, <1>2, <2>1 DEF UnitInv
<1>5. PlaceInv'
  <2>1. 1 <= Len(tu.blocks) => 1 <= Len(Ops(1)) + 1
    <3>1. 1 <= Len(tu.blocks) => 1 \in DOMAIN tu.blocks
      BY <1>2
    <3>2. 1 \in DOMAIN tu.blocks => Len(Ops(1)) \in Nat
      BY <1>2, UnitFacts
    <3>3. QED
      BY <3>1, <3>2
  <2>2. Ops(block)' = Ops(1)
    BY <1>1 DEF Ops
  <2>3. QED
    BY <1>1, <1>2, <2>1, <2>2 DEF PlaceInv
<1>6. UnitStays
  BY <1>1, SameUnit
<1>7. /\ \A b : Ops(b)' = Ops(b) /\ IdOf(b)' = IdOf(b)
      /\ \A b, s : Op(b, s)' = Op(b, s) /\ Id(b, s)' = Id(b, s)
      /\ UniqueIds' = UniqueIds
  BY <1>6 DEF UnitStays
<1>8. ASSUME NEW b \in DOMAIN tu.blocks
      PROVE  /\ VisitedBlock(b)' /\ VisitedBlock(b) /\ ~AddedBlock(b)' /\ ~AddedBlock(b)
             /\ FilledBlock(b)' <=> FilledBlock(b)
  BY <1>1, <1>2 DEF VisitedBlock, AddedBlock, FilledBlock
<1>9. ASSUME NEW b \in DOMAIN tu.blocks, NEW s \in DOMAIN Ops(b)
      PROVE  /\ Visited(b, s)' /\ Visited(b, s) /\ ~Added(b, s)' /\ ~Added(b, s)
             /\ Filled(b, s)' <=> Filled(b, s)
  <2>1. b \in Nat \ {0} /\ s \in Nat \ {0}
    BY <1>2, UnitFacts
  <2>2. ~Before(b, s)' /\ Before(b, s)
    BY <1>1, <1>2, <2>1 DEF Before
  <2>3. QED
    BY <1>1, <2>2 DEF Visited, Added, Filled
<1>10. ObjectsInv'
  BY <1>1, <1>2, <1>7, <1>9 DEF Inv, ObjectsInv
<1>11. FilledInv'
  <2>1. \A v : Resolves(v)' <=> Resolves(v)
    BY <1>1 DEF Resolves
  <2>2. QED
    BY <1>1, <1>2, <1>7, <1>8, <1>9, <2>1 DEF Inv, FilledInv
<1>12. BuildersInv'
  <2>1. ASSUME NEW id \in DOMAIN builders
        PROVE  /\ \E b \in DOMAIN tu.blocks : id = IdOf(b)
               /\ builders[id] = [state |-> builders[id].state, operations |-> builders[id].operations]
               /\ builders[id].state = "open" /\ builders[id].operations = <<>>
    <3>1. /\ \E b \in DOMAIN tu.blocks : id = IdOf(b)
          /\ builders[id] = [state |-> builders[id].state, operations |-> builders[id].operations]
          /\ builders[id].state \in {"open", "built"}
          /\ builders[id].state = "built" <=> \E b \in DOMAIN tu.blocks : AddedBlock(b) /\ id = IdOf(b)
      BY <1>2 DEF Inv, BuildersInv
    <3>2. builders[id].state = "open"
      BY <1>8, <3>1
    <3>3. builders[id].operations = <<>>
      BY <1>1, <1>2, <3>2 DEF Inv, BuildersInv
    <3>4. QED
      BY <3>1, <3>2, <3>3
  <2>2. module = [b \in 1 .. 0 |-> IdOf(b)]
    BY <1>1, <1>2 DEF Inv, BuildersInv
  <2>3. \A b \in DOMAIN tu.blocks : IdOf(b) \in DOMAIN builders
    BY <1>2, <1>8 DEF Inv, BuildersInv
  <2>4. [s \in 1 .. next' - 1 |-> Id(block, s)'] = <<>>
    BY <1>1
  <2>5. QED
    BY <1>1, <1>7, <1>8, <2>1, <2>2, <2>3, <2>4 DEF BuildersInv
<1>13. ContentInv'
  BY <1>1, <1>2, <1>7, <1>9 DEF Inv, ContentInv
<1>14. QED
  BY <1>3, <1>4, <1>5, <1>10, <1>11, <1>12, <1>13 DEF Inv

\* In the second pass every operation and every block has its object.
LEMMA NamedResolves ==
  ASSUME Inv, Reading, pc # "preVisit", NEW v, Named(v)
  PROVE  Resolves(v)
<1>1. pc \in {"toIR", "postVisit", "done"}
  BY DEF Reading
<1>2. /\ \A b \in DOMAIN tu.blocks : IdOf(b) \in DOMAIN builders
      /\ \A b \in DOMAIN tu.blocks : \A s \in DOMAIN Ops(b) : Id(b, s) \in DOMAIN operations
  BY <1>1 DEF Inv, BuildersInv, ObjectsInv, Visited, VisitedBlock
<1>3. QED
  BY <1>2 DEF Named, Resolves

\* ToIR fills the object of an operation; what an id resolves to stays.
LEMMA ToIROperationInv == Inv /\ ToIROperation => Inv'
<1> SUFFICES ASSUME Inv, ToIROperation PROVE Inv'
  OBVIOUS
<1> DEFINE id == Id(block, next)
           op == Op(block, next)
           fits == /\ AcceptsResults(tu.blocks[block].thing.results)
                   /\ \A v \in ToSet(op.inputs) : Resolves(v)
                   /\ "unset" \notin Range(op.attributes)
<1>1. InPass("toIR") /\ AtOperation /\ "toIR" \in Passes
  BY DEF ToIROperation, Passes
<1>2. /\ Reading /\ IsUnit(tu) /\ pc = "toIR" /\ block \in DOMAIN tu.blocks /\ next \in DOMAIN Ops(block)
      /\ OperationProto = op /\ OperationId = id /\ BlockProto = tu.blocks[block].thing
      /\ block <= Len(tu.blocks) /\ block \in Nat /\ next \in Nat
  BY <1>1, Here
<1> HIDE DEF id, op
<1>3. CASE ~fits
  <2>1. Dies
    BY <1>2, <1>3 DEF ToIROperation
  <2>2. ~WellFormed
    BY <1>2, <1>3, WellFormedIs, NamedResolves DEF AcceptsResults, op
  <2>3. QED
    BY <1>2, <2>1, <2>2, DiesInv
<1>4. CASE fits
  <2>1. /\ operations' = [operations EXCEPT ![id].inputs = @ \o op.inputs,
                                            ![id].attributes = Inserted(@, op.attributes)]
        /\ NextOperation /\ moved' = moved /\ builders' = builders /\ module' = module
    BY <1>2, <1>4 DEF ToIROperation
  <2>2. /\ UnitStays /\ OperationDone /\ SameBlocks /\ Reading' /\ UnitInv' /\ PlaceInv' /\ VerdictInv'
        /\ pc' = pc /\ block' = block /\ next' = next + 1
    BY <1>1, <2>1, OperationStep
  <2>3. /\ tu' = tu /\ context' = context
        /\ \A b : Ops(b)' = Ops(b) /\ IdOf(b)' = IdOf(b)
        /\ \A b, s : Op(b, s)' = Op(b, s) /\ Id(b, s)' = Id(b, s)
        /\ UniqueIds' = UniqueIds
    BY <2>2 DEF UnitStays
  <2>4. \A b \in DOMAIN tu.blocks : \A s \in DOMAIN Ops(b) :
          /\ Filled(b, s)' <=> Filled(b, s) \/ (b = block /\ s = next)
          /\ Visited(b, s)' /\ Visited(b, s) /\ ~Added(b, s)' /\ ~Added(b, s)
    BY <1>2, <2>2 DEF OperationDone, Visited, Added
  <2>5. \A b \in DOMAIN tu.blocks :
          /\ VisitedBlock(b)' /\ VisitedBlock(b) /\ ~AddedBlock(b)' /\ ~AddedBlock(b)
          /\ FilledBlock(b)' <=> FilledBlock(b)
    BY <1>2, <2>2 DEF SameBlocks, VisitedBlock, AddedBlock
  <2>6. id \in DOMAIN operations
    BY <1>2, <2>4 DEF Inv, ObjectsInv, id
  <2>7. /\ DOMAIN operations' = DOMAIN operations
        /\ \A i \in DOMAIN operations : i # id => operations'[i] = operations[i]
        /\ operations'[id] =
             [operator |-> operations[id].operator, inputs |-> operations[id].inputs \o op.inputs,
              attributes |-> Inserted(operations[id].attributes, op.attributes), parent |-> operations[id].parent]
    <3>1. operations[id] = [operator |-> operations[id].operator, inputs |-> operations[id].inputs,
                            attributes |-> operations[id].attributes, parent |-> operations[id].parent]
      BY <1>2, <2>6 DEF Inv, ObjectsInv
    <3>2. /\ DOMAIN operations' = DOMAIN operations
          /\ \A i \in DOMAIN operations : i # id => operations'[i] = operations[i]
          /\ operations'[id] = [operations[id] EXCEPT !.inputs = @ \o op.inputs,
                                                      !.attributes = Inserted(@, op.attributes)]
      BY <2>1, <2>6
    <3>3. QED
      BY <3>1, <3>2
  <2>8. ObjectsInv'
    <3>1. ASSUME NEW i \in DOMAIN operations
          PROVE  /\ \E b \in DOMAIN tu.blocks : \E s \in DOMAIN Ops(b) : Visited(b, s)' /\ i = Id(b, s)
                 /\ operations'[i] = [operator |-> operations'[i].operator, inputs |-> operations'[i].inputs,
                                attributes |-> operations'[i].attributes, parent |-> operations'[i].parent]
                 /\ i \notin moved => operations'[i].parent = 0
      <4>1. /\ \E b \in DOMAIN tu.blocks : \E s \in DOMAIN Ops(b) : Visited(b, s)' /\ i = Id(b, s)
            /\ operations[i] = [operator |-> operations[i].operator, inputs |-> operations[i].inputs,
                                attributes |-> operations[i].attributes, parent |-> operations[i].parent]
            /\ i \notin moved => operations[i].parent = 0
        BY <1>2, <2>4 DEF Inv, ObjectsInv
      <4>2. CASE i = id
        <5>1. /\ operations'[id] = [operator |-> operations'[id].operator, inputs |-> operations'[id].inputs,
                   attributes |-> operations'[id].attributes, parent |-> operations'[id].parent]
              /\ operations'[id].parent = operations[id].parent
          BY <2>7
        <5>2. QED
          BY <4>1, <4>2, <5>1, Zenon
      <4>3. CASE i # id
        BY <2>7, <4>1, <4>3
      <4>4. QED
        BY <4>2, <4>3
    <3>2. ASSUME NEW b \in DOMAIN tu.blocks, NEW s \in DOMAIN Ops(b)
          PROVE  /\ Id(b, s) \in DOMAIN operations /\ Op(b, s).operator \in DOMAIN context
                 /\ UnsetValue \notin ToSet(Op(b, s).inputs)
      BY <1>2, <2>4 DEF Inv, ObjectsInv
    <3>3. \A i : i \notin moved
      BY <1>2, <2>4 DEF Inv, ObjectsInv
    <3>4. DOMAIN operations' = DOMAIN operations
      BY <2>7
    <3>5. \A i \in DOMAIN operations' :
            /\ \E b \in DOMAIN tu'.blocks : \E s \in DOMAIN Ops(b)' : Visited(b, s)' /\ i = Id(b, s)'
            /\ operations'[i] = [operator |-> operations'[i].operator, inputs |-> operations'[i].inputs,
                                attributes |-> operations'[i].attributes, parent |-> operations'[i].parent]
            /\ i \notin moved' => operations'[i].parent = 0
      <4>1. ASSUME NEW i \in DOMAIN operations'
            PROVE  \E b \in DOMAIN tu'.blocks : \E s \in DOMAIN Ops(b)' : Visited(b, s)' /\ i = Id(b, s)'
        <5>1. PICK b \in DOMAIN tu.blocks : \E s \in DOMAIN Ops(b) : Visited(b, s)' /\ i = Id(b, s)
          BY <3>1, <3>4, Zenon
        <5>2. PICK s \in DOMAIN Ops(b) : Visited(b, s)' /\ i = Id(b, s)
          BY <5>1
        <5>3. b \in DOMAIN tu'.blocks /\ s \in DOMAIN Ops(b)' /\ i = Id(b, s)'
          BY <2>3, <5>2
        <5>4. QED
          BY <5>2, <5>3, Zenon
      <4>2. ASSUME NEW i \in DOMAIN operations'
            PROVE  /\ operations'[i] = [operator |-> operations'[i].operator, inputs |-> operations'[i].inputs,
                                        attributes |-> operations'[i].attributes, parent |-> operations'[i].parent]
                   /\ i \notin moved' => operations'[i].parent = 0
        BY <2>1, <3>1, <3>4, Zenon
      <4>3. QED
        BY <4>1, <4>2, Zenon
    <3>6. \A b \in DOMAIN tu'.blocks : \A s \in DOMAIN Ops(b)' :
             /\ Id(b, s)' \in DOMAIN operations' /\ Op(b, s)'.operator \in DOMAIN context'
             /\ UnsetValue \notin ToSet(Op(b, s)'.inputs)
             /\ ~Added(b, s)'
      BY <2>3, <2>4, <3>2, <3>4
    <3> HIDE DEF id, op, fits
    <3>7. QED
      BY <2>1, <3>3, <3>5, <3>6 DEF ObjectsInv
  <2>9. FilledInv'
    <3>1. \A v : Resolves(v)' <=> Resolves(v)
      BY <2>1, <2>7 DEF Resolves
    <3>2. ASSUME NEW b \in DOMAIN tu.blocks, NEW s \in DOMAIN Ops(b), Filled(b, s)'
          PROVE  /\ \A v \in ToSet(Op(b, s).inputs) : Resolves(v)
                 /\ "unset" \notin Range(Op(b, s).attributes)
      <4>1. CASE Filled(b, s)
        BY <1>2, <4>1 DEF Inv, FilledInv
      <4>2. CASE b = block /\ s = next
        BY <1>4, <4>2 DEF op
      <4>3. QED
        BY <2>4, <3>2, <4>1, <4>2
    <3>3. \A b \in DOMAIN tu.blocks : FilledBlock(b) => tu.blocks[b].thing.results = <<>>
      BY <1>2 DEF Inv, FilledInv
    <3>4. QED
      BY <2>3, <2>5, <3>1, <3>2, <3>3 DEF FilledInv
  <2>10. BuildersInv'
    BY <1>2, <2>1, <2>2, <2>3, <2>5 DEF Inv, BuildersInv
  <2>11. ContentInv'
    <3> SUFFICES ASSUME UniqueIds, NEW b \in DOMAIN tu.blocks, NEW s \in DOMAIN Ops(b)
                 PROVE  operations'[Id(b, s)] =
                          [operator |-> Op(b, s).operator,
                           inputs |-> IF Filled(b, s)' THEN Op(b, s).inputs ELSE <<>>,
                           attributes |-> IF Filled(b, s)' THEN Op(b, s).attributes ELSE <<>>, parent |-> 0]
      BY <2>3, <2>4 DEF ContentInv
    <3>1. operations[Id(b, s)] =
            [operator |-> Op(b, s).operator,
             inputs |-> IF Filled(b, s) THEN Op(b, s).inputs ELSE <<>>,
             attributes |-> IF Filled(b, s) THEN Op(b, s).attributes ELSE <<>>, parent |-> 0]
      BY <1>2, <2>4 DEF Inv, ContentInv
    <3>2. CASE b = block /\ s = next
      <4>1. ~Filled(b, s) /\ Filled(b, s)'
        BY <1>2, <2>4, <3>2 DEF Filled, Before
      <4>2. operations[id] = [operator |-> op.operator, inputs |-> <<>>, attributes |-> <<>>, parent |-> 0]
        BY <3>1, <3>2, <4>1 DEF id, op
      <4>3. <<>> \o op.inputs = op.inputs /\ Inserted(<<>>, op.attributes) = op.attributes
        <5>1. IsSequence(op.inputs) /\ IsMap(op.attributes)
          BY <1>2, UnitFacts DEF op
        <5>2. <<>> \o op.inputs = op.inputs
          BY <5>1, ConcatEmptySeq DEF IsSequence
        <5>3. QED
          BY <5>1, <5>2, InsertedEmpty
      <4>4. operations'[id] = [operator |-> op.operator, inputs |-> op.inputs,
                               attributes |-> op.attributes, parent |-> 0]
        BY <2>7, <4>2, <4>3
      <4>5. QED
        BY <3>2, <4>1, <4>4 DEF id, op
    <3>3. CASE ~(b = block /\ s = next)
      <4>1. Id(b, s) # id
        BY <1>2, <3>3, Zenon DEF UniqueIds, id
      <4>2. Id(b, s) \in DOMAIN operations
        BY <1>2, <2>4 DEF Inv, ObjectsInv
      <4>3. operations'[Id(b, s)] = operations[Id(b, s)]
        BY <2>7, <4>1, <4>2, Zenon
      <4>4. Filled(b, s)' <=> Filled(b, s)
        BY <2>4, <3>3
      <4>5. QED
        BY <3>1, <4>3, <4>4
    <3>4. QED
      BY <3>2, <3>3
  <2>12. QED
    BY <2>2, <2>8, <2>9, <2>10, <2>11 DEF Inv
<1>5. QED
  BY <1>3, <1>4

\* ToIR of a block refuses results.
LEMMA ToIRBlockInv == Inv /\ ToIRBlock => Inv'
<1> SUFFICES ASSUME Inv, ToIRBlock PROVE Inv'
  OBVIOUS
<1>1. InPass("toIR") /\ ~AtOperation /\ "toIR" \in Passes
  BY DEF ToIRBlock, Passes
<1>2. /\ Reading /\ IsUnit(tu) /\ pc = "toIR" /\ block \in DOMAIN tu.blocks
      /\ BlockProto = tu.blocks[block].thing /\ block <= Len(tu.blocks)
  BY <1>1, Here
<1>3. CASE tu.blocks[block].thing.results # <<>>
  <2>1. Dies
    BY <1>2, <1>3 DEF ToIRBlock, AcceptsResults
  <2>2. ~WellFormed
    BY <1>2, <1>3, WellFormedIs
  <2>3. QED
    BY <1>2, <2>1, <2>2, DiesInv
<1>4. CASE tu.blocks[block].thing.results = <<>>
  <2>1. NextBlock /\ operations' = operations /\ moved' = moved /\ builders' = builders /\ module' = module
    BY <1>2, <1>4 DEF ToIRBlock, AcceptsResults, built
  <2>2. /\ UnitStays /\ SameOperations /\ BlockDone /\ Reading' /\ UnitInv' /\ PlaceInv' /\ VerdictInv'
        /\ pc' = pc /\ block' = block + 1 /\ next' = 1
    BY <1>1, <2>1, BlockStep
  <2>3. /\ tu' = tu /\ context' = context
        /\ \A b : Ops(b)' = Ops(b) /\ IdOf(b)' = IdOf(b)
        /\ \A b, s : Op(b, s)' = Op(b, s) /\ Id(b, s)' = Id(b, s)
        /\ UniqueIds' = UniqueIds
    BY <2>2 DEF UnitStays
  <2>4. \A b \in DOMAIN tu.blocks : \A s \in DOMAIN Ops(b) :
          /\ Filled(b, s)' <=> Filled(b, s)
          /\ Visited(b, s)' <=> Visited(b, s)
          /\ Added(b, s)' <=> Added(b, s)
    BY <1>2, <2>2 DEF SameOperations
  <2>5. \A b \in DOMAIN tu.blocks :
          /\ FilledBlock(b)' <=> FilledBlock(b) \/ b = block
          /\ VisitedBlock(b)' <=> VisitedBlock(b)
          /\ AddedBlock(b)' <=> AddedBlock(b)
    BY <1>2, <2>2 DEF BlockDone
  <2>6. ObjectsInv'
    BY <1>2, <2>1, <2>3, <2>4 DEF Inv, ObjectsInv
  <2>7. FilledInv'
    <3>1. \A v : Resolves(v)' <=> Resolves(v)
      BY <2>1 DEF Resolves
    <3>2. QED
      BY <1>2, <1>4, <2>3, <2>4, <2>5, <3>1 DEF Inv, FilledInv
  <2>8. BuildersInv'
    BY <1>2, <2>1, <2>2, <2>3, <2>5 DEF Inv, BuildersInv
  <2>9. ContentInv'
    BY <1>2, <2>1, <2>3, <2>4 DEF Inv, ContentInv
  <2>10. QED
    BY <2>2, <2>6, <2>7, <2>8, <2>9 DEF Inv
<1>5. QED
  BY <1>3, <1>4

-----------------------------------------------------------------------------
(* The third pass. *)

\* In a well-formed unit no other block has built the builder.
LEMMA BuilderIsOpen ==
  ASSUME Inv, pc = "postVisit", block \in DOMAIN tu.blocks,
         \A b, c \in DOMAIN tu.blocks : IdOf(b) = IdOf(c) => b = c
  PROVE  IdOf(block) \in DOMAIN builders /\ builders[IdOf(block)].state = "open"
<1>1. Reading
  BY DEF Reading
<1>2. IdOf(block) \in DOMAIN builders
  BY <1>1 DEF Inv, BuildersInv, VisitedBlock
<1>3. /\ builders[IdOf(block)].state \in {"open", "built"}
      /\ builders[IdOf(block)].state = "built" <=> \E b \in DOMAIN tu.blocks : AddedBlock(b) /\ IdOf(block) = IdOf(b)
  BY <1>1, <1>2 DEF Inv, BuildersInv
<1>4. block \in Nat
  BY <1>1, UnitFacts DEF Inv, UnitInv, Reading
<1>5. ~AddedBlock(block)
  BY <1>4 DEF AddedBlock
<1>6. ~\E b \in DOMAIN tu.blocks : AddedBlock(b) /\ IdOf(block) = IdOf(b)
  BY <1>5
<1>7. QED
  BY <1>2, <1>3, <1>6

\* Ids of the unit are unique if every operation could be added, and so are
\* those of its blocks.
LEMMA MayAddOwn ==
  ASSUME Inv, InPass("postVisit"), AtOperation, WellFormed
  PROVE  MayAdd(OperationId)
<1>1. /\ Reading /\ pc = "postVisit" /\ block \in DOMAIN tu.blocks /\ next \in DOMAIN Ops(block)
      /\ OperationId = Id(block, next) /\ BlockId = IdOf(block) /\ block \in Nat /\ next \in Nat
  BY Here DEF Passes
<1>2. UniqueIds /\ \A b, c \in DOMAIN tu.blocks : IdOf(b) = IdOf(c) => b = c
  BY WellFormedIs
<1>3. Id(block, next) \notin moved
  <2>1. ASSUME Id(block, next) \in moved PROVE FALSE
    <3>1. PICK b \in DOMAIN tu.blocks : \E s \in DOMAIN Ops(b) : Added(b, s) /\ Id(block, next) = Id(b, s)
      BY <1>1, <2>1, Zenon DEF Inv, ObjectsInv
    <3>2. PICK s \in DOMAIN Ops(b) : Added(b, s) /\ Id(block, next) = Id(b, s)
      BY <3>1
    <3>3. block = b /\ next = s
      BY <1>1, <1>2, <3>2, ZenonT(60) DEF UniqueIds
    <3>4. QED
      BY <1>1, <3>2, <3>3 DEF Added, Before
  <2>2. QED
    BY <2>1
<1>4. operations[Id(block, next)].parent = 0
  <2>1. Id(block, next) \in DOMAIN operations
    BY <1>1 DEF Inv, ObjectsInv, Visited
  <2>2. QED
    BY <1>1, <1>3, <2>1 DEF Inv, ObjectsInv
<1>5. builders[IdOf(block)].state = "open"
  BY <1>1, <1>2, BuilderIsOpen
<1>6. QED
  BY <1>1, <1>3, <1>4, <1>5 DEF MayAdd

\* PostVisit moves the object of an operation to its block.  It refuses an
\* object that has moved and a builder that is built: some id was used twice.
LEMMA PostVisitOperationInv == Inv /\ PostVisitOperation => Inv'
<1> SUFFICES ASSUME Inv, PostVisitOperation PROVE Inv'
  OBVIOUS
<1> DEFINE id == Id(block, next)
           here == IdOf(block)
<1>1. InPass("postVisit") /\ AtOperation /\ "postVisit" \in Passes
  BY DEF PostVisitOperation, Passes
<1>2. /\ Reading /\ IsUnit(tu) /\ pc = "postVisit" /\ block \in DOMAIN tu.blocks /\ next \in DOMAIN Ops(block)
      /\ OperationId = id /\ BlockId = here
      /\ block <= Len(tu.blocks) /\ block \in Nat /\ next \in Nat \ {0}
  BY <1>1, Here
<1> HIDE DEF id, here
<1>3. CASE ~MayAdd(id)
  <2>1. Dies
    BY <1>2, <1>3 DEF PostVisitOperation
  <2>2. ~WellFormed
    BY <1>1, <1>2, <1>3, MayAddOwn
  <2>3. QED
    BY <1>2, <2>1, <2>2, DiesInv
<1>4. CASE MayAdd(id)
  <2>1. /\ moved' = moved \cup {id} /\ operations' = [operations EXCEPT ![id].parent = here]
        /\ builders' = [builders EXCEPT ![here].operations = Append(@, id)]
        /\ NextOperation /\ module' = module
        /\ id \notin moved /\ builders[here].state = "open"
    BY <1>2, <1>4 DEF PostVisitOperation, MayAdd
  <2>2. /\ UnitStays /\ OperationDone /\ SameBlocks /\ Reading' /\ UnitInv' /\ PlaceInv' /\ VerdictInv'
        /\ pc' = pc /\ block' = block /\ next' = next + 1
    BY <1>1, <2>1, OperationStep
  <2>3. /\ tu' = tu /\ context' = context
        /\ \A b : Ops(b)' = Ops(b) /\ IdOf(b)' = IdOf(b)
        /\ \A b, s : Op(b, s)' = Op(b, s) /\ Id(b, s)' = Id(b, s)
        /\ UniqueIds' = UniqueIds
    BY <2>2 DEF UnitStays
  <2>4. \A b \in DOMAIN tu.blocks : \A s \in DOMAIN Ops(b) :
          /\ Added(b, s)' <=> Added(b, s) \/ (b = block /\ s = next)
          /\ Visited(b, s)' /\ Visited(b, s) /\ Filled(b, s)' /\ Filled(b, s)
    BY <1>2, <2>2 DEF OperationDone, Visited, Filled
  <2>5. \A b \in DOMAIN tu.blocks :
          /\ VisitedBlock(b)' /\ VisitedBlock(b) /\ FilledBlock(b)' /\ FilledBlock(b)
          /\ AddedBlock(b)' <=> AddedBlock(b)
    BY <1>2, <2>2 DEF SameBlocks, VisitedBlock, FilledBlock
  <2>6. id \in DOMAIN operations /\ here \in DOMAIN builders
    BY <1>2, <2>4, <2>5 DEF Inv, ObjectsInv, BuildersInv, id, here
  <2>7. /\ DOMAIN operations' = DOMAIN operations
        /\ \A i \in DOMAIN operations : i # id => operations'[i] = operations[i]
        /\ operations'[id] =
             [operator |-> operations[id].operator, inputs |-> operations[id].inputs,
              attributes |-> operations[id].attributes, parent |-> here]
    <3>1. operations[id] = [operator |-> operations[id].operator, inputs |-> operations[id].inputs,
                            attributes |-> operations[id].attributes, parent |-> operations[id].parent]
      BY <1>2, <2>6 DEF Inv, ObjectsInv
    <3>2. /\ DOMAIN operations' = DOMAIN operations
          /\ \A i \in DOMAIN operations : i # id => operations'[i] = operations[i]
          /\ operations'[id] = [operations[id] EXCEPT !.parent = here]
      BY <2>1, <2>6
    <3>3. QED
      BY <3>1, <3>2
  <2>8. ObjectsInv'
    <3>1. ASSUME NEW i \in DOMAIN operations'
          PROVE  /\ \E b \in DOMAIN tu'.blocks : \E s \in DOMAIN Ops(b)' : Visited(b, s)' /\ i = Id(b, s)'
                 /\ operations'[i] = [operator |-> operations'[i].operator, inputs |-> operations'[i].inputs,
                                attributes |-> operations'[i].attributes, parent |-> operations'[i].parent]
                 /\ i \notin moved' => operations'[i].parent = 0
      <4>1. /\ \E b \in DOMAIN tu.blocks : \E s \in DOMAIN Ops(b) : Visited(b, s)' /\ i = Id(b, s)
            /\ operations[i] = [operator |-> operations[i].operator, inputs |-> operations[i].inputs,
                                attributes |-> operations[i].attributes, parent |-> operations[i].parent]
            /\ i \notin moved => operations[i].parent = 0
        BY <1>2, <2>4, <2>7 DEF Inv, ObjectsInv
      <4>2. \E b \in DOMAIN tu'.blocks : \E s \in DOMAIN Ops(b)' : Visited(b, s)' /\ i = Id(b, s)'
        BY <2>3, <4>1
      <4>3. operations'[i] = [operator |-> operations'[i].operator, inputs |-> operations'[i].inputs,
                              attributes |-> operations'[i].attributes, parent |-> operations'[i].parent]
        <5>1. CASE i = id
          <6>1. operations'[id] = [operator |-> operations'[id].operator, inputs |-> operations'[id].inputs,
                   attributes |-> operations'[id].attributes, parent |-> operations'[id].parent]
            BY <2>7
          <6>2. QED
            BY <5>1, <6>1, Zenon
        <5>2. CASE i # id
          BY <2>7, <4>1, <5>2, Zenon
        <5>3. QED
          BY <5>1, <5>2
      <4>4. i \notin moved' => operations'[i].parent = 0
        BY <2>1, <2>7, <4>1
      <4>5. QED
        BY <4>2, <4>3, <4>4, Zenon
    <3>2. \A b \in DOMAIN tu'.blocks : \A s \in DOMAIN Ops(b)' :
             /\ Id(b, s)' \in DOMAIN operations' /\ Op(b, s)'.operator \in DOMAIN context'
             /\ UnsetValue \notin ToSet(Op(b, s)'.inputs)
      <4>1. ASSUME NEW b \in DOMAIN tu.blocks, NEW s \in DOMAIN Ops(b)
            PROVE  /\ Id(b, s) \in DOMAIN operations /\ Op(b, s).operator \in DOMAIN context
                   /\ UnsetValue \notin ToSet(Op(b, s).inputs)
        BY <1>2, <2>4 DEF Inv, ObjectsInv
      <4>2. QED
        BY <2>3, <2>7, <4>1
    <3>3. \A i : i \in moved' <=>
            \E b \in DOMAIN tu'.blocks : \E s \in DOMAIN Ops(b)' : Added(b, s)' /\ i = Id(b, s)'
      <4>1. \A i : i \in moved <=> \E b \in DOMAIN tu.blocks : \E s \in DOMAIN Ops(b) : Added(b, s) /\ i = Id(b, s)
        BY <1>2 DEF Inv, ObjectsInv
      <4>2. \A i : i \in moved' <=>
              \E b \in DOMAIN tu.blocks : \E s \in DOMAIN Ops(b) : Added(b, s)' /\ i = Id(b, s)
        BY <1>2, <2>1, <2>4, <4>1 DEF id
      <4>3. QED
        BY <2>3, <4>2
    <3>4. \A b, c \in DOMAIN tu'.blocks : \A s \in DOMAIN Ops(b)' : \A t \in DOMAIN Ops(c)' :
            Added(b, s)' /\ Added(c, t)' /\ Id(b, s)' = Id(c, t)' => b = c /\ s = t
      <4>1. ASSUME NEW b \in DOMAIN tu.blocks, NEW c \in DOMAIN tu.blocks, NEW s \in DOMAIN Ops(b),
                   NEW t \in DOMAIN Ops(c), Added(b, s)', Added(c, t)', Id(b, s) = Id(c, t)
            PROVE  b = c /\ s = t
        <5>1. \A d \in DOMAIN tu.blocks : \A u \in DOMAIN Ops(d) : Added(d, u) => Id(d, u) # id
          BY <1>2, <2>1 DEF Inv, ObjectsInv
        <5>2. CASE Added(b, s) /\ Added(c, t)
          BY <1>2, <4>1, <5>2 DEF Inv, ObjectsInv
        <5>3. CASE ~Added(b, s)
          BY <2>4, <4>1, <5>1, <5>3 DEF id
        <5>4. CASE ~Added(c, t)
          BY <2>4, <4>1, <5>1, <5>4 DEF id
        <5>5. QED
          BY <5>2, <5>3, <5>4
      <4>2. QED
        BY <2>3, <4>1
    <3>5. QED
      BY <3>1, <3>2, <3>3, <3>4 DEF ObjectsInv
  <2>9. /\ DOMAIN builders' = DOMAIN builders
        /\ \A i \in DOMAIN builders : i # here => builders'[i] = builders[i]
        /\ builders'[here] = [state |-> "open", operations |-> Append(builders[here].operations, id)]
    <3>1. builders[here] = [state |-> "open", operations |-> builders[here].operations]
      BY <1>2, <2>1, <2>6 DEF Inv, BuildersInv
    <3>2. /\ DOMAIN builders' = DOMAIN builders
          /\ \A i \in DOMAIN builders : i # here => builders'[i] = builders[i]
          /\ builders'[here] = [builders[here] EXCEPT !.operations = Append(@, id)]
      BY <2>1, <2>6
    <3>3. QED
      BY <3>1, <3>2
  <2>10. FilledInv'
    <3>1. \A v : Resolves(v)' <=> Resolves(v)
      BY <2>7, <2>9 DEF Resolves
    <3>2. QED
      BY <1>2, <2>3, <2>4, <2>5, <3>1 DEF Inv, FilledInv
  <2>11. BuildersInv'
    <3>1. builders'[here].operations = [s \in 1 .. next' - 1 |-> Id(block, s)]
      <4>1. builders[here].operations = [s \in 1 .. next - 1 |-> Id(block, s)]
        BY <1>2, <2>1, <2>6 DEF Inv, BuildersInv, here
      <4>2. next - 1 \in Nat /\ next - 1 + 1 = next /\ next' - 1 = next
        BY <1>2, <2>2
      <4>3. Append([s \in 1 .. next - 1 |-> Id(block, s)], Id(block, next)) = [s \in 1 .. next |-> Id(block, s)]
        BY <4>2, SMT
      <4>4. QED
        BY <2>9, <4>1, <4>2, <4>3 DEF id
    <3>2. ASSUME NEW i \in DOMAIN builders
          PROVE  /\ \E b \in DOMAIN tu.blocks : i = IdOf(b)
                 /\ builders'[i] = [state |-> builders'[i].state, operations |-> builders'[i].operations]
                 /\ builders'[i].state \in {"open", "built"}
                 /\ builders'[i].state = "built" <=> \E b \in DOMAIN tu.blocks : AddedBlock(b) /\ i = IdOf(b)
                 /\ builders'[i].state = "open" => builders'[i].operations =
                      IF i = here THEN [s \in 1 .. next' - 1 |-> Id(block, s)] ELSE <<>>
      <4>1. /\ \E b \in DOMAIN tu.blocks : i = IdOf(b)
            /\ builders[i] = [state |-> builders[i].state, operations |-> builders[i].operations]
            /\ builders[i].state \in {"open", "built"}
            /\ builders[i].state = "built" <=> \E b \in DOMAIN tu.blocks : AddedBlock(b) /\ i = IdOf(b)
            /\ builders[i].state = "open" /\ i # here => builders[i].operations = <<>>
        BY <1>2 DEF Inv, BuildersInv, here
      <4>2. CASE i = here
        <5>1. /\ builders'[here] = [state |-> builders'[here].state, operations |-> builders'[here].operations]
              /\ builders'[here].state = "open"
          BY <2>9
        <5>2. QED
          BY <2>1, <3>1, <4>1, <4>2, <5>1
      <4>3. CASE i # here
        BY <2>9, <4>1, <4>3
      <4>4. QED
        BY <4>2, <4>3
    <3>3. ASSUME NEW b \in DOMAIN tu.blocks, AddedBlock(b)
          PROVE  builders'[IdOf(b)].operations = [s \in DOMAIN Ops(b) |-> Id(b, s)]
      <4>1. builders[IdOf(b)].operations = [s \in DOMAIN Ops(b) |-> Id(b, s)] /\ IdOf(b) \in DOMAIN builders
        BY <1>2, <2>5, <3>3 DEF Inv, BuildersInv
      <4>2. builders[IdOf(b)].state = "built"
        BY <1>2, <3>3, <4>1 DEF Inv, BuildersInv
      <4>3. IdOf(b) # here
        BY <2>1, <4>2
      <4>4. QED
        BY <2>9, <4>1, <4>3
    <3>4. /\ \A b, c \in DOMAIN tu.blocks : AddedBlock(b) /\ AddedBlock(c) /\ IdOf(b) = IdOf(c) => b = c
          /\ \A b \in DOMAIN tu.blocks : IdOf(b) \in DOMAIN builders
          /\ module = [b \in 1 .. block - 1 |-> IdOf(b)]
      BY <1>2, <2>5 DEF Inv, BuildersInv
    <3>5. \A i \in DOMAIN builders' :
            /\ \E b \in DOMAIN tu'.blocks : i = IdOf(b)'
            /\ builders'[i] = [state |-> builders'[i].state, operations |-> builders'[i].operations]
            /\ builders'[i].state \in {"open", "built"}
            /\ builders'[i].state = "built" <=> \E b \in DOMAIN tu'.blocks : AddedBlock(b)' /\ i = IdOf(b)'
      BY <2>3, <2>5, <2>9, <3>2
    <3>6. [s \in 1 .. next' - 1 |-> Id(block, s)'] = [s \in 1 .. next' - 1 |-> Id(block, s)]
      BY <2>2, <2>3
    <3>7. \A i \in DOMAIN builders' : builders'[i].state = "open" => builders'[i].operations =
            IF pc' = "postVisit" /\ block' <= Len(tu'.blocks) /\ i = IdOf(block)'
            THEN [s \in 1 .. next' - 1 |-> Id(block, s)'] ELSE <<>>
      <4>1. pc' = "postVisit" /\ block' <= Len(tu'.blocks) /\ IdOf(block)' = here
        BY <1>2, <2>2, <2>3 DEF here, IdOf
      <4>2. \A i \in DOMAIN builders : builders'[i].state = "open" => builders'[i].operations =
              IF i = here THEN [s \in 1 .. next' - 1 |-> Id(block, s)] ELSE <<>>
        BY <3>2
      <4>3. QED
        BY <2>9, <3>6, <4>1, <4>2
    <3>8. \A b \in DOMAIN tu'.blocks :
            /\ VisitedBlock(b)' => IdOf(b)' \in DOMAIN builders'
            /\ AddedBlock(b)' => builders'[IdOf(b)'].operations = [s \in DOMAIN Ops(b)' |-> Id(b, s)']
      BY <2>3, <2>5, <2>9, <3>3, <3>4
    <3>9. /\ \A b, c \in DOMAIN tu'.blocks : AddedBlock(b)' /\ AddedBlock(c)' /\ IdOf(b)' = IdOf(c)' => b = c
          /\ module' = [b \in 1 .. IF pc' \in {"postVisit", "done"} THEN block' - 1 ELSE 0 |-> IdOf(b)']
      BY <1>2, <2>1, <2>2, <2>3, <2>5, <3>4
    <3>10. QED
      BY <3>5, <3>7, <3>8, <3>9 DEF BuildersInv
  <2>12. ContentInv'
    <3> SUFFICES ASSUME UniqueIds, NEW b \in DOMAIN tu.blocks, NEW s \in DOMAIN Ops(b)
                 PROVE  operations'[Id(b, s)] =
                          [operator |-> Op(b, s).operator, inputs |-> Op(b, s).inputs,
                           attributes |-> Op(b, s).attributes, parent |-> IF Added(b, s)' THEN IdOf(b) ELSE 0]
      BY <2>3, <2>4 DEF ContentInv
    <3>1. operations[Id(b, s)] =
            [operator |-> Op(b, s).operator, inputs |-> Op(b, s).inputs,
             attributes |-> Op(b, s).attributes, parent |-> IF Added(b, s) THEN IdOf(b) ELSE 0]
      BY <1>2, <2>4 DEF Inv, ContentInv
    <3>2. CASE b = block /\ s = next
      <4>1. operations[id].operator = Op(b, s).operator /\ operations[id].inputs = Op(b, s).inputs
            /\ operations[id].attributes = Op(b, s).attributes
        BY <3>1, <3>2 DEF id
      <4>2. Added(b, s)'
        BY <2>4, <3>2
      <4>3. QED
        BY <2>7, <3>2, <4>1, <4>2 DEF id, here
    <3>3. CASE ~(b = block /\ s = next)
      <4>1. Id(b, s) # id
        BY <1>2, <3>3, Zenon DEF UniqueIds, id
      <4>2. Id(b, s) \in DOMAIN operations
        BY <1>2, <2>4 DEF Inv, ObjectsInv
      <4>3. operations'[Id(b, s)] = operations[Id(b, s)]
        BY <2>7, <4>1, <4>2, Zenon
      <4>4. Added(b, s)' <=> Added(b, s)
        BY <2>4, <3>3
      <4>5. QED
        BY <3>1, <4>3, <4>4
    <3>4. QED
      BY <3>2, <3>3
  <2>13. QED
    BY <2>2, <2>8, <2>10, <2>11, <2>12 DEF Inv
<1>5. QED
  BY <1>3, <1>4

\* PostVisit of a block builds it and adds it to the module.
LEMMA PostVisitBlockInv == Inv /\ PostVisitBlock => Inv'
<1> SUFFICES ASSUME Inv, PostVisitBlock PROVE Inv'
  OBVIOUS
<1> DEFINE here == IdOf(block)
<1>1. InPass("postVisit") /\ ~AtOperation /\ "postVisit" \in Passes
  BY DEF PostVisitBlock, Passes
<1>2. /\ Reading /\ IsUnit(tu) /\ pc = "postVisit" /\ block \in DOMAIN tu.blocks /\ BlockId = here
      /\ block <= Len(tu.blocks) /\ block \in Nat \ {0}
      /\ Len(Ops(block)) \in Nat /\ DOMAIN Ops(block) = 1 .. Len(Ops(block))
      /\ Len(tu.blocks) \in Nat /\ DOMAIN tu.blocks = 1 .. Len(tu.blocks)
  BY <1>1, Here
<1> HIDE DEF here
<1>3. CASE builders[here].state # "open"
  <2>1. Dies
    BY <1>2, <1>3 DEF PostVisitBlock
  <2>2. ~WellFormed
    BY <1>2, <1>3, WellFormedIs, BuilderIsOpen DEF here
  <2>3. QED
    BY <1>2, <2>1, <2>2, DiesInv
<1>4. CASE builders[here].state = "open"
  <2>1. /\ builders' = [builders EXCEPT ![here].state = "built"] /\ module' = Append(module, here)
        /\ NextBlock /\ operations' = operations /\ moved' = moved
    BY <1>2, <1>4 DEF PostVisitBlock
  <2>2. /\ UnitStays /\ SameOperations /\ BlockDone /\ Reading' /\ UnitInv' /\ PlaceInv' /\ VerdictInv'
        /\ pc' = pc /\ block' = block + 1 /\ next' = 1 /\ next = Len(Ops(block)) + 1
    BY <1>1, <2>1, BlockStep
  <2>3. /\ tu' = tu /\ context' = context
        /\ \A b : Ops(b)' = Ops(b) /\ IdOf(b)' = IdOf(b)
        /\ \A b, s : Op(b, s)' = Op(b, s) /\ Id(b, s)' = Id(b, s)
        /\ UniqueIds' = UniqueIds
    BY <2>2 DEF UnitStays
  <2>4. \A b \in DOMAIN tu.blocks : \A s \in DOMAIN Ops(b) :
          /\ Filled(b, s)' <=> Filled(b, s)
          /\ Visited(b, s)' <=> Visited(b, s)
          /\ Added(b, s)' <=> Added(b, s)
    BY <1>2, <2>2 DEF SameOperations
  <2>5. \A b \in DOMAIN tu.blocks :
          /\ AddedBlock(b)' <=> AddedBlock(b) \/ b = block
          /\ VisitedBlock(b)' /\ VisitedBlock(b) /\ FilledBlock(b)' /\ FilledBlock(b)
    BY <1>2, <2>2 DEF BlockDone, VisitedBlock, FilledBlock
  <2>6. here \in DOMAIN builders
    BY <1>2, <2>5 DEF Inv, BuildersInv, here
  <2>7. /\ DOMAIN builders' = DOMAIN builders
        /\ \A i \in DOMAIN builders : i # here => builders'[i] = builders[i]
        /\ builders'[here] = [state |-> "built", operations |-> builders[here].operations]
    <3>1. builders[here] = [state |-> "open", operations |-> builders[here].operations]
      BY <1>2, <1>4, <2>6 DEF Inv, BuildersInv
    <3>2. /\ DOMAIN builders' = DOMAIN builders
          /\ \A i \in DOMAIN builders : i # here => builders'[i] = builders[i]
          /\ builders'[here] = [builders[here] EXCEPT !.state = "built"]
      BY <2>1, <2>6
    <3>3. QED
      BY <3>1, <3>2
  <2>8. ObjectsInv'
    <3>1. ObjectsInv /\ Reading
      BY <1>2 DEF Inv
    <3>2. QED
      BY <2>1, <2>3, <2>4, <3>1 DEF ObjectsInv
  <2>9. FilledInv'
    <3>1. \A v : Resolves(v)' <=> Resolves(v)
      BY <2>1, <2>7 DEF Resolves
    <3>2. QED
      BY <1>2, <2>3, <2>4, <2>5, <3>1 DEF Inv, FilledInv
  <2>10. builders[here].operations = [s \in DOMAIN Ops(block) |-> Id(block, s)]
    <3>1. builders[here].operations = [s \in 1 .. next - 1 |-> Id(block, s)]
      BY <1>2, <1>4, <2>6 DEF Inv, BuildersInv, here
    <3>2. 1 .. next - 1 = DOMAIN Ops(block)
      BY <1>2, <2>2
    <3>3. QED
      BY <3>1, <3>2
  <2>11. \A b \in DOMAIN tu.blocks : AddedBlock(b) => IdOf(b) # here
    BY <1>2, <1>4, <2>6 DEF Inv, BuildersInv
  <2>12. BuildersInv'
    <3>1. ASSUME NEW i \in DOMAIN builders
          PROVE  /\ \E b \in DOMAIN tu.blocks : i = IdOf(b)
                 /\ builders'[i] = [state |-> builders'[i].state, operations |-> builders'[i].operations]
                 /\ builders'[i].state \in {"open", "built"}
                 /\ builders'[i].state = "built" <=> \E b \in DOMAIN tu.blocks : AddedBlock(b)' /\ i = IdOf(b)
                 /\ builders'[i].state = "open" => builders'[i].operations = <<>>
      <4>1. /\ \E b \in DOMAIN tu.blocks : i = IdOf(b)
            /\ builders[i] = [state |-> builders[i].state, operations |-> builders[i].operations]
            /\ builders[i].state \in {"open", "built"}
            /\ builders[i].state = "built" <=> \E b \in DOMAIN tu.blocks : AddedBlock(b) /\ i = IdOf(b)
            /\ builders[i].state = "open" /\ i # here => builders[i].operations = <<>>
        BY <1>2 DEF Inv, BuildersInv, here
      <4>2. CASE i = here
        <5>1. /\ builders'[here] = [state |-> builders'[here].state, operations |-> builders'[here].operations]
              /\ builders'[here].state = "built"
          BY <2>7
        <5>2. \E b \in DOMAIN tu.blocks : AddedBlock(b)' /\ i = IdOf(b)
          BY <1>2, <2>5, <4>2 DEF here
        <5>3. QED
          BY <4>1, <4>2, <5>1, <5>2
      <4>3. CASE i # here
        <5>1. (\E b \in DOMAIN tu.blocks : AddedBlock(b)' /\ i = IdOf(b)) <=>
                \E b \in DOMAIN tu.blocks : AddedBlock(b) /\ i = IdOf(b)
          BY <2>5, <4>3 DEF here
        <5>2. QED
          BY <2>7, <4>1, <4>3, <5>1
      <4>4. QED
        BY <4>2, <4>3
    <3>2. ASSUME NEW b \in DOMAIN tu.blocks, AddedBlock(b)'
          PROVE  builders'[IdOf(b)].operations = [s \in DOMAIN Ops(b) |-> Id(b, s)]
      <4>1. CASE AddedBlock(b)
        <5>1. builders[IdOf(b)].operations = [s \in DOMAIN Ops(b) |-> Id(b, s)] /\ IdOf(b) \in DOMAIN builders
          BY <1>2, <2>5, <4>1 DEF Inv, BuildersInv
        <5>2. QED
          BY <2>7, <2>11, <4>1, <5>1
      <4>2. CASE b = block
        BY <2>7, <2>10, <4>2 DEF here
      <4>3. QED
        BY <2>5, <3>2, <4>1, <4>2
    <3>3. ASSUME NEW b \in DOMAIN tu.blocks, NEW c \in DOMAIN tu.blocks,
                 AddedBlock(b)', AddedBlock(c)', IdOf(b) = IdOf(c)
          PROVE  b = c
      <4>1. CASE AddedBlock(b) /\ AddedBlock(c)
        BY <1>2, <3>3, <4>1 DEF Inv, BuildersInv
      <4>2. CASE ~AddedBlock(b) \/ ~AddedBlock(c)
        BY <2>5, <2>11, <3>3, <4>2 DEF here
      <4>3. QED
        BY <4>1, <4>2
    <3>4. \A b \in DOMAIN tu.blocks : IdOf(b) \in DOMAIN builders
      BY <1>2, <2>5 DEF Inv, BuildersInv
    <3>5. module' = [b \in 1 .. block' - 1 |-> IdOf(b)]
      <4>1. module = [b \in 1 .. block - 1 |-> IdOf(b)]
        BY <1>2 DEF Inv, BuildersInv
      <4>2. block - 1 \in Nat /\ block - 1 + 1 = block /\ block' - 1 = block
        BY <1>2, <2>2
      <4>3. Append([b \in 1 .. block - 1 |-> IdOf(b)], IdOf(block)) = [b \in 1 .. block |-> IdOf(b)]
        BY <4>2, SMT
      <4>4. QED
        BY <2>1, <4>1, <4>2, <4>3 DEF here
    <3>6. \A i \in DOMAIN builders' :
            /\ \E b \in DOMAIN tu'.blocks : i = IdOf(b)'
            /\ builders'[i] = [state |-> builders'[i].state, operations |-> builders'[i].operations]
            /\ builders'[i].state \in {"open", "built"}
            /\ builders'[i].state = "built" <=> \E b \in DOMAIN tu'.blocks : AddedBlock(b)' /\ i = IdOf(b)'
      BY <2>3, <2>7, <3>1
    <3>7. \A i \in DOMAIN builders' : builders'[i].state = "open" => builders'[i].operations =
            IF pc' = "postVisit" /\ block' <= Len(tu'.blocks) /\ i = IdOf(block)'
            THEN [s \in 1 .. next' - 1 |-> Id(block, s)'] ELSE <<>>
      <4>1. [s \in 1 .. next' - 1 |-> Id(block, s)'] = <<>>
        BY <2>2
      <4>2. QED
        BY <2>7, <3>1, <4>1
    <3>8. \A b \in DOMAIN tu'.blocks :
            /\ VisitedBlock(b)' => IdOf(b)' \in DOMAIN builders'
            /\ AddedBlock(b)' => builders'[IdOf(b)'].operations = [s \in DOMAIN Ops(b)' |-> Id(b, s)']
      BY <2>3, <2>7, <3>2, <3>4
    <3>9. /\ \A b, c \in DOMAIN tu'.blocks : AddedBlock(b)' /\ AddedBlock(c)' /\ IdOf(b)' = IdOf(c)' => b = c
          /\ module' = [b \in 1 .. IF pc' \in {"postVisit", "done"} THEN block' - 1 ELSE 0 |-> IdOf(b)']
      BY <1>2, <2>2, <2>3, <3>3, <3>5
    <3>10. QED
      BY <3>6, <3>7, <3>8, <3>9 DEF BuildersInv
  <2>13. ContentInv'
    BY <1>2, <2>1, <2>3, <2>4 DEF Inv, ContentInv
  <2>14. QED
    BY <2>2, <2>8, <2>9, <2>12, <2>13 DEF Inv
<1>5. QED
  BY <1>3, <1>4

\* The final CHECKs of Convert find nothing.
LEMMA ConvertSucceeds ==
  ASSUME Inv, pc = "postVisit", block > Len(tu.blocks)
  PROVE  (\A b \in DOMAIN builders : builders[b].state = "built") /\ moved = DOMAIN operations
<1>1. /\ Reading /\ IsUnit(tu)
      /\ \A b \in DOMAIN tu.blocks : AddedBlock(b) /\ VisitedBlock(b)
      /\ \A b \in DOMAIN tu.blocks : \A s \in DOMAIN Ops(b) : Added(b, s) /\ Visited(b, s)
  BY PassDone DEF Passes, AddedBlock, Added, Visited, VisitedBlock
<1>2. \A b \in DOMAIN builders : builders[b].state = "built"
  BY <1>1 DEF Inv, BuildersInv
<1>3. /\ \A id \in DOMAIN operations : \E b \in DOMAIN tu.blocks : \E s \in DOMAIN Ops(b) : id = Id(b, s)
      /\ \A b \in DOMAIN tu.blocks : \A s \in DOMAIN Ops(b) : Id(b, s) \in DOMAIN operations
      /\ \A id : id \in moved <=> \E b \in DOMAIN tu.blocks : \E s \in DOMAIN Ops(b) : Added(b, s) /\ id = Id(b, s)
  BY <1>1 DEF Inv, ObjectsInv
<1>4. \A id : id \in moved <=> id \in DOMAIN operations
  BY <1>1, <1>3
<1>5. QED
  BY <1>2, <1>4

\* Convert returns what the passes have made.
LEMMA ConvertInv == Inv /\ Convert => Inv'
<1> SUFFICES ASSUME Inv, Convert PROVE Inv'
  OBVIOUS
<1>1. /\ pc = "postVisit" /\ block > Len(tu.blocks) /\ tu' = tu /\ context' = context
      /\ block' = block /\ next' = next /\ operations' = operations /\ moved' = moved
      /\ builders' = builders /\ module' = module
  BY DEF Convert, written, built
<1>2. pc' = "done"
  BY <1>1, ConvertSucceeds DEF Convert
<1>3. /\ Reading /\ IsUnit(tu) /\ next = 1 /\ block = Len(tu.blocks) + 1 /\ Len(tu.blocks) \in Nat
      /\ \A b \in DOMAIN tu.blocks : b < block
      /\ \A b \in DOMAIN tu.blocks : \A s \in DOMAIN Ops(b) : Before(b, s)
  BY <1>1, PassDone DEF Passes
<1>4. UnitStays
  BY <1>1, SameUnit
<1>5. /\ \A b : Ops(b)' = Ops(b) /\ IdOf(b)' = IdOf(b)
      /\ \A b, s : Op(b, s)' = Op(b, s) /\ Id(b, s)' = Id(b, s)
      /\ UniqueIds' = UniqueIds
  BY <1>4 DEF UnitStays
<1>6. \A b \in DOMAIN tu.blocks :
        /\ VisitedBlock(b)' /\ FilledBlock(b)' /\ AddedBlock(b)'
        /\ VisitedBlock(b) /\ FilledBlock(b) /\ AddedBlock(b)
  BY <1>1, <1>2, <1>3 DEF VisitedBlock, FilledBlock, AddedBlock
<1>7. \A b \in DOMAIN tu.blocks : \A s \in DOMAIN Ops(b) :
        /\ Visited(b, s)' /\ Filled(b, s)' /\ Added(b, s)'
        /\ Visited(b, s) /\ Filled(b, s) /\ Added(b, s)
  BY <1>1, <1>2, <1>3 DEF Visited, Filled, Added
<1>8. UnitInv' /\ PlaceInv' /\ VerdictInv'
  <2>1. IsUnit(tu')
    BY <1>1, <1>3
  <2>2. QED
    BY <1>1, <1>2, <1>3, <1>5, <2>1, SMTT(30) DEF UnitInv, PlaceInv, VerdictInv
<1>9. ObjectsInv'
  BY <1>1, <1>3, <1>5, <1>7 DEF Inv, ObjectsInv
<1>10. FilledInv'
  <2>1. \A v : Resolves(v)' <=> Resolves(v)
    BY <1>1 DEF Resolves
  <2>2. QED
    BY <1>1, <1>3, <1>5, <1>6, <1>7, <2>1 DEF Inv, FilledInv
<1>11. BuildersInv'
  <2>1. \A id \in DOMAIN builders : builders[id].state = "built"
    BY <1>1, ConvertSucceeds
  <2>2. QED
    BY <1>1, <1>2, <1>3, <1>5, <1>6, <2>1 DEF Inv, BuildersInv
<1>12. ContentInv'
  BY <1>1, <1>3, <1>5, <1>7 DEF Inv, ContentInv
<1>13. QED
  BY <1>8, <1>9, <1>10, <1>11, <1>12 DEF Inv

\* Writing leaves what is read for later.
LEMMA WritingInv ==
  ASSUME Inv, OperationToProto \/ BlockToProto
  PROVE  Inv'
<1>1. /\ pc = "write" /\ pc' \in {"write", "diedWriting"}
      /\ operations' = operations /\ moved' = moved /\ builders' = builders /\ names' = names /\ module' = module
  BY DEF OperationToProto, BlockToProto, Dies, built
<1>2. UnitInv' /\ VerdictInv'
  BY <1>1 DEF Inv, UnitInv, VerdictInv
<1>3. ~Reading'
  BY <1>1 DEF Reading
<1>4. QED
  BY <1>2, <1>3 DEF Inv, PlaceInv, ObjectsInv, FilledInv, BuildersInv, ContentInv

\* The passes start with what has been written.
LEMMA StartReadingInv ==
  ASSUME Inv, StartReading, IsUnit(tu'), next = 1
  PROVE  Inv'
<1>1. /\ pc = "write" /\ pc' = "register" /\ block' = 1 /\ next' = 1
      /\ operations' = operations /\ moved' = moved /\ builders' = builders /\ names' = names /\ module' = module
  BY DEF StartReading, built
<1>2. UnitInv' /\ VerdictInv'
  BY <1>1 DEF Inv, UnitInv, VerdictInv, IsUnit
<1>3. ~Reading'
  BY <1>1 DEF Reading
<1>4. QED
  BY <1>2, <1>3 DEF Inv, PlaceInv, ObjectsInv, FilledInv, BuildersInv, ContentInv

\* What the passes refuse is malformed, and they refuse all of it.
LEMMA ReadingDiesIs == Inv => ReadingDiesExactlyOnMalformed
<1> SUFFICES ASSUME Inv, pc = "done" PROVE WellFormed
  BY DEF Inv, VerdictInv, ReadingDiesExactlyOnMalformed
<1>1. /\ Reading /\ IsUnit(tu)
      /\ \A b \in DOMAIN tu.blocks : VisitedBlock(b) /\ FilledBlock(b) /\ AddedBlock(b)
      /\ \A b \in DOMAIN tu.blocks : \A s \in DOMAIN Ops(b) : Visited(b, s) /\ Filled(b, s) /\ Added(b, s)
  BY DEF Inv, UnitInv, Reading, VisitedBlock, FilledBlock, AddedBlock, Visited, Filled, Added
<1>2. UniqueIds
  BY <1>1 DEF Inv, ObjectsInv, UniqueIds
<1>3. /\ \A b, c \in DOMAIN tu.blocks : IdOf(b) = IdOf(c) => b = c
      /\ \A b \in DOMAIN tu.blocks : tu.blocks[b].thing.results = <<>>
  BY <1>1 DEF Inv, BuildersInv, FilledInv
<1>4. ASSUME NEW b \in DOMAIN tu.blocks, NEW s \in DOMAIN Ops(b)
      PROVE  /\ Op(b, s).operator \in DOMAIN context
             /\ \A v \in ToSet(Op(b, s).inputs) : Named(v)
             /\ "unset" \notin Range(Op(b, s).attributes)
  <2>1. /\ Op(b, s).operator \in DOMAIN context /\ UnsetValue \notin ToSet(Op(b, s).inputs)
        /\ \A v \in ToSet(Op(b, s).inputs) : Resolves(v)
        /\ "unset" \notin Range(Op(b, s).attributes)
    BY <1>1 DEF Inv, ObjectsInv, FilledInv
  <2>2. ASSUME NEW v \in ToSet(Op(b, s).inputs) PROVE Named(v)
    <3>1. v.kind # "unset"
      BY <1>1, <2>1, UnitFacts, UnsetIs
    <3>2. /\ \A id \in DOMAIN operations : \E c \in DOMAIN tu.blocks : \E t \in DOMAIN Ops(c) : id = Id(c, t)
          /\ \A id \in DOMAIN builders : \E c \in DOMAIN tu.blocks : id = IdOf(c)
      BY <1>1 DEF Inv, ObjectsInv, BuildersInv
    <3>3. QED
      BY <2>1, <3>1, <3>2 DEF Named, Resolves
  <2>3. QED
    BY <2>1, <2>2
<1>5. QED
  BY <1>2, <1>3, <1>4, WellFormedIs

\* What has been made at the end.
LEMMA DoneFacts ==
  ASSUME Inv, pc = "done"
  PROVE  /\ IsUnit(tu) /\ module = [b \in DOMAIN tu.blocks |-> IdOf(b)]
         /\ \A b \in DOMAIN tu.blocks :
              /\ builders[IdOf(b)].operations = [s \in DOMAIN Ops(b) |-> Id(b, s)]
              /\ \A s \in DOMAIN Ops(b) :
                   operations[Id(b, s)] = [operator |-> Op(b, s).operator, inputs |-> Op(b, s).inputs,
                                           attributes |-> Op(b, s).attributes, parent |-> IdOf(b)]
<1>1. /\ Reading /\ IsUnit(tu)
      /\ \A b \in DOMAIN tu.blocks : VisitedBlock(b) /\ FilledBlock(b) /\ AddedBlock(b)
      /\ \A b \in DOMAIN tu.blocks : \A s \in DOMAIN Ops(b) : Visited(b, s) /\ Filled(b, s) /\ Added(b, s)
  BY DEF Inv, UnitInv, Reading, VisitedBlock, FilledBlock, AddedBlock, Visited, Filled, Added
<1>2. UniqueIds
  BY <1>1 DEF Inv, ObjectsInv, UniqueIds
<1>3. module = [b \in DOMAIN tu.blocks |-> IdOf(b)]
  <2>1. Len(tu.blocks) \in Nat /\ DOMAIN tu.blocks = 1 .. Len(tu.blocks)
    BY <1>1, UnitFacts
  <2>2. block = Len(tu.blocks) + 1
    BY <1>1, <2>1 DEF Inv, PlaceInv
  <2>3. module = [b \in 1 .. block - 1 |-> IdOf(b)] /\ block - 1 = Len(tu.blocks)
    BY <1>1, <2>1, <2>2 DEF Inv, BuildersInv
  <2>4. QED
    BY <2>1, <2>3
<1>4. ASSUME NEW b \in DOMAIN tu.blocks
      PROVE  builders[IdOf(b)].operations = [s \in DOMAIN Ops(b) |-> Id(b, s)]
  BY <1>1 DEF Inv, BuildersInv
<1>5. ASSUME NEW b \in DOMAIN tu.blocks, NEW s \in DOMAIN Ops(b)
      PROVE  operations[Id(b, s)] = [operator |-> Op(b, s).operator, inputs |-> Op(b, s).inputs,
                                     attributes |-> Op(b, s).attributes, parent |-> IdOf(b)]
  BY <1>1, <1>2 DEF Inv, ContentInv
<1>6. QED
  BY <1>1, <1>3, <1>4, <1>5

\* A module that is returned is its unit.
LEMMA ModuleIs == Inv => ModuleIsUnit
<1> SUFFICES ASSUME Inv, pc = "done" PROVE ModuleIsUnit
  BY DEF ModuleIsUnit
<1>1. module = [b \in DOMAIN tu.blocks |-> IdOf(b)]
  BY DoneFacts
<1>2. DOMAIN module = DOMAIN tu.blocks
  BY <1>1
<1>3. ASSUME NEW b \in DOMAIN tu.blocks
      PROVE  LET made == builders[module[b]].operations
             IN [s \in DOMAIN made |-> WithId(made[s], operations[made[s]])] =
                [s \in DOMAIN tu.blocks[b].thing.operations |->
                   LET proto == tu.blocks[b].thing.operations[s]
                   IN WithId(proto.id, [operator |-> proto.thing.operator, inputs |-> proto.thing.inputs,
                                        attributes |-> proto.thing.attributes, parent |-> module[b]])]
  <2> DEFINE made == builders[module[b]].operations
  <2>1. module[b] = IdOf(b)
    BY <1>1
  <2>2. made = [s \in DOMAIN Ops(b) |-> Id(b, s)]
    BY <2>1, DoneFacts
  <2> HIDE DEF made
  <2>3. DOMAIN made = DOMAIN Ops(b) /\ \A s \in DOMAIN Ops(b) : made[s] = Id(b, s)
    BY <2>2
  <2>4. \A s \in DOMAIN made :
          WithId(made[s], operations[made[s]]) =
          WithId(Id(b, s), [operator |-> Op(b, s).operator, inputs |-> Op(b, s).inputs,
                            attributes |-> Op(b, s).attributes, parent |-> module[b]])
    <3>1. \A s \in DOMAIN Ops(b) :
            operations[Id(b, s)] = [operator |-> Op(b, s).operator, inputs |-> Op(b, s).inputs,
                                    attributes |-> Op(b, s).attributes, parent |-> IdOf(b)]
      BY DoneFacts
    <3>2. QED
      BY <2>1, <2>3, <3>1
  <2>5. [s \in DOMAIN made |-> WithId(made[s], operations[made[s]])] =
        [s \in DOMAIN Ops(b) |->
           WithId(Id(b, s), [operator |-> Op(b, s).operator, inputs |-> Op(b, s).inputs,
                             attributes |-> Op(b, s).attributes, parent |-> module[b]])]
    BY <2>3, <2>4
  <2>6. QED
    BY <2>5, Zenon DEF made, Ops, Op, Id
<1>4. QED
  BY <1>1, <1>2, <1>3 DEF ModuleIsUnit, IdOf

-----------------------------------------------------------------------------
(* Tables of ids and of names: insertions one after another. *)

Extends(table, old) ==
  DOMAIN old \subseteq DOMAIN table /\ \A v \in DOMAIN old : table[v] = old[v]

\* The tables of a loop over keys, some of them skipped.
Chain(N, keys, skipped, fromOne, base, f) ==
  f = [n \in 0 .. N |->
         IF n = 0 THEN base
         ELSE IF n \in skipped THEN f[n - 1]
         ELSE Inserted(f[n - 1], [x \in {keys[n]} |->
                IF fromOne THEN Cardinality(DOMAIN f[n - 1]) + 1 ELSE Cardinality(DOMAIN f[n - 1])])]

\* There is such a function: its values are tables over finitely many keys.
LEMMA ChainExists ==
  ASSUME NEW N \in Nat, NEW keys, NEW skipped, NEW fromOne, NEW base, IsMap(base)
  PROVE  \E f : Chain(N, keys, skipped, fromOne, base, f)
<1> DEFINE D == DOMAIN base \cup {keys[n] : n \in 1 .. N}
           R == {base[v] : v \in DOMAIN base} \cup {Cardinality(E) : E \in SUBSET D}
                  \cup {Cardinality(E) + 1 : E \in SUBSET D}
           S == UNION {[E -> R] : E \in SUBSET D}
           Count(t) == IF fromOne THEN Cardinality(DOMAIN t) + 1 ELSE Cardinality(DOMAIN t)
           Value(n, t) == IF n \in skipped THEN t ELSE Inserted(t, [x \in {keys[n]} |-> Count(t)])
           step == [x \in (1 .. N) \X S |-> Value(x[1], x[2])]
<1>1. base \in S
  <2>1. base \in [DOMAIN base -> R]
    BY Zenon DEF IsMap
  <2>2. QED
    BY <2>1
<1>2. ASSUME NEW n \in 1 .. N, NEW t \in S PROVE Value(n, t) \in S
  <2>1. CASE n \in skipped
    BY <2>1
  <2>2. CASE n \notin skipped
    <3>1. PICK E \in SUBSET D : t \in [E -> R]
      OBVIOUS
    <3>2. keys[n] \in D
      OBVIOUS
    <3>3. DOMAIN t = E
      BY <3>1
    <3>4. Count(t) \in R
      BY <3>3
    <3> HIDE DEF D, R, Count
    <3>5. Inserted(t, [x \in {keys[n]} |-> Count(t)]) \in [E \cup {keys[n]} -> R]
      BY <3>1, <3>3, <3>4 DEF Inserted
    <3>6. E \cup {keys[n]} \in SUBSET D
      BY <3>2
    <3>7. QED
      BY <2>2, <3>5, <3>6
  <2>3. QED
    BY <2>1, <2>2
<1> HIDE DEF Value, S
<1>3. step \in [(1 .. N) \X S -> S]
  BY <1>2
<1>4. \A n \in 1 .. N : \A t \in S : step[<<n, t>>] = Value(n, t)
  OBVIOUS
<1> HIDE DEF step
<1>5. RecursionExists(N, S, base, step)
  BY <1>1, <1>3, FiniteRecursion
<1>6. PICK g \in [0 .. N -> S] : g[0] = base /\ \A i \in 1 .. N : g[i] = step[<<i, g[i - 1]>>]
  BY <1>5 DEF RecursionExists
<1>7. ASSUME NEW n \in 0 .. N
      PROVE  g[n] = IF n = 0 THEN base
                    ELSE IF n \in skipped THEN g[n - 1]
                    ELSE Inserted(g[n - 1], [x \in {keys[n]} |->
                           IF fromOne THEN Cardinality(DOMAIN g[n - 1]) + 1 ELSE Cardinality(DOMAIN g[n - 1])])
  <2>1. CASE n = 0
    BY <1>6, <2>1
  <2>2. CASE n # 0
    <3>1. n \in 1 .. N /\ n - 1 \in 0 .. N
      BY <2>2
    <3>2. g[n] = Value(n, g[n - 1])
      BY <1>4, <1>6, <3>1
    <3>3. QED
      BY <2>2, <3>2 DEF Value
  <2>3. QED
    BY <2>1, <2>2
<1>8. g = [n \in 0 .. N |-> g[n]]
  BY <1>6
<1>9. g = [n \in 0 .. N |->
             IF n = 0 THEN base
             ELSE IF n \in skipped THEN g[n - 1]
             ELSE Inserted(g[n - 1], [x \in {keys[n]} |->
                    IF fromOne THEN Cardinality(DOMAIN g[n - 1]) + 1 ELSE Cardinality(DOMAIN g[n - 1])])]
  BY <1>7, <1>8
<1>10. QED
  BY <1>9 DEF Chain

\* One more id.
LEMMA OneMoreId ==
  ASSUME NEW ids, Numbered(ids), NEW thing
  PROVE  /\ Numbered(GetID(ids, thing)) /\ Extends(GetID(ids, thing), ids)
         /\ DOMAIN GetID(ids, thing) = DOMAIN ids \cup {thing}
<1> DEFINE larger == GetID(ids, thing)
<1>1. larger = [v \in DOMAIN ids \cup {thing} |-> IF v \in DOMAIN ids THEN ids[v] ELSE Cardinality(DOMAIN ids) + 1]
  BY DEF GetID, Inserted
<1> HIDE DEF larger
<1>2. DOMAIN larger = DOMAIN ids \cup {thing} /\ IsMap(larger)
  BY <1>1 DEF IsMap
<1>3. Extends(larger, ids)
  BY <1>1, <1>2 DEF Extends
<1>4. CASE thing \in DOMAIN ids
  <2>1. larger = ids
    BY <1>1, <1>4 DEF Numbered, IsMap
  <2>2. QED
    BY <1>2, <1>3, <2>1 DEF larger
<1>5. CASE thing \notin DOMAIN ids
  <2>1. IsFiniteSet(DOMAIN larger) /\ Cardinality(DOMAIN larger) = Cardinality(DOMAIN ids) + 1
        /\ Cardinality(DOMAIN ids) \in Nat
    BY <1>2, <1>5, FS_AddElement, FS_CardinalityType DEF Numbered
  <2>2. larger[thing] = Cardinality(DOMAIN ids) + 1
    BY <1>1, <1>5
  <2>3. \A v \in DOMAIN ids : larger[v] = ids[v] /\ ids[v] \in Nat /\ ids[v] <= Cardinality(DOMAIN ids)
    BY <1>1 DEF Numbered
  <2>4. \A v \in DOMAIN larger : larger[v] \in Nat /\ larger[v] <= Cardinality(DOMAIN larger)
    BY <1>2, <2>1, <2>2, <2>3
  <2>5. ASSUME NEW v \in DOMAIN larger, NEW w \in DOMAIN larger, larger[v] = larger[w] PROVE v = w
    <3>1. \A x \in DOMAIN ids : larger[x] # larger[thing]
      BY <2>1, <2>2, <2>3
    <3>2. v \in DOMAIN ids /\ w \in DOMAIN ids => v = w
      BY <2>3, <2>5 DEF Numbered, IsInjective
    <3>3. QED
      BY <1>2, <2>5, <3>1, <3>2
  <2>6. Numbered(larger)
    BY <1>2, <2>1, <2>4, <2>5 DEF Numbered, IsInjective, IsMap
  <2>7. QED
    BY <1>2, <1>3, <2>6 DEF larger
<1>6. QED
  BY <1>4, <1>5

\* What the last table has.
ChainEnd(N, keys, skipped, fromOne, base, table) ==
  /\ IsMap(table) /\ Extends(table, base)
  /\ \A n \in 1 .. N : n \notin skipped => keys[n] \in DOMAIN table
  /\ fromOne /\ Numbered(base) => Numbered(table)

\* The last table has the first one and all keys.
LEMMA ChainFacts ==
  ASSUME NEW N \in Nat, NEW keys, NEW skipped, NEW fromOne \in BOOLEAN, NEW base, IsMap(base),
         NEW f, Chain(N, keys, skipped, fromOne, base, f)
  PROVE  ChainEnd(N, keys, skipped, fromOne, base, f[N])
<1> DEFINE Good(n) == ChainEnd(n, keys, skipped, fromOne, base, f[n])
           T == {n \in 0 .. N : Good(n)}
<1>1. /\ f[0] = base
      /\ \A n \in 1 .. N : f[n] = IF n \in skipped THEN f[n - 1]
                                  ELSE Inserted(f[n - 1], [x \in {keys[n]} |->
                IF fromOne THEN Cardinality(DOMAIN f[n - 1]) + 1 ELSE Cardinality(DOMAIN f[n - 1])])
  <2>1. 0 \in 0 .. N /\ \A n \in 1 .. N : n \in 0 .. N /\ n # 0
    OBVIOUS
  <2>2. f = [n \in 0 .. N |->
         IF n = 0 THEN base
         ELSE IF n \in skipped THEN f[n - 1]
         ELSE Inserted(f[n - 1], [x \in {keys[n]} |->
                IF fromOne THEN Cardinality(DOMAIN f[n - 1]) + 1 ELSE Cardinality(DOMAIN f[n - 1])])]
    BY DEF Chain
  <2>3. QED
    BY <2>1, <2>2
<1>2. 0 \in T
  BY <1>1 DEF Extends, ChainEnd
<1>3. ASSUME NEW n \in 1 .. N, n - 1 \in T PROVE n \in T
  <2> DEFINE t == f[n - 1]
  <2>1. ChainEnd(n - 1, keys, skipped, fromOne, base, t) /\ n \in 0 .. N
    BY <1>3
  <2>2. 1 .. n = (1 .. n - 1) \cup {n}
    OBVIOUS
  <2>3. CASE n \in skipped
    <3>1. f[n] = t
      BY <1>1, <2>3
    <3>2. ChainEnd(n, keys, skipped, fromOne, base, f[n])
      BY <2>1, <2>2, <2>3, <3>1 DEF ChainEnd
    <3>3. QED
      BY <2>1, <3>2
  <2>4. CASE n \notin skipped
    <3>1. f[n] = Inserted(t, [x \in {keys[n]} |->
                   IF fromOne THEN Cardinality(DOMAIN t) + 1 ELSE Cardinality(DOMAIN t)])
      BY <1>1, <2>4
    <3> HIDE DEF t
    <3>2. IsMap(f[n]) /\ Extends(f[n], t) /\ DOMAIN f[n] = DOMAIN t \cup {keys[n]}
      BY <3>1 DEF Inserted, IsMap, Extends
    <3>3. fromOne /\ Numbered(t) => Numbered(f[n])
      <4>1. fromOne => f[n] = GetID(t, keys[n])
        BY <3>1 DEF GetID
      <4>2. QED
        BY <4>1, OneMoreId
    <3>4. ChainEnd(n, keys, skipped, fromOne, base, f[n])
      BY <2>1, <2>2, <3>2, <3>3 DEF ChainEnd, Extends
    <3>5. QED
      BY <2>1, <3>4
  <2>5. QED
    BY <2>3, <2>4
<1> HIDE DEF T, Good
<1>4. 0 .. N \subseteq T
  BY <1>2, <1>3, FiniteInduction
<1>5. N \in T
  BY <1>4
<1>6. QED
  BY <1>5 DEF T, Good

\* After the inputs of an operation, what they refer to has an id.
LEMMA GetIDsFacts ==
  ASSUME NEW ids, Numbered(ids), NEW values, NEW N \in Nat, Len(values) = N, DOMAIN values = 1 .. N
  PROVE  LET more == GetIDs(ids, values)
         IN /\ Numbered(more) /\ Extends(more, ids)
            /\ \A v \in ToSet(values) : HasId(more, v)
<1> DEFINE T(f) == f = [n \in 0 .. Len(values) |->
                          IF n = 0 THEN ids
                          ELSE IF Refers(values[n]) THEN GetID(f[n - 1], values[n].of)
                          ELSE f[n - 1]]
           keys == [n \in 1 .. N |-> values[n].of]
           skipped == {n \in 1 .. N : ~Refers(values[n])}
           f == CHOOSE f : T(f)
<1>1. GetIDs(ids, values) = f[N]
  BY DEF GetIDs
<1>2. ASSUME NEW g PROVE T(g) <=> Chain(N, keys, skipped, TRUE, ids, g)
  <2>1. \A n \in 1 .. N : keys[n] = values[n].of /\ (n \in skipped <=> ~Refers(values[n]))
    OBVIOUS
  <2> HIDE DEF keys, skipped
  <2>2. \A n \in 0 .. N :
          (IF n = 0 THEN ids ELSE IF Refers(values[n]) THEN GetID(g[n - 1], values[n].of) ELSE g[n - 1]) =
          (IF n = 0 THEN ids
           ELSE IF n \in skipped THEN g[n - 1]
           ELSE Inserted(g[n - 1], [x \in {keys[n]} |->
                IF TRUE THEN Cardinality(DOMAIN g[n - 1]) + 1 ELSE Cardinality(DOMAIN g[n - 1])]))
    BY <2>1 DEF GetID
  <2>3. QED
    BY <2>2 DEF Chain
<1>3. IsMap(ids)
  BY DEF Numbered, IsMap
<1> HIDE DEF keys, skipped, T
<1>4. \E g : T(g)
  <2>1. PICK g : Chain(N, keys, skipped, TRUE, ids, g)
    BY <1>3, ChainExists
  <2>2. QED
    BY <1>2, <2>1
<1>5. T(f)
  BY <1>4, Zenon
<1> HIDE DEF f
<1>6. ChainEnd(N, keys, skipped, TRUE, ids, f[N])
  BY <1>2, <1>3, <1>5, ChainFacts
<1>7. Numbered(f[N]) /\ Extends(f[N], ids)
  BY <1>6 DEF ChainEnd
<1>8. ASSUME NEW v \in ToSet(values) PROVE HasId(f[N], v)
  <2>1. PICK n \in 1 .. N : v = values[n]
    BY DEF ToSet
  <2>2. n \notin skipped => keys[n] \in DOMAIN f[N]
    BY <1>6 DEF ChainEnd
  <2>3. QED
    BY <2>1, <2>2 DEF HasId, keys, skipped
<1>9. QED
  BY <1>1, <1>7, <1>8

-----------------------------------------------------------------------------
(* Writing: the unit is the module with its ids. *)

\* A value in that module.
InSource(v) ==
  \/ v \in {AnyValue, StoredValue}
  \/ /\ IsReference(v)
     /\ \E b \in DOMAIN source.blocks :
          IF v.kind = "argument" THEN v.of = <<b>> ELSE \E s \in DOMAIN SrcOps(b) : v.of = <<b, s>>

\* A module that is written, piece by piece.
LEMMA SourceFacts ==
  ASSUME source \in Sources
  PROVE  /\ IsMap(source.operators) /\ IsSequence(source.blocks)
         /\ Len(source.blocks) \in Nat /\ DOMAIN source.blocks = 1 .. Len(source.blocks)
         /\ \A b \in DOMAIN source.blocks :
              /\ source.blocks[b] = Block(SrcOps(b), source.blocks[b].results)
              /\ IsSequence(SrcOps(b)) /\ Len(SrcOps(b)) \in Nat /\ DOMAIN SrcOps(b) = 1 .. Len(SrcOps(b))
              /\ IsMap(source.blocks[b].results) /\ IsFiniteSet(DOMAIN source.blocks[b].results)
              /\ \A s \in DOMAIN SrcOps(b) :
                   /\ SrcOp(b, s) = Operation(SrcOp(b, s).operator, SrcOp(b, s).inputs, SrcOp(b, s).attributes)
                   /\ IsSequence(SrcOp(b, s).inputs) /\ IsMap(SrcOp(b, s).attributes)
                   /\ Len(SrcOp(b, s).inputs) \in Nat /\ DOMAIN SrcOp(b, s).inputs = 1 .. Len(SrcOp(b, s).inputs)
                   /\ SrcOp(b, s).operator \in DOMAIN source.operators
                   /\ "unset" \notin Range(SrcOp(b, s).attributes)
                   /\ \A v \in ToSet(SrcOp(b, s).inputs) : InSource(v)
<1>1. \A q : IsSequence(q) => Len(q) \in Nat /\ DOMAIN q = 1 .. Len(q)
  BY DEF IsSequence
<1>2. IsSource(source)
  BY SourcesAssumption
<1>3. IsMap(source.operators) /\ IsSequence(source.blocks)
  BY <1>2 DEF IsSource
<1>4. ASSUME NEW b \in DOMAIN source.blocks
      PROVE  /\ source.blocks[b] = Block(SrcOps(b), source.blocks[b].results)
             /\ IsSequence(SrcOps(b))
             /\ IsMap(source.blocks[b].results) /\ IsFiniteSet(DOMAIN source.blocks[b].results)
  BY <1>2 DEF IsSource, IsBlock, SrcOps
<1>5. ASSUME NEW b \in DOMAIN source.blocks, NEW s \in DOMAIN SrcOps(b)
      PROVE  /\ IsOperation(SrcOp(b, s)) /\ SrcOp(b, s).operator \in DOMAIN source.operators
             /\ "unset" \notin Range(SrcOp(b, s).attributes)
             /\ \A v \in ToSet(SrcOp(b, s).inputs) : InSource(v)
  BY <1>2 DEF IsSource, SrcOps, SrcOp, InSource
<1>6. QED
  BY <1>1, <1>3, <1>4, <1>5 DEF IsOperation

\* More ids change no proto that has its ids.
LEMMA SameProto ==
  ASSUME NEW ids, NEW more, Extends(more, ids), NEW thing \in DOMAIN ids, NEW op,
         \A v \in ToSet(op.inputs) : HasId(ids, v)
  PROVE  OperationProtoOf(more, thing, op) = OperationProtoOf(ids, thing, op)
<1>1. more[thing] = ids[thing]
  BY DEF Extends
<1>2. ASSUME NEW i \in DOMAIN op.inputs
      PROVE  ValueToProto(op.inputs[i], more) = ValueToProto(op.inputs[i], ids)
  <2>1. op.inputs[i] \in ToSet(op.inputs)
    BY DEF ToSet
  <2>2. Refers(op.inputs[i]) => more[op.inputs[i].of] = ids[op.inputs[i].of]
    BY <2>1 DEF HasId, Extends
  <2>3. QED
    BY <2>2 DEF ValueToProto
<1>3. QED
  BY <1>1, <1>2 DEF OperationProtoOf

\* Nothing has been written.
LEMMA InitSource == Init => SourceInv /\ StuckInv
<1> SUFFICES ASSUME Init PROVE SourceInv /\ StuckInv
  OBVIOUS
<1>1. StuckInv
  BY DEF Init, StuckInv
<1>2. CASE pc # "write"
  <2>1. ~FromSource
    BY <1>2 DEF Init, FromSource
  <2>2. QED
    BY <1>1, <2>1 DEF SourceInv
<1>3. CASE pc = "write"
  <2>1. /\ source \in Sources /\ context = source.operators /\ usedIds = <<>> /\ block = 1 /\ next = 1
        /\ tu = Unit({}, [b \in DOMAIN source.blocks |-> WithId(0, Block(<<>>, <<>>))])
    BY <1>3 DEF Init
  <2>2. tu.blocks = [b \in DOMAIN source.blocks |-> WithId(0, Block(<<>>, <<>>))] /\ tu = Unit({}, tu.blocks)
    BY <2>1 DEF Unit
  <2>3. Numbered(usedIds)
    <3>1. usedIds = [t \in {} |-> 0] /\ DOMAIN usedIds = {}
      BY <2>1
    <3>2. QED
      BY <3>1, FS_EmptySet DEF Numbered, IsInjective
  <2>4. ASSUME NEW b \in DOMAIN source.blocks
        PROVE  WrittenTo(b) = 0 /\ ~WrittenBlock(b)
    <3>1. b \in Nat /\ ~(b < 1)
      BY <2>1, SourceFacts
    <3>2. QED
      BY <1>3, <2>1, <3>1 DEF WrittenTo, WrittenBlock
  <2>5. Len(source.blocks) \in Nat /\ (1 <= Len(source.blocks) => Len(SrcOps(1)) \in Nat)
    BY <2>1, SourceFacts
  <2>6. ASSUME NEW b \in DOMAIN source.blocks
        PROVE  /\ tu.blocks[b] = WithId(0, Block(<<>>, tu.blocks[b].thing.results))
               /\ IsMap(tu.blocks[b].thing.results) /\ DOMAIN tu.blocks[b].thing.results = {}
    BY <2>2 DEF WithId, Block, IsMap
  <2>7. ASSUME NEW b \in DOMAIN source.blocks
        PROVE  WrittenTill(usedIds, b, WrittenTo(b), WrittenBlock(b))
    <3>1. [s \in 1 .. 0 |-> OperationProtoOf(usedIds, <<b, s>>, SrcOp(b, s))] = <<>>
      OBVIOUS
    <3>2. WrittenTill(usedIds, b, 0, FALSE)
      BY <2>6, <3>1 DEF WrittenTill
    <3>3. WrittenTo(b) = 0 /\ WrittenBlock(b) = FALSE
      BY <2>4 DEF WrittenBlock
    <3>4. QED
      BY <3>2, <3>3, Zenon
  <2>8. tu = Unit({}, [b \in DOMAIN source.blocks |-> tu.blocks[b]])
    BY <2>2
  <2>9. block \in 1 .. Len(source.blocks) + 1
    BY <2>1, <2>5
  <2>10. block <= Len(source.blocks) => next <= Len(SrcOps(block)) + 1
    BY <2>1, <2>5
  <2>11. SourceInv
    BY <1>3, <2>1, <2>3, <2>7, <2>8, <2>9, <2>10 DEF SourceInv
  <2>12. QED
    BY <1>1, <2>11
<1>4. QED
  BY <1>1, <1>2, <1>3

\* More ids change no block that has its ids.
LEMMA WrittenStays ==
  ASSUME NEW ids, NEW more, Extends(more, ids), NEW b, NEW n \in Nat, NEW whole \in BOOLEAN, WrittenTill(ids, b, n, whole)
  PROVE  WrittenTill(more, b, n, whole)
<1>1. \A s \in 1 .. n : OperationProtoOf(more, <<b, s>>, SrcOp(b, s)) = OperationProtoOf(ids, <<b, s>>, SrcOp(b, s))
  BY SameProto DEF WrittenTill
<1>2. [s \in 1 .. n |-> OperationProtoOf(more, <<b, s>>, SrcOp(b, s))] =
      [s \in 1 .. n |-> OperationProtoOf(ids, <<b, s>>, SrcOp(b, s))]
  BY <1>1
<1>3. whole => more[<<b>>] = ids[<<b>>] /\ <<b>> \in DOMAIN more
  BY DEF WrittenTill, Extends
<1>4. \A s \in 1 .. n :
        /\ <<b, s>> \in DOMAIN more
        /\ \A v \in ToSet(SrcOp(b, s).inputs) : v # StoredValue /\ HasId(more, v)
  BY DEF WrittenTill, Extends, HasId
<1>5. QED
  BY <1>2, <1>3, <1>4 DEF WrittenTill

\* While a module is written: the place of the next step.
LEMMA WritingHere ==
  ASSUME SourceInv, pc = "write"
  PROVE  /\ FromSource /\ source \in Sources /\ Numbered(usedIds) /\ context = source.operators
         /\ Len(source.blocks) \in Nat /\ DOMAIN source.blocks = 1 .. Len(source.blocks)
         /\ block \in Nat \ {0} /\ next \in Nat \ {0} /\ block <= Len(source.blocks) + 1
         /\ tu = [operators |-> {}, blocks |-> tu.blocks] /\ tu.blocks = [b \in DOMAIN source.blocks |-> tu.blocks[b]]
         /\ \A b \in DOMAIN source.blocks : WrittenTill(usedIds, b, WrittenTo(b), WrittenBlock(b))
         /\ block <= Len(source.blocks) =>
              /\ block \in DOMAIN source.blocks /\ Len(SrcOps(block)) \in Nat /\ next <= Len(SrcOps(block)) + 1
              /\ DOMAIN SrcOps(block) = 1 .. Len(SrcOps(block))
              /\ WrittenTo(block) = next - 1 /\ WrittenBlock(block) = FALSE
         /\ block > Len(source.blocks) => next = 1
<1>1. FromSource
  BY DEF FromSource
<1>2. /\ source \in Sources /\ Numbered(usedIds) /\ context = source.operators
      /\ tu = Unit({}, [b \in DOMAIN source.blocks |-> tu.blocks[b]])
      /\ \A b \in DOMAIN source.blocks : WrittenTill(usedIds, b, WrittenTo(b), WrittenBlock(b))
      /\ block \in 1 .. Len(source.blocks) + 1 /\ next \in Nat \ {0}
      /\ block <= Len(source.blocks) => next <= Len(SrcOps(block)) + 1
      /\ block > Len(source.blocks) => next = 1
  BY <1>1 DEF SourceInv
<1>3. /\ Len(source.blocks) \in Nat /\ DOMAIN source.blocks = 1 .. Len(source.blocks)
      /\ \A b \in DOMAIN source.blocks : Len(SrcOps(b)) \in Nat /\ DOMAIN SrcOps(b) = 1 .. Len(SrcOps(b))
  BY <1>2, SourceFacts
<1>4. tu.blocks = [b \in DOMAIN source.blocks |-> tu.blocks[b]] /\ tu = [operators |-> {}, blocks |-> tu.blocks]
  BY <1>2 DEF Unit
<1>5. block <= Len(source.blocks) => block \in DOMAIN source.blocks
  BY <1>2, <1>3
<1>6. block \in Nat \ {0} /\ block <= Len(source.blocks) + 1
  BY <1>2, <1>3
<1>7. WrittenTo(block) = next - 1 /\ WrittenBlock(block) = FALSE
  BY <1>6 DEF WrittenTo, WrittenBlock
<1>8. QED
  BY <1>1, <1>2, <1>3, <1>4, <1>5, <1>6, <1>7

\* OperationToProto writes the next operation, with ids that stay.
LEMMA OperationToProtoSource ==
  ASSUME SourceInv, OperationToProto
  PROVE  SourceInv' /\ StuckInv'
<1> DEFINE op == SrcOp(block, next)
           ids == GetID(GetIDs(usedIds, op.inputs), <<block, next>>)
           new == OperationProtoOf(ids, <<block, next>>, op)
<1>1. pc = "write" /\ block <= Len(source.blocks) /\ next <= Len(SrcOps(block))
  BY DEF OperationToProto, SrcOps
<1>2. /\ FromSource /\ source \in Sources /\ Numbered(usedIds) /\ context = source.operators
      /\ Len(source.blocks) \in Nat /\ DOMAIN source.blocks = 1 .. Len(source.blocks)
      /\ block \in Nat \ {0} /\ next \in Nat \ {0} /\ block \in DOMAIN source.blocks
      /\ tu = [operators |-> {}, blocks |-> tu.blocks] /\ tu.blocks = [b \in DOMAIN source.blocks |-> tu.blocks[b]]
      /\ \A b \in DOMAIN source.blocks : WrittenTill(usedIds, b, WrittenTo(b), WrittenBlock(b))
      /\ Len(SrcOps(block)) \in Nat /\ DOMAIN SrcOps(block) = 1 .. Len(SrcOps(block))
      /\ WrittenTo(block) = next - 1 /\ WrittenBlock(block) = FALSE
  BY <1>1, WritingHere
<1>3. next \in DOMAIN SrcOps(block)
  BY <1>1, <1>2
<1>4. CASE StoredValue \in ToSet(op.inputs)
  <2>1. pc' = "diedWriting" /\ source' = source
    BY <1>1, <1>4 DEF OperationToProto, Dies, SrcOp, SrcOps, written
  <2>2. ~FromSource'
    BY <2>1 DEF FromSource
  <2>3. op \in ToSet(SrcOps(block))
    BY <1>3 DEF ToSet, SrcOp
  <2>4. IsStuck(source.blocks[block])
    BY <1>4, <2>3 DEF IsStuck, SrcOps
  <2>5. StuckInv'
    BY <1>2, <2>1, <2>4 DEF StuckInv
  <2>6. QED
    BY <2>2, <2>5 DEF SourceInv
<1>5. CASE StoredValue \notin ToSet(op.inputs)
  <2>1. /\ op = Operation(op.operator, op.inputs, op.attributes)
        /\ Len(op.inputs) \in Nat /\ DOMAIN op.inputs = 1 .. Len(op.inputs)
    BY <1>2, <1>3, SourceFacts
  <2>2. /\ Numbered(ids) /\ Extends(ids, usedIds) /\ <<block, next>> \in DOMAIN ids
        /\ \A v \in ToSet(op.inputs) : HasId(ids, v)
    <3> DEFINE more == GetIDs(usedIds, op.inputs)
    <3>1. Numbered(more) /\ Extends(more, usedIds) /\ \A v \in ToSet(op.inputs) : HasId(more, v)
      BY <1>2, <2>1, GetIDsFacts
    <3>a. ids = GetID(more, <<block, next>>)
      OBVIOUS
    <3> HIDE DEF more, ids
    <3>2. Numbered(ids) /\ Extends(ids, more) /\ DOMAIN ids = DOMAIN more \cup {<<block, next>>}
      BY <3>a, <3>1, OneMoreId
    <3>3. QED
      BY <3>1, <3>2 DEF Extends, HasId
  <2>3. /\ usedIds' = ids /\ next' = next + 1 /\ source' = source /\ context' = context /\ pc' = pc /\ block' = block
        /\ tu' = [tu EXCEPT !.blocks[block].thing.operations = Append(@, new)]
    <3>1. new = WithId(ids[<<block, next>>], [op EXCEPT !.inputs = [i \in DOMAIN @ |-> ValueToProto(@[i], ids)]])
      <4> HIDE DEF op, ids
      <4>1. [op EXCEPT !.inputs = [i \in DOMAIN @ |-> ValueToProto(@[i], ids)]] =
            Operation(op.operator, [i \in DOMAIN op.inputs |-> ValueToProto(op.inputs[i], ids)], op.attributes)
        BY <2>1 DEF Operation
      <4>2. QED
        BY <4>1 DEF OperationProtoOf
    <3>2. QED
      BY <1>1, <1>5, <3>1 DEF OperationToProto, SrcOp, SrcOps
  <2> HIDE DEF ids, new
  <2> DEFINE blocks == tu.blocks
             o == blocks[block].thing.operations
             r == blocks[block].thing.results
             made == [b \in DOMAIN source.blocks |->
                        IF b = block THEN WithId(0, Block(Append(o, new), r)) ELSE blocks[b]]
  <2>a. WrittenTill(usedIds, block, next - 1, FALSE)
    BY <1>2, Zenon
  <2>4. blocks[block] = WithId(0, Block(o, r))
    BY <2>a DEF WrittenTill, WithId, Block
  <2>5. tu' = Unit({}, made)
    <3> HIDE DEF o, r
    <3>1. [blocks EXCEPT ![block].thing.operations = Append(@, new)] = made
      <4> HIDE DEF blocks
      <4>1. [blocks EXCEPT ![block].thing.operations = Append(@, new)] =
            [blocks EXCEPT ![block] = [blocks[block] EXCEPT !.thing =
               [blocks[block].thing EXCEPT !.operations = Append(blocks[block].thing.operations, new)]]]
        OBVIOUS
      <4>2. [blocks[block] EXCEPT !.thing =
               [blocks[block].thing EXCEPT !.operations = Append(blocks[block].thing.operations, new)]] =
            WithId(0, Block(Append(o, new), r))
        <5>1. blocks[block].thing = Block(o, r)
          BY <2>4 DEF WithId
        <5>2. [Block(o, r) EXCEPT !.operations = Append(o, new)] = Block(Append(o, new), r)
          BY DEF Block
        <5>3. [WithId(0, Block(o, r)) EXCEPT !.thing = Block(Append(o, new), r)] = WithId(0, Block(Append(o, new), r))
          BY DEF WithId
        <5>4. blocks[block].thing.operations = o
          BY DEF o
        <5>5. QED
          BY <2>4, <5>1, <5>2, <5>3, <5>4
      <4>3. blocks = [b \in DOMAIN source.blocks |-> blocks[b]]
        BY <1>2 DEF blocks
      <4>4. QED
        BY <1>2, <4>1, <4>2, <4>3
    <3> HIDE DEF made
    <3>2. tu' = [tu EXCEPT !.blocks = [blocks EXCEPT ![block].thing.operations = Append(@, new)]]
      BY <2>3
    <3> HIDE DEF blocks
    <3>3. tu = [operators |-> {}, blocks |-> blocks]
      BY <1>2 DEF blocks
    <3>4. QED
      BY <3>1, <3>2, <3>3 DEF Unit
  <2>6. o = [s \in 1 .. next - 1 |-> OperationProtoOf(ids, <<block, s>>, SrcOp(block, s))]
    <3>1. WrittenTill(ids, block, next - 1, FALSE)
      <4>1. next - 1 \in Nat
        BY <1>2
      <4>2. QED
        BY <2>a, <2>2, <4>1, WrittenStays
    <3>2. blocks[block] = WithId(0, Block([s \in 1 .. next - 1 |-> OperationProtoOf(ids, <<block, s>>, SrcOp(block, s))], r))
      BY <3>1, Zenon DEF WrittenTill
    <3>3. \A x : blocks[block] = WithId(0, Block(x, r)) => o = x
      <4> HIDE DEF blocks
      <4>1. \A x : WithId(0, Block(x, r)).thing.operations = x
        BY DEF WithId, Block
      <4>2. QED
        BY <4>1, Zenon DEF o
    <3>4. QED
      BY <3>2, <3>3, Zenon
  <2>7. Append(o, new) = [s \in 1 .. next |-> OperationProtoOf(ids, <<block, s>>, SrcOp(block, s))]
    <3> HIDE DEF o
    <3>1. /\ next - 1 \in Nat /\ next - 1 + 1 = next
          /\ new = OperationProtoOf(ids, <<block, next>>, SrcOp(block, next))
      BY <1>2 DEF new
    <3>2. Append([s \in 1 .. next - 1 |-> OperationProtoOf(ids, <<block, s>>, SrcOp(block, s))],
                 OperationProtoOf(ids, <<block, next>>, SrcOp(block, next))) =
          [s \in 1 .. next |-> OperationProtoOf(ids, <<block, s>>, SrcOp(block, s))]
      BY <3>1, SMT
    <3>3. QED
      BY <2>6, <3>1, <3>2
  <2>8. ASSUME NEW b \in DOMAIN source.blocks
        PROVE  WrittenTill(usedIds, b, WrittenTo(b), WrittenBlock(b))'
    <3>1. b \in Nat
      BY <1>2
    <3>2. CASE b # block
      <4>1. WrittenTo(b)' = WrittenTo(b) /\ WrittenBlock(b)' = WrittenBlock(b)
        BY <1>2, <2>3, <3>1, <3>2 DEF WrittenTo, WrittenBlock
      <4>2. tu'.blocks[b] = tu.blocks[b]
        BY <2>5, <3>2 DEF Unit
      <4>3. WrittenTo(b) \in Nat /\ WrittenBlock(b) \in BOOLEAN
        <5>1. Len(source.blocks[b].operations) \in Nat
          BY <1>2, SourceFacts DEF SrcOps
        <5>2. QED
          BY <1>2, <5>1 DEF WrittenTo, WrittenBlock
      <4>4. WrittenTill(ids, b, WrittenTo(b), WrittenBlock(b))
        BY <1>2, <2>2, <4>3, WrittenStays
      <4>5. QED
        BY <2>3, <4>1, <4>2, <4>4 DEF WrittenTill, SrcOp, SrcOps
    <3>3. CASE b = block
      <4>1. WrittenTo(b)' = next /\ WrittenBlock(b)' = FALSE
        BY <1>1, <1>2, <2>3, <3>1, <3>3 DEF WrittenTo, WrittenBlock
      <4>2. tu'.blocks[b] = WithId(0, Block(Append(o, new), r))
        BY <1>2, <2>5, <3>3 DEF Unit
      <4>3. /\ WrittenTill(ids, block, next - 1, FALSE)
            /\ IsMap(r) /\ DOMAIN r = {}
        <5>1. next - 1 \in Nat
          BY <1>2
        <5>2. WrittenTill(ids, block, next - 1, FALSE)
          BY <2>a, <2>2, <5>1, WrittenStays
        <5>3. QED
          BY <5>2, Zenon DEF WrittenTill
      <4>4. \A s \in 1 .. next :
              /\ <<block, s>> \in DOMAIN ids
              /\ \A v \in ToSet(SrcOp(block, s).inputs) : v # StoredValue /\ HasId(ids, v)
        <5>1. \A s \in 1 .. next : s \in 1 .. next - 1 \/ s = next
          BY <1>2
        <5>2. QED
          BY <1>5, <2>2, <4>3, <5>1 DEF WrittenTill
      <4>5. r = tu'.blocks[b].thing.results
        BY <4>2 DEF WithId, Block
      <4>6. \A s : SrcOp(b, s)' = SrcOp(b, s)
        BY <2>3 DEF SrcOp, SrcOps
      <4> HIDE DEF o, r, made
      <4>7. tu'.blocks[b] = WithId(0, Block([s \in 1 .. next |-> OperationProtoOf(ids, <<b, s>>, SrcOp(b, s))],
                                      tu'.blocks[b].thing.results))
        BY <2>7, <3>3, <4>2, <4>5
      <4>8. QED
        BY <2>3, <3>3, <4>1, <4>3, <4>4, <4>5, <4>6, <4>7 DEF WrittenTill
    <3>4. QED
      BY <3>2, <3>3
  <2>9. tu'.blocks = made /\ tu' = Unit({}, [b \in DOMAIN source'.blocks |-> tu'.blocks[b]])
    <3>1. tu'.blocks = made
      BY <2>5 DEF Unit
    <3>2. made = [b \in DOMAIN source.blocks |-> made[b]]
      OBVIOUS
    <3> HIDE DEF made
    <3>3. QED
      BY <2>3, <2>5, <3>1, <3>2
  <2>10. /\ pc' = "write" /\ block' \in 1 .. Len(source'.blocks) + 1 /\ next' \in Nat \ {0} /\ context' = source'.operators
         /\ block' <= Len(source'.blocks) => next' <= Len(SrcOps(block)') + 1
         /\ ~(block' > Len(source'.blocks))
    <3>1. SrcOps(block)' = SrcOps(block)
      BY <2>3 DEF SrcOps
    <3>2. QED
      BY <1>1, <1>2, <2>3, <3>1
  <2>11. SourceInv'
    BY <1>2, <2>2, <2>3, <2>8, <2>9, <2>10 DEF SourceInv
  <2>12. QED
    BY <2>10, <2>11 DEF StuckInv
<1>6. QED
  BY <1>4, <1>5

\* BlockToProto writes the results and the id of a block, in any order of
\* the results.
LEMMA BlockToProtoSource ==
  ASSUME SourceInv, BlockToProto
  PROVE  SourceInv' /\ StuckInv'
<1> DEFINE results == source.blocks[block].results
<1>1. pc = "write" /\ block <= Len(source.blocks) /\ ~(next <= Len(SrcOps(block)))
  <2>1. pc = "write" /\ block <= Len(source.blocks) /\ next > Len(SrcOps(block))
    BY DEF BlockToProto, SrcOps
  <2>2. Len(SrcOps(block)) \in Nat /\ next \in Nat
    BY <2>1, WritingHere
  <2>3. QED
    BY <2>1, <2>2
<1>2. /\ FromSource /\ source \in Sources /\ Numbered(usedIds) /\ context = source.operators
      /\ Len(source.blocks) \in Nat /\ DOMAIN source.blocks = 1 .. Len(source.blocks)
      /\ block \in Nat \ {0} /\ next \in Nat \ {0} /\ block \in DOMAIN source.blocks
      /\ tu = [operators |-> {}, blocks |-> tu.blocks] /\ tu.blocks = [b \in DOMAIN source.blocks |-> tu.blocks[b]]
      /\ \A b \in DOMAIN source.blocks : WrittenTill(usedIds, b, WrittenTo(b), WrittenBlock(b))
      /\ Len(SrcOps(block)) \in Nat /\ DOMAIN SrcOps(block) = 1 .. Len(SrcOps(block))
      /\ WrittenTo(block) = next - 1 /\ WrittenBlock(block) = FALSE /\ next <= Len(SrcOps(block)) + 1
  BY <1>1, WritingHere
<1>3. CASE Dies
  <2>1. pc' = "diedWriting" /\ source' = source
    BY <1>1, <1>3 DEF Dies, written
  <2>2. StoredValue \in Range(results)
    BY <2>1, <1>1 DEF BlockToProto
  <2>3. results # <<>>
    BY <2>2 DEF Range
  <2>4. IsStuck(source.blocks[block]) /\ ~FromSource'
    BY <2>1, <2>3 DEF IsStuck, FromSource
  <2>5. StuckInv'
    BY <1>2, <2>1, <2>4 DEF StuckInv
  <2>6. QED
    BY <2>4, <2>5 DEF SourceInv
<1>4. CASE ~Dies
  <2>1. PICK order \in SetToSeqs(DOMAIN results) :
           LET ids == GetID(GetIDs(usedIds, [i \in DOMAIN order |-> results[order[i]]]), <<block>>)
           IN /\ usedIds' = ids
              /\ tu' = [tu EXCEPT !.blocks[block].id = ids[<<block>>],
                          !.blocks[block].thing.results = [n \in DOMAIN results |-> ValueToProto(results[n], ids)]]
    BY <1>4 DEF BlockToProto
  <2> DEFINE values == [i \in DOMAIN order |-> results[order[i]]]
             more == GetIDs(usedIds, values)
             ids == GetID(more, <<block>>)
             protos == [n \in DOMAIN results |-> ValueToProto(results[n], ids)]
  <2>2. usedIds' = ids /\ tu' = [tu EXCEPT !.blocks[block].id = ids[<<block>>], !.blocks[block].thing.results = protos]
    BY <2>1
  <2>3. block' = block + 1 /\ next' = 1 /\ source' = source /\ context' = context /\ pc' = pc
    BY <1>4 DEF BlockToProto
  <2>4. Numbered(ids) /\ Extends(ids, usedIds) /\ <<block>> \in DOMAIN ids
    <3> DEFINE n == Cardinality(DOMAIN results)
    <3>1. IsFiniteSet(DOMAIN results)
      BY <1>2, SourceFacts
    <3>2. n \in Nat
      BY <3>1, FS_CardinalityType
    <3>3. order \in [1 .. n -> DOMAIN results]
      BY DEF SetToSeqs
    <3> HIDE DEF n, results
    <3>4. DOMAIN values = 1 .. n /\ Len(values) = n
      BY <3>2, <3>3
    <3> HIDE DEF values
    <3>5. Numbered(more) /\ Extends(more, usedIds)
      BY <1>2, <3>2, <3>4, GetIDsFacts
    <3> HIDE DEF more
    <3>6. Numbered(ids) /\ Extends(ids, more) /\ DOMAIN ids = DOMAIN more \cup {<<block>>}
      BY <3>5, OneMoreId
    <3>7. QED
      BY <3>5, <3>6 DEF Extends
  <2>5. IsMap(protos) /\ DOMAIN protos = DOMAIN results
    BY DEF IsMap
  <2> HIDE DEF ids, protos, values, more
  <2> DEFINE blocks == tu.blocks
             o == blocks[block].thing.operations
             r == blocks[block].thing.results
             made == [b \in DOMAIN source.blocks |->
                        IF b = block THEN WithId(ids[<<block>>], Block(o, protos)) ELSE blocks[b]]
  <2>6. WrittenTill(usedIds, block, next - 1, FALSE)
    BY <1>2, Zenon
  <2>7. blocks[block] = WithId(0, Block(o, r))
    BY <2>6 DEF WrittenTill, WithId, Block
  <2>8. tu' = Unit({}, made)
    <3> HIDE DEF o, r
    <3> DEFINE id == ids[<<block>>]
    <3> HIDE DEF id
    <3>1. tu' = [tu EXCEPT !.blocks[block].id = id, !.blocks[block].thing.results = protos]
      BY <2>2 DEF id
    <3>2. tu' = [tu EXCEPT !.blocks =
                   [blocks EXCEPT ![block] = [[blocks[block] EXCEPT !.id = id] EXCEPT !.thing =
                      [blocks[block].thing EXCEPT !.results = protos]]]]
      <4>1. tu = [operators |-> {}, blocks |-> blocks]
        BY <1>2
      <4>2. blocks = [b \in DOMAIN source.blocks |-> blocks[b]]
        BY <1>2
      <4> HIDE DEF blocks
      <4>3. QED
        BY <1>2, <2>7, <3>1, <4>1, <4>2 DEF WithId, Block
    <3>3. [[blocks[block] EXCEPT !.id = id] EXCEPT !.thing = [blocks[block].thing EXCEPT !.results = protos]] =
          WithId(id, Block(o, protos))
      <4> HIDE DEF blocks
      <4>1. blocks[block].thing = Block(o, r)
        BY <2>7 DEF WithId
      <4>2. [Block(o, r) EXCEPT !.results = protos] = Block(o, protos)
        BY DEF Block
      <4>3. [WithId(0, Block(o, r)) EXCEPT !.id = id] = WithId(id, Block(o, r))
        BY DEF WithId
      <4>4. [WithId(id, Block(o, r)) EXCEPT !.thing = Block(o, protos)] = WithId(id, Block(o, protos))
        BY DEF WithId
      <4>5. QED
        BY <2>7, <4>1, <4>2, <4>3, <4>4
    <3>4. [blocks EXCEPT ![block] = WithId(id, Block(o, protos))] = made
      <4> HIDE DEF blocks
      <4>1. blocks = [b \in DOMAIN source.blocks |-> blocks[b]]
        BY <1>2 DEF blocks
      <4>2. QED
        BY <1>2, <4>1 DEF id
    <3> HIDE DEF made, blocks
    <3>5. tu = [operators |-> {}, blocks |-> blocks]
      BY <1>2 DEF blocks
    <3>6. tu' = [tu EXCEPT !.blocks = made]
      BY <3>2, <3>3, <3>4
    <3>7. QED
      BY <3>5, <3>6 DEF Unit
  <2>9. ASSUME NEW b \in DOMAIN source.blocks
        PROVE  WrittenTill(usedIds, b, WrittenTo(b), WrittenBlock(b))'
    <3>1. b \in Nat /\ Len(source.blocks[b].operations) \in Nat
      BY <1>2, SourceFacts DEF SrcOps
    <3>2. WrittenTo(b) \in Nat /\ WrittenBlock(b) \in BOOLEAN
      BY <1>2, <3>1 DEF WrittenTo, WrittenBlock
    <3>3. WrittenTill(ids, b, WrittenTo(b), WrittenBlock(b))
      BY <1>2, <2>4, <3>2, WrittenStays
    <3>4. \A s : SrcOp(b, s)' = SrcOp(b, s)
      BY <2>3 DEF SrcOp, SrcOps
    <3>5. CASE b # block
      <4>1. WrittenTo(b)' = WrittenTo(b) /\ WrittenBlock(b)' = WrittenBlock(b)
        BY <1>2, <2>3, <3>1, <3>5 DEF WrittenTo, WrittenBlock
      <4>2. tu'.blocks[b] = tu.blocks[b]
        BY <2>8, <3>5 DEF Unit
      <4>3. QED
        BY <2>2, <2>3, <3>3, <3>4, <4>1, <4>2 DEF WrittenTill
    <3>6. CASE b = block
      <4>1. next - 1 = Len(SrcOps(block))
        BY <1>1, <1>2
      <4>2. WrittenTo(b)' = next - 1 /\ WrittenBlock(b)' = TRUE
        BY <1>1, <1>2, <2>3, <3>6, <4>1 DEF WrittenTo, WrittenBlock, SrcOps
      <4>3. tu'.blocks[b] = WithId(ids[<<b>>], Block(o, protos))
        BY <1>2, <2>8, <3>6 DEF Unit
      <4>4. protos = tu'.blocks[b].thing.results
        BY <4>3 DEF WithId, Block
      <4>5. WrittenTill(ids, b, next - 1, FALSE)
        BY <1>2, <3>3, <3>6, Zenon
      <4>6. blocks[block] = WithId(0, Block([s \in 1 .. next - 1 |-> OperationProtoOf(ids, <<b, s>>, SrcOp(b, s))], r))
        BY <3>6, <4>5, Zenon DEF WrittenTill
      <4>7. \A x : blocks[block] = WithId(0, Block(x, r)) => o = x
        <5> HIDE DEF blocks
        <5>1. \A x : WithId(0, Block(x, r)).thing.operations = x
          BY DEF WithId, Block
        <5>2. QED
          BY <5>1, Zenon DEF o
      <4>8. o = [s \in 1 .. next - 1 |-> OperationProtoOf(ids, <<b, s>>, SrcOp(b, s))]
        BY <4>6, <4>7, Zenon
      <4>9. \A s \in 1 .. next - 1 :
              /\ <<b, s>> \in DOMAIN ids
              /\ \A v \in ToSet(SrcOp(b, s).inputs) : v # StoredValue /\ HasId(ids, v)
        BY <4>5 DEF WrittenTill
      <4>10. IsMap(tu'.blocks[b].thing.results) /\ DOMAIN tu'.blocks[b].thing.results = DOMAIN source.blocks[b].results
        BY <2>5, <3>6, <4>4
      <4> HIDE DEF o, r, made, blocks, results
      <4>11. tu'.blocks[b] = WithId(ids[<<b>>], Block([s \in 1 .. next - 1 |-> OperationProtoOf(ids, <<b, s>>, SrcOp(b, s))],
                                      tu'.blocks[b].thing.results))
        BY <4>3, <4>4, <4>8
      <4>12. QED
        BY <2>2, <2>3, <2>4, <3>4, <3>6, <4>2, <4>9, <4>10, <4>11 DEF WrittenTill
    <3>7. QED
      BY <3>5, <3>6
  <2>10. tu' = Unit({}, [b \in DOMAIN source'.blocks |-> tu'.blocks[b]])
    <3>1. tu'.blocks = made
      BY <2>8 DEF Unit
    <3>2. made = [b \in DOMAIN source.blocks |-> made[b]]
      OBVIOUS
    <3> HIDE DEF made
    <3>3. QED
      BY <2>3, <2>8, <3>1, <3>2
  <2>11. /\ pc' = "write" /\ block' \in 1 .. Len(source'.blocks) + 1 /\ next' \in Nat \ {0} /\ context' = source'.operators
         /\ block' <= Len(source'.blocks) => next' <= Len(SrcOps(block)') + 1
         /\ block' > Len(source'.blocks) => next' = 1
    <3>1. SrcOps(block)' = SrcOps(block + 1)
      BY <2>3 DEF SrcOps
    <3>2. block + 1 <= Len(source.blocks) => Len(SrcOps(block + 1)) \in Nat
      <4>1. block + 1 <= Len(source.blocks) => block + 1 \in DOMAIN source.blocks
        BY <1>2
      <4>2. QED
        BY <1>2, <4>1, SourceFacts
    <3>3. QED
      BY <1>1, <1>2, <2>3, <3>1, <3>2
  <2>12. SourceInv'
    BY <1>2, <2>2, <2>3, <2>4, <2>9, <2>10, <2>11 DEF SourceInv
  <2>13. QED
    BY <2>11, <2>12 DEF StuckInv
<1>5. QED
  BY <1>3, <1>4

\* A reference stays one; other values stay as they are.
LEMMA ProtoOfValue ==
  ASSUME NEW v, NEW ids
  PROVE  /\ v = AnyValue => ValueToProto(v, ids) = v
         /\ IsReference(v) =>
              /\ Refers(v) /\ IsReference(ValueToProto(v, ids))
              /\ ValueToProto(v, ids).kind = v.kind /\ ValueToProto(v, ids).index = v.index
              /\ ValueToProto(v, ids).of = ids[v.of]
<1>1. v = AnyValue => ValueToProto(v, ids) = v
  BY DEF AnyValue, ValueToProto, Refers
<1>2. ASSUME NEW k, NEW t, NEW i, v = [kind |-> k, of |-> t, index |-> i], k \in {"result", "argument"}
      PROVE  Refers(v) /\ ValueToProto(v, ids) = [kind |-> k, of |-> ids[t], index |-> i]
  <2>1. Refers(v)
    BY <1>2 DEF Refers
  <2>2. ValueToProto(v, ids) = [v EXCEPT !.of = ids[v.of]]
    BY <2>1 DEF ValueToProto
  <2>3. QED
    BY <1>2, <2>1, <2>2
<1>3. CASE v = OperationResult(v.of, v.index)
  <2>1. v = [kind |-> "result", of |-> v.of, index |-> v.index]
    BY <1>3 DEF OperationResult
  <2>2. Refers(v) /\ ValueToProto(v, ids) = [kind |-> "result", of |-> ids[v.of], index |-> v.index]
    BY <1>2, <2>1
  <2>3. QED
    BY <1>1, <2>1, <2>2 DEF IsReference, OperationResult
<1>4. CASE v = BlockArgument(v.of, v.index)
  <2>1. v = [kind |-> "argument", of |-> v.of, index |-> v.index]
    BY <1>4 DEF BlockArgument
  <2>2. Refers(v) /\ ValueToProto(v, ids) = [kind |-> "argument", of |-> ids[v.of], index |-> v.index]
    BY <1>2, <2>1
  <2>3. QED
    BY <1>1, <2>1, <2>2 DEF IsReference, BlockArgument
<1>5. QED
  BY <1>1, <1>3, <1>4 DEF IsReference

\* What has been written is all of the module.
LEMMA StartReadingSource ==
  ASSUME SourceInv, StartReading
  PROVE  SourceInv' /\ StuckInv' /\ next = 1
<1>1. /\ pc = "write" /\ block > Len(source.blocks) /\ tu' = [tu EXCEPT !.operators = DOMAIN source.operators]
      /\ context' \in {context, <<>>} /\ pc' = "register" /\ block' = 1 /\ source' = source /\ usedIds' = usedIds
  BY DEF StartReading
<1>2. /\ source \in Sources /\ Numbered(usedIds) /\ context = source.operators
      /\ Len(source.blocks) \in Nat /\ DOMAIN source.blocks = 1 .. Len(source.blocks) /\ block \in Nat
      /\ tu = [operators |-> {}, blocks |-> tu.blocks] /\ tu.blocks = [b \in DOMAIN source.blocks |-> tu.blocks[b]]
      /\ \A b \in DOMAIN source.blocks : WrittenTill(usedIds, b, WrittenTo(b), WrittenBlock(b))
      /\ next = 1
  BY <1>1, WritingHere
<1>3. tu' = Unit(DOMAIN source.operators, tu.blocks) /\ tu'.blocks = tu.blocks
  <2> DEFINE blocks == tu.blocks
  <2>1. tu = [operators |-> {}, blocks |-> blocks]
    BY <1>2
  <2> HIDE DEF blocks
  <2>2. tu' = [operators |-> DOMAIN source.operators, blocks |-> blocks]
    BY <1>1, <2>1
  <2>3. QED
    BY <2>2 DEF blocks, Unit
<1>4. ASSUME NEW b \in DOMAIN source.blocks
      PROVE  WrittenTill(usedIds, b, WrittenTo(b), WrittenBlock(b))'
  <2>1. b \in Nat /\ b < block
    BY <1>1, <1>2
  <2>2. WrittenTo(b)' = WrittenTo(b) /\ WrittenBlock(b)' = WrittenBlock(b)
    BY <1>1, <2>1 DEF WrittenTo, WrittenBlock
  <2>3. \A s : SrcOp(b, s)' = SrcOp(b, s)
    BY <1>1 DEF SrcOp, SrcOps
  <2>4. tu'.blocks[b] = tu.blocks[b] /\ usedIds' = usedIds /\ source'.blocks[b].results = source.blocks[b].results
    BY <1>1, <1>3
  <2>5. WrittenTill(usedIds, b, WrittenTo(b), WrittenBlock(b))
    BY <1>2
  <2>6. QED
    BY <2>2, <2>3, <2>4, <2>5 DEF WrittenTill
<1>5. tu' = Unit(DOMAIN source.operators, [b \in DOMAIN source.blocks |-> tu'.blocks[b]])
  BY <1>2, <1>3
<1>6. SourceInv'
  BY <1>1, <1>2, <1>4, <1>5 DEF SourceInv
<1>7. QED
  BY <1>1, <1>2, <1>6 DEF StuckInv

\* Reading leaves the module and its unit as they are.
LEMMA ReadingSource ==
  ASSUME SourceInv, StuckInv, pc \notin {"write", "diedWriting"}, pc' \notin {"write", "register", "diedWriting"},
         source' = source, tu' = tu, usedIds' = usedIds,
         \/ pc # "register" /\ context' = context
         \/ pc = "register" /\ context' = Inserted(context, [name \in tu.operators |-> 1])
  PROVE  SourceInv' /\ StuckInv'
<1>1. StuckInv'
  BY DEF StuckInv
<1>2. CASE source = NoSource
  <2>1. NoSource' = NoSource
    BY DEF NoSource
  <2>2. ~FromSource'
    BY <1>2, <2>1 DEF FromSource
  <2>3. QED
    BY <1>1, <2>2 DEF SourceInv
<1>3. CASE source # NoSource
  <2>1. /\ source \in Sources /\ Numbered(usedIds)
        /\ tu = Unit(DOMAIN source.operators, [b \in DOMAIN source.blocks |-> tu.blocks[b]])
        /\ \A b \in DOMAIN source.blocks : WrittenTill(usedIds, b, WrittenTo(b), WrittenBlock(b))
        /\ pc = "register" => context \in {source.operators, <<>>}
        /\ pc # "register" =>
             \E c \in {source.operators, <<>>} : context = Inserted(c, [name \in tu.operators |-> 1])
    BY <1>3 DEF SourceInv, FromSource
  <2>2. ASSUME NEW b \in DOMAIN source.blocks
        PROVE  WrittenTill(usedIds, b, WrittenTo(b), WrittenBlock(b))'
    <3>1. WrittenTo(b)' = WrittenTo(b) /\ WrittenBlock(b)' = WrittenBlock(b)
      BY DEF WrittenTo, WrittenBlock
    <3>2. \A s : SrcOp(b, s)' = SrcOp(b, s)
      BY DEF SrcOp, SrcOps
    <3>3. QED
      BY <2>1, <3>1, <3>2 DEF WrittenTill
  <2>3. \E c \in {source.operators, <<>>} : context' = Inserted(c, [name \in tu.operators |-> 1])
    BY <2>1
  <2>4. /\ tu' = Unit(IF pc' = "write" THEN {} ELSE DOMAIN source'.operators,
                     [b \in DOMAIN source'.blocks |-> tu'.blocks[b]])
        /\ \A b \in DOMAIN source'.blocks : WrittenTill(usedIds, b, WrittenTo(b), WrittenBlock(b))'
        /\ source' \in Sources /\ Numbered(usedIds')
        /\ \E c \in {source'.operators, <<>>} : context' = Inserted(c, [name \in tu'.operators |-> 1])
    <3>1. source' \in Sources /\ Numbered(usedIds')
      BY <2>1
    <3>2. QED
      BY <2>1, <2>2, <2>3, <3>1
  <2>5. SourceInv'
    BY <2>4 DEF SourceInv
  <2>6. QED
    BY <1>1, <2>5
<1>4. QED
  BY <1>2, <1>3

\* The invariant is a matter of the variables alone.
LEMMA StutterSource ==
  ASSUME SourceInv, StuckInv, UNCHANGED vars
  PROVE  SourceInv' /\ StuckInv'
<1> USE DEF vars, written, built
<1>1. /\ source' = source /\ tu' = tu /\ usedIds' = usedIds /\ context' = context /\ pc' = pc
      /\ block' = block /\ next' = next
  OBVIOUS
<1>2. StuckInv'
  BY <1>1 DEF StuckInv, IsStuck
<1>3. FromSource' = FromSource
  BY <1>1 DEF FromSource, NoSource
<1>4. ASSUME NEW b PROVE WrittenTill(usedIds, b, WrittenTo(b), WrittenBlock(b))' <=>
                         WrittenTill(usedIds, b, WrittenTo(b), WrittenBlock(b))
  <2>1. WrittenTo(b)' = WrittenTo(b) /\ WrittenBlock(b)' = WrittenBlock(b)
    BY <1>1 DEF WrittenTo, WrittenBlock
  <2>2. \A s : SrcOp(b, s)' = SrcOp(b, s)
    BY <1>1 DEF SrcOp, SrcOps
  <2>3. QED
    BY <1>1, <2>1, <2>2 DEF WrittenTill
<1>5. SrcOps(block)' = SrcOps(block)
  BY <1>1 DEF SrcOps
<1>6. SourceInv'
  BY <1>1, <1>3, <1>4, <1>5 DEF SourceInv
<1>7. QED
  BY <1>2, <1>6

\* What the module becomes.
IsWritten(u) ==
  /\ u = Unit(DOMAIN source.operators, [b \in DOMAIN source.blocks |-> u.blocks[b]])
  /\ \A b \in DOMAIN source.blocks :
       /\ u.blocks[b] = WithId(usedIds[<<b>>], Block([s \in DOMAIN SrcOps(b) |->
                          OperationProtoOf(usedIds, <<b, s>>, SrcOp(b, s))], u.blocks[b].thing.results))
       /\ IsMap(u.blocks[b].thing.results)
       /\ DOMAIN u.blocks[b].thing.results = DOMAIN source.blocks[b].results
       /\ \A s \in DOMAIN SrcOps(b) : \A v \in ToSet(SrcOp(b, s).inputs) : v # StoredValue

\* What is written is a unit.
LEMMA WrittenIsUnit ==
  ASSUME source \in Sources, NEW u, IsWritten(u)
  PROVE  IsUnit(u)
<1> DEFINE blocks == u.blocks
<1>1. u = Unit(u.operators, blocks) /\ blocks = [b \in DOMAIN source.blocks |-> blocks[b]]
  BY DEF IsWritten, Unit
<1>2. Len(source.blocks) \in Nat /\ DOMAIN source.blocks = 1 .. Len(source.blocks)
  BY SourceFacts
<1> HIDE DEF blocks
<1>3. DOMAIN blocks = DOMAIN source.blocks
  BY <1>1
<1>4. \A q, n : n \in Nat /\ DOMAIN q = 1 .. n /\ q = [i \in 1 .. n |-> q[i]] => IsSequence(q)
  <2> SUFFICES ASSUME NEW q, NEW n \in Nat, DOMAIN q = 1 .. n, q = [i \in 1 .. n |-> q[i]]
               PROVE  IsSequence(q)
    BY Zenon
  <2>1. \A i \in 1 .. n : q[i] \in ToSet(q)
    BY DEF ToSet
  <2>2. ASSUME NEW T, \A i \in 1 .. n : q[i] \in T
        PROVE  q \in Seq(T)
    <3>1. [i \in 1 .. n |-> q[i]] \in [1 .. n -> T]
      BY <2>2, Zenon
    <3>2. q \in [1 .. n -> T]
      BY <3>1, Zenon
    <3>3. QED
      BY <3>2
  <2>3. QED
    BY <2>1, <2>2, Zenon DEF IsSequence
<1>5. IsSequence(blocks)
  BY <1>1, <1>2, <1>3, <1>4
<1>6. ASSUME NEW b \in DOMAIN source.blocks
      PROVE  /\ blocks[b] = WithId(blocks[b].id, blocks[b].thing) /\ IsBlock(blocks[b].thing)
             /\ DOMAIN blocks[b].thing.operations = DOMAIN SrcOps(b)
             /\ \A s \in DOMAIN SrcOps(b) :
                  blocks[b].thing.operations[s] = OperationProtoOf(usedIds, <<b, s>>, SrcOp(b, s))
  <2> DEFINE o == [s \in DOMAIN SrcOps(b) |-> OperationProtoOf(usedIds, <<b, s>>, SrcOp(b, s))]
             r == blocks[b].thing.results
  <2>1. blocks[b] = WithId(usedIds[<<b>>], Block(o, r)) /\ IsMap(r) /\ IsFiniteSet(DOMAIN r)
    BY SourceFacts DEF blocks, IsWritten
  <2>2. Len(SrcOps(b)) \in Nat /\ DOMAIN SrcOps(b) = 1 .. Len(SrcOps(b))
    BY SourceFacts
  <2>3. IsSequence(o)
    BY <1>4, <2>2
  <2>4. DOMAIN o = DOMAIN SrcOps(b) /\ \A s \in DOMAIN SrcOps(b) : o[s] = OperationProtoOf(usedIds, <<b, s>>, SrcOp(b, s))
    OBVIOUS
  <2> HIDE DEF o, r
  <2>5. /\ blocks[b] = WithId(blocks[b].id, blocks[b].thing) /\ blocks[b].thing = Block(o, r)
    <3>1. \A i, t : WithId(i, t).id = i /\ WithId(i, t).thing = t
      BY DEF WithId
    <3>2. QED
      BY <2>1, <3>1
  <2>6. blocks[b].thing.operations = o /\ blocks[b].thing.results = r
    <3>1. \A x, y : Block(x, y).operations = x /\ Block(x, y).results = y
      BY DEF Block
    <3>2. QED
      BY <2>5, <3>1
  <2>7. IsBlock(blocks[b].thing)
    BY <2>1, <2>3, <2>5, <2>6 DEF IsBlock
  <2>8. QED
    BY <2>4, <2>5, <2>6, <2>7
<1>7. ASSUME NEW b \in DOMAIN source.blocks, NEW s \in DOMAIN SrcOps(b)
      PROVE  LET op == blocks[b].thing.operations[s]
             IN /\ op = WithId(op.id, op.thing) /\ IsOperation(op.thing)
                /\ \A v \in ToSet(op.thing.inputs) : v \in {AnyValue, UnsetValue} \/ IsReference(v)
  <2> DEFINE src == SrcOp(b, s)
             op == blocks[b].thing.operations[s]
             inputs == [i \in DOMAIN src.inputs |-> ValueToProto(src.inputs[i], usedIds)]
  <2>1. /\ IsSequence(src.inputs) /\ IsMap(src.attributes) /\ \A v \in ToSet(src.inputs) : InSource(v) /\ v # StoredValue
        /\ Len(src.inputs) \in Nat /\ DOMAIN src.inputs = 1 .. Len(src.inputs)
    BY SourceFacts DEF IsWritten
  <2>2. op = WithId(usedIds[<<b, s>>], Operation(src.operator, inputs, src.attributes))
    BY <1>6 DEF OperationProtoOf
  <2>3. IsSequence(inputs)
    BY <1>4, <2>1
  <2>4. ASSUME NEW v \in ToSet(inputs)
        PROVE  v \in {AnyValue, UnsetValue} \/ IsReference(v)
    <3>1. PICK i \in DOMAIN src.inputs : v = ValueToProto(src.inputs[i], usedIds)
      BY DEF ToSet
    <3>2. src.inputs[i] \in ToSet(src.inputs)
      BY DEF ToSet
    <3>3. src.inputs[i] = AnyValue \/ IsReference(src.inputs[i])
      BY <2>1, <3>2 DEF InSource
    <3>4. QED
      BY <3>1, <3>3, ProtoOfValue
  <2> HIDE DEF op, inputs, src
  <2>5. op = WithId(op.id, op.thing) /\ op.thing = Operation(src.operator, inputs, src.attributes)
    BY <2>2 DEF WithId
  <2>6. op.thing.inputs = inputs /\ IsOperation(op.thing)
    <3>1. \A x, y, z : /\ Operation(x, y, z).operator = x /\ Operation(x, y, z).inputs = y
                        /\ Operation(x, y, z).attributes = z
      BY DEF Operation
    <3>2. /\ op.thing.operator = src.operator /\ op.thing.inputs = inputs /\ op.thing.attributes = src.attributes
      BY <2>5, <3>1
    <3>3. QED
      BY <2>1, <2>3, <2>5, <3>2, Zenon DEF IsOperation
  <2>7. QED
    BY <2>4, <2>5, <2>6 DEF op
<1>8. QED
  BY <1>1, <1>3, <1>5, <1>6, <1>7, Zenon DEF IsUnit, blocks

\* What the module becomes has all of it.
Complete == Unit(DOMAIN source.operators, [b \in DOMAIN source.blocks |-> tu.blocks[b]])

\* All of the module is written when all of its blocks are.
LEMMA WrittenInFull ==
  ASSUME source \in Sources, \A b \in DOMAIN source.blocks : WrittenTill(usedIds, b, Len(SrcOps(b)), TRUE)
  PROVE  IsWritten(Complete)
<1> DEFINE u == Complete
<1>1. u.blocks = [b \in DOMAIN source.blocks |-> tu.blocks[b]] /\ u = Unit(DOMAIN source.operators, u.blocks)
  BY DEF Unit, Complete
<1> HIDE DEF u
<1>2. ASSUME NEW b \in DOMAIN source.blocks
      PROVE  /\ u.blocks[b] = WithId(usedIds[<<b>>], Block([s \in DOMAIN SrcOps(b) |->
                          OperationProtoOf(usedIds, <<b, s>>, SrcOp(b, s))], u.blocks[b].thing.results))
             /\ IsMap(u.blocks[b].thing.results)
             /\ DOMAIN u.blocks[b].thing.results = DOMAIN source.blocks[b].results
             /\ \A s \in DOMAIN SrcOps(b) : \A v \in ToSet(SrcOp(b, s).inputs) : v # StoredValue
  <2>1. u.blocks[b] = tu.blocks[b] /\ DOMAIN SrcOps(b) = 1 .. Len(SrcOps(b))
    BY <1>1, SourceFacts
  <2>2. WrittenTill(usedIds, b, Len(SrcOps(b)), TRUE)
    OBVIOUS
  <2>3. QED
    BY <2>1, <2>2 DEF WrittenTill
<1>3. u = Unit(DOMAIN source.operators, [b \in DOMAIN source.blocks |-> u.blocks[b]])
  <2>1. u.blocks = [b \in DOMAIN source.blocks |-> u.blocks[b]]
    BY <1>1
  <2>2. QED
    BY <1>1, <2>1
<1>4. IsWritten(u)
  BY <1>2, <1>3 DEF IsWritten
<1>5. QED
  BY <1>4 DEF u

\* Reading starts with a unit.
LEMMA StartReadingUnit ==
  ASSUME SourceInv, StartReading
  PROVE  IsUnit(tu')
<1>1. /\ pc = "write" /\ block > Len(source.blocks) /\ tu' = [tu EXCEPT !.operators = DOMAIN source.operators]
  BY DEF StartReading
<1>2. /\ source \in Sources /\ Len(source.blocks) \in Nat /\ DOMAIN source.blocks = 1 .. Len(source.blocks)
      /\ block \in Nat
      /\ tu = [operators |-> {}, blocks |-> tu.blocks] /\ tu.blocks = [b \in DOMAIN source.blocks |-> tu.blocks[b]]
      /\ \A b \in DOMAIN source.blocks : WrittenTill(usedIds, b, WrittenTo(b), WrittenBlock(b))
  BY <1>1, WritingHere
<1>3. tu' = Complete
  <2> DEFINE blocks == tu.blocks
  <2>1. tu = [operators |-> {}, blocks |-> blocks]
    BY <1>2
  <2>2. blocks = [b \in DOMAIN source.blocks |-> tu.blocks[b]]
    BY <1>2
  <2> HIDE DEF blocks
  <2>3. tu' = [operators |-> DOMAIN source.operators, blocks |-> blocks]
    BY <1>1, <2>1
  <2>4. QED
    BY <2>2, <2>3 DEF Unit, Complete
<1>4. \A b \in DOMAIN source.blocks : WrittenTill(usedIds, b, Len(SrcOps(b)), TRUE)
  <2>1. \A b \in DOMAIN source.blocks : b < block
    BY <1>1, <1>2
  <2>2. \A b \in DOMAIN source.blocks : WrittenTo(b) = Len(SrcOps(b)) /\ WrittenBlock(b) = TRUE
    BY <2>1 DEF WrittenTo, WrittenBlock, SrcOps
  <2>3. QED
    BY <1>2, <2>2
<1>5. IsWritten(Complete)
  BY <1>2, <1>4, WrittenInFull
<1>6. QED
  BY <1>2, <1>3, <1>5, WrittenIsUnit

\* All that is known of the passes, of the unit that is read and of writing.
SysInv == Inv /\ SourceInv /\ StuckInv

\* Every step keeps what is known of the passes, of the unit and of writing.
LEMMA NextInv == SysInv /\ [Next]_vars => SysInv'
<1> SUFFICES ASSUME SysInv, [Next]_vars PROVE SysInv'
  OBVIOUS
<1>0. Inv /\ SourceInv /\ StuckInv
  BY DEF SysInv
<1>1. CASE OperationToProto \/ BlockToProto
  BY <1>0, <1>1, WritingInv, OperationToProtoSource, BlockToProtoSource DEF SysInv
<1>2. CASE StartReading
  BY <1>0, <1>2, StartReadingUnit, StartReadingInv, StartReadingSource DEF SysInv
<1>3. CASE RegisterOperators
  <2>1. SourceInv' /\ StuckInv'
    BY <1>0, <1>3, ReadingSource DEF RegisterOperators, written
  <2>2. QED
    BY <1>0, <1>3, <2>1, RegisterOperatorsInv DEF SysInv
<1>4. ASSUME pc \in {"preVisit", "toIR", "postVisit"}, pc' \in {pc, "toIR", "postVisit", "done", "died"},
             source' = source, tu' = tu, usedIds' = usedIds, context' = context
      PROVE  SourceInv' /\ StuckInv'
  BY <1>0, <1>4, ReadingSource
<1>5. CASE PreVisitOperation \/ PreVisitBlock
  <2>1. Inv'
    BY <1>0, <1>5, PreVisitOperationInv, PreVisitBlockInv
  <2>2. SourceInv' /\ StuckInv'
    BY <1>4, <1>5 DEF PreVisitOperation, PreVisitBlock, InPass, NextOperation, NextBlock, Dies, written
  <2>3. QED
    BY <2>1, <2>2 DEF SysInv
<1>6. CASE NextPass("preVisit", "toIR") \/ NextPass("toIR", "postVisit")
  <2>1. Inv'
    BY <1>0, <1>6, NextPassInv
  <2>2. SourceInv' /\ StuckInv'
    BY <1>4, <1>6 DEF NextPass, written
  <2>3. QED
    BY <2>1, <2>2 DEF SysInv
<1>7. CASE ToIROperation \/ ToIRBlock
  <2>1. Inv'
    BY <1>0, <1>7, ToIROperationInv, ToIRBlockInv
  <2>2. SourceInv' /\ StuckInv'
    BY <1>4, <1>7 DEF ToIROperation, ToIRBlock, InPass, NextOperation, NextBlock, Dies, written
  <2>3. QED
    BY <2>1, <2>2 DEF SysInv
<1>8. CASE PostVisitOperation \/ PostVisitBlock
  <2>1. Inv'
    BY <1>0, <1>8, PostVisitOperationInv, PostVisitBlockInv
  <2>2. SourceInv' /\ StuckInv'
    BY <1>4, <1>8 DEF PostVisitOperation, PostVisitBlock, InPass, NextOperation, NextBlock, Dies, written
  <2>3. QED
    BY <2>1, <2>2 DEF SysInv
<1>9. CASE Convert
  <2>1. Inv'
    BY <1>0, <1>9, ConvertInv
  <2>2. SourceInv' /\ StuckInv'
    BY <1>4, <1>9 DEF Convert, written
  <2>3. QED
    BY <2>1, <2>2 DEF SysInv
<1>10. CASE UNCHANGED vars
  BY <1>0, <1>10, StutterInv, StutterSource DEF SysInv
<1>11. QED
  BY <1>1, <1>2, <1>3, <1>5, <1>6, <1>7, <1>8, <1>9, <1>10 DEF Next

\* All of it holds at first.
LEMMA InitSys == Init => SysInv
BY InitInv, InitSource DEF SysInv

\* The passes, the unit and writing at every state.
THEOREM SysInvHolds == Spec => []SysInv
BY InitSys, NextInv, PTL DEF Spec

\* ProtoToIR dies exactly on malformed units (CHECKs of proto_to_ir.cc).
THEOREM ReadingDiesExactlyOnMalformedHolds == Spec => []ReadingDiesExactlyOnMalformed
<1>1. SysInv => ReadingDiesExactlyOnMalformed
  BY ReadingDiesIs DEF SysInv
<1>2. QED
  BY <1>1, SysInvHolds, PTL

\* A module that is returned is its unit.
THEOREM ModuleIsUnitHolds == Spec => []ModuleIsUnit
<1>1. SysInv => ModuleIsUnit
  BY ModuleIs DEF SysInv
<1>2. QED
  BY <1>1, SysInvHolds, PTL

-----------------------------------------------------------------------------
(* The round trip. *)

\* The unit that is read, piece by piece.
LEMMA WrittenFacts ==
  ASSUME SourceInv, FromSource, pc # "write"
  PROVE  /\ source \in Sources /\ Numbered(usedIds)
         /\ DOMAIN tu.blocks = DOMAIN source.blocks /\ tu.operators = DOMAIN source.operators
         /\ \A b \in DOMAIN source.blocks :
              /\ DOMAIN Ops(b) = DOMAIN SrcOps(b) /\ <<b>> \in DOMAIN usedIds /\ IdOf(b) = usedIds[<<b>>]
              /\ IsMap(tu.blocks[b].thing.results)
              /\ DOMAIN tu.blocks[b].thing.results = DOMAIN source.blocks[b].results
              /\ \A s \in DOMAIN SrcOps(b) :
                   /\ <<b, s>> \in DOMAIN usedIds
                   /\ Ops(b)[s] = OperationProtoOf(usedIds, <<b, s>>, SrcOp(b, s))
                   /\ \A v \in ToSet(SrcOp(b, s).inputs) : v # StoredValue /\ HasId(usedIds, v)
<1>1. /\ source \in Sources /\ Numbered(usedIds)
      /\ tu = Unit(DOMAIN source.operators, [b \in DOMAIN source.blocks |-> tu.blocks[b]])
      /\ \A b \in DOMAIN source.blocks : WrittenTill(usedIds, b, WrittenTo(b), WrittenBlock(b))
  BY DEF SourceInv
<1>2. DOMAIN tu.blocks = DOMAIN source.blocks /\ tu.operators = DOMAIN source.operators
  <2>1. tu = Complete
    BY <1>1, Zenon DEF Complete
  <2>2. Complete.operators = DOMAIN source.operators /\ DOMAIN Complete.blocks = DOMAIN source.blocks
    BY DEF Complete, Unit
  <2>3. QED
    BY <2>1, <2>2
<1>3. ASSUME NEW b \in DOMAIN source.blocks
      PROVE  /\ DOMAIN Ops(b) = DOMAIN SrcOps(b) /\ <<b>> \in DOMAIN usedIds /\ IdOf(b) = usedIds[<<b>>]
             /\ IsMap(tu.blocks[b].thing.results)
             /\ DOMAIN tu.blocks[b].thing.results = DOMAIN source.blocks[b].results
             /\ \A s \in DOMAIN SrcOps(b) :
                  /\ <<b, s>> \in DOMAIN usedIds
                  /\ Ops(b)[s] = OperationProtoOf(usedIds, <<b, s>>, SrcOp(b, s))
                  /\ \A v \in ToSet(SrcOp(b, s).inputs) : v # StoredValue /\ HasId(usedIds, v)
  <2> DEFINE written1 == [s \in 1 .. Len(SrcOps(b)) |-> OperationProtoOf(usedIds, <<b, s>>, SrcOp(b, s))]
             results1 == tu.blocks[b].thing.results
  <2>1. WrittenTill(usedIds, b, Len(SrcOps(b)), TRUE)
    <3>1. WrittenTo(b) = Len(SrcOps(b)) /\ WrittenBlock(b) = TRUE
      BY DEF WrittenTo, WrittenBlock, SrcOps
    <3>2. QED
      BY <1>1, <3>1
  <2>2. /\ tu.blocks[b] = WithId(usedIds[<<b>>], Block(written1, results1))
        /\ IsMap(results1) /\ DOMAIN results1 = DOMAIN source.blocks[b].results
        /\ <<b>> \in DOMAIN usedIds
        /\ \A s \in 1 .. Len(SrcOps(b)) :
             /\ <<b, s>> \in DOMAIN usedIds
             /\ \A v \in ToSet(SrcOp(b, s).inputs) : v # StoredValue /\ HasId(usedIds, v)
    BY <2>1 DEF WrittenTill
  <2>3. DOMAIN SrcOps(b) = 1 .. Len(SrcOps(b))
    BY <1>1, SourceFacts
  <2>4. DOMAIN written1 = DOMAIN SrcOps(b) /\
        \A s \in DOMAIN SrcOps(b) : written1[s] = OperationProtoOf(usedIds, <<b, s>>, SrcOp(b, s))
    BY <2>3
  <2> HIDE DEF written1, results1
  <2>5. tu.blocks[b].id = usedIds[<<b>>] /\ tu.blocks[b].thing.operations = written1
    BY <2>2 DEF WithId, Block
  <2>6. QED
    BY <2>2, <2>3, <2>4, <2>5 DEF Ops, IdOf, results1
<1>4. QED
  BY <1>1, <1>2, <1>3

\* An operation of the unit is one of the module with ids for things.
LEMMA WrittenOperation ==
  ASSUME SourceInv, FromSource, pc # "write", NEW b \in DOMAIN source.blocks, NEW s \in DOMAIN SrcOps(b)
  PROVE  /\ Id(b, s) = usedIds[<<b, s>>]
         /\ Op(b, s).operator = SrcOp(b, s).operator /\ Op(b, s).attributes = SrcOp(b, s).attributes
         /\ Op(b, s).inputs = [i \in DOMAIN SrcOp(b, s).inputs |-> ValueToProto(SrcOp(b, s).inputs[i], usedIds)]
         /\ \A i \in DOMAIN SrcOp(b, s).inputs :
              LET v == SrcOp(b, s).inputs[i]
              IN (v = AnyValue \/ (IsReference(v) /\ InSource(v))) /\ HasId(usedIds, v)
<1>1. /\ Ops(b)[s] = OperationProtoOf(usedIds, <<b, s>>, SrcOp(b, s))
      /\ \A v \in ToSet(SrcOp(b, s).inputs) : v # StoredValue /\ HasId(usedIds, v)
      /\ source \in Sources
  BY WrittenFacts
<1> DEFINE inputs == [i \in DOMAIN SrcOp(b, s).inputs |-> ValueToProto(SrcOp(b, s).inputs[i], usedIds)]
<1>2. /\ Id(b, s) = usedIds[<<b, s>>]
      /\ Op(b, s).operator = SrcOp(b, s).operator /\ Op(b, s).attributes = SrcOp(b, s).attributes
      /\ Op(b, s).inputs = inputs
  <2>1. Ops(b)[s] = WithId(usedIds[<<b, s>>], Operation(SrcOp(b, s).operator, inputs, SrcOp(b, s).attributes))
    BY <1>1 DEF OperationProtoOf
  <2> HIDE DEF inputs
  <2>2. QED
    BY <2>1 DEF Id, Op, WithId, Operation
<1>3. ASSUME NEW i \in DOMAIN SrcOp(b, s).inputs
      PROVE  LET v == SrcOp(b, s).inputs[i]
             IN (v = AnyValue \/ (IsReference(v) /\ InSource(v))) /\ HasId(usedIds, v)
  <2>1. SrcOp(b, s).inputs[i] \in ToSet(SrcOp(b, s).inputs)
    BY DEF ToSet
  <2>2. InSource(SrcOp(b, s).inputs[i])
    BY <1>1, <2>1, SourceFacts
  <2>3. QED
    BY <1>1, <2>1, <2>2 DEF InSource
<1>4. QED
  BY <1>2, <1>3

\* The unit of a module that no stored value and no result is in the way of is
\* well formed.
LEMMA WrittenIsWellFormed ==
  ASSUME SourceInv, FromSource, pc \notin {"write", "register"},
         ~ \E b \in DOMAIN source.blocks : IsStuck(source.blocks[b])
  PROVE  WellFormed
<1>1. /\ source \in Sources /\ Numbered(usedIds)
      /\ DOMAIN tu.blocks = DOMAIN source.blocks /\ tu.operators = DOMAIN source.operators
  BY WrittenFacts
<1>2. \A x, y \in DOMAIN usedIds : usedIds[x] = usedIds[y] => x = y
  BY <1>1 DEF Numbered, IsInjective
<1>3. \A b, c, s, t : (<<b>> = <<c>> => b = c) /\ (<<b, s>> = <<c, t>> => b = c /\ s = t)
  OBVIOUS
<1>4. ASSUME NEW b \in DOMAIN source.blocks
      PROVE  DOMAIN Ops(b) = DOMAIN SrcOps(b) /\ <<b>> \in DOMAIN usedIds /\ IdOf(b) = usedIds[<<b>>]
  BY WrittenFacts
<1>5. ASSUME NEW b \in DOMAIN source.blocks, NEW s \in DOMAIN SrcOps(b)
      PROVE  <<b, s>> \in DOMAIN usedIds /\ Id(b, s) = usedIds[<<b, s>>]
  BY WrittenFacts, WrittenOperation
<1>6. UniqueIds
  <2>1. ASSUME NEW b \in DOMAIN source.blocks, NEW c \in DOMAIN source.blocks,
               NEW s \in DOMAIN SrcOps(b), NEW t \in DOMAIN SrcOps(c), Id(b, s) = Id(c, t)
        PROVE  b = c /\ s = t
    <3>1. /\ <<b, s>> \in DOMAIN usedIds /\ <<c, t>> \in DOMAIN usedIds
          /\ usedIds[<<b, s>>] = usedIds[<<c, t>>]
      BY <1>5, <2>1, Zenon
    <3>2. <<b, s>> = <<c, t>>
      BY <1>2, <3>1, Zenon
    <3>3. QED
      BY <1>3, <3>2, Zenon
  <2>2. ASSUME NEW b \in DOMAIN tu.blocks, NEW c \in DOMAIN tu.blocks,
               NEW s \in DOMAIN Ops(b), NEW t \in DOMAIN Ops(c), Id(b, s) = Id(c, t)
        PROVE  b = c /\ s = t
    <3>1. b \in DOMAIN source.blocks /\ c \in DOMAIN source.blocks
      BY <1>1
    <3>2. s \in DOMAIN SrcOps(b) /\ t \in DOMAIN SrcOps(c)
      BY <1>4, <3>1
    <3>3. QED
      BY <2>1, <2>2, <3>1, <3>2, Zenon
  <2>3. QED
    BY <2>2, Zenon DEF UniqueIds
<1>7. ASSUME NEW b \in DOMAIN tu.blocks, NEW c \in DOMAIN tu.blocks, IdOf(b) = IdOf(c)
      PROVE  b = c
  <2>1. /\ <<b>> \in DOMAIN usedIds /\ <<c>> \in DOMAIN usedIds
        /\ usedIds[<<b>>] = usedIds[<<c>>]
    <3>1. b \in DOMAIN source.blocks /\ c \in DOMAIN source.blocks
      BY <1>1
    <3>2. QED
      BY <1>4, <1>7, <3>1, Zenon
  <2>2. <<b>> = <<c>>
    BY <1>2, <2>1, Zenon
  <2>3. QED
    BY <1>3, <2>2, Zenon
<1>8. ASSUME NEW b \in DOMAIN tu.blocks
      PROVE  tu.blocks[b].thing.results = <<>>
  <2>1. source.blocks[b].results = <<>>
    BY <1>1 DEF IsStuck
  <2>2. IsMap(tu.blocks[b].thing.results) /\ DOMAIN tu.blocks[b].thing.results = {}
    <3>1. b \in DOMAIN source.blocks /\ DOMAIN source.blocks[b].results = {}
      BY <1>1, <2>1
    <3>2. QED
      BY <3>1, WrittenFacts, Zenon
  <2>3. QED
    BY <2>2 DEF IsMap
<1>9. ASSUME NEW b \in DOMAIN source.blocks, NEW s \in DOMAIN SrcOps(b)
      PROVE  /\ Op(b, s).operator \in DOMAIN context
             /\ \A v \in ToSet(Op(b, s).inputs) : Named(v)
             /\ "unset" \notin Range(Op(b, s).attributes)
  <2>1. /\ SrcOp(b, s).operator \in DOMAIN source.operators
        /\ "unset" \notin Range(SrcOp(b, s).attributes)
    BY <1>1, SourceFacts
  <2>2. PICK known \in {source.operators, <<>>} : context = Inserted(known, [name \in tu.operators |-> 1])
    BY DEF SourceInv
  <2>3. Op(b, s).operator \in DOMAIN context
    <3>1. SrcOp(b, s).operator \in tu.operators
      BY <1>1, <2>1
    <3>2. Op(b, s).operator = SrcOp(b, s).operator
      BY WrittenOperation
    <3>3. QED
      BY <2>2, <3>1, <3>2 DEF Inserted
  <2>4. ASSUME NEW v \in ToSet(Op(b, s).inputs)
        PROVE  Named(v)
    <3> DEFINE src == SrcOp(b, s).inputs
    <3>1. PICK i \in DOMAIN src : v = ValueToProto(src[i], usedIds)
      <4>1. Op(b, s).inputs = [i \in DOMAIN src |-> ValueToProto(src[i], usedIds)]
        BY WrittenOperation
      <4>2. QED
        BY <4>1 DEF ToSet
    <3>2. (src[i] = AnyValue \/ (IsReference(src[i]) /\ InSource(src[i]))) /\ HasId(usedIds, src[i])
      BY WrittenOperation
    <3> HIDE DEF src
    <3>3. CASE src[i] = AnyValue
      BY <3>1, <3>3, ProtoOfValue DEF Named, AnyValue
    <3>4. CASE IsReference(src[i]) /\ InSource(src[i])
      <4>1. /\ v.kind = src[i].kind /\ v.of = usedIds[src[i].of]
            /\ src[i].kind \in {"result", "argument"} /\ src[i] \notin {AnyValue, StoredValue}
        BY <3>1, <3>4, ProtoOfValue DEF Refers, AnyValue, StoredValue
      <4>2. CASE src[i].kind = "argument"
        <5>1. PICK c \in DOMAIN source.blocks : src[i].of = <<c>>
          BY <3>4, <4>1, <4>2 DEF InSource
        <5>2. v.of = IdOf(c) /\ c \in DOMAIN tu.blocks
          BY <1>1, <1>4, <4>1, <5>1
        <5>3. QED
          BY <4>1, <4>2, <5>2 DEF Named
      <4>3. CASE src[i].kind = "result"
        <5>1. PICK c \in DOMAIN source.blocks : \E t \in DOMAIN SrcOps(c) : src[i].of = <<c, t>>
          BY <3>4, <4>1, <4>3 DEF InSource
        <5>2. PICK t \in DOMAIN SrcOps(c) : src[i].of = <<c, t>>
          BY <5>1
        <5>3. v.of = Id(c, t) /\ c \in DOMAIN tu.blocks /\ t \in DOMAIN Ops(c)
          BY <1>1, <1>4, <1>5, <4>1, <5>2
        <5>4. QED
          BY <4>1, <4>3, <5>3 DEF Named
      <4>4. QED
        BY <4>1, <4>2, <4>3
    <3>5. QED
      BY <3>2, <3>3, <3>4
  <2>5. "unset" \notin Range(Op(b, s).attributes)
    BY <2>1, WrittenOperation
  <2>6. QED
    BY <2>3, <2>4, <2>5
<1>10. QED
  BY <1>1, <1>4, <1>6, <1>7, <1>8, <1>9, WellFormedIs

\* An id is the way back to its thing.
LEMMA OriginIs ==
  ASSUME Numbered(usedIds), NEW thing \in DOMAIN usedIds
  PROVE  Origin(usedIds[thing]) = thing
<1>1. \A x, y \in DOMAIN usedIds : usedIds[x] = usedIds[y] => x = y
  BY DEF Numbered, IsInjective
<1>2. \E t \in DOMAIN usedIds : usedIds[t] = usedIds[thing]
  OBVIOUS
<1>3. Origin(usedIds[thing]) \in DOMAIN usedIds /\ usedIds[Origin(usedIds[thing])] = usedIds[thing]
  BY <1>2 DEF Origin
<1>4. QED
  BY <1>1, <1>3

\* A reference that is written leads back to its thing.
LEMMA RecoveredIs ==
  ASSUME Numbered(usedIds), NEW v, v = AnyValue \/ IsReference(v), HasId(usedIds, v)
  PROVE  Recovered(ValueToProto(v, usedIds)) = v
<1>1. CASE v = AnyValue
  <2>1. ValueToProto(v, usedIds) = v /\ ~Refers(v)
    BY <1>1, ProtoOfValue DEF Refers, AnyValue
  <2>2. QED
    BY <2>1 DEF Recovered
<1>2. CASE IsReference(v)
  <2> DEFINE w == ValueToProto(v, usedIds)
  <2>1. /\ Refers(v) /\ IsReference(w) /\ w.kind = v.kind /\ w.index = v.index /\ w.of = usedIds[v.of]
        /\ w = [v EXCEPT !.of = usedIds[v.of]]
    BY <1>2, ProtoOfValue DEF ValueToProto
  <2>2. Refers(w)
    BY <2>1 DEF Refers
  <2>3. Origin(w.of) = v.of
    BY <2>1, OriginIs DEF HasId
  <2> HIDE DEF w
  <2>4. Recovered(w) = [w EXCEPT !.of = v.of]
    BY <2>2, <2>3 DEF Recovered
  <2>5. v = [kind |-> v.kind, of |-> v.of, index |-> v.index]
    BY <1>2 DEF IsReference, OperationResult, BlockArgument
  <2>6. w = [kind |-> v.kind, of |-> w.of, index |-> v.index]
    BY <2>1 DEF IsReference, OperationResult, BlockArgument
  <2>7. [w EXCEPT !.of = v.of] = [kind |-> v.kind, of |-> v.of, index |-> v.index]
    BY <2>6
  <2>8. QED
    BY <2>4, <2>5, <2>7 DEF w
<1>3. QED
  BY <1>1, <1>2

\* What is made of a block of the module is that block again.
LEMMA RecoveredBlock ==
  ASSUME Inv, SourceInv, FromSource, pc = "done", NEW b \in DOMAIN source.blocks,
         source.blocks[b].results = <<>>
  PROVE  LET made == builders[IdOf(b)].operations
         IN Block([s \in DOMAIN made |->
               LET op == operations[made[s]]
               IN Operation(op.operator, [i \in DOMAIN op.inputs |-> Recovered(op.inputs[i])],
                            op.attributes)], <<>>) = source.blocks[b]
<1> DEFINE made == builders[IdOf(b)].operations
           Again(op) == Operation(op.operator, [i \in DOMAIN op.inputs |-> Recovered(op.inputs[i])], op.attributes)
<1>1. source \in Sources /\ Numbered(usedIds) /\ b \in DOMAIN tu.blocks /\ DOMAIN Ops(b) = DOMAIN SrcOps(b)
  BY WrittenFacts
<1>2. made = [s \in DOMAIN Ops(b) |-> Id(b, s)]
  BY <1>1, DoneFacts
<1> HIDE DEF made
<1>3. DOMAIN made = DOMAIN SrcOps(b) /\ \A s \in DOMAIN SrcOps(b) : made[s] = Id(b, s)
  BY <1>1, <1>2
<1>4. ASSUME NEW s \in DOMAIN SrcOps(b)
      PROVE  Again(operations[made[s]]) = SrcOps(b)[s]
  <2> DEFINE src == SrcOp(b, s)
             op == operations[made[s]]
  <2>1. op.operator = Op(b, s).operator /\ op.inputs = Op(b, s).inputs /\ op.attributes = Op(b, s).attributes
    <3>1. operations[Id(b, s)] = [operator |-> Op(b, s).operator, inputs |-> Op(b, s).inputs,
                                  attributes |-> Op(b, s).attributes, parent |-> IdOf(b)]
      BY <1>1, DoneFacts
    <3>2. QED
      BY <1>3, <3>1
  <2>2. /\ op.operator = src.operator /\ op.attributes = src.attributes
        /\ op.inputs = [i \in DOMAIN src.inputs |-> ValueToProto(src.inputs[i], usedIds)]
    BY <2>1, WrittenOperation
  <2>3. \A i \in DOMAIN src.inputs : Recovered(ValueToProto(src.inputs[i], usedIds)) = src.inputs[i]
    BY <1>1, WrittenOperation, RecoveredIs
  <2>4. /\ SrcOp(b, s) = Operation(src.operator, src.inputs, src.attributes)
        /\ Len(src.inputs) \in Nat /\ DOMAIN src.inputs = 1 .. Len(src.inputs) /\ IsSequence(src.inputs)
    BY <1>1, SourceFacts
  <2> HIDE DEF op, src
  <2>5. src.inputs = [i \in DOMAIN src.inputs |-> src.inputs[i]]
    BY <2>4 DEF IsSequence
  <2>6. [i \in DOMAIN op.inputs |-> Recovered(op.inputs[i])] = src.inputs
    <3>1. /\ DOMAIN op.inputs = DOMAIN src.inputs
          /\ \A i \in DOMAIN src.inputs : op.inputs[i] = ValueToProto(src.inputs[i], usedIds)
      BY <2>2, Zenon
    <3>2. \A i \in DOMAIN src.inputs : Recovered(op.inputs[i]) = src.inputs[i]
      BY <2>3, <3>1, Zenon
    <3>3. QED
      BY <2>5, <3>1, <3>2
  <2>7. Again(op) = Operation(src.operator, src.inputs, src.attributes)
    BY <2>2, <2>6
  <2>8. QED
    BY <2>4, <2>7 DEF op, SrcOp
<1>5. SrcOps(b) = [s \in DOMAIN SrcOps(b) |-> SrcOps(b)[s]]
  BY <1>1, SourceFacts DEF IsSequence
<1>6. [s \in DOMAIN made |-> Again(operations[made[s]])] = SrcOps(b)
  BY <1>3, <1>4, <1>5
<1>7. source.blocks[b] = Block(SrcOps(b), <<>>)
  BY <1>1, SourceFacts
<1>8. QED
  BY <1>6, <1>7 DEF made

\* A module without a stored value and a block's result is read again.
LEMMA ReadAgain ==
  ASSUME SysInv, FromSource, pc \in {"done", "died"}, ~ \E b \in DOMAIN source.blocks : IsStuck(source.blocks[b])
  PROVE  /\ pc = "done" /\ IsInjective(usedIds)
         /\ [b \in DOMAIN module |->
               LET made == builders[module[b]].operations
               IN Block([s \in DOMAIN made |->
                    LET op == operations[made[s]]
                    IN Operation(op.operator, [i \in DOMAIN op.inputs |-> Recovered(op.inputs[i])],
                                 op.attributes)], <<>>)] = source.blocks
         /\ \A o \in DOMAIN source.operators : context[o] \in {source.operators[o], 1}
<1> DEFINE Again(made) ==
             Block([s \in DOMAIN made |->
                    LET op == operations[made[s]]
                    IN Operation(op.operator, [i \in DOMAIN op.inputs |-> Recovered(op.inputs[i])],
                                 op.attributes)], <<>>)
<1>1. Inv /\ SourceInv
  BY DEF SysInv
<1>2. pc = "done"
  <2>1. WellFormed
    BY <1>1, WrittenIsWellFormed
  <2>2. QED
    BY <1>1, <2>1 DEF Inv, VerdictInv
<1>3. /\ source \in Sources /\ Numbered(usedIds)
      /\ DOMAIN tu.blocks = DOMAIN source.blocks /\ tu.operators = DOMAIN source.operators
  BY <1>1, <1>2, WrittenFacts
<1>4. module = [b \in DOMAIN source.blocks |-> IdOf(b)]
  BY <1>1, <1>2, <1>3, DoneFacts
<1>5. ASSUME NEW b \in DOMAIN source.blocks
      PROVE  Again(builders[IdOf(b)].operations) = source.blocks[b]
  <2>1. source.blocks[b].results = <<>>
    BY DEF IsStuck
  <2>2. QED
    BY <1>1, <1>2, <2>1, RecoveredBlock
<1> HIDE DEF Again
<1>6. [b \in DOMAIN module |-> Again(builders[module[b]].operations)] = source.blocks
  <2>1. source.blocks = [b \in DOMAIN source.blocks |-> source.blocks[b]]
    BY <1>3, SourceFacts DEF IsSequence
  <2>2. DOMAIN module = DOMAIN source.blocks /\ \A b \in DOMAIN source.blocks : module[b] = IdOf(b)
    BY <1>4
  <2>3. QED
    BY <1>5, <2>1, <2>2
<1>7. ASSUME NEW o \in DOMAIN source.operators
      PROVE  context[o] \in {source.operators[o], 1}
  <2>1. PICK c \in {source.operators, <<>>} : context = Inserted(c, [name \in tu.operators |-> 1])
    BY <1>1, <1>2 DEF SourceInv
  <2>2. QED
    BY <1>3, <2>1 DEF Inserted
<1>8. QED
  BY <1>2, <1>3, <1>6, <1>7 DEF Again, Numbered

\* What is in the way of a round trip stops it, and nothing else does.
LEMMA RoundTripIs == SysInv => RoundTripKeepsDataFlow
<1> SUFFICES ASSUME SysInv, pc \in {"done", "died", "diedWriting"}, source # NoSource
             PROVE  IF \E b \in DOMAIN source.blocks : IsStuck(source.blocks[b]) THEN pc # "done" ELSE
                    /\ pc = "done" /\ IsInjective(usedIds)
                    /\ [b \in DOMAIN module |->
                          LET made == builders[module[b]].operations
                          IN Block([s \in DOMAIN made |->
                               LET op == operations[made[s]]
                               IN Operation(op.operator, [i \in DOMAIN op.inputs |-> Recovered(op.inputs[i])],
                                            op.attributes)], <<>>)] = source.blocks
                    /\ \A o \in DOMAIN source.operators : context[o] \in {source.operators[o], 1}
  BY DEF RoundTripKeepsDataFlow
<1>1. Inv /\ SourceInv /\ StuckInv
  BY DEF SysInv
<1>2. CASE pc = "diedWriting"
  BY <1>1, <1>2 DEF StuckInv
<1>3. CASE pc \in {"done", "died"}
  <2>1. FromSource
    BY <1>3 DEF FromSource
  <2>2. CASE \E b \in DOMAIN source.blocks : IsStuck(source.blocks[b])
    <3> SUFFICES ASSUME pc = "done" PROVE FALSE
      BY <2>2
    <3>1. PICK b \in DOMAIN source.blocks : IsStuck(source.blocks[b])
      BY <2>2
    <3>2. CASE source.blocks[b].results # <<>>
      <4>1. b \in DOMAIN tu.blocks /\ DOMAIN tu.blocks[b].thing.results = DOMAIN source.blocks[b].results
        BY <1>1, <2>1, WrittenFacts
      <4>2. tu.blocks[b].thing.results = <<>>
        <5>1. WellFormed
          BY <1>1, ReadingDiesIs DEF ReadingDiesExactlyOnMalformed
        <5>2. QED
          BY <4>1, <5>1, WellFormedIs
      <4>3. source \in Sources
        BY <1>1, <2>1, WrittenFacts
      <4>4. IsMap(source.blocks[b].results) /\ DOMAIN source.blocks[b].results = {}
        BY <4>1, <4>2, <4>3, SourceFacts
      <4>5. QED
        BY <3>2, <4>4 DEF IsMap
    <3>3. CASE \E op \in ToSet(source.blocks[b].operations) : StoredValue \in ToSet(op.inputs)
      <4>1. PICK s \in DOMAIN SrcOps(b) : StoredValue \in ToSet(SrcOp(b, s).inputs)
        BY <3>3 DEF SrcOp, SrcOps, ToSet
      <4>2. \A v \in ToSet(SrcOp(b, s).inputs) : v # StoredValue
        BY <1>1, <2>1, WrittenFacts
      <4>3. QED
        BY <4>1, <4>2
    <3>4. QED
      BY <3>1, <3>2, <3>3 DEF IsStuck
  <2>3. CASE ~ \E b \in DOMAIN source.blocks : IsStuck(source.blocks[b])
    BY <1>3, <2>1, <2>3, ReadAgain
  <2>4. QED
    BY <2>2, <2>3
<1>4. QED
  BY <1>2, <1>3

\* A module that is written and read again has its data flow
\* (ir_to_proto_test.cc, RoundTripPreservesAllInformation).
THEOREM RoundTripKeepsDataFlowHolds == Spec => []RoundTripKeepsDataFlow
<1>1. SysInv => RoundTripKeepsDataFlow
  BY RoundTripIs
<1>2. QED
  BY <1>1, SysInvHolds, PTL

-----------------------------------------------------------------------------
(* Names. *)

\* The lists of ids, and where they start in the list of all of them.
LEMMA IdListsFacts ==
  ASSUME IsUnit(tu)
  PROVE  /\ Lists(IdLists, Len(tu.blocks))
         /\ \A b \in DOMAIN tu.blocks : Len(IdLists[b]) = Len(Ops(b)) /\ \A s \in DOMAIN Ops(b) : IdLists[b][s] = Id(b, s)
         /\ Offset(IdLists, 1) = 0
         /\ \A b \in 1 .. Len(tu.blocks) + 1 : Offset(IdLists, b) \in Nat
         /\ \A b \in DOMAIN tu.blocks : Offset(IdLists, b + 1) = Offset(IdLists, b) + Len(Ops(b))
<1> DEFINE n == Len(tu.blocks)
<1>1. /\ n \in Nat /\ DOMAIN tu.blocks = 1 .. n
      /\ \A b \in DOMAIN tu.blocks : Len(Ops(b)) \in Nat /\ DOMAIN Ops(b) = 1 .. Len(Ops(b))
  BY UnitFacts
<1> HIDE DEF n
<1>2. ASSUME NEW b \in DOMAIN tu.blocks
      PROVE  /\ IdLists[b] = [s \in 1 .. Len(Ops(b)) |-> Id(b, s)] /\ Len(IdLists[b]) = Len(Ops(b))
             /\ \A s \in DOMAIN Ops(b) : IdLists[b][s] = Id(b, s)
             /\ IdLists[b] = [s \in 1 .. Len(IdLists[b]) |-> IdLists[b][s]]
  <2>1. Len(Ops(b)) \in Nat /\ DOMAIN Ops(b) = 1 .. Len(Ops(b))
    BY <1>1
  <2>2. IdLists[b] = [s \in 1 .. Len(Ops(b)) |-> Id(b, s)]
    BY <2>1 DEF IdLists
  <2>3. Len(IdLists[b]) = Len(Ops(b))
    BY <2>1, <2>2
  <2>4. QED
    BY <2>1, <2>2, <2>3
<1>3. Len(IdLists) = n /\ IdLists = [b \in 1 .. n |-> IdLists[b]]
  BY <1>1 DEF IdLists
<1>4. Lists(IdLists, n)
  BY <1>1, <1>2, <1>3 DEF Lists
<1>5. PICK S : \A m \in 0 .. n : Prefix(IdLists, m) \in Seq(S) /\ (m # 0 => IdLists[m] \in Seq(S))
  BY <1>4, PrefixStep
<1>6. Prefix(IdLists, 0) = <<>> /\ \A m \in 1 .. n : Prefix(IdLists, m) = Prefix(IdLists, m - 1) \o IdLists[m]
  BY <1>4, PrefixStep
<1>7. \A m \in 0 .. n : Len(Prefix(IdLists, m)) \in Nat
  BY <1>5, LenProperties
<1>8. ASSUME NEW b \in 1 .. n PROVE Offset(IdLists, b + 1) = Offset(IdLists, b) + Len(Ops(b))
  <2>1. b - 1 \in 0 .. n /\ b \in 0 .. n /\ b # 0 /\ b + 1 - 1 = b
    BY <1>1
  <2>2. Len(Prefix(IdLists, b)) = Len(Prefix(IdLists, b - 1)) + Len(IdLists[b])
    BY <1>5, <1>6, <2>1, ConcatProperties
  <2>3. QED
    <3>1. Offset(IdLists, b + 1) = Len(Prefix(IdLists, b)) /\ Offset(IdLists, b) = Len(Prefix(IdLists, b - 1))
      <4>1. \A m : Offset(IdLists, m) = Len(Prefix(IdLists, m - 1))
        BY DEF Offset
      <4>2. QED
        BY <2>1, <4>1
    <3>2. Len(IdLists[b]) = Len(Ops(b))
      BY <1>1, <1>2
    <3>3. QED
      BY <2>2, <3>1, <3>2
<1>9. \A b \in 1 .. n + 1 : Offset(IdLists, b) \in Nat
  <2>1. \A b \in 1 .. n + 1 : b - 1 \in 0 .. n
    BY <1>1
  <2>2. QED
    BY <1>7, <2>1 DEF Offset
<1>10. Offset(IdLists, 1) = 0
  <2>1. 1 - 1 = 0
    OBVIOUS
  <2>2. QED
    BY <1>6, <2>1 DEF Offset
<1>11. QED
  BY <1>1, <1>2, <1>4, <1>8, <1>9, <1>10 DEF n

\* The inputs of an operation change no name.
LEMMA NamesAfterFacts ==
  ASSUME IsMap(names), NEW values, NEW N \in Nat, Len(values) = N, DOMAIN values = 1 .. N
  PROVE  IsMap(NamesAfter(values)) /\ Extends(NamesAfter(values), names)
<1> DEFINE T(f) == f = [n \in 0 .. Len(values) |->
                          IF n = 0 THEN names ELSE GetOrCreateName(f[n - 1], values[n])]
           f == CHOOSE f : T(f)
<1>1. NamesAfter(values) = f[N]
  BY DEF NamesAfter
<1>2. ASSUME NEW g PROVE T(g) <=> Chain(N, values, {}, FALSE, names, g)
  <2>1. \A n \in 0 .. N :
          (IF n = 0 THEN names ELSE GetOrCreateName(g[n - 1], values[n])) =
          (IF n = 0 THEN names
           ELSE IF n \in {} THEN g[n - 1]
           ELSE Inserted(g[n - 1], [x \in {values[n]} |->
                IF FALSE THEN Cardinality(DOMAIN g[n - 1]) + 1 ELSE Cardinality(DOMAIN g[n - 1])]))
    BY DEF GetOrCreateName
  <2>2. QED
    BY <2>1 DEF Chain
<1> HIDE DEF T
<1>3. \E g : T(g)
  <2>1. PICK g : Chain(N, values, {}, FALSE, names, g)
    BY ChainExists
  <2>2. QED
    BY <1>2, <2>1
<1>4. T(f)
  BY <1>3, Zenon
<1> HIDE DEF f
<1>5. ChainEnd(N, values, {}, FALSE, names, f[N])
  BY <1>2, <1>4, ChainFacts
<1>6. QED
  BY <1>1, <1>5 DEF ChainEnd

\* More names are no other names.
LEMMA NamesKept ==
  ASSUME NamesInv, Reading, UnitStays, pc' # "preVisit",
         \A b \in DOMAIN tu.blocks : \A s \in DOMAIN Ops(b) : Visited(b, s)' => Visited(b, s),
         UniqueIds => IsMap(names') /\ Extends(names', names)
  PROVE  NamesInv'
<1> SUFFICES ASSUME UniqueIds
             PROVE  /\ IsMap(names)'
                    /\ (\A b \in DOMAIN tu.blocks : \A s \in DOMAIN Ops(b) : Visited(b, s) =>
                         ResultOf(b, s) \in DOMAIN names /\ names[ResultOf(b, s)] = Offset(IdLists, b) + s - 1)'
  BY DEF NamesInv, UnitStays
<1>1. /\ tu' = tu /\ (\A b : Ops(b)' = Ops(b)) /\ (\A b, s : ResultOf(b, s)' = ResultOf(b, s)) /\ IdLists' = IdLists
  BY DEF UnitStays, ResultOf, IdLists
<1>2. IsMap(names') /\ DOMAIN names \subseteq DOMAIN names' /\ \A v \in DOMAIN names : names'[v] = names[v]
  BY DEF Extends
<1>3. ASSUME NEW b \in DOMAIN tu.blocks, NEW s \in DOMAIN Ops(b), Visited(b, s)'
      PROVE  ResultOf(b, s) \in DOMAIN names' /\ names'[ResultOf(b, s)] = Offset(IdLists, b) + s - 1
  <2>1. Visited(b, s)
    BY <1>3
  <2>2. ResultOf(b, s) \in DOMAIN names /\ names[ResultOf(b, s)] = Offset(IdLists, b) + s - 1
    BY <2>1 DEF NamesInv
  <2>3. QED
    BY <1>2, <2>2
<1>4. ASSUME NEW b \in DOMAIN tu'.blocks, NEW s \in DOMAIN Ops(b)', Visited(b, s)'
      PROVE  ResultOf(b, s)' \in DOMAIN names' /\ names'[ResultOf(b, s)'] = Offset(IdLists', b) + s - 1
  <2>1. b \in DOMAIN tu.blocks /\ s \in DOMAIN Ops(b)
    BY <1>1
  <2>2. QED
    BY <1>1, <1>3, <1>4, <2>1
<1>5. IsMap(names)'
  BY <1>2 DEF IsMap
<1>6. QED
  BY <1>4, <1>5

\* The first pass names the results in order.
LEMMA RegisterOperatorsNames ==
  ASSUME Inv, RegisterOperators
  PROVE  NamesInv'
<1>1. /\ pc = "register" /\ pc' = "preVisit" /\ tu' = tu /\ block' = block /\ next' = next /\ names' = names
  BY DEF RegisterOperators, written, built
<1>2. names = <<>> /\ block = 1 /\ next = 1 /\ IsUnit(tu)
  BY <1>1 DEF Inv, UnitInv
<1>3. \A b \in DOMAIN tu.blocks : \A s \in DOMAIN Ops(b) : ~Visited(b, s)'
  <2>1. \A b \in DOMAIN tu.blocks : b \in Nat /\ ~(b < 1) /\ \A s \in DOMAIN Ops(b) : s \in Nat /\ ~(s < 1)
    BY <1>2, UnitFacts
  <2>2. QED
    BY <1>1, <1>2, <2>1 DEF Visited, Before
<1>4. /\ names' = [v \in {} |-> 0] /\ DOMAIN names' = {} /\ IsFiniteSet(DOMAIN names') /\ Cardinality(DOMAIN names') = 0
  <2>1. names' = [v \in {} |-> 0] /\ DOMAIN names' = {}
    BY <1>1, <1>2
  <2>2. QED
    BY <2>1, FS_EmptySet
<1>5. Offset(IdLists, 1) = 0 /\ IdLists' = IdLists
  BY <1>1, <1>2, IdListsFacts DEF IdLists, Ops, Id
<1>6. Cardinality(DOMAIN names') = Offset(IdLists', block') + next' - 1
  BY <1>1, <1>2, <1>4, <1>5
<1>7. IsMap(names')
  BY <1>4 DEF IsMap
<1>8. \A b \in DOMAIN tu'.blocks : \A s \in DOMAIN Ops(b)' : ~Visited(b, s)'
  BY <1>1, <1>3 DEF Ops
<1>9. QED
  BY <1>4, <1>6, <1>7, <1>8 DEF NamesInv, IsMap

\* PreVisit names the result of an operation, with the number of operations
\* before it: no other operation has named it.
LEMMA PreVisitOperationNames ==
  ASSUME Inv, NamesInv, PreVisitOperation
  PROVE  NamesInv'
<1>1. CASE Dies
  <2>1. ~Reading'
    BY <1>1 DEF Dies, Reading, PreVisitOperation, InPass
  <2>2. QED
    BY <2>1 DEF NamesInv
<1>2. CASE ~Dies
  <2>1. /\ InPass("preVisit") /\ AtOperation /\ NextOperation /\ names' = NamesOfOperation(names, OperationId)
    BY <1>2 DEF PreVisitOperation
  <2>2. /\ UnitStays /\ OperationDone /\ pc' = pc /\ block' = block /\ next' = next + 1 /\ pc = "preVisit"
    BY <2>1, OperationStep DEF Passes, InPass
  <2>3. /\ Reading /\ IsUnit(tu) /\ block \in DOMAIN tu.blocks /\ next \in DOMAIN Ops(block)
        /\ OperationId = Id(block, next) /\ next \in Nat \ {0} /\ block \in Nat
        /\ Len(tu.blocks) \in Nat /\ DOMAIN tu.blocks = 1 .. Len(tu.blocks)
    BY <2>1, Here DEF Passes
  <2> SUFFICES ASSUME UniqueIds PROVE NamesInv'
    BY <2>2 DEF NamesInv, UnitStays
  <2> DEFINE v == ResultOf(block, next)
             count == Cardinality(DOMAIN names)
  <2>4. /\ IsMap(names) /\ IsFiniteSet(DOMAIN names) /\ count = Offset(IdLists, block) + next - 1
        /\ \A w \in DOMAIN names :
             \E b \in DOMAIN tu.blocks : \E s \in DOMAIN Ops(b) : Visited(b, s) /\ w = ResultOf(b, s)
        /\ \A b \in DOMAIN tu.blocks : \A s \in DOMAIN Ops(b) : Visited(b, s) =>
             ResultOf(b, s) \in DOMAIN names /\ names[ResultOf(b, s)] = Offset(IdLists, b) + s - 1
    BY <2>2, <2>3 DEF NamesInv
  <2>5. ~Visited(block, next)
    BY <2>2, <2>3 DEF Visited, Before
  <2>6. v \notin DOMAIN names
    <3> SUFFICES ASSUME v \in DOMAIN names PROVE FALSE
      OBVIOUS
    <3>1. PICK b \in DOMAIN tu.blocks : \E s \in DOMAIN Ops(b) : Visited(b, s) /\ v = ResultOf(b, s)
      BY <2>4
    <3>2. PICK s \in DOMAIN Ops(b) : Visited(b, s) /\ v = ResultOf(b, s)
      BY <3>1
    <3>3. Id(b, s) = Id(block, next)
      BY <3>2 DEF ResultOf, OperationResult
    <3>4. b = block /\ s = next
      BY <2>3, <3>3, ZenonT(60) DEF UniqueIds
    <3>5. QED
      BY <2>5, <3>2, <3>4
  <2>7. names' = [w \in DOMAIN names \cup {v} |-> IF w \in DOMAIN names THEN names[w] ELSE count]
    BY <2>1, <2>3 DEF NamesOfOperation, GetOrCreateName, Inserted, ResultOf
  <2> HIDE DEF v, count
  <2>8. /\ DOMAIN names' = DOMAIN names \cup {v} /\ names'[v] = count /\ \A w \in DOMAIN names : names'[w] = names[w]
    BY <2>6, <2>7
  <2>9. IsMap(names')
    BY <2>7 DEF IsMap
  <2>10. IsFiniteSet(DOMAIN names') /\ Cardinality(DOMAIN names') = count + 1 /\ count \in Nat
    BY <2>4, <2>6, <2>8, FS_AddElement, FS_CardinalityType DEF count
  <2>11. \A b \in DOMAIN tu.blocks : \A s \in DOMAIN Ops(b) :
           Visited(b, s)' <=> Visited(b, s) \/ (b = block /\ s = next)
    BY <2>2 DEF OperationDone
  <2>12. /\ tu' = tu /\ (\A b : Ops(b)' = Ops(b)) /\ (\A b, s : ResultOf(b, s)' = ResultOf(b, s)) /\ IdLists' = IdLists
    BY <2>2 DEF UnitStays, ResultOf, IdLists
  <2>13. ASSUME NEW b \in DOMAIN tu.blocks, NEW s \in DOMAIN Ops(b), Visited(b, s)'
         PROVE  ResultOf(b, s) \in DOMAIN names' /\ names'[ResultOf(b, s)] = Offset(IdLists, b) + s - 1
    <3>1. CASE Visited(b, s)
      BY <2>4, <2>8, <3>1
    <3>2. CASE b = block /\ s = next
      BY <2>4, <2>8, <3>2 DEF v
    <3>3. QED
      BY <2>11, <2>13, <3>1, <3>2
  <2>14. ASSUME NEW w \in DOMAIN names'
         PROVE  \E b \in DOMAIN tu.blocks : \E s \in DOMAIN Ops(b) : Visited(b, s)' /\ w = ResultOf(b, s)
    <3>1. CASE w = v
      BY <2>3, <2>11, <3>1 DEF v
    <3>2. CASE w \in DOMAIN names
      <4>1. PICK b \in DOMAIN tu.blocks : \E s \in DOMAIN Ops(b) : Visited(b, s) /\ w = ResultOf(b, s)
        BY <2>4, <3>2
      <4>2. PICK s \in DOMAIN Ops(b) : Visited(b, s) /\ w = ResultOf(b, s)
        BY <4>1
      <4>3. QED
        BY <2>11, <4>2
    <3>3. QED
      BY <2>8, <3>1, <3>2
  <2>15. Cardinality(DOMAIN names') = Offset(IdLists', block') + next' - 1
    <3>1. Offset(IdLists, block) \in Nat
      BY <2>3, IdListsFacts
    <3>2. QED
      BY <2>2, <2>3, <2>4, <2>10, <2>12, <3>1
  <2>16. \A b \in DOMAIN tu'.blocks : \A s \in DOMAIN Ops(b)' : Visited(b, s)' =>
           ResultOf(b, s)' \in DOMAIN names' /\ names'[ResultOf(b, s)'] = Offset(IdLists', b) + s - 1
    <3>1. ASSUME NEW b \in DOMAIN tu'.blocks, NEW s \in DOMAIN Ops(b)', Visited(b, s)'
          PROVE  ResultOf(b, s)' \in DOMAIN names' /\ names'[ResultOf(b, s)'] = Offset(IdLists', b) + s - 1
      <4>1. b \in DOMAIN tu.blocks /\ s \in DOMAIN Ops(b)
        BY <2>12
      <4>2. QED
        BY <2>12, <2>13, <3>1, <4>1
    <3>2. QED
      BY <3>1, Zenon
  <2>17. \A w \in DOMAIN names' :
           \E b \in DOMAIN tu'.blocks : \E s \in DOMAIN Ops(b)' : Visited(b, s)' /\ w = ResultOf(b, s)'
    <3>1. ASSUME NEW w \in DOMAIN names'
          PROVE  \E b \in DOMAIN tu'.blocks : \E s \in DOMAIN Ops(b)' : Visited(b, s)' /\ w = ResultOf(b, s)'
      <4>1. PICK b \in DOMAIN tu.blocks : \E s \in DOMAIN Ops(b) : Visited(b, s)' /\ w = ResultOf(b, s)
        BY <2>14
      <4>2. PICK s \in DOMAIN Ops(b) : Visited(b, s)' /\ w = ResultOf(b, s)
        BY <4>1
      <4>3. b \in DOMAIN tu'.blocks /\ s \in DOMAIN Ops(b)' /\ w = ResultOf(b, s)'
        BY <2>12, <4>2
      <4>4. QED
        BY <4>2, <4>3
    <3>2. QED
      BY <3>1, Zenon
  <2>18. QED
    BY <2>9, <2>10, <2>15, <2>16, <2>17 DEF NamesInv, IsMap
<1>3. QED
  BY <1>1, <1>2

\* The next block starts where this one ends.
LEMMA PreVisitBlockNames ==
  ASSUME Inv, NamesInv, PreVisitBlock
  PROVE  NamesInv'
<1>1. CASE Dies
  <2>1. ~Reading'
    BY <1>1 DEF Dies, Reading, PreVisitBlock, InPass
  <2>2. QED
    BY <2>1 DEF NamesInv
<1>2. CASE ~Dies
  <2>1. InPass("preVisit") /\ ~AtOperation /\ NextBlock /\ names' = names
    BY <1>2 DEF PreVisitBlock
  <2>2. /\ UnitStays /\ SameOperations /\ pc' = pc /\ block' = block + 1 /\ next' = 1 /\ pc = "preVisit"
        /\ next = Len(Ops(block)) + 1
    BY <2>1, BlockStep DEF Passes, InPass
  <2>3. Reading /\ IsUnit(tu) /\ block \in DOMAIN tu.blocks /\ Len(Ops(block)) \in Nat
        /\ Len(tu.blocks) \in Nat /\ DOMAIN tu.blocks = 1 .. Len(tu.blocks)
    BY <2>1, Here DEF Passes
  <2> SUFFICES ASSUME UniqueIds PROVE NamesInv'
    BY <2>2 DEF NamesInv, UnitStays
  <2>4. /\ tu' = tu /\ (\A b : Ops(b)' = Ops(b)) /\ (\A b, s : ResultOf(b, s)' = ResultOf(b, s)) /\ IdLists' = IdLists
        /\ \A b \in DOMAIN tu.blocks : \A s \in DOMAIN Ops(b) : Visited(b, s)' <=> Visited(b, s)
    BY <2>2 DEF UnitStays, ResultOf, IdLists, SameOperations
  <2>5. /\ IsMap(names) /\ IsFiniteSet(DOMAIN names) /\ Cardinality(DOMAIN names) = Offset(IdLists, block) + next - 1
        /\ \A w \in DOMAIN names :
             \E b \in DOMAIN tu.blocks : \E s \in DOMAIN Ops(b) : Visited(b, s) /\ w = ResultOf(b, s)
        /\ \A b \in DOMAIN tu.blocks : \A s \in DOMAIN Ops(b) : Visited(b, s) =>
             ResultOf(b, s) \in DOMAIN names /\ names[ResultOf(b, s)] = Offset(IdLists, b) + s - 1
    BY <2>2, <2>3 DEF NamesInv
  <2>6. Cardinality(DOMAIN names') = Offset(IdLists', block') + next' - 1
    <3>1. /\ Offset(IdLists, block) \in Nat
          /\ Offset(IdLists, block + 1) = Offset(IdLists, block) + Len(Ops(block))
      BY <2>3, IdListsFacts
    <3>2. QED
      BY <2>1, <2>2, <2>3, <2>4, <2>5, <3>1
  <2>7. \A b \in DOMAIN tu'.blocks : \A s \in DOMAIN Ops(b)' : Visited(b, s)' =>
          ResultOf(b, s)' \in DOMAIN names' /\ names'[ResultOf(b, s)'] = Offset(IdLists', b) + s - 1
    <3>1. ASSUME NEW b \in DOMAIN tu'.blocks, NEW s \in DOMAIN Ops(b)', Visited(b, s)'
          PROVE  ResultOf(b, s)' \in DOMAIN names' /\ names'[ResultOf(b, s)'] = Offset(IdLists', b) + s - 1
      <4>1. b \in DOMAIN tu.blocks /\ s \in DOMAIN Ops(b)
        BY <2>4
      <4>2. Visited(b, s)
        BY <2>4, <3>1, <4>1
      <4>3. QED
        BY <2>1, <2>4, <2>5, <4>1, <4>2
    <3>2. QED
      BY <3>1, Zenon
  <2>8. \A w \in DOMAIN names' :
          \E b \in DOMAIN tu'.blocks : \E s \in DOMAIN Ops(b)' : Visited(b, s)' /\ w = ResultOf(b, s)'
    <3>1. ASSUME NEW w \in DOMAIN names'
          PROVE  \E b \in DOMAIN tu'.blocks : \E s \in DOMAIN Ops(b)' : Visited(b, s)' /\ w = ResultOf(b, s)'
      <4>1. PICK b \in DOMAIN tu.blocks : \E s \in DOMAIN Ops(b) : Visited(b, s) /\ w = ResultOf(b, s)
        BY <2>1, <2>5
      <4>2. PICK s \in DOMAIN Ops(b) : Visited(b, s) /\ w = ResultOf(b, s)
        BY <4>1
      <4>3. b \in DOMAIN tu'.blocks /\ s \in DOMAIN Ops(b)' /\ w = ResultOf(b, s)' /\ Visited(b, s)'
        BY <2>4, <4>2
      <4>4. QED
        BY <4>3
    <3>2. QED
      BY <3>1, Zenon
  <2>9. IsMap(names') /\ IsFiniteSet(DOMAIN names')
    BY <2>1, <2>5
  <2>10. QED
    BY <2>6, <2>7, <2>8, <2>9 DEF NamesInv, IsMap
<1>3. QED
  BY <1>1, <1>2

\* Names that stay are the same names.
LEMMA SameNames == ASSUME IsMap(names), names' = names PROVE IsMap(names') /\ Extends(names', names)
BY DEF Extends

\* The second pass names the other inputs, the third names nothing.
LEMMA LaterNames ==
  ASSUME Inv, NamesInv,
         \/ NextPass("preVisit", "toIR") \/ NextPass("toIR", "postVisit") \/ Convert
         \/ ToIROperation \/ ToIRBlock \/ PostVisitOperation \/ PostVisitBlock
  PROVE  NamesInv'
<1>1. CASE pc' \in {"died", "diedWriting"}
  BY <1>1 DEF NamesInv, Reading
<1>2. CASE pc' \notin {"died", "diedWriting"}
  <2>1. ~Dies
    BY <1>2 DEF Dies
  <2>2. UniqueIds => IsMap(names)
    <3>1. Reading
      BY DEF NextPass, Convert, ToIROperation, ToIRBlock, PostVisitOperation, PostVisitBlock, InPass, Reading
    <3>2. QED
      BY <3>1 DEF NamesInv
  <2>3. CASE NextPass("preVisit", "toIR") \/ NextPass("toIR", "postVisit") \/ Convert
    <3>1. /\ pc \in Passes /\ block > Len(tu.blocks) /\ tu' = tu /\ context' = context /\ names' = names
          /\ pc' # "preVisit"
      BY <1>2, <2>3 DEF NextPass, Convert, Passes, written, built
    <3>2. /\ Reading /\ \A b \in DOMAIN tu.blocks : \A s \in DOMAIN Ops(b) : Before(b, s)
      BY <3>1, PassDone
    <3>3. \A b \in DOMAIN tu.blocks : \A s \in DOMAIN Ops(b) : Visited(b, s)
      BY <3>1, <3>2 DEF Visited, Passes
    <3>4. UnitStays
      BY <3>1, SameUnit
    <3>5. UniqueIds => IsMap(names') /\ Extends(names', names)
      BY <2>2, <3>1, SameNames
    <3>6. QED
      BY <3>1, <3>2, <3>3, <3>4, <3>5, NamesKept
  <2>4. ASSUME pc \in {"toIR", "postVisit"}, tu' = tu, context' = context,
               UniqueIds => IsMap(names') /\ Extends(names', names), pc' = pc
        PROVE  NamesInv'
    <3>1. Reading /\ pc' # "preVisit" /\ \A b \in DOMAIN tu.blocks : \A s \in DOMAIN Ops(b) : Visited(b, s)
      BY <2>4 DEF Reading, Visited
    <3>2. UnitStays
      BY <2>4, SameUnit
    <3>3. QED
      BY <2>4, <3>1, <3>2, NamesKept
  <2>5. CASE ToIRBlock \/ PostVisitOperation \/ PostVisitBlock
    <3>1. pc \in {"toIR", "postVisit"} /\ tu' = tu /\ context' = context /\ names' = names /\ pc' = pc
      BY <2>1, <2>5 DEF ToIRBlock, PostVisitOperation, PostVisitBlock, InPass, NextOperation, NextBlock, written, built
    <3>2. UniqueIds => IsMap(names') /\ Extends(names', names)
      BY <2>2, <3>1, SameNames
    <3>3. QED
      BY <2>4, <3>1, <3>2
  <2>6. CASE ToIROperation
    <3>1. /\ InPass("toIR") /\ AtOperation /\ pc = "toIR" /\ tu' = tu /\ context' = context
          /\ names' = NamesAfter(OperationProto.inputs) /\ pc' = pc
      BY <2>1, <2>6 DEF ToIROperation, InPass, NextOperation, written
    <3>2. /\ IsUnit(tu) /\ block \in DOMAIN tu.blocks /\ next \in DOMAIN Ops(block)
          /\ OperationProto = Op(block, next)
      BY <3>1, Here DEF Passes
    <3>3. IsSequence(Op(block, next).inputs)
      BY <3>2, UnitFacts DEF IsOperation
    <3>4. Len(Op(block, next).inputs) \in Nat /\ DOMAIN Op(block, next).inputs = 1 .. Len(Op(block, next).inputs)
      BY <3>3 DEF IsSequence
    <3>5. UniqueIds => IsMap(names') /\ Extends(names', names)
      BY <2>2, <3>1, <3>2, <3>4, NamesAfterFacts
    <3>6. QED
      BY <2>4, <3>1, <3>5
  <2>7. QED
    BY <2>3, <2>5, <2>6
<1>3. QED
  BY <1>1, <1>2

\* Every step keeps what is known of the names.
LEMMA NextNames ==
  ASSUME Inv, NamesInv, [Next]_vars
  PROVE  NamesInv'
<1>1. CASE OperationToProto \/ BlockToProto \/ StartReading
  <2>1. ~Reading'
    BY <1>1 DEF OperationToProto, BlockToProto, StartReading, Dies, Reading
  <2>2. QED
    BY <2>1 DEF NamesInv
<1>2. CASE RegisterOperators
  BY <1>2, RegisterOperatorsNames
<1>3. CASE PreVisitOperation \/ PreVisitBlock
  BY <1>3, PreVisitOperationNames, PreVisitBlockNames
<1>4. CASE \/ NextPass("preVisit", "toIR") \/ NextPass("toIR", "postVisit") \/ Convert
           \/ ToIROperation \/ ToIRBlock \/ PostVisitOperation \/ PostVisitBlock
  BY <1>4, LaterNames
<1>5. CASE UNCHANGED vars
  <2>1. /\ tu' = tu /\ names' = names /\ pc' = pc /\ block' = block /\ next' = next /\ context' = context
    BY <1>5 DEF vars, written, built
  <2>2. /\ UniqueIds' = UniqueIds /\ Reading' = Reading /\ IdLists' = IdLists
        /\ (\A b : Ops(b)' = Ops(b)) /\ (\A b, s : ResultOf(b, s)' = ResultOf(b, s))
        /\ (\A b, s : Visited(b, s)' = Visited(b, s))
    BY <2>1 DEF UniqueIds, Reading, IdLists, Ops, Id, ResultOf, Visited, Before
  <2>3. QED
    BY <2>1, <2>2 DEF NamesInv, IsMap
<1>6. QED
  BY <1>1, <1>2, <1>3, <1>4, <1>5 DEF Next

\* The list of all operations has each of them where its name says.
LEMMA NamesInOrder ==
  ASSUME Inv, NamesInv
  PROVE  ResultsNamedInOrder
<1> DEFINE ids == FlattenSeq([b \in DOMAIN module |-> builders[module[b]].operations])
<1> SUFFICES ASSUME pc = "done", NEW k \in DOMAIN ids
             PROVE  OperationResult(ids[k], 0) \in DOMAIN names /\ names[OperationResult(ids[k], 0)] = k - 1
  BY DEF ResultsNamedInOrder
<1>1. /\ IsUnit(tu) /\ module = [b \in DOMAIN tu.blocks |-> IdOf(b)]
      /\ \A b \in DOMAIN tu.blocks : builders[IdOf(b)].operations = [s \in DOMAIN Ops(b) |-> Id(b, s)]
  BY DoneFacts
<1>2. [b \in DOMAIN module |-> builders[module[b]].operations] = IdLists
  BY <1>1 DEF IdLists
<1>3. ids = FlattenSeq(IdLists)
  BY <1>2
<1> HIDE DEF ids
<1>4. /\ Placed(IdLists, Len(tu.blocks)) /\ Len(tu.blocks) \in Nat /\ DOMAIN tu.blocks = 1 .. Len(tu.blocks)
      /\ \A b \in DOMAIN tu.blocks : Len(IdLists[b]) = Len(Ops(b)) /\ DOMAIN Ops(b) = 1 .. Len(Ops(b))
      /\ \A b \in DOMAIN tu.blocks : \A s \in DOMAIN Ops(b) : IdLists[b][s] = Id(b, s)
  BY <1>1, IdListsFacts, Places, UnitFacts
<1>5. k \in 1 .. Len(FlattenSeq(IdLists))
  <2>1. DOMAIN ids = 1 .. Len(FlattenSeq(IdLists))
    BY <1>3, <1>4 DEF Placed
  <2>2. QED
    BY <2>1
<1>6. PICK b \in 1 .. Len(tu.blocks) : \E s \in 1 .. Len(IdLists[b]) : k = Offset(IdLists, b) + s
  BY <1>4, <1>5, Zenon DEF Placed
<1>7. PICK s \in 1 .. Len(IdLists[b]) : k = Offset(IdLists, b) + s
  BY <1>6
<1>8. b \in DOMAIN tu.blocks /\ s \in DOMAIN Ops(b)
  BY <1>4, <1>6, <1>7
<1>9. ids[k] = Id(b, s)
  <2>1. FlattenSeq(IdLists)[Offset(IdLists, b) + s] = IdLists[b][s]
    BY <1>4, <1>6, <1>7, Zenon DEF Placed
  <2>2. QED
    BY <1>3, <1>4, <1>7, <1>8, <2>1, Zenon
<1>10. UniqueIds
  <2>1. WellFormed
    BY ReadingDiesIs DEF ReadingDiesExactlyOnMalformed
  <2>2. QED
    BY <2>1, WellFormedIs
<1>11. ResultOf(b, s) \in DOMAIN names /\ names[ResultOf(b, s)] = Offset(IdLists, b) + s - 1
  BY <1>8, <1>10 DEF NamesInv, Reading, Visited
<1>12. QED
  <2>1. OperationResult(ids[k], 0) = ResultOf(b, s)
    BY <1>9, Zenon DEF ResultOf
  <2>2. k - 1 = Offset(IdLists, b) + s - 1
    <3>1. Offset(IdLists, b) \in Nat /\ s \in Nat
      BY <1>4, <1>6, <1>7, <1>8 DEF Placed
    <3>2. QED
      BY <1>7, <3>1
  <2>3. QED
    BY <1>11, <2>1, <2>2, Zenon

\* The names of results at every position of the passes.
THEOREM NamesInvHolds == Spec => []NamesInv
<1>1. Init => NamesInv
  BY DEF Init, NamesInv, Reading
<1>2. SysInv /\ NamesInv /\ [Next]_vars => NamesInv'
  BY NextNames DEF SysInv
<1>3. QED
  BY <1>1, <1>2, SysInvHolds, PTL DEF Spec

\* The results that are returned are numbered in the order of the operations.
THEOREM ResultsNamedInOrderHolds == Spec => []ResultsNamedInOrder
<1>1. SysInv /\ NamesInv => ResultsNamedInOrder
  BY NamesInOrder DEF SysInv
<1>2. QED
  BY <1>1, SysInvHolds, NamesInvHolds, PTL
=============================================================================
