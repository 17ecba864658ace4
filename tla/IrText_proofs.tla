---------------------------- MODULE IrText_proofs ----------------------------
(***************************************************************************)
(* Proofs about IrText, for every set of programs.                         *)
(*                                                                         *)
(* Inv is the inductive invariant of the parser: it says of each position  *)
(* of the two loops of visitBlock what the operators, the temporaries, the *)
(* operations and the module hold, in terms of the program alone.  It      *)
(* gives RefusesExactlyMalformed and ModuleHasMeaning.                     *)
(*                                                                         *)
(* WInv adds what the names and the output hold while a client writes.     *)
(* With it, what has been written is the module in writing (Text) with one *)
(* table of names that separates the results; WrittenModule says once what *)
(* such a text means, and is used for the blocks (PrintedTextRoundTrips)   *)
(* and for the list of all operations (FactsKeepDataFlow).                 *)
(***************************************************************************)
EXTENDS IrText, FiniteRecursion, SequenceTheorems, FiniteSetTheorems

Parsing == pc \in {"collect", "resolve"}

\* How many statements of block b the first loop has gone through.
CollectedTo(b) ==
  IF b < block THEN Len(program[b])
  ELSE IF b # block THEN 0
  ELSE IF pc = "collect" THEN next - 1 ELSE Len(program[b])

PositionInv ==
  /\ IsProgram(program) /\ block \in Nat \ {0} /\ next \in Nat \ {0}
  /\ pc \in {"collect", "resolve", "write", "died"}
  /\ pc = "collect" => block <= Len(program) + 1
  /\ pc = "resolve" => block <= Len(program)
  /\ Parsing /\ block <= Len(program) => next <= Len(program[block]) + 1
  /\ pc = "collect" /\ block > Len(program) => next = 1

OperatorsInv ==
  Parsing =>
    /\ \A b \in DOMAIN program : \A s \in 1 .. CollectedTo(b) :
         /\ IsInjective(program[b][s].attributes)
         /\ program[b][s].operator \in DOMAIN operators
         /\ operators[program[b][s].operator] = Len(program[b][s].results)
    /\ \A o \in DOMAIN operators :
         \E b \in DOMAIN program : \E s \in 1 .. CollectedTo(b) : program[b][s].operator = o

TemporariesInv ==
  Parsing /\ block <= Len(program) =>
    /\ \A s \in 1 .. CollectedTo(block) : \A i \in DOMAIN program[block][s].results :
         /\ program[block][s].results[i] \in DOMAIN temporaries
         /\ temporaries[program[block][s].results[i]] = OperationResult(block, s, i)
    /\ \A name \in DOMAIN temporaries :
         \E s \in 1 .. CollectedTo(block) : \E i \in DOMAIN program[block][s].results :
           program[block][s].results[i] = name

Resolvable(text, b, s) ==
  ToSet(text[b][s].inputs) \subseteq DefinedNames(text, b) \cup {AnyValue}

Unambiguous(text, b) == \A d, e \in Definitions(text, b) : d[1] = e[1] => d = e

BlocksInv ==
  Parsing =>
    /\ module = [b \in 1 .. block - 1 |-> Meaning(program)[b]]
    /\ \A b \in 1 .. block - 1 :
         Unambiguous(program, b) /\ \A s \in DOMAIN program[b] : Resolvable(program, b, s)

Unresolved(st) ==
  [operator |-> st.operator, outputs |-> Len(st.results),
   attributes |-> ToSet(st.attributes), inputs |-> <<>>]

Resolved(s) == pc = "resolve" /\ s < next

OperationsInv ==
  Parsing =>
    /\ operations = [s \in 1 .. CollectedTo(block) |->
         IF Resolved(s) THEN Meaning(program)[block][s] ELSE Unresolved(program[block][s])]
    /\ \A s \in 1 .. CollectedTo(block) : Resolved(s) => Resolvable(program, block, s)

VerdictInv ==
  /\ pc = "died" => ~WellFormed(program)
  /\ pc = "write" => WellFormed(program) /\ module = Meaning(program)

Inv == /\ PositionInv /\ OperatorsInv /\ TemporariesInv
       /\ BlocksInv /\ OperationsInv /\ VerdictInv

-----------------------------------------------------------------------------
\* What a program is made of: its blocks, statements, results and inputs are
\* lists.
LEMMA ProgramFacts ==
  ASSUME NEW text, IsProgram(text)
  PROVE  /\ Len(text) \in Nat /\ DOMAIN text = 1 .. Len(text)
         /\ \A b \in DOMAIN text :
              /\ Len(text[b]) \in Nat /\ DOMAIN text[b] = 1 .. Len(text[b])
              /\ \A s \in DOMAIN text[b] :
                   /\ text[b][s] = Statement(text[b][s].results, text[b][s].operator,
                                             text[b][s].attributes, text[b][s].inputs)
                   /\ Len(text[b][s].results) \in Nat
                   /\ DOMAIN text[b][s].results = 1 .. Len(text[b][s].results)
                   /\ AnyValue \notin ToSet(text[b][s].results)
                   /\ text[b][s].attributes \in Seq(Nat)
                   /\ Len(text[b][s].inputs) \in Nat
                   /\ DOMAIN text[b][s].inputs = 1 .. Len(text[b][s].inputs)
<1>1. \A q : IsSequence(q) => Len(q) \in Nat /\ DOMAIN q = 1 .. Len(q)
  BY DEF IsSequence
<1>2. QED
  BY <1>1 DEF IsProgram

\* A definition is the result of a statement, with its name.
LEMMA DefinitionIn ==
  ASSUME NEW text, NEW b
  PROVE  \A d : d \in Definitions(text, b) <=>
           \E s \in DOMAIN text[b] : \E i \in DOMAIN text[b][s].results :
             d = <<text[b][s].results[i], OperationResult(b, s, i)>>
BY DEF Definitions

\* The name of a result is defined, and a defined name is that of a result.
LEMMA DefinedName ==
  ASSUME NEW text, NEW b
  PROVE  \A name : name \in DefinedNames(text, b) <=>
           \E s \in DOMAIN text[b] : \E i \in DOMAIN text[b][s].results : text[b][s].results[i] = name
<1> DEFINE Def(s, i) == <<text[b][s].results[i], OperationResult(b, s, i)>>
<1>1. \A s, i : Def(s, i)[1] = text[b][s].results[i]
  OBVIOUS
<1>2. \A name : name \in DefinedNames(text, b) <=> \E d \in Definitions(text, b) : d[1] = name
  BY DEF DefinedNames
<1>3. \A d : d \in Definitions(text, b) <=>
        \E s \in DOMAIN text[b] : \E i \in DOMAIN text[b][s].results : d = Def(s, i)
  BY DefinitionIn
<1> HIDE DEF Def
<1>4. ASSUME NEW name, name \in DefinedNames(text, b)
      PROVE  \E s \in DOMAIN text[b] : \E i \in DOMAIN text[b][s].results : text[b][s].results[i] = name
  <2>1. PICK d \in Definitions(text, b) : d[1] = name
    BY <1>2, <1>4
  <2>2. PICK s \in DOMAIN text[b] : \E i \in DOMAIN text[b][s].results : d = Def(s, i)
    BY <1>3
  <2>3. QED
    BY <1>1, <2>1, <2>2
<1>5. ASSUME NEW s \in DOMAIN text[b], NEW i \in DOMAIN text[b][s].results
      PROVE  text[b][s].results[i] \in DefinedNames(text, b)
  BY <1>1, <1>2, <1>3
<1>6. QED
  BY <1>4, <1>5

\* The statements of a program are those of its blocks.
LEMMA StatementIn ==
  ASSUME NEW text
  PROVE  \A st : st \in Statements(text) <=>
           \E b \in DOMAIN text : \E s \in DOMAIN text[b] : st = text[b][s]
BY DEF Statements, ToSet

\* WellFormed, said of positions.
LEMMA WellFormedAt ==
  ASSUME NEW text
  PROVE  WellFormed(text) <=>
    /\ \A b \in DOMAIN text : \A s \in DOMAIN text[b] : IsInjective(text[b][s].attributes)
    /\ \A b, c \in DOMAIN text : \A s \in DOMAIN text[b] : \A t \in DOMAIN text[c] :
         text[b][s].operator = text[c][t].operator =>
           Len(text[b][s].results) = Len(text[c][t].results)
    /\ \A b \in DOMAIN text :
         Unambiguous(text, b) /\ \A s \in DOMAIN text[b] : Resolvable(text, b, s)
<1>1. (\A st \in Statements(text) : IsInjective(st.attributes)) <=>
      \A b \in DOMAIN text : \A s \in DOMAIN text[b] : IsInjective(text[b][s].attributes)
  BY StatementIn
<1>2. (\A st, other \in Statements(text) :
         st.operator = other.operator => Len(st.results) = Len(other.results)) <=>
      \A b, c \in DOMAIN text : \A s \in DOMAIN text[b] : \A t \in DOMAIN text[c] :
         text[b][s].operator = text[c][t].operator =>
           Len(text[b][s].results) = Len(text[c][t].results)
  BY StatementIn
<1>3. (\A b \in DOMAIN text :
         /\ \A d, e \in Definitions(text, b) : d[1] = e[1] => d = e
         /\ \A s \in DOMAIN text[b] :
              ToSet(text[b][s].inputs) \subseteq DefinedNames(text, b) \cup {AnyValue}) <=>
      \A b \in DOMAIN text :
         Unambiguous(text, b) /\ \A s \in DOMAIN text[b] : Resolvable(text, b, s)
  BY Zenon DEF Unambiguous, Resolvable
<1>4. QED
  BY <1>1, <1>2, <1>3, Zenon DEF WellFormed

\* The names of a block are unambiguous exactly when no two of its results
\* share one.
LEMMA UnambiguousAt ==
  ASSUME NEW text, NEW b
  PROVE  Unambiguous(text, b) <=>
    \A s, t \in DOMAIN text[b] : \A i \in DOMAIN text[b][s].results : \A j \in DOMAIN text[b][t].results :
      text[b][s].results[i] = text[b][t].results[j] => s = t /\ i = j
<1> DEFINE Def(s, i) == <<text[b][s].results[i], OperationResult(b, s, i)>>
<1>1. \A s, i : Def(s, i)[1] = text[b][s].results[i]
  OBVIOUS
<1>2. \A s, i, t, j : Def(s, i) = Def(t, j) <=>
        text[b][s].results[i] = text[b][t].results[j] /\ s = t /\ i = j
  BY DEF OperationResult
<1>3. \A d : d \in Definitions(text, b) <=>
        \E s \in DOMAIN text[b] : \E i \in DOMAIN text[b][s].results : d = Def(s, i)
  BY DefinitionIn
<1> HIDE DEF Def
<1>4. ASSUME Unambiguous(text, b),
             NEW s \in DOMAIN text[b], NEW t \in DOMAIN text[b],
             NEW i \in DOMAIN text[b][s].results, NEW j \in DOMAIN text[b][t].results,
             text[b][s].results[i] = text[b][t].results[j]
      PROVE  s = t /\ i = j
  <2>1. Def(s, i) \in Definitions(text, b) /\ Def(t, j) \in Definitions(text, b)
    BY <1>3, Zenon
  <2>2. Def(s, i) = Def(t, j)
    BY <1>1, <1>4, <2>1 DEF Unambiguous
  <2>3. QED
    BY <1>2, <2>2
<1>5. ASSUME \A s, t \in DOMAIN text[b] : \A i \in DOMAIN text[b][s].results : \A j \in DOMAIN text[b][t].results :
               text[b][s].results[i] = text[b][t].results[j] => s = t /\ i = j,
             NEW d \in Definitions(text, b), NEW e \in Definitions(text, b), d[1] = e[1]
      PROVE  d = e
  <2>1. PICK s \in DOMAIN text[b] : \E i \in DOMAIN text[b][s].results : d = Def(s, i)
    BY <1>3, Zenon
  <2>2. PICK t \in DOMAIN text[b] : \E j \in DOMAIN text[b][t].results : e = Def(t, j)
    BY <1>3, Zenon
  <2>6. PICK i \in DOMAIN text[b][s].results : d = Def(s, i)
    BY <2>1
  <2>7. PICK j \in DOMAIN text[b][t].results : e = Def(t, j)
    BY <2>2
  <2>3. text[b][s].results[i] = text[b][t].results[j]
    BY <1>1, <1>5, <2>6, <2>7
  <2>4. s = t /\ i = j
    BY <1>5, <2>3
  <2>5. QED
    BY <2>6, <2>7, <2>4
<1>6. QED
  BY <1>4, <1>5 DEF Unambiguous

\* The choice in Meaning, if it has one outcome only.
LEMMA MeaningOfInput ==
  ASSUME NEW text, NEW b, Unambiguous(text, b),
         NEW s \in DOMAIN text[b], NEW i \in DOMAIN text[b][s].results
  PROVE  Denoted(text, b, text[b][s].results[i]) = OperationResult(b, s, i)
<1> DEFINE e == <<text[b][s].results[i], OperationResult(b, s, i)>>
<1>1. e \in Definitions(text, b) /\ e[1] = text[b][s].results[i] /\ e[2] = OperationResult(b, s, i)
  BY DefinitionIn
<1> HIDE DEF e
<1>2. \A d \in Definitions(text, b) : d[1] = text[b][s].results[i] => d = e
  BY <1>1, Zenon DEF Unambiguous
<1>3. (CHOOSE d \in Definitions(text, b) : d[1] = text[b][s].results[i]) = e
  BY <1>1, <1>2
<1>4. QED
  BY <1>1, <1>3 DEF Denoted

\* A listing with one more element.
LEMMA AppendListing ==
  ASSUME NEW n \in Nat, NEW list, list = [i \in 1 .. n |-> list[i]], NEW last
  PROVE  Append(list, last) = [i \in 1 .. n + 1 |-> IF i \in 1 .. n THEN list[i] ELSE last]
<1> DEFINE T == {list[i] : i \in 1 .. n} \cup {last}
           longer == Append(list, last)
<1>1. list \in [1 .. n -> T]
  BY Zenon
<1>2. list \in Seq(T) /\ Len(list) = n /\ last \in T
  BY <1>1
<1> HIDE DEF T
<1>3. /\ longer \in Seq(T) /\ Len(longer) = n + 1
      /\ \A i \in 1 .. n : longer[i] = list[i]
      /\ longer[n + 1] = last
  BY <1>2, AppendProperties
<1>4. longer \in [1 .. n + 1 -> T]
  BY <1>3, LenProperties
<1> HIDE DEF longer
<1>5. \A i \in 1 .. n + 1 : i \in 1 .. n \/ i = n + 1
  OBVIOUS
<1>6. longer = [i \in 1 .. n + 1 |-> longer[i]]
  BY <1>4
<1>7. \A i \in 1 .. n + 1 : longer[i] = IF i \in 1 .. n THEN list[i] ELSE last
  BY <1>3, <1>5
<1>8. longer = [i \in 1 .. n + 1 |-> IF i \in 1 .. n THEN list[i] ELSE last]
  BY <1>6, <1>7
<1>9. QED
  BY <1>8 DEF longer

-----------------------------------------------------------------------------
(* The parser. *)

\* Before the first block is visited there is nothing to say of it.
LEMMA InitInv == Init => Inv
<1> SUFFICES ASSUME Init PROVE Inv
  OBVIOUS
<1>1. IsProgram(program)
  BY ProgramsAssumption DEF Init
<1>2. Len(program) \in Nat /\ DOMAIN program = 1 .. Len(program)
      /\ \A b \in DOMAIN program : Len(program[b]) \in Nat
  BY <1>1, ProgramFacts
<1>3. PositionInv
  BY <1>1, <1>2 DEF Init, PositionInv, Parsing
<1>4. \A b \in DOMAIN program : CollectedTo(b) = 0
  BY <1>2 DEF Init, CollectedTo
<1>5. CollectedTo(block) = 0 /\ 1 .. CollectedTo(block) = {}
  BY DEF Init, CollectedTo
<1>6. DOMAIN operators = {} /\ DOMAIN temporaries = {}
  BY DEF Init
<1>7. OperatorsInv
  BY <1>4, <1>6 DEF OperatorsInv
<1>8. TemporariesInv
  BY <1>5, <1>6 DEF TemporariesInv
<1>9. BlocksInv
  <2>1. module = <<>> /\ 1 .. block - 1 = {}
    BY DEF Init
  <2>2. [b \in {} |-> Meaning(program)[b]] = <<>>
    OBVIOUS
  <2>3. QED
    BY <2>1, <2>2 DEF BlocksInv
<1>10. OperationsInv
  <2>1. operations = <<>>
    BY DEF Init
  <2>2. [s \in {} |-> IF Resolved(s) THEN Meaning(program)[block][s]
                      ELSE Unresolved(program[block][s])] = <<>>
    OBVIOUS
  <2>3. QED
    BY <1>5, <2>1, <2>2 DEF OperationsInv
<1>11. VerdictInv
  BY DEF Init, VerdictInv
<1>12. QED
  BY <1>3, <1>7, <1>8, <1>9, <1>10, <1>11 DEF Inv

\* The invariant is a matter of the variables alone.
LEMMA StutterInv == Inv /\ UNCHANGED vars => Inv'
<1> SUFFICES ASSUME Inv, UNCHANGED vars PROVE Inv'
  OBVIOUS
<1>1. PositionInv'
  BY DEF Inv, PositionInv, vars, Parsing
<1>2. OperatorsInv'
  BY DEF Inv, OperatorsInv, vars, Parsing, CollectedTo
<1>3. TemporariesInv'
  BY DEF Inv, TemporariesInv, vars, Parsing, CollectedTo
<1>4. BlocksInv'
  BY DEF Inv, BlocksInv, vars, Parsing
<1>5. OperationsInv'
  BY DEF Inv, OperationsInv, vars, Parsing, CollectedTo, Resolved
<1>6. VerdictInv'
  BY DEF Inv, VerdictInv, vars
<1>7. QED
  BY <1>1, <1>2, <1>3, <1>4, <1>5, <1>6 DEF Inv

\* A failed CHECK keeps the invariant when the program is not well formed.
LEMMA DiesInv ==
  ASSUME Inv, Dies, ~WellFormed(program)
  PROVE  Inv'
<1>1. pc' = "died" /\ program' = program /\ block' = block /\ next' = next
  BY DEF Dies
<1>2. ~Parsing' /\ VerdictInv'
  BY <1>1 DEF Parsing, VerdictInv
<1>3. PositionInv'
  BY <1>1, <1>2 DEF Inv, PositionInv
<1>4. QED
  BY <1>2, <1>3 DEF Inv, OperatorsInv, TemporariesInv, BlocksInv, OperationsInv

\* A failed CHECK of the first loop has found a program that is malformed.
LEMMA VisitRefuses ==
  ASSUME Inv, pc = "collect", block <= Len(program), next <= Len(program[block]),
         ~(/\ IsInjective(program[block][next].attributes)
           /\ OperatorAgrees(program[block][next]) /\ ResultsAreNew(program[block][next]))
  PROVE  ~WellFormed(program)
<1> DEFINE st == program[block][next]
<1>1. IsProgram(program) /\ block \in DOMAIN program /\ next \in DOMAIN program[block]
  BY ProgramFacts DEF Inv, PositionInv
<1>2. /\ CollectedTo(block) = next - 1
      /\ \A b \in DOMAIN program : \A s \in 1 .. CollectedTo(b) : s \in DOMAIN program[b]
  BY <1>1, ProgramFacts DEF CollectedTo, Inv, PositionInv
<1>3. Parsing
  BY DEF Parsing
<1>4. CASE ~IsInjective(st.attributes)
  BY <1>1, <1>4, WellFormedAt
<1>5. CASE ~OperatorAgrees(st)
  <2>1. st.operator \in DOMAIN operators /\ operators[st.operator] # Len(st.results)
    BY <1>5 DEF OperatorAgrees
  <2>2. PICK b \in DOMAIN program : \E s \in 1 .. CollectedTo(b) : program[b][s].operator = st.operator
    BY <1>3, <2>1 DEF Inv, OperatorsInv
  <2>3. PICK s \in 1 .. CollectedTo(b) : program[b][s].operator = st.operator
    BY <2>2
  <2>4. Len(program[b][s].results) # Len(st.results)
    <3>1. operators[program[b][s].operator] = Len(program[b][s].results)
      BY <1>3 DEF Inv, OperatorsInv
    <3>2. QED
      BY <2>1, <2>3, <3>1
  <2>5. s \in DOMAIN program[b]
    BY <1>2
  <2>6. QED
    BY <1>1, <2>3, <2>4, <2>5, WellFormedAt
<1>6. CASE ~ResultsAreNew(st)
  <2>1. ~Unambiguous(program, block)
    <3>1. CASE ~IsInjective(st.results)
      BY <1>1, <3>1, UnambiguousAt DEF IsInjective
    <3>2. CASE \E i \in DOMAIN st.results : st.results[i] \in DOMAIN temporaries
      <4>1. PICK i \in DOMAIN st.results : st.results[i] \in DOMAIN temporaries
        BY <3>2
      <4>2. PICK s \in 1 .. CollectedTo(block) :
              \E j \in DOMAIN program[block][s].results : program[block][s].results[j] = st.results[i]
        BY <1>3, <4>1 DEF Inv, TemporariesInv
      <4>3. s \in DOMAIN program[block] /\ s # next
        BY <1>1, <1>2, ProgramFacts DEF Inv, PositionInv
      <4>4. QED
        BY <1>1, <4>1, <4>2, <4>3, UnambiguousAt
    <3>3. QED
      BY <1>6, <3>1, <3>2 DEF ResultsAreNew
  <2>2. QED
    BY <1>1, <2>1, WellFormedAt
<1>7. QED
  BY <1>4, <1>5, <1>6

\* The insertions for one statement map each of its result names to that result.
LEMMA TemporariesOfResults ==
  ASSUME NEW b, NEW s, NEW st, IsInjective(st.results)
  PROVE  /\ DOMAIN TemporariesOf(b, s, st) = ToSet(st.results)
         /\ \A i \in DOMAIN st.results :
              TemporariesOf(b, s, st)[st.results[i]] = OperationResult(b, s, i)
<1>1. ASSUME NEW i \in DOMAIN st.results
      PROVE  TemporariesOf(b, s, st)[st.results[i]] = OperationResult(b, s, i)
  <2>1. st.results[i] \in ToSet(st.results)
    BY DEF ToSet
  <2>2. (CHOOSE j \in DOMAIN st.results : st.results[j] = st.results[i]) = i
    BY DEF IsInjective
  <2>3. QED
    BY <2>1, <2>2 DEF TemporariesOf
<1>2. QED
  BY <1>1 DEF TemporariesOf

\* Insertion keeps what the map has and adds what is new.
LEMMA InsertedFacts ==
  ASSUME NEW map, NEW more
  PROVE  /\ DOMAIN Inserted(map, more) = DOMAIN map \cup DOMAIN more
         /\ \A x \in DOMAIN map : Inserted(map, more)[x] = map[x]
         /\ \A x \in DOMAIN more : x \notin DOMAIN map => Inserted(map, more)[x] = more[x]
BY DEF Inserted

\* One statement in the first loop of visitBlock: it is refused only when it
\* repeats a name or an attribute or disagrees about an operator, and otherwise
\* its results are added to the temporaries.
LEMMA VisitInv == Inv /\ VisitOperation => Inv'
<1> SUFFICES ASSUME Inv, VisitOperation PROVE Inv'
  OBVIOUS
<1> DEFINE st == program[block][next]
<1>1. pc = "collect" /\ block <= Len(program) /\ next <= Len(program[block])
  BY DEF VisitOperation
<1>2. CASE ~(IsInjective(st.attributes) /\ OperatorAgrees(st) /\ ResultsAreNew(st))
  BY <1>1, <1>2, VisitRefuses, DiesInv DEF VisitOperation
<1>3. CASE IsInjective(st.attributes) /\ OperatorAgrees(st) /\ ResultsAreNew(st)
  <2>1. /\ operators' = Inserted(operators, [o \in {st.operator} |-> Len(st.results)])
        /\ operations' = Append(operations, Unresolved(st))
        /\ temporaries' = Inserted(temporaries, TemporariesOf(block, next, st))
        /\ next' = next + 1
        /\ UNCHANGED <<program, pc, block, module>>
    BY <1>3 DEF VisitOperation, Unresolved
  <2>2. /\ IsProgram(program) /\ block \in DOMAIN program /\ next \in DOMAIN program[block]
        /\ block \in Nat \ {0} /\ next \in Nat \ {0}
    BY <1>1, ProgramFacts DEF Inv, PositionInv
  <2>3. Parsing /\ Parsing'
    BY <1>1, <2>1 DEF Parsing
  <2>4. CollectedTo(block) = next - 1 /\ CollectedTo(block)' = next
    BY <1>1, <2>1, <2>2 DEF CollectedTo
  <2>5. \A b \in DOMAIN program :
          /\ b # block => CollectedTo(b)' = CollectedTo(b)
          /\ b = block => CollectedTo(b) = next - 1 /\ CollectedTo(b)' = next
    BY <1>1, <2>1, <2>2 DEF CollectedTo
  <2>6. 1 .. next = (1 .. next - 1) \cup {next} /\ next \notin 1 .. next - 1
    BY <2>2
  <2>7. PositionInv'
    BY <1>1, <2>1, <2>2, <2>3, ProgramFacts DEF Inv, PositionInv
  <2>8. OperatorsInv'
    <3>1. /\ DOMAIN operators' = DOMAIN operators \cup {st.operator}
          /\ \A o \in DOMAIN operators : operators'[o] = operators[o]
          /\ operators'[st.operator] = Len(st.results)
      <4> DEFINE more == [o \in {st.operator} |-> Len(st.results)]
      <4>1. DOMAIN more = {st.operator} /\ more[st.operator] = Len(st.results)
        OBVIOUS
      <4>2. st.operator \in DOMAIN operators => operators[st.operator] = Len(st.results)
        BY <1>3 DEF OperatorAgrees
      <4>3. operators' = Inserted(operators, more)
        BY <2>1
      <4> HIDE DEF more, st
      <4>4. QED
        BY <4>1, <4>2, <4>3 DEF Inserted
    <3>2. ASSUME NEW b \in DOMAIN program, NEW s \in 1 .. CollectedTo(b)'
          PROVE  /\ IsInjective(program[b][s].attributes)
                 /\ program[b][s].operator \in DOMAIN operators'
                 /\ operators'[program[b][s].operator] = Len(program[b][s].results)
      <4>1. CASE b = block /\ s = next
        BY <1>3, <3>1, <4>1
      <4>2. CASE ~(b = block /\ s = next)
        <5>1. s \in 1 .. CollectedTo(b)
          <6>1. CASE b = block
            BY <2>5, <2>6, <4>2, <6>1
          <6>2. CASE b # block
            BY <2>5, <6>2
          <6>3. QED
            BY <6>1, <6>2
        <5>2. QED
          BY <2>3, <3>1, <5>1 DEF Inv, OperatorsInv
      <4>3. QED
        BY <4>1, <4>2
    <3>3. ASSUME NEW o \in DOMAIN operators'
          PROVE  \E b \in DOMAIN program : \E s \in 1 .. CollectedTo(b)' : program[b][s].operator = o
      <4>1. CASE o = st.operator
        <5>1. next \in 1 .. (CollectedTo(block)')
          BY <2>4, <2>2
        <5>2. program[block][next].operator = o
          BY <4>1
        <5>3. CollectedTo(block)' = next /\ next \in 1 .. next
          BY <2>4, <2>2
        <5>4. \E s \in 1 .. CollectedTo(block)' : program[block][s].operator = o
          BY <2>1, <5>1, <5>2
        <5>5. QED
          BY <2>1, <2>2, <5>4
      <4>2. CASE o \in DOMAIN operators
        <5>1. PICK b \in DOMAIN program : \E s \in 1 .. CollectedTo(b) : program[b][s].operator = o
          BY <2>3, <4>2 DEF Inv, OperatorsInv
        <5>2. 1 .. CollectedTo(b) \subseteq 1 .. CollectedTo(b)'
          <6>1. CASE b = block
            BY <2>5, <2>6, <6>1
          <6>2. CASE b # block
            BY <2>5, <6>2
          <6>3. QED
            BY <6>1, <6>2
        <5>3. QED
          BY <5>1, <5>2
      <4>3. QED
        BY <3>1, <4>1, <4>2
    <3>4. QED
      BY <2>1, <3>2, <3>3, ZenonT(60) DEF OperatorsInv
  <2>9. TemporariesInv'
    <3>1. /\ DOMAIN temporaries' = DOMAIN temporaries \cup ToSet(st.results)
          /\ \A name \in DOMAIN temporaries : temporaries'[name] = temporaries[name]
          /\ \A i \in DOMAIN st.results : temporaries'[st.results[i]] = OperationResult(block, next, i)
      <4>1. \A i \in DOMAIN st.results :
              st.results[i] \in ToSet(st.results) /\ st.results[i] \notin DOMAIN temporaries
        BY <1>3 DEF ResultsAreNew, ToSet
      <4>2. IsInjective(st.results)
        BY <1>3 DEF ResultsAreNew
      <4>3. /\ DOMAIN TemporariesOf(block, next, st) = ToSet(st.results)
            /\ \A i \in DOMAIN st.results :
                 TemporariesOf(block, next, st)[st.results[i]] = OperationResult(block, next, i)
        BY <4>2, TemporariesOfResults
      <4>4. temporaries' = Inserted(temporaries, TemporariesOf(block, next, st))
        BY <2>1
      <4> HIDE DEF st
      <4>5. QED
        BY <4>1, <4>3, <4>4 DEF Inserted
    <3>2. ASSUME NEW s \in 1 .. CollectedTo(block)', NEW i \in DOMAIN program[block][s].results
          PROVE  /\ program[block][s].results[i] \in DOMAIN temporaries'
                 /\ temporaries'[program[block][s].results[i]] = OperationResult(block, s, i)
      <4>1. CASE s = next
        <5>1. st.results[i] \in ToSet(st.results)
          BY <4>1 DEF ToSet
        <5>2. QED
          BY <3>1, <4>1, <5>1
      <4>2. CASE s \in 1 .. CollectedTo(block)
        BY <1>1, <2>3, <3>1, <4>2 DEF Inv, TemporariesInv
      <4>3. QED
        BY <2>4, <2>6, <4>1, <4>2
    <3>3. ASSUME NEW name \in DOMAIN temporaries'
          PROVE  \E s \in 1 .. CollectedTo(block)' : \E i \in DOMAIN program[block][s].results :
                   program[block][s].results[i] = name
      <4>1. CASE name \in ToSet(st.results)
        <5>1. PICK i \in DOMAIN st.results : st.results[i] = name
          BY <4>1 DEF ToSet
        <5>2. next \in 1 .. CollectedTo(block)'
          BY <2>4, <2>2
        <5>3. QED
          BY <5>1, <5>2
      <4>2. CASE name \in DOMAIN temporaries
        <5>1. PICK s \in 1 .. CollectedTo(block) : \E i \in DOMAIN program[block][s].results :
                     program[block][s].results[i] = name
          BY <1>1, <2>3, <4>2 DEF Inv, TemporariesInv
        <5>2. s \in 1 .. CollectedTo(block)'
          BY <2>4, <2>6
        <5>3. QED
          BY <5>1, <5>2
      <4>3. QED
        BY <3>1, <4>1, <4>2
    <3>4. QED
      BY <2>1, <3>2, <3>3 DEF TemporariesInv
  <2>10. BlocksInv'
    BY <2>1, <2>3 DEF Inv, BlocksInv
  <2>11. OperationsInv'
    <3>1. \A s : ~Resolved(s) /\ ~Resolved(s)'
      BY <1>1, <2>1 DEF Resolved
    <3>2. operations = [s \in 1 .. next - 1 |-> Unresolved(program[block][s])]
      BY <2>3, <2>4, <3>1 DEF Inv, OperationsInv
    <3>3. operations' = [s \in 1 .. next |-> Unresolved(program[block][s])]
      <4>1. next - 1 \in Nat /\ next - 1 + 1 = next
        BY <2>2
      <4>2. operations = [s \in 1 .. next - 1 |-> operations[s]]
        BY <3>2, Zenon
      <4>3. operations' = [s \in 1 .. next |-> IF s \in 1 .. next - 1 THEN operations[s] ELSE Unresolved(st)]
        BY <2>1, <4>1, <4>2, AppendListing
      <4>4. \A s \in 1 .. next :
              (IF s \in 1 .. next - 1 THEN operations[s] ELSE Unresolved(st)) = Unresolved(program[block][s])
        BY <2>6, <3>2
      <4>5. QED
        BY <4>3, <4>4
    <3>4. QED
      BY <2>1, <2>4, <3>1, <3>3 DEF OperationsInv
  <2>12. VerdictInv'
    BY <1>1, <2>1 DEF VerdictInv
  <2>13. QED
    BY <2>7, <2>8, <2>9, <2>10, <2>11, <2>12 DEF Inv
<1>4. QED
  BY <1>2, <1>3

\* Adding the temporaries to SsaNames disturbs nothing of the parse.
LEMMA NameInv == Inv /\ NameTemporaries => Inv'
<1> SUFFICES ASSUME Inv, NameTemporaries PROVE Inv'
  OBVIOUS
<1>1. /\ pc = "collect" /\ block <= Len(program) /\ next > Len(program[block])
      /\ pc' = "resolve" /\ next' = 1
      /\ UNCHANGED <<program, block, operators, temporaries, operations, module>>
  BY DEF NameTemporaries
<1>2. /\ IsProgram(program) /\ block \in DOMAIN program
      /\ block \in Nat \ {0} /\ next \in Nat \ {0} /\ Len(program[block]) \in Nat
  BY <1>1, ProgramFacts DEF Inv, PositionInv
<1>3. Parsing /\ Parsing'
  BY <1>1 DEF Parsing
<1>4. next - 1 = Len(program[block])
  BY <1>1, <1>2, <1>3 DEF Inv, PositionInv
<1>5. \A b : CollectedTo(b)' = CollectedTo(b)
  BY <1>1, <1>4 DEF CollectedTo
<1>6. CollectedTo(block)' = CollectedTo(block)
  BY <1>1, <1>4 DEF CollectedTo
<1>7. PositionInv'
  BY <1>1, <1>2, <1>3 DEF Inv, PositionInv
<1>8. OperatorsInv'
  BY <1>1, <1>3, <1>5, ZenonT(60) DEF Inv, OperatorsInv
<1>9. TemporariesInv'
  BY <1>1, <1>3, <1>6 DEF Inv, TemporariesInv
<1>10. BlocksInv'
  BY <1>1, <1>3 DEF Inv, BlocksInv
<1>11. OperationsInv'
  <2>1. \A s \in 1 .. CollectedTo(block) : ~Resolved(s) /\ ~Resolved(s)'
    <3>1. \A s \in 1 .. CollectedTo(block) : ~(s < 1)
      OBVIOUS
    <3>2. QED
      BY <1>1, <3>1 DEF Resolved
  <2>2. operations = [s \in 1 .. CollectedTo(block) |-> Unresolved(program[block][s])]
    BY <1>3, <2>1 DEF Inv, OperationsInv
  <2>3. operations' = [s \in 1 .. CollectedTo(block) |-> Unresolved(program[block][s])]
    BY <1>1, <2>2
  <2>4. QED
    BY <1>1, <1>6, <2>1, <2>3 DEF OperationsInv
<1>12. VerdictInv'
  BY <1>1 DEF VerdictInv
<1>13. QED
  BY <1>7, <1>8, <1>9, <1>10, <1>11, <1>12 DEF Inv

\* After the first loop the temporaries are the definitions of the block.
LEMMA TemporariesAreDefinitions ==
  ASSUME Inv, Parsing, block <= Len(program), CollectedTo(block) = Len(program[block])
  PROVE  /\ Unambiguous(program, block)
         /\ DOMAIN temporaries = DefinedNames(program, block)
         /\ \A s \in DOMAIN program[block] : \A i \in DOMAIN program[block][s].results :
              temporaries[program[block][s].results[i]] = OperationResult(block, s, i)
<1>1. /\ IsProgram(program) /\ block \in DOMAIN program /\ block <= Len(program) /\ Parsing
      /\ DOMAIN program[block] = 1 .. Len(program[block])
  BY ProgramFacts DEF Inv, PositionInv
<1>2. 1 .. CollectedTo(block) = DOMAIN program[block]
  BY <1>1
<1>3. /\ \A s \in DOMAIN program[block] : \A i \in DOMAIN program[block][s].results :
           /\ program[block][s].results[i] \in DOMAIN temporaries
           /\ temporaries[program[block][s].results[i]] = OperationResult(block, s, i)
      /\ \A name \in DOMAIN temporaries :
           \E s \in DOMAIN program[block] : \E i \in DOMAIN program[block][s].results :
             program[block][s].results[i] = name
  BY <1>1, <1>2 DEF Inv, TemporariesInv
<1>4. DOMAIN temporaries = DefinedNames(program, block)
  <2>1. ASSUME NEW name \in DefinedNames(program, block) PROVE name \in DOMAIN temporaries
    <3>1. PICK s \in DOMAIN program[block] :
            \E i \in DOMAIN program[block][s].results : program[block][s].results[i] = name
      BY DefinedName
    <3>2. QED
      BY <1>3, <3>1
  <2>2. ASSUME NEW name \in DOMAIN temporaries PROVE name \in DefinedNames(program, block)
    BY <1>3, DefinedName, Zenon
  <2>3. QED
    BY <2>1, <2>2
<1>5. Unambiguous(program, block)
  <2>1. \A s, i, t, j : OperationResult(block, s, i) = OperationResult(block, t, j) => s = t /\ i = j
    BY DEF OperationResult
  <2>2. QED
    BY <1>3, <2>1, UnambiguousAt
<1>6. QED
  BY <1>3, <1>4, <1>5

\* When the second loop runs, the temporaries are the definitions of the block.
LEMMA ResolvingDefinitions ==
  ASSUME Inv, pc = "resolve"
  PROVE  /\ Unambiguous(program, block)
         /\ DOMAIN temporaries = DefinedNames(program, block)
         /\ \A s \in DOMAIN program[block] : \A i \in DOMAIN program[block][s].results :
              temporaries[program[block][s].results[i]] = OperationResult(block, s, i)
<1>1. Parsing /\ block <= Len(program) /\ CollectedTo(block) = Len(program[block])
  BY DEF Parsing, CollectedTo, Inv, PositionInv
<1>2. QED
  BY <1>1, TemporariesAreDefinitions

\* What the second loop makes of an operation is what the program means.
LEMMA ResolvesToMeaning ==
  ASSUME Inv, pc = "resolve", next <= Len(program[block]),
         ToSet(program[block][next].inputs) \subseteq DOMAIN temporaries \cup {AnyValue}
  PROVE  [operator |-> program[block][next].operator, outputs |-> Len(program[block][next].results),
          attributes |-> ToSet(program[block][next].attributes),
          inputs |-> [i \in DOMAIN program[block][next].inputs |->
                        IF program[block][next].inputs[i] = AnyValue THEN AnyValue
                        ELSE temporaries[program[block][next].inputs[i]]]]
         = Meaning(program)[block][next]
<1> DEFINE st == program[block][next]
<1>1. IsProgram(program) /\ block \in DOMAIN program /\ next \in DOMAIN program[block]
  BY ProgramFacts DEF Inv, PositionInv
<1>2. ASSUME NEW i \in DOMAIN st.inputs, st.inputs[i] # AnyValue
      PROVE  temporaries[st.inputs[i]] = Denoted(program, block, st.inputs[i])
  <2>1. st.inputs[i] \in DefinedNames(program, block)
    BY <1>2, ResolvingDefinitions DEF ToSet
  <2>2. PICK s \in DOMAIN program[block] :
          \E j \in DOMAIN program[block][s].results : program[block][s].results[j] = st.inputs[i]
    BY <2>1, DefinedName
  <2>3. PICK j \in DOMAIN program[block][s].results : program[block][s].results[j] = st.inputs[i]
    BY <2>2
  <2>4. temporaries[program[block][s].results[j]] = OperationResult(block, s, j)
    BY ResolvingDefinitions
  <2>5. Denoted(program, block, program[block][s].results[j]) = OperationResult(block, s, j)
    BY MeaningOfInput, ResolvingDefinitions
  <2>6. QED
    BY <2>3, <2>4, <2>5
<1>3. [i \in DOMAIN st.inputs |-> IF st.inputs[i] = AnyValue THEN AnyValue ELSE temporaries[st.inputs[i]]]
      = [i \in DOMAIN st.inputs |-> IF st.inputs[i] = AnyValue THEN AnyValue ELSE Denoted(program, block, st.inputs[i])]
  BY <1>2
<1>4. Meaning(program)[block][next] =
        [operator |-> st.operator, outputs |-> Len(st.results), attributes |-> ToSet(st.attributes),
         inputs |-> [i \in DOMAIN st.inputs |->
                       IF st.inputs[i] = AnyValue THEN AnyValue ELSE Denoted(program, block, st.inputs[i])]]
  BY <1>1 DEF Meaning
<1>5. QED
  BY <1>3, <1>4

\* One statement in the second loop: it is refused only when an input names no
\* result of the block, and otherwise gets the inputs that the program means.
LEMMA ResolveInv == Inv /\ ResolveInputs => Inv'
<1> SUFFICES ASSUME Inv, ResolveInputs PROVE Inv'
  OBVIOUS
<1> DEFINE inputs == program[block][next].inputs
<1>1. pc = "resolve" /\ next <= Len(operations) /\ Parsing
  BY DEF ResolveInputs, Parsing
<1>2. /\ IsProgram(program) /\ block \in DOMAIN program /\ block <= Len(program)
      /\ block \in Nat \ {0} /\ next \in Nat \ {0} /\ Len(program[block]) \in Nat
      /\ DOMAIN program[block] = 1 .. Len(program[block])
  BY <1>1, ProgramFacts DEF Inv, PositionInv
<1>3. CollectedTo(block) = Len(program[block])
  BY <1>1, <1>2 DEF CollectedTo
<1>4. operations = [s \in 1 .. Len(program[block]) |->
         IF Resolved(s) THEN Meaning(program)[block][s] ELSE Unresolved(program[block][s])]
  BY <1>1, <1>3 DEF Inv, OperationsInv
<1>5. next <= Len(program[block]) /\ next \in DOMAIN program[block]
  <2>1. Len(operations) = Len(program[block])
    BY <1>2, <1>4
  <2>2. QED
    BY <1>1, <1>2, <2>1
<1>6. CASE ~(ToSet(inputs) \subseteq DOMAIN temporaries \cup {AnyValue})
  <2>1. Dies
    BY <1>6 DEF ResolveInputs
  <2>2. ~Resolvable(program, block, next)
    BY <1>1, <1>6, ResolvingDefinitions DEF Resolvable
  <2>3. ~WellFormed(program)
    BY <1>2, <1>5, <2>2, WellFormedAt
  <2>4. QED
    BY <2>1, <2>3, DiesInv
<1>7. CASE ToSet(inputs) \subseteq DOMAIN temporaries \cup {AnyValue}
  <2>1. /\ operations' = [operations EXCEPT ![next].inputs =
             [i \in DOMAIN inputs |->
                IF inputs[i] = AnyValue THEN AnyValue ELSE temporaries[inputs[i]]]]
        /\ next' = next + 1
        /\ UNCHANGED <<program, pc, block, operators, temporaries, module>>
    BY <1>7 DEF ResolveInputs
  <2>2. Parsing'
    BY <1>1, <2>1 DEF Parsing
  <2>3. \A b : CollectedTo(b)' = CollectedTo(b)
    BY <1>1, <2>1 DEF CollectedTo
  <2>4. CollectedTo(block)' = CollectedTo(block)
    BY <1>1, <2>1 DEF CollectedTo
  <2>5. PositionInv'
    BY <1>1, <1>2, <1>5, <2>1, <2>2 DEF Inv, PositionInv
  <2>6. OperatorsInv'
    BY <1>1, <2>1, <2>2, <2>3 DEF Inv, OperatorsInv
  <2>7. TemporariesInv'
    BY <1>1, <2>1, <2>2, <2>4 DEF Inv, TemporariesInv
  <2>8. BlocksInv'
    BY <1>1, <2>1, <2>2 DEF Inv, BlocksInv
  <2>9. OperationsInv'
    <3>1. \A s \in 1 .. Len(program[block]) : Resolved(s)' <=> Resolved(s) \/ s = next
      BY <1>1, <1>2, <2>1 DEF Resolved
    <3>2. ~Resolved(next)
      BY <1>2 DEF Resolved
    <3>3. operations[next] = Unresolved(program[block][next])
      BY <1>2, <1>4, <1>5, <3>2
    <3>4. operations'[next] = Meaning(program)[block][next]
      <4> DEFINE resolved == [i \in DOMAIN inputs |->
                    IF inputs[i] = AnyValue THEN AnyValue ELSE temporaries[inputs[i]]]
      <4>1. operations'[next] = [operations[next] EXCEPT !.inputs = resolved]
        BY <1>2, <1>4, <1>5, <2>1
      <4>2. [Unresolved(program[block][next]) EXCEPT !.inputs = resolved] =
              [operator |-> program[block][next].operator, outputs |-> Len(program[block][next].results),
               attributes |-> ToSet(program[block][next].attributes), inputs |-> resolved]
        BY DEF Unresolved
      <4>3. QED
        BY <1>1, <1>5, <1>7, <3>3, <4>1, <4>2, ResolvesToMeaning
    <3>5. \A s \in 1 .. Len(program[block]) : s # next => operations'[s] = operations[s]
      BY <1>4, <2>1
    <3>6. operations' = [s \in 1 .. Len(program[block]) |-> operations'[s]]
      BY <1>4, <2>1
    <3>7. \A s \in 1 .. Len(program[block]) : operations'[s] =
            IF Resolved(s)' THEN Meaning(program)[block][s] ELSE Unresolved(program[block][s])
      BY <1>4, <3>1, <3>4, <3>5
    <3>8. operations' = [s \in 1 .. Len(program[block]) |->
            IF Resolved(s)' THEN Meaning(program)[block][s] ELSE Unresolved(program[block][s])]
      BY <3>6, <3>7
    <3>9. ASSUME NEW s \in 1 .. Len(program[block]), Resolved(s)'
          PROVE  Resolvable(program, block, s)
      <4>1. CASE s = next
        BY <1>1, <1>7, <4>1, ResolvingDefinitions DEF Resolvable
      <4>2. CASE s # next
        BY <1>1, <1>3, <3>1, <3>9, <4>2 DEF Inv, OperationsInv
      <4>3. QED
        BY <4>1, <4>2
    <3>10. QED
      BY <1>3, <2>1, <2>4, <3>8, <3>9 DEF OperationsInv
  <2>10. VerdictInv'
    BY <1>1, <2>1 DEF VerdictInv
  <2>11. QED
    BY <2>5, <2>6, <2>7, <2>8, <2>9, <2>10 DEF Inv
<1>8. QED
  BY <1>6, <1>7

\* A finished block is the block that the program means, and no temporary of it
\* reaches the next block.
LEMMA AddBlockInv == Inv /\ AddBlock => Inv'
<1> SUFFICES ASSUME Inv, AddBlock PROVE Inv'
  OBVIOUS
<1>1. /\ pc = "resolve" /\ next > Len(operations)
      /\ module' = Append(module, operations)
      /\ operations' = <<>> /\ temporaries' = <<>>
      /\ pc' = "collect" /\ block' = block + 1 /\ next' = 1
      /\ UNCHANGED <<program, operators>>
  BY DEF AddBlock
<1>2. /\ IsProgram(program) /\ block \in DOMAIN program /\ block <= Len(program)
      /\ block \in Nat \ {0} /\ next \in Nat \ {0} /\ Len(program[block]) \in Nat
      /\ DOMAIN program[block] = 1 .. Len(program[block])
      /\ Len(program) \in Nat /\ DOMAIN program = 1 .. Len(program)
  BY <1>1, ProgramFacts DEF Inv, PositionInv
<1>3. Parsing /\ Parsing'
  BY <1>1 DEF Parsing
<1>4. CollectedTo(block) = Len(program[block])
  BY <1>1, <1>2 DEF CollectedTo
<1>5. operations = [s \in 1 .. Len(program[block]) |->
         IF Resolved(s) THEN Meaning(program)[block][s] ELSE Unresolved(program[block][s])]
  BY <1>3, <1>4 DEF Inv, OperationsInv
<1>6. \A s \in DOMAIN program[block] : Resolved(s)
  <2>1. Len(operations) = Len(program[block])
    BY <1>2, <1>5
  <2>2. QED
    BY <1>1, <1>2, <2>1 DEF Resolved
<1>7. operations = Meaning(program)[block]
  <2>1. Meaning(program)[block] = [s \in DOMAIN program[block] |-> Meaning(program)[block][s]]
    BY <1>2 DEF Meaning
  <2>2. QED
    BY <1>2, <1>5, <1>6, <2>1
<1>8. \A b \in DOMAIN program : CollectedTo(b)' = CollectedTo(b)
  <2>1. ASSUME NEW b \in DOMAIN program PROVE CollectedTo(b)' = CollectedTo(b)
    <3>1. b \in Nat
      BY <1>2
    <3>2. b < block + 1 <=> b < block \/ b = block
      BY <1>2, <3>1
    <3>3. QED
      BY <1>1, <1>2, <3>1, <3>2 DEF CollectedTo
  <2>2. QED
    BY <2>1
<1>9. CollectedTo(block)' = 0
  BY <1>1 DEF CollectedTo
<1>10. PositionInv'
  <2>1. block + 1 <= Len(program) => Len(program[block + 1]) \in Nat
    BY <1>2, ProgramFacts
  <2>2. QED
    BY <1>1, <1>2, <1>3, <2>1 DEF Inv, PositionInv
<1>11. OperatorsInv'
  BY <1>1, <1>3, <1>8, ZenonT(60) DEF Inv, OperatorsInv
<1>12. TemporariesInv'
  BY <1>1, <1>9 DEF TemporariesInv
<1>13. BlocksInv'
  <2>1. block - 1 \in Nat /\ block - 1 + 1 = block /\ block + 1 - 1 = block
        /\ 1 .. block = (1 .. block - 1) \cup {block}
    BY <1>2
  <2>2. module = [b \in 1 .. block - 1 |-> Meaning(program)[b]]
    BY <1>3 DEF Inv, BlocksInv
  <2>3. module = [b \in 1 .. block - 1 |-> module[b]]
    BY <2>2, Zenon
  <2>4. module' = [b \in 1 .. block |-> IF b \in 1 .. block - 1 THEN module[b] ELSE operations]
    BY <1>1, <2>1, <2>3, AppendListing
  <2>5. \A b \in 1 .. block :
          (IF b \in 1 .. block - 1 THEN module[b] ELSE operations) = Meaning(program)[b]
    BY <1>7, <2>1, <2>2
  <2>6. module' = [b \in 1 .. block |-> Meaning(program)[b]]
    BY <2>4, <2>5
  <2>7. \A s \in DOMAIN program[block] : Resolvable(program, block, s)
    BY <1>2, <1>3, <1>4, <1>6 DEF Inv, OperationsInv
  <2>8. Unambiguous(program, block)
    BY <1>1, ResolvingDefinitions
  <2>9. \A b \in 1 .. block :
          Unambiguous(program, b) /\ \A s \in DOMAIN program[b] : Resolvable(program, b, s)
    BY <1>3, <2>1, <2>7, <2>8 DEF Inv, BlocksInv
  <2>10. QED
    BY <1>1, <2>1, <2>6, <2>9 DEF BlocksInv
<1>14. OperationsInv'
  <2>1. [s \in {} |-> IF Resolved(s)' THEN Meaning(program')[block'][s]
                      ELSE Unresolved(program'[block'][s])] = <<>>
    OBVIOUS
  <2>2. 1 .. CollectedTo(block)' = {}
    BY <1>9
  <2>3. QED
    BY <1>1, <2>1, <2>2 DEF OperationsInv
<1>15. VerdictInv'
  BY <1>1 DEF VerdictInv
<1>16. QED
  BY <1>10, <1>11, <1>12, <1>13, <1>14, <1>15 DEF Inv

\* Past the last block, nothing has been found wrong.
LEMMA AllCollected ==
  ASSUME Inv, pc = "collect", block > Len(program)
  PROVE  WellFormed(program) /\ module = Meaning(program)
<1>1. /\ IsProgram(program) /\ Parsing /\ block \in Nat
      /\ Len(program) \in Nat /\ DOMAIN program = 1 .. Len(program)
  BY ProgramFacts DEF Inv, PositionInv, Parsing
<1>2. block = Len(program) + 1 /\ 1 .. block - 1 = DOMAIN program
  BY <1>1 DEF Inv, PositionInv
<1>3. \A b \in DOMAIN program : 1 .. CollectedTo(b) = DOMAIN program[b]
  BY <1>1, <1>2, ProgramFacts DEF CollectedTo
<1>4. \A b \in DOMAIN program : \A s \in DOMAIN program[b] :
        /\ IsInjective(program[b][s].attributes)
        /\ operators[program[b][s].operator] = Len(program[b][s].results)
  BY <1>1, <1>3 DEF Inv, OperatorsInv
<1>5. \A b \in DOMAIN program :
        Unambiguous(program, b) /\ \A s \in DOMAIN program[b] : Resolvable(program, b, s)
  BY <1>1, <1>2 DEF Inv, BlocksInv
<1>6. WellFormed(program)
  BY <1>4, <1>5, WellFormedAt
<1>7. module = [b \in DOMAIN program |-> Meaning(program)[b]]
  BY <1>1, <1>2 DEF Inv, BlocksInv
<1>8. Meaning(program) = [b \in DOMAIN program |-> Meaning(program)[b]]
  BY Zenon DEF Meaning
<1>9. QED
  BY <1>6, <1>7, <1>8

\* Writing changes nothing of the module.
LEMMA WritingInv == Inv /\ (StartWriting \/ WriteOperation \/ NextBlock) => Inv'
<1> SUFFICES ASSUME Inv, StartWriting \/ WriteOperation \/ NextBlock PROVE Inv'
  OBVIOUS
<1>1. WellFormed(program) /\ module = Meaning(program)
  BY AllCollected DEF StartWriting, WriteOperation, NextBlock, Inv, VerdictInv
<1>2. pc' = "write" /\ UNCHANGED <<program, module>> /\ block' \in Nat \ {0} /\ next' \in Nat \ {0}
  BY DEF StartWriting, WriteOperation, NextBlock, Inv, PositionInv
<1>3. ~Parsing' /\ VerdictInv'
  BY <1>1, <1>2 DEF Parsing, VerdictInv
<1>4. PositionInv'
  BY <1>2, <1>3 DEF Inv, PositionInv
<1>5. QED
  BY <1>3, <1>4 DEF Inv, OperatorsInv, TemporariesInv, BlocksInv, OperationsInv

\* Every step keeps the invariant.
LEMMA NextInv == Inv /\ [Next]_vars => Inv'
BY VisitInv, NameInv, ResolveInv, AddBlockInv, WritingInv, StutterInv DEF Next

\* The inductive invariant of the parser: what the two loops have collected,
\* resolved and accepted, at every position of IrVisitor.
THEOREM InvHolds == Spec => []Inv
BY InitInv, NextInv, PTL DEF Spec

\* IrVisitor dies exactly on the programs that are not well formed, whatever
\* programs are parsed.
THEOREM RefusesExactlyMalformedHolds == Spec => []RefusesExactlyMalformed
<1>1. Inv => RefusesExactlyMalformed
  BY AllCollected DEF RefusesExactlyMalformed, Parsed, Inv, VerdictInv
<1>2. QED
  BY <1>1, InvHolds, PTL

\* The module that IrVisitor builds has the data flow of the program, forward
\* references included, whatever programs are parsed.
THEOREM ModuleHasMeaningHolds == Spec => []ModuleHasMeaning
<1>1. Inv => ModuleHasMeaning
  BY AllCollected DEF ModuleHasMeaning, Parsed, Inv, VerdictInv
<1>2. QED
  BY <1>1, InvHolds, PTL

-----------------------------------------------------------------------------
(* Writing. *)

\* The results of the operations of block b have their names.
Named(b) == b < block \/ (b = block /\ pc = "resolve") \/ pc = "write"

KeepsNames == Parsing \/ (pc = "write" /\ client \in {"print", "facts"})

NamesInv ==
  /\ names = [v \in DOMAIN names |-> names[v]]
  /\ Parsing => \A v \in DOMAIN names : v[1] \in DOMAIN program /\ Named(v[1])
  /\ KeepsNames =>
       \A b \in DOMAIN program : Named(b) =>
         \A s \in DOMAIN program[b] : \A i \in DOMAIN program[b][s].results :
           /\ OperationResult(b, s, i) \in DOMAIN names
           /\ names[OperationResult(b, s, i)] = program[b][s].results[i]

\* Names made from the size of the table.
Numbered(table) ==
  /\ IsFiniteSet(DOMAIN table) /\ IsInjective(table)
  /\ \A v \in DOMAIN table : table[v] \in Nat /\ table[v] < Cardinality(DOMAIN table)

WrittenTo(b) ==
  IF b < block THEN Len(module[b]) ELSE IF b = block THEN next - 1 ELSE 0

\* An operation, written with the names of a table.
Text(table, b, s, op) ==
  Statement([i \in 1 .. op.outputs |-> table[OperationResult(b, s, i)]],
            op.operator, InOrder(op.attributes),
            [i \in DOMAIN op.inputs |->
               IF op.inputs[i] = AnyValue THEN AnyValue ELSE table[op.inputs[i]]])

\* The table has a name for everything the operation defines and uses.
Covers(table, b, s, op) ==
  /\ \A i \in 1 .. op.outputs : OperationResult(b, s, i) \in DOMAIN table
  /\ \A i \in DOMAIN op.inputs : op.inputs[i] = AnyValue \/ op.inputs[i] \in DOMAIN table

OutputInv ==
  pc = "write" =>
    /\ client \in Printers \cup Lowerings
    /\ client \in {"print fresh", "facts fresh"} => Numbered(names)
    /\ block <= Len(module) + 1
    /\ block <= Len(module) => next <= Len(module[block]) + 1
    /\ output = [b \in DOMAIN module |->
         [s \in 1 .. WrittenTo(b) |-> Text(names, b, s, module[b][s])]]
    /\ \A b \in DOMAIN module : \A s \in 1 .. WrittenTo(b) : Covers(names, b, s, module[b][s])

WInv == Inv /\ NamesInv /\ OutputInv

\* The names of a finite set have an order.
LEMMA InOrderExists ==
  ASSUME NEW S, S \subseteq Nat, IsFiniteSet(S)
  PROVE  \E s \in SetToSeqs(S) : \A i, j \in DOMAIN s : i < j => s[i] < s[j]
<1> DEFINE Sorted(U) == \E s \in SetToSeqs(U) : \A i, j \in DOMAIN s : i < j => s[i] < s[j]
           T == {n \in Nat : \A U \in SUBSET Nat : IsFiniteSet(U) /\ Cardinality(U) = n => Sorted(U)}
<1>1. 0 \in T
  <2>1. ASSUME NEW U \in SUBSET Nat, IsFiniteSet(U), Cardinality(U) = 0 PROVE Sorted(U)
    <3>1. U = {} /\ Cardinality(U) = 0
      BY <2>1, FS_EmptySet
    <3>2. <<>> \in [1 .. 0 -> {}] /\ DOMAIN <<>> = {}
      OBVIOUS
    <3>3. <<>> \in SetToSeqs(U)
      BY <3>1, <3>2 DEF SetToSeqs
    <3>4. QED
      BY <3>2, <3>3
  <2>2. QED
    BY <2>1
<1>2. ASSUME NEW n \in 1 .. Cardinality(S), n - 1 \in T PROVE n \in T
  <2>1. n \in Nat
    BY FS_CardinalityType
  <2>2. ASSUME NEW U \in SUBSET Nat, IsFiniteSet(U), Cardinality(U) = n PROVE Sorted(U)
    <3>1. U # {}
      BY <1>2, <2>1, <2>2, FS_EmptySet
    <3>2. PICK m \in U : \A k \in U : m <= k
      BY <3>1, LeastNatural
    <3> DEFINE V == U \ {m}
    <3>3. V \in SUBSET Nat /\ IsFiniteSet(V) /\ Cardinality(V) = n - 1
      BY <2>2, <3>2, FS_RemoveElement
    <3>4. PICK s \in SetToSeqs(V) : \A i, j \in DOMAIN s : i < j => s[i] < s[j]
      BY <1>2, <3>3
    <3>5. s \in [1 .. n - 1 -> V] /\ \A i, j \in 1 .. n - 1 : i # j => s[i] # s[j]
      BY <3>3 DEF SetToSeqs
    <3> DEFINE t == [i \in 1 .. n |-> IF i = 1 THEN m ELSE s[i - 1]]
    <3>6. \A i \in 1 .. n : i # 1 => i - 1 \in 1 .. n - 1
      BY <2>1
    <3>7. \A i \in 1 .. n - 1 : s[i] \in U /\ m < s[i]
      <4>1. ASSUME NEW i \in 1 .. n - 1 PROVE s[i] \in U /\ m < s[i]
        <5>1. s[i] \in V
          BY <3>5
        <5>2. s[i] \in U /\ s[i] # m /\ m <= s[i] /\ s[i] \in Nat /\ m \in Nat
          BY <3>2, <5>1
        <5>3. QED
          BY <5>2
      <4>2. QED
        BY <4>1
    <3>8. t \in [1 .. n -> U]
      BY <3>2, <3>6, <3>7
    <3>9. \A i, j \in 1 .. n : i < j => t[i] < t[j]
      <4>1. ASSUME NEW i \in 1 .. n, NEW j \in 1 .. n, i < j PROVE t[i] < t[j]
        <5>1. j # 1 /\ j - 1 \in 1 .. n - 1 /\ t[j] = s[j - 1]
          BY <3>6, <4>1, <2>1
        <5>2. CASE i = 1
          BY <3>7, <5>1, <5>2
        <5>3. CASE i # 1
          <6>1. i - 1 \in 1 .. n - 1 /\ t[i] = s[i - 1] /\ i - 1 < j - 1
            BY <3>6, <4>1, <5>3, <2>1
          <6>2. QED
            BY <3>4, <3>5, <5>1, <6>1
        <5>4. QED
          BY <5>2, <5>3
      <4>2. QED
        BY <4>1
    <3> HIDE DEF t
    <3>10. \A i, j \in 1 .. n : i # j => t[i] # t[j]
      <4>1. ASSUME NEW i \in 1 .. n, NEW j \in 1 .. n, i # j PROVE t[i] # t[j]
        <5>1. t[i] \in Nat /\ t[j] \in Nat
          BY <3>8
        <5>2. t[i] < t[j] \/ t[j] < t[i]
          BY <3>9, <4>1, <2>1
        <5>3. QED
          BY <5>1, <5>2
      <4>2. QED
        BY <4>1
    <3>11. t \in SetToSeqs(U) /\ DOMAIN t = 1 .. n
      BY <2>2, <3>8, <3>10 DEF SetToSeqs
    <3>12. QED
      BY <3>9, <3>11
  <2>3. QED
    BY <2>1, <2>2
<1> HIDE DEF T
<1>3. 0 .. Cardinality(S) \subseteq T
  BY <1>1, <1>2, FiniteInduction, FS_CardinalityType
<1>4. Cardinality(S) \in T
  BY <1>3, FS_CardinalityType
<1>5. QED
  BY <1>4 DEF T

\* Sorting the attribute names of an operation loses and repeats none.
LEMMA InOrderFacts ==
  ASSUME NEW S, S \subseteq Nat, IsFiniteSet(S)
  PROVE  IsInjective(InOrder(S)) /\ ToSet(InOrder(S)) = S
<1> DEFINE s == InOrder(S)
<1>1. s \in SetToSeqs(S)
  BY InOrderExists DEF InOrder
<1> HIDE DEF s
<1>2. s \in [1 .. Cardinality(S) -> S] /\ \A i, j \in 1 .. Cardinality(S) : i # j => s[i] # s[j]
  BY <1>1 DEF SetToSeqs
<1>3. IsInjective(s)
  BY <1>2 DEF IsInjective
<1>4. ToSet(s) = S
  <2>1. s \in Injection(1 .. Cardinality(S), S)
    BY <1>2, <1>3 DEF Injection
  <2>2. Cardinality(S) \in Nat
    BY FS_CardinalityType
  <2>3. Cardinality(1 .. Cardinality(S)) = Cardinality(S)
    BY <2>2, FS_Interval
  <2>4. s \in Surjection(1 .. Cardinality(S), S)
    BY <2>1, <2>3, FS_Injection
  <2>5. \A x \in S : \E i \in 1 .. Cardinality(S) : s[i] = x
    BY <2>4 DEF Surjection
  <2>6. QED
    BY <1>2, <2>5, ZenonT(60) DEF ToSet
<1>5. QED
  BY <1>3, <1>4 DEF s

\* The members of a list are finitely many.
LEMMA FiniteToSet ==
  ASSUME NEW n \in Nat, NEW s, DOMAIN s = 1 .. n
  PROVE  IsFiniteSet(ToSet(s))
<1> DEFINE f == [i \in 1 .. n |-> s[i]]
<1>1. f \in Surjection(1 .. n, ToSet(s))
  BY DEF Surjection, ToSet
<1>2. IsFiniteSet(1 .. n)
  BY FS_Interval
<1>3. QED
  BY <1>1, <1>2, FS_Surjection

-----------------------------------------------------------------------------
(* What is written with a table that separates values is the module again. *)

\* Blocks of operations whose operands are results of the same block.
IsModule(blocks) ==
  /\ DOMAIN blocks \subseteq Nat /\ blocks = [b \in DOMAIN blocks |-> blocks[b]]
  /\ \A b \in DOMAIN blocks :
       /\ DOMAIN blocks[b] \subseteq Nat /\ blocks[b] = [s \in DOMAIN blocks[b] |-> blocks[b][s]]
       /\ \A s \in DOMAIN blocks[b] :
            LET op == blocks[b][s]
            IN /\ op = [operator |-> op.operator, outputs |-> op.outputs,
                        attributes |-> op.attributes, inputs |-> op.inputs]
               /\ op.outputs \in Nat
               /\ op.attributes \subseteq Nat /\ IsFiniteSet(op.attributes)
               /\ op.inputs = [i \in DOMAIN op.inputs |-> op.inputs[i]]
               /\ \A i \in DOMAIN op.inputs : op.inputs[i] # AnyValue =>
                    \E t \in DOMAIN blocks[b] : \E j \in 1 .. blocks[b][t].outputs :
                      op.inputs[i] = OperationResult(b, t, j)
  /\ \A b, c \in DOMAIN blocks : \A s \in DOMAIN blocks[b] : \A t \in DOMAIN blocks[c] :
       blocks[b][s].operator = blocks[c][t].operator => blocks[b][s].outputs = blocks[c][t].outputs

\* Results of one block have different names, which are not <<ANY>>.
Separates(table, blocks) ==
  \A b \in DOMAIN blocks : \A s, t \in DOMAIN blocks[b] :
    \A i \in 1 .. blocks[b][s].outputs : \A j \in 1 .. blocks[b][t].outputs :
      /\ table[OperationResult(b, s, i)] # AnyValue
      /\ table[OperationResult(b, s, i)] = table[OperationResult(b, t, j)] => s = t /\ i = j

\* Whatever table of names separates the results of each block, what is written
\* with it is well formed and means the module.
LEMMA WrittenModule ==
  ASSUME NEW blocks, IsModule(blocks), NEW table, Separates(table, blocks), NEW text,
         text = [b \in DOMAIN blocks |-> [s \in DOMAIN blocks[b] |-> Text(table, b, s, blocks[b][s])]]
  PROVE  WellFormed(text) /\ Meaning(text) = blocks
<1>1. DOMAIN text = DOMAIN blocks /\ \A b \in DOMAIN blocks : DOMAIN text[b] = DOMAIN blocks[b]
  OBVIOUS
<1>2. ASSUME NEW b \in DOMAIN blocks, NEW s \in DOMAIN blocks[b]
      PROVE  /\ Len(text[b][s].results) = blocks[b][s].outputs
             /\ DOMAIN text[b][s].results = 1 .. blocks[b][s].outputs
             /\ \A i \in 1 .. blocks[b][s].outputs :
                  text[b][s].results[i] = table[OperationResult(b, s, i)]
             /\ text[b][s].operator = blocks[b][s].operator
             /\ IsInjective(text[b][s].attributes)
             /\ ToSet(text[b][s].attributes) = blocks[b][s].attributes
             /\ DOMAIN text[b][s].inputs = DOMAIN blocks[b][s].inputs
             /\ \A i \in DOMAIN blocks[b][s].inputs : text[b][s].inputs[i] =
                  IF blocks[b][s].inputs[i] = AnyValue THEN AnyValue ELSE table[blocks[b][s].inputs[i]]
  <2> DEFINE op == blocks[b][s]
             results == [i \in 1 .. op.outputs |-> table[OperationResult(b, s, i)]]
             inputs == [i \in DOMAIN op.inputs |->
                          IF op.inputs[i] = AnyValue THEN AnyValue ELSE table[op.inputs[i]]]
  <2>1. text[b][s] = Statement(results, op.operator, InOrder(op.attributes), inputs)
    BY DEF Text
  <2>2. /\ text[b][s].results = results /\ text[b][s].operator = op.operator
        /\ text[b][s].attributes = InOrder(op.attributes) /\ text[b][s].inputs = inputs
    BY <2>1 DEF Statement
  <2>3. op.outputs \in Nat /\ op.attributes \subseteq Nat /\ IsFiniteSet(op.attributes)
    BY DEF IsModule
  <2>4. Len(results) = op.outputs
    BY <2>3
  <2>5. IsInjective(InOrder(op.attributes)) /\ ToSet(InOrder(op.attributes)) = op.attributes
    BY <2>3, InOrderFacts
  <2>6. QED
    BY <2>2, <2>4, <2>5
<1>3. \A b \in DOMAIN text : Unambiguous(text, b)
  <2>1. ASSUME NEW b \in DOMAIN text PROVE Unambiguous(text, b)
    <3>1. ASSUME NEW s \in DOMAIN text[b], NEW t \in DOMAIN text[b],
                 NEW i \in DOMAIN text[b][s].results, NEW j \in DOMAIN text[b][t].results,
                 text[b][s].results[i] = text[b][t].results[j]
          PROVE  s = t /\ i = j
      BY <1>1, <1>2, <3>1 DEF Separates
    <3>2. QED
      BY <3>1, UnambiguousAt
  <2>2. QED
    BY <2>1
<1>4. ASSUME NEW b \in DOMAIN blocks, NEW s \in DOMAIN blocks[b], NEW i \in DOMAIN blocks[b][s].inputs,
             blocks[b][s].inputs[i] # AnyValue
      PROVE  /\ text[b][s].inputs[i] # AnyValue
             /\ text[b][s].inputs[i] \in DefinedNames(text, b)
             /\ Denoted(text, b, text[b][s].inputs[i]) = blocks[b][s].inputs[i]
  <2>1. PICK t \in DOMAIN blocks[b] : \E j \in 1 .. blocks[b][t].outputs :
               blocks[b][s].inputs[i] = OperationResult(b, t, j)
    BY <1>4, ZenonT(60) DEF IsModule
  <2>2. PICK j \in 1 .. blocks[b][t].outputs : blocks[b][s].inputs[i] = OperationResult(b, t, j)
    BY <2>1
  <2>3. text[b][s].inputs[i] = table[OperationResult(b, t, j)]
        /\ text[b][t].results[j] = table[OperationResult(b, t, j)]
        /\ t \in DOMAIN text[b] /\ j \in DOMAIN text[b][t].results /\ b \in DOMAIN text
    BY <1>1, <1>2, <1>4, <2>2
  <2>4. table[OperationResult(b, t, j)] # AnyValue
    BY <2>2 DEF Separates
  <2>5. Unambiguous(text, b)
    BY <1>3, <2>3
  <2>6. Denoted(text, b, text[b][t].results[j]) = OperationResult(b, t, j)
    BY <2>3, <2>5, MeaningOfInput, Zenon
  <2>7. text[b][t].results[j] \in DefinedNames(text, b)
    BY <2>3, DefinedName
  <2>8. QED
    BY <2>2, <2>3, <2>4, <2>6, <2>7
<1>5. \A b \in DOMAIN text : \A s \in DOMAIN text[b] : Resolvable(text, b, s)
  <2>1. ASSUME NEW b \in DOMAIN text, NEW s \in DOMAIN text[b], NEW i \in DOMAIN text[b][s].inputs
        PROVE  text[b][s].inputs[i] \in DefinedNames(text, b) \cup {AnyValue}
    <3>1. i \in DOMAIN blocks[b][s].inputs /\ b \in DOMAIN blocks /\ s \in DOMAIN blocks[b]
      BY <1>1, <1>2
    <3>2. CASE blocks[b][s].inputs[i] = AnyValue
      BY <1>2, <3>1, <3>2
    <3>3. CASE blocks[b][s].inputs[i] # AnyValue
      BY <1>4, <3>1, <3>3
    <3>4. QED
      BY <3>2, <3>3
  <2>2. ASSUME NEW b \in DOMAIN text, NEW s \in DOMAIN text[b] PROVE Resolvable(text, b, s)
    <3>1. ASSUME NEW name \in ToSet(text[b][s].inputs)
          PROVE  name \in DefinedNames(text, b) \cup {AnyValue}
      <4>1. PICK i \in DOMAIN text[b][s].inputs : name = text[b][s].inputs[i]
        BY DEF ToSet
      <4>2. QED
        BY <2>1, <4>1
    <3>2. QED
      BY <3>1 DEF Resolvable
  <2>3. QED
    BY <2>2
<1>6. WellFormed(text)
  <2>1. \A b \in DOMAIN text : \A s \in DOMAIN text[b] : IsInjective(text[b][s].attributes)
    BY <1>1, <1>2
  <2>2. \A b, c \in DOMAIN text : \A s \in DOMAIN text[b] : \A t \in DOMAIN text[c] :
          text[b][s].operator = text[c][t].operator =>
            Len(text[b][s].results) = Len(text[c][t].results)
    BY <1>1, <1>2 DEF IsModule
  <2>3. QED
    BY <1>3, <1>5, <2>1, <2>2, WellFormedAt
<1>7. ASSUME NEW b \in DOMAIN blocks, NEW s \in DOMAIN blocks[b]
      PROVE  Meaning(text)[b][s] = blocks[b][s]
  <2> DEFINE op == blocks[b][s]
             inputs == [i \in DOMAIN text[b][s].inputs |->
                          IF text[b][s].inputs[i] = AnyValue THEN AnyValue
                          ELSE Denoted(text, b, text[b][s].inputs[i])]
  <2>1. Meaning(text)[b][s] =
          [operator |-> text[b][s].operator, outputs |-> Len(text[b][s].results),
           attributes |-> ToSet(text[b][s].attributes), inputs |-> inputs]
    BY <1>1 DEF Meaning
  <2>2. DOMAIN inputs = DOMAIN op.inputs
    BY <1>2
  <2>3. \A i \in DOMAIN op.inputs : inputs[i] = op.inputs[i]
    <3>1. ASSUME NEW i \in DOMAIN op.inputs PROVE inputs[i] = op.inputs[i]
      <4>1. i \in DOMAIN text[b][s].inputs
        BY <1>2
      <4>2. CASE op.inputs[i] = AnyValue
        BY <1>2, <4>1, <4>2
      <4>3. CASE op.inputs[i] # AnyValue
        <5>1. text[b][s].inputs[i] # AnyValue /\ Denoted(text, b, text[b][s].inputs[i]) = op.inputs[i]
          BY <1>4, <4>3
        <5>2. inputs[i] = Denoted(text, b, text[b][s].inputs[i])
          BY <4>1, <5>1
        <5>3. QED
          BY <5>1, <5>2
      <4>4. QED
        BY <4>2, <4>3
    <3>2. QED
      BY <3>1
  <2>4. op.inputs = [i \in DOMAIN op.inputs |-> op.inputs[i]]
    BY DEF IsModule
  <2>5. inputs = [i \in DOMAIN text[b][s].inputs |-> inputs[i]] /\ DOMAIN text[b][s].inputs = DOMAIN op.inputs
    BY <1>2
  <2> HIDE DEF inputs
  <2>6. inputs = op.inputs
    BY <2>2, <2>3, <2>4, <2>5
  <2>7. op = [operator |-> op.operator, outputs |-> op.outputs,
              attributes |-> op.attributes, inputs |-> op.inputs]
    BY DEF IsModule
  <2>8. text[b][s].operator = op.operator /\ Len(text[b][s].results) = op.outputs
        /\ ToSet(text[b][s].attributes) = op.attributes
    BY <1>2
  <2>9. Meaning(text)[b][s] = [operator |-> op.operator, outputs |-> op.outputs,
                              attributes |-> op.attributes, inputs |-> op.inputs]
    BY <2>1, <2>6, <2>8
  <2>10. QED
    BY <2>7, <2>9
<1>8. Meaning(text) = blocks
  <2>1. Meaning(text) = [b \in DOMAIN blocks |-> Meaning(text)[b]]
    BY <1>1, Zenon DEF Meaning
  <2>2. ASSUME NEW b \in DOMAIN blocks PROVE Meaning(text)[b] = blocks[b]
    <3>1. Meaning(text)[b] = [s \in DOMAIN blocks[b] |-> Meaning(text)[b][s]]
      BY <1>1 DEF Meaning
    <3>2. Meaning(text)[b] = [s \in DOMAIN blocks[b] |-> blocks[b][s]]
      BY <1>7, <3>1
    <3>3. QED
      BY <3>2 DEF IsModule
  <2>3. Meaning(text) = [b \in DOMAIN blocks |-> blocks[b]]
    BY <2>1, <2>2
  <2>4. QED
    BY <2>3 DEF IsModule
<1>9. QED
  BY <1>6, <1>8

\* The meaning of a well formed program is a module.
LEMMA MeaningIsModule ==
  ASSUME NEW text, IsProgram(text), WellFormed(text)
  PROVE  /\ IsModule(Meaning(text))
         /\ DOMAIN Meaning(text) = DOMAIN text
         /\ \A b \in DOMAIN text :
              /\ DOMAIN Meaning(text)[b] = DOMAIN text[b]
              /\ \A s \in DOMAIN text[b] :
                   /\ Meaning(text)[b][s].outputs = Len(text[b][s].results)
                   /\ Meaning(text)[b][s].operator = text[b][s].operator
                   /\ Meaning(text)[b][s].attributes = ToSet(text[b][s].attributes)
                   /\ DOMAIN Meaning(text)[b][s].inputs = DOMAIN text[b][s].inputs
                   /\ \A i \in DOMAIN text[b][s].inputs :
                        IF text[b][s].inputs[i] = AnyValue
                        THEN Meaning(text)[b][s].inputs[i] = AnyValue
                        ELSE \E t \in DOMAIN text[b] : \E j \in 1 .. Len(text[b][t].results) :
                               /\ text[b][t].results[j] = text[b][s].inputs[i]
                               /\ Meaning(text)[b][s].inputs[i] = OperationResult(b, t, j)
<1> DEFINE blocks == Meaning(text)
           Inputs(b, s) == [i \in DOMAIN text[b][s].inputs |->
                              IF text[b][s].inputs[i] = AnyValue THEN AnyValue
                              ELSE Denoted(text, b, text[b][s].inputs[i])]
<1>1. /\ Len(text) \in Nat /\ DOMAIN text = 1 .. Len(text)
      /\ \A b \in DOMAIN text : Len(text[b]) \in Nat /\ DOMAIN text[b] = 1 .. Len(text[b])
  BY ProgramFacts
<1>2. blocks = [b \in DOMAIN text |-> blocks[b]] /\ DOMAIN blocks = DOMAIN text
  BY DEF Meaning
<1>3. \A b \in DOMAIN text :
        blocks[b] = [s \in DOMAIN text[b] |-> blocks[b][s]] /\ DOMAIN blocks[b] = DOMAIN text[b]
  BY DEF Meaning
<1>4. ASSUME NEW b \in DOMAIN text, NEW s \in DOMAIN text[b]
      PROVE  blocks[b][s] = [operator |-> text[b][s].operator, outputs |-> Len(text[b][s].results),
                             attributes |-> ToSet(text[b][s].attributes), inputs |-> Inputs(b, s)]
  BY DEF Meaning
<1> HIDE DEF blocks, Inputs
<1>5. ASSUME NEW b \in DOMAIN text, NEW s \in DOMAIN text[b]
      PROVE  /\ blocks[b][s].operator = text[b][s].operator
             /\ blocks[b][s].outputs = Len(text[b][s].results)
             /\ blocks[b][s].attributes = ToSet(text[b][s].attributes)
             /\ blocks[b][s].inputs = Inputs(b, s)
  <2>1. blocks[b][s] = [operator |-> text[b][s].operator, outputs |-> Len(text[b][s].results),
                        attributes |-> ToSet(text[b][s].attributes), inputs |-> Inputs(b, s)]
    BY <1>4, Zenon
  <2>2. QED
    BY <2>1
<1>6. ASSUME NEW b \in DOMAIN text, NEW s \in DOMAIN text[b],
             NEW i \in DOMAIN text[b][s].inputs, text[b][s].inputs[i] # AnyValue
      PROVE  \E t \in DOMAIN text[b] : \E j \in 1 .. Len(text[b][t].results) :
               /\ text[b][t].results[j] = text[b][s].inputs[i]
               /\ Inputs(b, s)[i] = OperationResult(b, t, j)
  <2>1. Resolvable(text, b, s) /\ Unambiguous(text, b)
    BY WellFormedAt
  <2>2. text[b][s].inputs[i] \in DefinedNames(text, b)
    BY <1>6, <2>1 DEF Resolvable, ToSet
  <2>3. PICK t \in DOMAIN text[b] :
          \E j \in DOMAIN text[b][t].results : text[b][t].results[j] = text[b][s].inputs[i]
    BY <2>2, DefinedName
  <2>4. PICK j \in DOMAIN text[b][t].results : text[b][t].results[j] = text[b][s].inputs[i]
    BY <2>3
  <2>5. Denoted(text, b, text[b][t].results[j]) = OperationResult(b, t, j)
    BY <2>1, MeaningOfInput
  <2>6. Inputs(b, s)[i] = OperationResult(b, t, j)
    BY <1>6, <2>4, <2>5 DEF Inputs
  <2>7. j \in 1 .. Len(text[b][t].results)
    BY ProgramFacts
  <2>8. QED
    BY <2>4, <2>6, <2>7
<1>7. IsModule(blocks)
  <2>1. DOMAIN blocks \subseteq Nat /\ blocks = [b \in DOMAIN blocks |-> blocks[b]]
    BY <1>1, <1>2
  <2>2. ASSUME NEW b \in DOMAIN blocks
        PROVE  DOMAIN blocks[b] \subseteq Nat /\ blocks[b] = [s \in DOMAIN blocks[b] |-> blocks[b][s]]
    BY <1>1, <1>2, <1>3
  <2>3. ASSUME NEW b \in DOMAIN blocks, NEW s \in DOMAIN blocks[b]
        PROVE  LET op == blocks[b][s]
               IN /\ op = [operator |-> op.operator, outputs |-> op.outputs,
                           attributes |-> op.attributes, inputs |-> op.inputs]
                  /\ op.outputs \in Nat
                  /\ op.attributes \subseteq Nat /\ IsFiniteSet(op.attributes)
                  /\ op.inputs = [i \in DOMAIN op.inputs |-> op.inputs[i]]
                  /\ \A i \in DOMAIN op.inputs : op.inputs[i] # AnyValue =>
                       \E t \in DOMAIN blocks[b] : \E j \in 1 .. blocks[b][t].outputs :
                         op.inputs[i] = OperationResult(b, t, j)
    <3> DEFINE op == blocks[b][s]
    <3>1. b \in DOMAIN text /\ s \in DOMAIN text[b]
      BY <1>2, <1>3
    <3>2. text[b][s].attributes \in Seq(Nat) /\ Len(text[b][s].results) \in Nat
      BY <3>1, ProgramFacts
    <3>3. DOMAIN text[b][s].attributes = 1 .. Len(text[b][s].attributes)
          /\ Len(text[b][s].attributes) \in Nat /\ ToSet(text[b][s].attributes) \subseteq Nat
      BY <3>2 DEF ToSet
    <3>4. IsFiniteSet(ToSet(text[b][s].attributes))
      BY <3>3, FiniteToSet
    <3>5. op = [operator |-> op.operator, outputs |-> op.outputs,
                attributes |-> op.attributes, inputs |-> op.inputs]
      <4>1. op = [operator |-> text[b][s].operator, outputs |-> Len(text[b][s].results),
                  attributes |-> ToSet(text[b][s].attributes), inputs |-> Inputs(b, s)]
        BY <1>4, <3>1, Zenon
      <4>2. QED
        BY <4>1
    <3>6. op.inputs = Inputs(b, s) /\ op.outputs = Len(text[b][s].results)
          /\ op.attributes = ToSet(text[b][s].attributes)
      BY <1>5, <3>1
    <3>7. ASSUME NEW i \in DOMAIN op.inputs, op.inputs[i] # AnyValue
          PROVE  \E t \in DOMAIN blocks[b] : \E j \in 1 .. blocks[b][t].outputs :
                   op.inputs[i] = OperationResult(b, t, j)
      <4>1. i \in DOMAIN text[b][s].inputs /\ text[b][s].inputs[i] # AnyValue
        BY <3>6, <3>7 DEF Inputs
      <4>2. PICK t \in DOMAIN text[b] : \E j \in 1 .. Len(text[b][t].results) :
                   Inputs(b, s)[i] = OperationResult(b, t, j)
        BY <1>6, <3>1, <4>1
      <4>3. t \in DOMAIN blocks[b] /\ blocks[b][t].outputs = Len(text[b][t].results)
        BY <1>3, <1>5, <3>1
      <4>4. QED
        BY <3>6, <4>2, <4>3
    <3>8. Inputs(b, s) = [i \in DOMAIN Inputs(b, s) |-> Inputs(b, s)[i]]
      BY DEF Inputs
    <3> HIDE DEF op
    <3>9. op.inputs = [i \in DOMAIN op.inputs |-> op.inputs[i]]
      BY <3>6, <3>8
    <3>10. op.outputs \in Nat /\ op.attributes \subseteq Nat /\ IsFiniteSet(op.attributes)
      BY <3>2, <3>3, <3>4, <3>6
    <3>11. QED
      BY <3>5, <3>7, <3>9, <3>10 DEF op
  <2>4. \A b, c \in DOMAIN blocks : \A s \in DOMAIN blocks[b] : \A t \in DOMAIN blocks[c] :
          blocks[b][s].operator = blocks[c][t].operator => blocks[b][s].outputs = blocks[c][t].outputs
    <3>1. \A b, c \in DOMAIN text : \A s \in DOMAIN text[b] : \A t \in DOMAIN text[c] :
            text[b][s].operator = text[c][t].operator =>
              Len(text[b][s].results) = Len(text[c][t].results)
      BY WellFormedAt
    <3>2. ASSUME NEW b \in DOMAIN blocks, NEW c \in DOMAIN blocks,
                 NEW s \in DOMAIN blocks[b], NEW t \in DOMAIN blocks[c],
                 blocks[b][s].operator = blocks[c][t].operator
          PROVE  blocks[b][s].outputs = blocks[c][t].outputs
      <4>1. b \in DOMAIN text /\ c \in DOMAIN text /\ s \in DOMAIN text[b] /\ t \in DOMAIN text[c]
        BY <1>2, <1>3
      <4>2. QED
        BY <1>5, <3>1, <3>2, <4>1
    <3>3. QED
      BY <3>2
  <2>5. QED
    BY <2>1, <2>2, <2>3, <2>4 DEF IsModule
<1>8. ASSUME NEW b \in DOMAIN text, NEW s \in DOMAIN text[b], NEW i \in DOMAIN text[b][s].inputs
      PROVE  IF text[b][s].inputs[i] = AnyValue
             THEN blocks[b][s].inputs[i] = AnyValue
             ELSE \E t \in DOMAIN text[b] : \E j \in 1 .. Len(text[b][t].results) :
                    /\ text[b][t].results[j] = text[b][s].inputs[i]
                    /\ blocks[b][s].inputs[i] = OperationResult(b, t, j)
  <2>1. CASE text[b][s].inputs[i] = AnyValue
    BY <1>5, <2>1 DEF Inputs
  <2>2. CASE text[b][s].inputs[i] # AnyValue
    BY <1>5, <1>6, <2>2
  <2>3. QED
    BY <2>1, <2>2
<1>9. ASSUME NEW b \in DOMAIN text, NEW s \in DOMAIN text[b]
      PROVE  DOMAIN blocks[b][s].inputs = DOMAIN text[b][s].inputs
  BY <1>5 DEF Inputs
<1>10. QED
  BY <1>2, <1>3, <1>5, <1>7, <1>8, <1>9 DEF blocks

\* The table keeps what it has; new names are made from its size.
Extends(table, old) ==
  DOMAIN old \subseteq DOMAIN table /\ \A v \in DOMAIN old : table[v] = old[v]

\* GetOrCreateID keeps the ids there are and gives a new value an id of its own:
\* the size of the table is an id that no value has.
LEMMA OneMoreID ==
  ASSUME NEW table, table = [v \in DOMAIN table |-> table[v]], NEW value,
         NEW larger, larger = GetOrCreateID(table, value)
  PROVE  /\ larger = [v \in DOMAIN larger |-> larger[v]]
         /\ Extends(larger, table) /\ DOMAIN larger = DOMAIN table \cup {value}
         /\ Numbered(table) => Numbered(larger)
         /\ value \in DOMAIN table => larger = table
<1>1. larger = [v \in DOMAIN table \cup {value} |->
                  IF v \in DOMAIN table THEN table[v] ELSE Cardinality(DOMAIN table)]
  BY DEF GetOrCreateID, Inserted
<1>2. DOMAIN larger = DOMAIN table \cup {value}
  BY <1>1
<1>3. Extends(larger, table)
  BY <1>1, <1>2 DEF Extends
<1>4. larger = [v \in DOMAIN larger |-> larger[v]]
  BY <1>1
<1>5. ASSUME value \in DOMAIN table PROVE larger = table
  BY <1>1, <1>5
<1>6. ASSUME Numbered(table) PROVE Numbered(larger)
  <2>1. CASE value \in DOMAIN table
    BY <1>5, <1>6, <2>1
  <2>2. CASE value \notin DOMAIN table
    <3>1. IsFiniteSet(DOMAIN larger) /\ Cardinality(DOMAIN larger) = Cardinality(DOMAIN table) + 1
          /\ Cardinality(DOMAIN table) \in Nat
      BY <1>2, <1>6, <2>2, FS_AddElement, FS_CardinalityType DEF Numbered
    <3>2. larger[value] = Cardinality(DOMAIN table)
      BY <1>1, <2>2
    <3>3. \A v \in DOMAIN table : larger[v] = table[v] /\ table[v] \in Nat /\ table[v] < Cardinality(DOMAIN table)
      BY <1>1, <1>6 DEF Numbered
    <3>4. \A v \in DOMAIN larger : larger[v] \in Nat /\ larger[v] < Cardinality(DOMAIN larger)
      BY <1>2, <3>1, <3>2, <3>3
    <3>5. ASSUME NEW v \in DOMAIN larger, NEW w \in DOMAIN larger, larger[v] = larger[w] PROVE v = w
      <4>1. \A x \in DOMAIN table : larger[x] # larger[value]
        BY <3>1, <3>2, <3>3
      <4>2. v \in DOMAIN table /\ w \in DOMAIN table => v = w
        BY <1>6, <3>3, <3>5 DEF Numbered, IsInjective
      <4>3. QED
        BY <1>2, <3>5, <4>1, <4>2
    <3>6. QED
      BY <3>1, <3>4, <3>5 DEF Numbered, IsInjective
  <2>3. QED
    BY <2>1, <2>2
<1>7. QED
  BY <1>2, <1>3, <1>4, <1>5, <1>6

\* The tables of the loop over the values of an operation.
Tables(values, base, f) ==
  f = [n \in 0 .. Len(values) |->
         IF n = 0 THEN base
         ELSE IF values[n] = AnyValue THEN f[n - 1]
         ELSE GetOrCreateID(f[n - 1], values[n])]

\* The ids after an operation are those after its last value.
LEMMA NamesAfterTables ==
  ASSUME NEW values, NEW N \in Nat, DOMAIN values = 1 .. N, Len(values) = N,
         NEW base, base = [v \in DOMAIN base |-> base[v]]
  PROVE  \E f : Tables(values, base, f)
<1> DEFINE D == DOMAIN base \cup {values[n] : n \in 1 .. N}
           R == {base[v] : v \in DOMAIN base} \cup {Cardinality(E) : E \in SUBSET D}
           S == UNION {[E -> R] : E \in SUBSET D}
           Value(n, t) == IF values[n] = AnyValue THEN t ELSE GetOrCreateID(t, values[n])
           step == [x \in (1 .. N) \X S |-> Value(x[1], x[2])]
<1>1. base \in S
  <2>1. base \in [DOMAIN base -> R]
    BY Zenon
  <2>2. QED
    BY <2>1
<1>2. ASSUME NEW n \in 1 .. N, NEW t \in S PROVE Value(n, t) \in S
  <2>1. CASE values[n] = AnyValue
    BY <2>1
  <2>2. CASE values[n] # AnyValue
    <3>1. PICK E \in SUBSET D : t \in [E -> R]
      OBVIOUS
    <3>2. values[n] \in D
      OBVIOUS
    <3>3. Cardinality(E) \in R
      OBVIOUS
    <3>4. DOMAIN t = E
      BY <3>1
    <3> HIDE DEF D, R
    <3>5. GetOrCreateID(t, values[n]) \in [E \cup {values[n]} -> R]
      BY <3>1, <3>3, <3>4 DEF GetOrCreateID, Inserted
    <3>6. E \cup {values[n]} \in SUBSET D
      BY <3>2
    <3>7. QED
      BY <2>2, <3>5, <3>6
  <2>3. QED
    BY <2>1, <2>2
<1> HIDE DEF Value, S
<1>3. step \in [(1 .. N) \X S -> S]
  BY <1>2
<1>4. \A n \in 1 .. N : \A t \in S : step[<<n, t>>] = Value(n, t)
  OBVIOUS
<1> HIDE DEF step
<1>9. RecursionExists(N, S, base, step)
  BY <1>1, <1>3, FiniteRecursion
<1>5. PICK g \in [0 .. N -> S] : g[0] = base /\ \A i \in 1 .. N : g[i] = step[<<i, g[i - 1]>>]
  BY <1>9 DEF RecursionExists
<1>6. ASSUME NEW n \in 0 .. N
      PROVE  g[n] = IF n = 0 THEN base
                    ELSE IF values[n] = AnyValue THEN g[n - 1]
                    ELSE GetOrCreateID(g[n - 1], values[n])
  <2>1. CASE n = 0
    BY <1>5, <2>1
  <2>2. CASE n # 0
    <3>1. n \in 1 .. N /\ n - 1 \in 0 .. N
      BY <2>2
    <3>2. g[n] = Value(n, g[n - 1])
      BY <1>4, <1>5, <3>1
    <3>3. QED
      BY <2>2, <3>2 DEF Value
  <2>3. QED
    BY <2>1, <2>2
<1>7. g = [n \in 0 .. N |-> g[n]]
  BY <1>5
<1>8. g = [n \in 0 .. N |->
             IF n = 0 THEN base
             ELSE IF values[n] = AnyValue THEN g[n - 1]
             ELSE GetOrCreateID(g[n - 1], values[n])]
  BY <1>6, <1>7
<1>10. QED
  BY <1>8 DEF Tables

\* What the last table of that loop has.
LastTable(values, base, table) ==
  /\ table = [v \in DOMAIN table |-> table[v]]
  /\ Extends(table, base)
  /\ \A m \in 1 .. Len(values) : values[m] = AnyValue \/ values[m] \in DOMAIN table
  /\ Numbered(base) => Numbered(table)
  /\ (\A m \in 1 .. Len(values) : values[m] = AnyValue \/ values[m] \in DOMAIN base) => table = base

\* Going through values one by one, every value gets an id and keeps it.
LEMMA TablesFacts ==
  ASSUME NEW values, NEW N \in Nat, DOMAIN values = 1 .. N, Len(values) = N,
         NEW base, base = [v \in DOMAIN base |-> base[v]],
         NEW f, Tables(values, base, f)
  PROVE  LastTable(values, base, f[N])
<1> DEFINE Good(n) == /\ f[n] = [v \in DOMAIN f[n] |-> f[n][v]]
                      /\ Extends(f[n], base)
                      /\ \A m \in 1 .. n : values[m] = AnyValue \/ values[m] \in DOMAIN f[n]
                      /\ Numbered(base) => Numbered(f[n])
                      /\ (\A m \in 1 .. N : values[m] = AnyValue \/ values[m] \in DOMAIN base) => f[n] = base
           T == {n \in 0 .. N : Good(n)}
<1>1. /\ f[0] = base
      /\ \A n \in 1 .. N : f[n] = IF values[n] = AnyValue THEN f[n - 1]
                                  ELSE GetOrCreateID(f[n - 1], values[n])
  <2>1. 0 \in 0 .. N /\ \A n \in 1 .. N : n \in 0 .. N /\ n # 0
    OBVIOUS
  <2>2. f = [n \in 0 .. N |->
               IF n = 0 THEN base
               ELSE IF values[n] = AnyValue THEN f[n - 1]
               ELSE GetOrCreateID(f[n - 1], values[n])]
    BY DEF Tables
  <2>3. QED
    BY <2>1, <2>2
<1>2. 0 \in T
  BY <1>1 DEF Extends
<1>3. ASSUME NEW n \in 1 .. N, n - 1 \in T PROVE n \in T
  <2>1. Good(n - 1) /\ n \in 0 .. N
    BY <1>3
  <2>2. 1 .. n = (1 .. n - 1) \cup {n}
    OBVIOUS
  <2>3. CASE values[n] = AnyValue
    <3>1. f[n] = f[n - 1]
      BY <1>1, <2>3
    <3>2. QED
      BY <2>1, <2>2, <2>3, <3>1
  <2>4. CASE values[n] # AnyValue
    <3> DEFINE t == f[n - 1]
    <3>1. f[n] = GetOrCreateID(t, values[n])
      BY <1>1, <2>4
    <3>2. t = [v \in DOMAIN t |-> t[v]]
      BY <2>1
    <3>3. /\ f[n] = [v \in DOMAIN f[n] |-> f[n][v]]
          /\ Extends(f[n], t) /\ DOMAIN f[n] = DOMAIN t \cup {values[n]}
          /\ Numbered(t) => Numbered(f[n])
          /\ values[n] \in DOMAIN t => f[n] = t
      BY <3>1, <3>2, OneMoreID
    <3>4. Extends(f[n], base)
      BY <2>1, <3>3 DEF Extends
    <3>5. \A m \in 1 .. n : values[m] = AnyValue \/ values[m] \in DOMAIN f[n]
      BY <2>1, <2>2, <3>3
    <3>6. ASSUME \A m \in 1 .. N : values[m] = AnyValue \/ values[m] \in DOMAIN base PROVE f[n] = base
      BY <2>1, <2>4, <3>3, <3>6
    <3>7. QED
      BY <2>1, <3>3, <3>4, <3>5, <3>6
  <2>5. QED
    BY <2>3, <2>4
<1> HIDE DEF T, Good
<1>4. 0 .. N \subseteq T
  BY <1>2, <1>3, FiniteInduction
<1>5. N \in T
  BY <1>4
<1>6. QED
  BY <1>5 DEF T, Good, LastTable

\* After an operation the table has the old ids and one for each value that the
\* operation uses or defines.
LEMMA NamesAfterFacts ==
  ASSUME names = [v \in DOMAIN names |-> names[v]],
         NEW b \in Nat, NEW s \in Nat, NEW op, op.outputs \in Nat,
         NEW n \in Nat, DOMAIN op.inputs = 1 .. n, op.inputs \in Seq(ToSet(op.inputs))
  PROVE  LET table == NamesAfter(b, s, op)
         IN /\ table = [v \in DOMAIN table |-> table[v]]
            /\ Extends(table, names) /\ Covers(table, b, s, op)
            /\ Numbered(names) => Numbered(table)
            /\ Covers(names, b, s, op) => table = names
<1> DEFINE inputs == IF client \in Printers THEN op.inputs ELSE Reverse(op.inputs)
           results == [i \in 1 .. op.outputs |-> OperationResult(b, s, i)]
           values == inputs \o results
           N == Len(values)
           f == CHOOSE f : Tables(values, names, f)
<1>1. NamesAfter(b, s, op) = f[N]
  BY DEF NamesAfter, Tables
<1>2. Len(op.inputs) = n
  BY LenProperties
<1>3. /\ inputs \in Seq(ToSet(op.inputs)) /\ Len(inputs) = n
      /\ \A i \in 1 .. n : inputs[i] \in ToSet(op.inputs)
      /\ \A i \in 1 .. n : \E j \in 1 .. n : inputs[j] = op.inputs[i]
  <2>1. CASE client \in Printers
    <3>1. inputs = op.inputs
      BY <2>1
    <3>2. QED
      BY <1>2, <3>1 DEF ToSet
  <2>2. CASE client \notin Printers
    <3>1. inputs = [i \in 1 .. n |-> op.inputs[n - i + 1]]
      BY <1>2, <2>2 DEF Reverse
    <3>2. \A i \in 1 .. n : n - i + 1 \in 1 .. n /\ n - (n - i + 1) + 1 = i
      OBVIOUS
    <3> HIDE DEF inputs
    <3>3. \A i \in 1 .. n : op.inputs[i] \in ToSet(op.inputs)
      BY DEF ToSet
    <3>4. inputs \in [1 .. n -> ToSet(op.inputs)]
      BY <3>1, <3>2, <3>3
    <3>5. inputs \in Seq(ToSet(op.inputs)) /\ Len(inputs) = n
      BY <3>4
    <3>6. \A i \in 1 .. n : inputs[n - i + 1] = op.inputs[i]
      BY <3>1, <3>2
    <3>7. QED
      BY <3>2, <3>4, <3>5, <3>6
  <2>3. QED
    BY <2>1, <2>2
<1>4. results \in Seq(Nat \X Nat \X Nat) /\ Len(results) = op.outputs
  <2>1. \A i \in 1 .. op.outputs : OperationResult(b, s, i) \in Nat \X Nat \X Nat
    BY DEF OperationResult
  <2>2. results \in [1 .. op.outputs -> Nat \X Nat \X Nat]
    BY <2>1
  <2> HIDE DEF results
  <2>3. QED
    BY <2>2
<1>5. \A i \in 1 .. op.outputs : results[i] = OperationResult(b, s, i) /\ results[i] # AnyValue
  <2>1. \A i \in 1 .. op.outputs : OperationResult(b, s, i) \in Nat \X Nat \X Nat
    BY DEF OperationResult
  <2>2. QED
    BY <2>1, ProgramsAssumption
<1> DEFINE V == ToSet(op.inputs) \cup (Nat \X Nat \X Nat)
<1>6. inputs \in Seq(V) /\ results \in Seq(V)
  BY <1>3, <1>4, SeqMonotonic
<1> HIDE DEF inputs, results, V
<1>7. /\ N = n + op.outputs /\ N \in Nat /\ DOMAIN values = 1 .. N
      /\ \A i \in 1 .. n : values[i] = inputs[i]
      /\ \A i \in 1 .. op.outputs : values[n + i] = results[i]
      /\ \A i \in 1 .. N : i \in 1 .. n \/ (i - n \in 1 .. op.outputs /\ values[i] = results[i - n])
  <2>1. /\ values \in Seq(V) /\ Len(values) = Len(inputs) + Len(results)
        /\ \A i \in 1 .. Len(inputs) + Len(results) :
             values[i] = IF i <= Len(inputs) THEN inputs[i] ELSE results[i - Len(inputs)]
    BY <1>6, ConcatProperties
  <2> HIDE DEF values
  <2>2. N = n + op.outputs /\ N \in Nat /\ DOMAIN values = 1 .. N
    BY <1>3, <1>4, <2>1, LenProperties
  <2>3. \A i \in 1 .. N : values[i] = IF i <= n THEN inputs[i] ELSE results[i - n]
    BY <1>3, <1>4, <2>1, <2>2
  <2> HIDE DEF N
  <2>4. \A i \in 1 .. n : i \in 1 .. N /\ i <= n
    BY <2>2
  <2>5. \A i \in 1 .. op.outputs : n + i \in 1 .. N /\ ~(n + i <= n) /\ n + i - n = i
    BY <2>2
  <2>6. ASSUME NEW i \in 1 .. N PROVE i \in 1 .. n \/ (i - n \in 1 .. op.outputs /\ ~(i <= n))
    <3> DEFINE k == op.outputs
    <3>1. N = n + k /\ k \in Nat
      BY <2>2
    <3> HIDE DEF k
    <3>2. i \in 1 .. n \/ (i - n \in 1 .. k /\ ~(i <= n))
      BY <3>1
    <3>3. QED
      BY <3>2 DEF k
  <2>7. QED
    BY <2>2, <2>3, <2>4, <2>5, <2>6
<1> HIDE DEF values
<1>8. \E g : Tables(values, names, g)
  <2>1. N \in Nat /\ DOMAIN values = 1 .. N /\ Len(values) = N
    BY <1>7
  <2>2. QED
    BY <2>1, NamesAfterTables
<1>9. Tables(values, names, f)
  BY <1>8, Zenon
<1> HIDE DEF f
<1>10. /\ f[N] = [v \in DOMAIN f[N] |-> f[N][v]]
       /\ Extends(f[N], names)
       /\ \A m \in 1 .. N : values[m] = AnyValue \/ values[m] \in DOMAIN f[N]
       /\ Numbered(names) => Numbered(f[N])
       /\ (\A m \in 1 .. N : values[m] = AnyValue \/ values[m] \in DOMAIN names) => f[N] = names
  <2>1. N \in Nat /\ DOMAIN values = 1 .. N /\ Len(values) = N
    BY <1>7
  <2>2. LastTable(values, names, f[N])
    BY <1>9, <2>1, TablesFacts
  <2>3. QED
    BY <2>2 DEF LastTable
<1>11. Covers(f[N], b, s, op)
  <2>1. ASSUME NEW i \in 1 .. op.outputs PROVE OperationResult(b, s, i) \in DOMAIN f[N]
    <3>1. n + i \in 1 .. N /\ values[n + i] = OperationResult(b, s, i) /\ values[n + i] # AnyValue
      <4>1. n + i \in 1 .. N
        BY <1>7
      <4>2. QED
        BY <1>5, <1>7, <4>1
    <3>2. QED
      BY <1>10, <3>1
  <2>2. ASSUME NEW i \in DOMAIN op.inputs PROVE op.inputs[i] = AnyValue \/ op.inputs[i] \in DOMAIN f[N]
    <3>1. PICK j \in 1 .. n : inputs[j] = op.inputs[i]
      BY <1>3
    <3>2. j \in 1 .. N /\ values[j] = op.inputs[i]
      BY <1>7, <3>1
    <3>3. QED
      BY <1>10, <3>2
  <2>3. QED
    BY <2>1, <2>2 DEF Covers
<1>12. ASSUME Covers(names, b, s, op) PROVE f[N] = names
  <2>1. \A x \in ToSet(op.inputs) : x = AnyValue \/ x \in DOMAIN names
    BY <1>12 DEF Covers, ToSet
  <2>2. \A m \in 1 .. N : values[m] = AnyValue \/ values[m] \in DOMAIN names
    BY <1>3, <1>5, <1>7, <1>12, <2>1 DEF Covers
  <2>3. QED
    BY <1>10, <2>2
<1>13. QED
  BY <1>1, <1>10, <1>11, <1>12

-----------------------------------------------------------------------------
\* Nothing is named or written at first.
LEMMA InitWriting == Init => NamesInv /\ OutputInv
<1> SUFFICES ASSUME Init PROVE NamesInv /\ OutputInv
  OBVIOUS
<1>1. names = <<>> /\ DOMAIN names = {} /\ pc = "collect" /\ block = 1 /\ IsProgram(program)
  BY ProgramsAssumption DEF Init
<1>2. names = [v \in DOMAIN names |-> names[v]]
  BY <1>1
<1>3. \A b \in DOMAIN program : ~Named(b)
  <2>1. \A b \in DOMAIN program : ~(b < 1)
    BY <1>1, ProgramFacts
  <2>2. QED
    BY <1>1, <2>1 DEF Named
<1>4. QED
  BY <1>1, <1>2, <1>3 DEF NamesInv, OutputInv

\* A step that gives no names, of a loop that goes on or dies.
LEMMA NamesKept ==
  ASSUME NamesInv, Parsing, UNCHANGED <<program, names>>,
         pc' = "died" \/ (pc' = pc /\ block' = block)
  PROVE  NamesInv' /\ OutputInv'
<1>1. pc' # "write"
  BY DEF Parsing
<1>2. OutputInv'
  BY <1>1 DEF OutputInv
<1>3. CASE pc' = "died"
  BY <1>2, <1>3 DEF NamesInv, KeepsNames, Parsing
<1>4. CASE pc' = pc /\ block' = block
  BY <1>2, <1>4 DEF NamesInv, KeepsNames, Parsing, Named
<1>5. QED
  BY <1>3, <1>4

\* The parser gives each result the name that the program gives it.
LEMMA IdsOfTemporariesFacts ==
  ASSUME Inv, Parsing, block <= Len(program), CollectedTo(block) = Len(program[block])
  PROVE  /\ \A v \in DOMAIN IdsOfTemporaries : v[1] = block
         /\ \A s \in DOMAIN program[block] : \A i \in DOMAIN program[block][s].results :
              /\ OperationResult(block, s, i) \in DOMAIN IdsOfTemporaries
              /\ IdsOfTemporaries[OperationResult(block, s, i)] = program[block][s].results[i]
<1>1. \A s \in DOMAIN program[block] : \A i \in DOMAIN program[block][s].results :
        /\ program[block][s].results[i] \in DOMAIN temporaries
        /\ temporaries[program[block][s].results[i]] = OperationResult(block, s, i)
  BY TemporariesAreDefinitions, DefinedName
<1>2. ASSUME NEW name \in DOMAIN temporaries
      PROVE  \E s \in DOMAIN program[block] : \E i \in DOMAIN program[block][s].results :
               program[block][s].results[i] = name /\ temporaries[name] = OperationResult(block, s, i)
  <2>1. name \in DefinedNames(program, block)
    BY TemporariesAreDefinitions
  <2>2. PICK s \in DOMAIN program[block] : \E i \in DOMAIN program[block][s].results :
               program[block][s].results[i] = name
    BY <2>1, DefinedName
  <2>3. QED
    BY <1>1, <2>2
<1>3. DOMAIN IdsOfTemporaries = Range(temporaries)
  BY DEF IdsOfTemporaries
<1>4. ASSUME NEW v \in DOMAIN IdsOfTemporaries PROVE v[1] = block
  <2>1. PICK name \in DOMAIN temporaries : v = temporaries[name]
    BY <1>3 DEF Range
  <2>2. QED
    BY <1>2, <2>1 DEF OperationResult
<1>5. ASSUME NEW s \in DOMAIN program[block], NEW i \in DOMAIN program[block][s].results
      PROVE  /\ OperationResult(block, s, i) \in DOMAIN IdsOfTemporaries
             /\ IdsOfTemporaries[OperationResult(block, s, i)] = program[block][s].results[i]
  <2> DEFINE v == OperationResult(block, s, i)
             own == program[block][s].results[i]
  <2>1. own \in DOMAIN temporaries /\ temporaries[own] = v
    BY <1>1
  <2>2. v \in Range(temporaries)
    BY <2>1 DEF Range
  <2>3. ASSUME NEW name \in DOMAIN temporaries, temporaries[name] = v PROVE name = own
    <3>1. PICK t \in DOMAIN program[block] : \E j \in DOMAIN program[block][t].results :
                 program[block][t].results[j] = name /\ v = OperationResult(block, t, j)
      BY <1>2, <2>3
    <3>2. QED
      BY <3>1 DEF OperationResult
  <2> HIDE DEF v, own
  <2>4. (CHOOSE name \in DOMAIN temporaries : temporaries[name] = v) = own
    BY <2>1, <2>3
  <2>5. IdsOfTemporaries[v] = own
    BY <2>2, <2>4 DEF IdsOfTemporaries
  <2>6. QED
    BY <1>3, <2>2, <2>5 DEF v, own
<1>6. QED
  BY <1>4, <1>5

\* Adding the temporaries to SsaNames names the results of the block.
LEMMA NameWriting == Inv /\ NamesInv /\ NameTemporaries => NamesInv' /\ OutputInv'
<1> SUFFICES ASSUME Inv, NamesInv, NameTemporaries PROVE NamesInv' /\ OutputInv'
  OBVIOUS
<1>1. /\ pc = "collect" /\ block <= Len(program) /\ next > Len(program[block])
      /\ pc' = "resolve" /\ names' = Inserted(names, IdsOfTemporaries)
      /\ UNCHANGED <<program, block>>
  BY DEF NameTemporaries
<1>2. /\ IsProgram(program) /\ block \in DOMAIN program /\ block \in Nat \ {0}
      /\ next \in Nat \ {0} /\ Len(program[block]) \in Nat /\ DOMAIN program = 1 .. Len(program)
  BY <1>1, ProgramFacts DEF Inv, PositionInv
<1>3. Parsing /\ Parsing' /\ CollectedTo(block) = Len(program[block])
  BY <1>1, <1>2 DEF Parsing, CollectedTo, Inv, PositionInv
<1>4. names' = [v \in DOMAIN names' |-> names'[v]]
  BY <1>1 DEF Inserted
<1>5. /\ DOMAIN names' = DOMAIN names \cup DOMAIN IdsOfTemporaries
      /\ \A v \in DOMAIN names : names'[v] = names[v]
      /\ \A v \in DOMAIN IdsOfTemporaries : v \notin DOMAIN names => names'[v] = IdsOfTemporaries[v]
  BY <1>1 DEF Inserted
<1>6. /\ \A v \in DOMAIN IdsOfTemporaries : v[1] = block
      /\ \A s \in DOMAIN program[block] : \A i \in DOMAIN program[block][s].results :
           /\ OperationResult(block, s, i) \in DOMAIN IdsOfTemporaries
           /\ IdsOfTemporaries[OperationResult(block, s, i)] = program[block][s].results[i]
  BY <1>1, <1>3, IdsOfTemporariesFacts
<1>7. \A v \in DOMAIN names : v[1] \in DOMAIN program /\ v[1] < block
  BY <1>1, <1>3 DEF NamesInv, Named
<1>8. \A v \in DOMAIN names' : v[1] \in DOMAIN program /\ Named(v[1])'
  <2>1. ASSUME NEW v \in DOMAIN names' PROVE v[1] \in DOMAIN program /\ Named(v[1])'
    <3>1. CASE v \in DOMAIN names
      BY <1>1, <1>7, <3>1 DEF Named
    <3>2. CASE v \in DOMAIN IdsOfTemporaries
      BY <1>1, <1>2, <1>6, <3>2 DEF Named
    <3>3. QED
      BY <1>5, <3>1, <3>2
  <2>2. QED
    BY <2>1
<1>9. ASSUME NEW b \in DOMAIN program, Named(b)',
             NEW s \in DOMAIN program[b], NEW i \in DOMAIN program[b][s].results
      PROVE  /\ OperationResult(b, s, i) \in DOMAIN names'
             /\ names'[OperationResult(b, s, i)] = program[b][s].results[i]
  <2>1. b < block \/ b = block
    BY <1>1, <1>9 DEF Named
  <2>2. CASE b < block
    <3>1. Named(b)
      BY <2>2 DEF Named
    <3>2. /\ OperationResult(b, s, i) \in DOMAIN names
          /\ names[OperationResult(b, s, i)] = program[b][s].results[i]
      BY <1>3, <3>1 DEF NamesInv, KeepsNames
    <3>3. QED
      BY <1>5, <3>2
  <2>3. CASE b = block
    <3>1. OperationResult(b, s, i) \in DOMAIN IdsOfTemporaries
          /\ IdsOfTemporaries[OperationResult(b, s, i)] = program[b][s].results[i]
      BY <1>6, <2>3
    <3>2. OperationResult(b, s, i)[1] = block
      BY <2>3 DEF OperationResult
    <3>3. OperationResult(b, s, i) \notin DOMAIN names
      BY <1>2, <1>7, <3>2
    <3>4. QED
      BY <1>5, <3>1, <3>3
  <2>4. QED
    BY <2>1, <2>2, <2>3
<1>10. NamesInv'
  BY <1>1, <1>3, <1>4, <1>8, <1>9 DEF NamesInv, KeepsNames
<1>11. OutputInv'
  BY <1>1 DEF OutputInv
<1>12. QED
  BY <1>10, <1>11

\* Adding a block changes no name.
LEMMA AddBlockWriting == Inv /\ NamesInv /\ AddBlock => NamesInv' /\ OutputInv'
<1> SUFFICES ASSUME Inv, NamesInv, AddBlock PROVE NamesInv' /\ OutputInv'
  OBVIOUS
<1>1. /\ pc = "resolve" /\ pc' = "collect" /\ block' = block + 1 /\ UNCHANGED <<program, names>>
  BY DEF AddBlock
<1>2. IsProgram(program) /\ block \in Nat /\ DOMAIN program = 1 .. Len(program)
  BY ProgramFacts DEF Inv, PositionInv
<1>3. Parsing /\ Parsing'
  BY <1>1 DEF Parsing
<1>4. \A b \in DOMAIN program : Named(b)' <=> Named(b)
  BY <1>1, <1>2 DEF Named
<1>5. NamesInv'
  BY <1>1, <1>3, <1>4 DEF NamesInv, KeepsNames
<1>6. OutputInv'
  BY <1>1 DEF OutputInv
<1>7. QED
  BY <1>5, <1>6

\* The module that is written.
LEMMA ModuleFacts ==
  ASSUME Inv, pc = "write" \/ (pc = "collect" /\ block > Len(program))
  PROVE  /\ WellFormed(program) /\ module = Meaning(program) /\ IsModule(module)
         /\ Len(module) \in Nat /\ DOMAIN module = 1 .. Len(module) /\ DOMAIN module = DOMAIN program
         /\ \A b \in DOMAIN module :
              /\ Len(module[b]) \in Nat /\ DOMAIN module[b] = 1 .. Len(module[b])
              /\ DOMAIN module[b] = DOMAIN program[b]
              /\ \A s \in DOMAIN module[b] :
                   /\ module[b][s].outputs = Len(program[b][s].results)
                   /\ module[b][s].outputs \in Nat
                   /\ DOMAIN module[b][s].inputs = 1 .. Len(program[b][s].inputs)
                   /\ Len(program[b][s].inputs) \in Nat
                   /\ module[b][s].inputs \in Seq(ToSet(module[b][s].inputs))
<1>1. IsProgram(program) /\ WellFormed(program) /\ module = Meaning(program)
  BY AllCollected DEF Inv, PositionInv, VerdictInv
<1>2. /\ DOMAIN program = 1 .. Len(program) /\ Len(program) \in Nat
      /\ \A b \in DOMAIN program :
           /\ DOMAIN program[b] = 1 .. Len(program[b]) /\ Len(program[b]) \in Nat
           /\ \A s \in DOMAIN program[b] :
                /\ Len(program[b][s].results) \in Nat
                /\ Len(program[b][s].inputs) \in Nat
                /\ DOMAIN program[b][s].inputs = 1 .. Len(program[b][s].inputs)
  BY <1>1, ProgramFacts
<1>3. /\ IsModule(module) /\ DOMAIN module = DOMAIN program
      /\ \A b \in DOMAIN program :
           /\ DOMAIN module[b] = DOMAIN program[b]
           /\ \A s \in DOMAIN program[b] :
                /\ module[b][s].outputs = Len(program[b][s].results)
                /\ DOMAIN module[b][s].inputs = DOMAIN program[b][s].inputs
  BY <1>1, MeaningIsModule
<1>4. Len(module) = Len(program)
  <2>1. module = [b \in 1 .. Len(program) |-> module[b]]
    BY <1>2, <1>3 DEF IsModule
  <2>2. QED
    BY <1>2, <2>1
<1>5. ASSUME NEW b \in DOMAIN module PROVE Len(module[b]) = Len(program[b])
  <2>1. module[b] = [s \in 1 .. Len(program[b]) |-> module[b][s]]
    BY <1>2, <1>3 DEF IsModule
  <2>2. QED
    BY <1>2, <1>3, <2>1
<1>6. ASSUME NEW b \in DOMAIN module, NEW s \in DOMAIN module[b]
      PROVE  module[b][s].inputs \in Seq(ToSet(module[b][s].inputs))
  <2> DEFINE inputs == module[b][s].inputs
             n == Len(program[b][s].inputs)
  <2>1. inputs = [i \in DOMAIN inputs |-> inputs[i]]
    BY <1>3 DEF IsModule
  <2>2. DOMAIN inputs = 1 .. n /\ n \in Nat
    BY <1>2, <1>3
  <2> HIDE DEF inputs, n
  <2>3. inputs \in [1 .. n -> ToSet(inputs)]
    BY <2>1, <2>2 DEF ToSet
  <2>4. inputs \in Seq(ToSet(inputs))
    BY <2>2, <2>3
  <2>5. QED
    BY <2>4 DEF inputs
<1>7. QED
  BY <1>1, <1>2, <1>3, <1>4, <1>5, <1>6

\* A client that starts from fresh names starts with an empty table; one that
\* is given the names of the parser has them all.
LEMMA StartWritingInv == Inv /\ NamesInv /\ StartWriting => NamesInv' /\ OutputInv'
<1> SUFFICES ASSUME Inv, NamesInv, StartWriting PROVE NamesInv' /\ OutputInv'
  OBVIOUS
<1>1. /\ pc = "collect" /\ block > Len(program)
      /\ client' \in Printers \cup Lowerings
      /\ names' = IF client' \in {"print", "facts"} THEN names ELSE <<>>
      /\ output' = [b \in DOMAIN module |-> <<>>]
      /\ pc' = "write" /\ block' = 1 /\ next' = 1
      /\ UNCHANGED <<program, module>>
  BY DEF StartWriting
<1>2. /\ IsProgram(program) /\ block \in Nat /\ Len(program) \in Nat /\ DOMAIN program = 1 .. Len(program)
      /\ Parsing
  BY <1>1, ProgramFacts DEF Inv, PositionInv, Parsing
<1>3. \A b \in DOMAIN program : Named(b)
  BY <1>1, <1>2 DEF Named
<1>4. names' = [v \in DOMAIN names' |-> names'[v]]
  BY <1>1 DEF NamesInv
<1>5. NamesInv'
  <2>1. ~Parsing'
    BY <1>1 DEF Parsing
  <2>2. KeepsNames' => names' = names
    BY <1>1, <2>1 DEF KeepsNames
  <2>3. KeepsNames
    BY <1>2 DEF KeepsNames
  <2>4. QED
    BY <1>1, <1>3, <1>4, <2>1, <2>2, <2>3 DEF NamesInv
<1>6. OutputInv'
  <2>1. client' \in {"print fresh", "facts fresh"} => Numbered(names')
    <3>1. IsFiniteSet({})
      BY FS_EmptySet
    <3>2. Numbered(<<>>)
      BY <3>1 DEF Numbered, IsInjective
    <3>3. QED
      BY <1>1, <3>2
  <2>2. /\ Len(module) \in Nat /\ DOMAIN module = 1 .. Len(module)
        /\ \A b \in DOMAIN module : Len(module[b]) \in Nat
    BY <1>1, ModuleFacts
  <2>3. \A b \in DOMAIN module : WrittenTo(b)' = 0
    BY <1>1, <2>2 DEF WrittenTo
  <2>4. \A b \in DOMAIN module : 1 .. WrittenTo(b)' = {}
    BY <2>3
  <2>5. output' = [b \in DOMAIN module |-> [s \in 1 .. WrittenTo(b)' |-> Text(names', b, s, module[b][s])]]
    <3>1. \A b \in DOMAIN module : [s \in 1 .. WrittenTo(b)' |-> Text(names', b, s, module[b][s])] = <<>>
      BY <2>4
    <3>2. QED
      BY <1>1, <3>1
  <2>6. 1 <= Len(module) + 1 /\ (1 <= Len(module) => 1 <= Len(module[1]) + 1)
    BY <2>2
  <2>7. QED
    BY <1>1, <2>1, <2>4, <2>5, <2>6 DEF OutputInv
<1>7. QED
  BY <1>5, <1>6

\* Text that was written does not change with the table.
LEMMA TextKept ==
  ASSUME NEW table, NEW old, Extends(table, old), NEW b, NEW s, NEW op, Covers(old, b, s, op)
  PROVE  Text(table, b, s, op) = Text(old, b, s, op) /\ Covers(table, b, s, op)
<1>1. \A i \in 1 .. op.outputs : table[OperationResult(b, s, i)] = old[OperationResult(b, s, i)]
  BY DEF Covers, Extends
<1>2. \A i \in DOMAIN op.inputs : op.inputs[i] # AnyValue => table[op.inputs[i]] = old[op.inputs[i]]
  BY DEF Covers, Extends
<1>3. [i \in 1 .. op.outputs |-> table[OperationResult(b, s, i)]] =
      [i \in 1 .. op.outputs |-> old[OperationResult(b, s, i)]]
  BY <1>1
<1>4. [i \in DOMAIN op.inputs |-> IF op.inputs[i] = AnyValue THEN AnyValue ELSE table[op.inputs[i]]] =
      [i \in DOMAIN op.inputs |-> IF op.inputs[i] = AnyValue THEN AnyValue ELSE old[op.inputs[i]]]
  BY <1>2
<1>5. Covers(table, b, s, op)
  BY DEF Covers, Extends
<1>6. QED
  BY <1>3, <1>4, <1>5 DEF Text

\* Writing one operation extends the table of names and changes no name that
\* has been written.
LEMMA WriteOperationInv == Inv /\ NamesInv /\ OutputInv /\ WriteOperation => NamesInv' /\ OutputInv'
<1> SUFFICES ASSUME Inv, NamesInv, OutputInv, WriteOperation PROVE NamesInv' /\ OutputInv'
  OBVIOUS
<1> DEFINE op == module[block][next]
           table == NamesAfter(block, next, op)
<1>1. /\ pc = "write" /\ block <= Len(module) /\ next <= Len(module[block])
      /\ names' = table
      /\ output' = [output EXCEPT ![block] = Append(@, Text(table, block, next, op))]
      /\ next' = next + 1
      /\ UNCHANGED <<program, pc, block, module, client>>
  BY DEF WriteOperation, Text
<1>2. /\ IsModule(module) /\ IsProgram(program)
      /\ Len(module) \in Nat /\ DOMAIN module = 1 .. Len(module) /\ DOMAIN module = DOMAIN program
      /\ block \in Nat \ {0} /\ next \in Nat \ {0}
      /\ \A b \in DOMAIN module : Len(module[b]) \in Nat /\ DOMAIN module[b] = 1 .. Len(module[b])
  BY <1>1, ModuleFacts DEF Inv, PositionInv
<1>3. block \in DOMAIN module /\ next \in DOMAIN module[block]
  BY <1>1, <1>2
<1>4. /\ op.outputs = Len(program[block][next].results) /\ op.outputs \in Nat
      /\ DOMAIN op.inputs = 1 .. Len(program[block][next].inputs)
      /\ Len(program[block][next].inputs) \in Nat
      /\ op.inputs \in Seq(ToSet(op.inputs))
      /\ program[block] = program[block] /\ next \in DOMAIN program[block]
  BY <1>1, <1>3, ModuleFacts
<1>5. names = [v \in DOMAIN names |-> names[v]]
  BY DEF NamesInv
<1>6. /\ table = [v \in DOMAIN table |-> table[v]]
      /\ Extends(table, names) /\ Covers(table, block, next, op)
      /\ Numbered(names) => Numbered(table)
      /\ Covers(names, block, next, op) => table = names
  <2>1. block \in Nat /\ next \in Nat
    BY <1>2
  <2> HIDE DEF op
  <2>2. QED
    BY <1>4, <1>5, <2>1, NamesAfterFacts
<1> HIDE DEF table
<1>7. NamesInv'
  <2>1. ~Parsing'
    BY <1>1 DEF Parsing
  <2>2. CASE client \in {"print", "facts"}
    <3>1. KeepsNames /\ \A b : Named(b)
      BY <1>1, <2>2 DEF KeepsNames, Named
    <3>2. \A b \in DOMAIN program : \A s \in DOMAIN program[b] : \A i \in DOMAIN program[b][s].results :
            OperationResult(b, s, i) \in DOMAIN names
      BY <3>1 DEF NamesInv
    <3>3. ASSUME NEW i \in 1 .. op.outputs PROVE OperationResult(block, next, i) \in DOMAIN names
      <4>1. i \in DOMAIN program[block][next].results
        BY <1>2, <1>3, <1>4, ProgramFacts
      <4>2. QED
        BY <1>2, <1>3, <1>4, <3>2, <4>1
    <3>4. ASSUME NEW i \in DOMAIN op.inputs, op.inputs[i] # AnyValue PROVE op.inputs[i] \in DOMAIN names
      <4>1. PICK t \in DOMAIN module[block] : \E j \in 1 .. module[block][t].outputs :
                   op.inputs[i] = OperationResult(block, t, j)
        <5>1. \A k \in DOMAIN module[block][next].inputs : module[block][next].inputs[k] # AnyValue =>
                \E t \in DOMAIN module[block] : \E j \in 1 .. module[block][t].outputs :
                  module[block][next].inputs[k] = OperationResult(block, t, j)
          BY <1>2, <1>3, ZenonT(60) DEF IsModule
        <5>2. QED
          BY <3>4, <5>1
      <4>2. PICK j \in 1 .. module[block][t].outputs : op.inputs[i] = OperationResult(block, t, j)
        BY <4>1
      <4>3. t \in DOMAIN program[block] /\ module[block][t].outputs = Len(program[block][t].results)
        BY <1>1, <1>3, ModuleFacts
      <4>4. j \in DOMAIN program[block][t].results
        BY <1>2, <1>3, <4>3, ProgramFacts
      <4>5. QED
        BY <1>2, <1>3, <3>2, <4>2, <4>3, <4>4
    <3>5. Covers(names, block, next, op)
      BY <3>3, <3>4 DEF Covers
    <3>6. names' = names
      BY <1>1, <1>6, <3>5
    <3>7. QED
      BY <1>1, <2>1, <3>1, <3>6 DEF NamesInv, KeepsNames, Named
  <2>3. CASE client \notin {"print", "facts"}
    <3>1. ~KeepsNames'
      BY <1>1, <2>1, <2>3 DEF KeepsNames
    <3>2. names' = [v \in DOMAIN names' |-> names'[v]]
      BY <1>1, <1>6
    <3>3. QED
      BY <2>1, <3>1, <3>2 DEF NamesInv
  <2>4. QED
    BY <2>2, <2>3
<1>8. OutputInv'
  <2>1. ASSUME NEW b \in DOMAIN module
        PROVE  /\ b # block => WrittenTo(b)' = WrittenTo(b)
               /\ b = block => WrittenTo(b) = next - 1 /\ WrittenTo(b)' = next
    BY <1>1, <1>2 DEF WrittenTo
  <2>2. \A b \in DOMAIN module : \A s \in 1 .. WrittenTo(b) :
          Text(names', b, s, module[b][s]) = Text(names, b, s, module[b][s])
          /\ Covers(names', b, s, module[b][s])
    <3>1. \A b \in DOMAIN module : \A s \in 1 .. WrittenTo(b) : Covers(names, b, s, module[b][s])
      BY <1>1 DEF OutputInv
    <3>2. Extends(names', names)
      BY <1>1, <1>6
    <3>3. QED
      BY <3>1, <3>2, TextKept
  <2>3. output = [b \in DOMAIN module |-> [s \in 1 .. WrittenTo(b) |-> Text(names, b, s, module[b][s])]]
    BY <1>1 DEF OutputInv
  <2>4. ASSUME NEW b \in DOMAIN module
        PROVE  output'[b] = [s \in 1 .. WrittenTo(b)' |-> Text(names', b, s, module[b][s])]
    <3>1. output[b] = [s \in 1 .. WrittenTo(b) |-> Text(names, b, s, module[b][s])]
      BY <2>3
    <3>2. output[b] = [s \in 1 .. WrittenTo(b) |-> Text(names', b, s, module[b][s])]
      BY <2>2, <3>1
    <3>3. CASE b # block
      <4>1. output'[b] = output[b]
        BY <1>1, <2>3, <3>3
      <4>2. QED
        BY <2>1, <3>2, <3>3, <4>1
    <3>4. CASE b = block
      <4> DEFINE last == Text(table, block, next, op)
      <4>1. output'[b] = Append(output[b], last)
        BY <1>1, <2>3, <3>4
      <4>2. output[b] = [s \in 1 .. next - 1 |-> Text(names', b, s, module[b][s])]
        BY <2>1, <3>2, <3>4
      <4>3. next - 1 \in Nat /\ next - 1 + 1 = next
        BY <1>2
      <4>4. output[b] = [s \in 1 .. next - 1 |-> output[b][s]]
        BY <4>2, Zenon
      <4>5. Append(output[b], last) = [s \in 1 .. next |-> IF s \in 1 .. next - 1 THEN output[b][s] ELSE last]
        BY <4>3, <4>4, AppendListing
      <4>6. last = Text(names', b, next, module[b][next])
        BY <1>1, <3>4
      <4>7. \A s \in 1 .. next : (IF s \in 1 .. next - 1 THEN output[b][s] ELSE last) =
              Text(names', b, s, module[b][s])
        <5>1. \A s \in 1 .. next : s \in 1 .. next - 1 \/ s = next
          BY <1>2
        <5> HIDE DEF last
        <5>2. QED
          BY <4>2, <4>6, <5>1
      <4>8. output'[b] = [s \in 1 .. next |-> Text(names', b, s, module[b][s])]
        BY <4>1, <4>5, <4>7
      <4>9. QED
        BY <2>1, <3>4, <4>8
    <3>5. QED
      BY <3>3, <3>4
  <2>5. output' = [b \in DOMAIN module |-> [s \in 1 .. WrittenTo(b)' |-> Text(names', b, s, module[b][s])]]
    <3>1. output' = [b \in DOMAIN module |-> output'[b]]
      BY <1>1, <2>3
    <3>2. QED
      BY <2>4, <3>1
  <2>6. ASSUME NEW b \in DOMAIN module, NEW s \in 1 .. WrittenTo(b)'
        PROVE  Covers(names', b, s, module[b][s])
    <3>1. CASE b # block
      BY <2>1, <2>2, <3>1
    <3>2. CASE b = block
      <4>1. s \in 1 .. next
        BY <2>1, <3>2
      <4>2. CASE s = next
        BY <1>1, <1>6, <3>2, <4>2
      <4>3. CASE s # next
        <5>1. s \in 1 .. WrittenTo(b)
          BY <1>2, <2>1, <3>2, <4>1, <4>3
        <5>2. QED
          BY <2>2, <5>1
      <4>4. QED
        BY <4>2, <4>3
    <3>3. QED
      BY <3>1, <3>2
  <2>7. client \in {"print fresh", "facts fresh"} => Numbered(names')
    BY <1>1, <1>6 DEF OutputInv
  <2>8. next + 1 <= Len(module[block]) + 1
    BY <1>1, <1>2, <1>3
  <2>9. QED
    BY <1>1, <1>2, <2>5, <2>6, <2>7, <2>8, ZenonT(60) DEF OutputInv
<1>9. QED
  BY <1>7, <1>8

\* Going on to the next block writes nothing.
LEMMA NextBlockInv == Inv /\ NamesInv /\ OutputInv /\ NextBlock => NamesInv' /\ OutputInv'
<1> SUFFICES ASSUME Inv, NamesInv, OutputInv, NextBlock PROVE NamesInv' /\ OutputInv'
  OBVIOUS
<1>1. /\ pc = "write" /\ block <= Len(module) /\ next > Len(module[block])
      /\ block' = block + 1 /\ next' = 1
      /\ UNCHANGED <<program, pc, module, names, client, output>>
  BY DEF NextBlock
<1>2. /\ Len(module) \in Nat /\ DOMAIN module = 1 .. Len(module)
      /\ block \in Nat \ {0} /\ next \in Nat \ {0}
      /\ \A b \in DOMAIN module : Len(module[b]) \in Nat
  BY <1>1, ModuleFacts DEF Inv, PositionInv
<1>3. next - 1 = Len(module[block])
  <2>1. Len(module[block]) \in Nat
    BY <1>1, <1>2
  <2>2. next <= Len(module[block]) + 1
    BY <1>1 DEF OutputInv
  <2>3. QED
    BY <1>1, <1>2, <2>1, <2>2
<1>4. \A b \in DOMAIN module : WrittenTo(b)' = WrittenTo(b)
  <2>1. ASSUME NEW b \in DOMAIN module PROVE WrittenTo(b)' = WrittenTo(b)
    <3>1. b \in Nat
      BY <1>2
    <3>2. CASE b < block
      BY <1>1, <1>2, <3>1, <3>2 DEF WrittenTo
    <3>3. CASE b = block
      BY <1>1, <1>2, <1>3, <3>1, <3>3 DEF WrittenTo
    <3>4. CASE b > block
      BY <1>1, <1>2, <3>1, <3>4 DEF WrittenTo
    <3>5. QED
      BY <1>2, <3>1, <3>2, <3>3, <3>4
  <2>2. QED
    BY <2>1
<1>5. NamesInv'
  BY <1>1 DEF NamesInv, KeepsNames, Parsing, Named
<1>6. output' = [b \in DOMAIN module |-> [s \in 1 .. WrittenTo(b)' |-> Text(names, b, s, module[b][s])]]
  BY <1>1, <1>4 DEF OutputInv
<1>7. OutputInv'
  <2>1. block + 1 <= Len(module) + 1
    BY <1>1, <1>2
  <2>2. block + 1 <= Len(module) => 1 <= Len(module[block + 1]) + 1
    <3>1. block + 1 <= Len(module) => Len(module[block + 1]) \in Nat
      BY <1>2
    <3>2. QED
      BY <3>1
  <2>3. \A b \in DOMAIN module : \A s \in 1 .. WrittenTo(b)' : Covers(names, b, s, module[b][s])
    BY <1>1, <1>4 DEF OutputInv
  <2>4. QED
    BY <1>1, <1>6, <2>1, <2>2, <2>3 DEF OutputInv
<1>8. QED
  BY <1>5, <1>7

\* The invariant is a matter of the variables alone.
LEMMA StutterWriting == NamesInv /\ OutputInv /\ UNCHANGED vars => NamesInv' /\ OutputInv'
<1> SUFFICES ASSUME NamesInv, OutputInv, UNCHANGED vars PROVE NamesInv' /\ OutputInv'
  OBVIOUS
<1>1. NamesInv'
  BY DEF NamesInv, KeepsNames, Parsing, Named, vars
<1>2. OutputInv'
  BY DEF OutputInv, WrittenTo, vars
<1>3. QED
  BY <1>1, <1>2

\* The inductive invariant of the writers: every name that IRPrinter or
\* DatalogLoweringVisitor has written is the name the table still has.
THEOREM WInvHolds == Spec => []WInv
<1>1. Init => WInv
  BY InitInv, InitWriting DEF WInv
<1>2. WInv /\ [Next]_vars => NamesInv' /\ OutputInv'
  <2> SUFFICES ASSUME WInv, [Next]_vars PROVE NamesInv' /\ OutputInv'
    OBVIOUS
  <2>1. Inv /\ NamesInv /\ OutputInv
    BY DEF WInv
  <2>2. CASE VisitOperation
    <3>1. Parsing /\ UNCHANGED <<program, names>> /\ (pc' = "died" \/ (pc' = pc /\ block' = block))
      BY <2>2 DEF VisitOperation, Dies, Parsing
    <3>2. QED
      BY <2>1, <3>1, NamesKept
  <2>3. CASE ResolveInputs
    <3>1. Parsing /\ UNCHANGED <<program, names>> /\ (pc' = "died" \/ (pc' = pc /\ block' = block))
      BY <2>3 DEF ResolveInputs, Dies, Parsing
    <3>2. QED
      BY <2>1, <3>1, NamesKept
  <2>4. CASE NameTemporaries
    BY <2>1, <2>4, NameWriting
  <2>5. CASE AddBlock
    BY <2>1, <2>5, AddBlockWriting
  <2>6. CASE StartWriting
    BY <2>1, <2>6, StartWritingInv
  <2>7. CASE WriteOperation
    BY <2>1, <2>7, WriteOperationInv
  <2>8. CASE NextBlock
    BY <2>1, <2>8, NextBlockInv
  <2>9. CASE UNCHANGED vars
    BY <2>1, <2>9, StutterWriting
  <2>10. QED
    BY <2>2, <2>3, <2>4, <2>5, <2>6, <2>7, <2>8, <2>9 DEF Next
<1>3. WInv /\ [Next]_vars => WInv'
  BY <1>2, NextInv DEF WInv
<1>4. QED
  BY <1>1, <1>3, PTL DEF Spec

-----------------------------------------------------------------------------
(* What has been written. *)

\* When the writer is done, every operation is written with the names of the
\* final table, which has them all.
LEMMA WrittenOutput ==
  ASSUME WInv, Written
  PROVE  /\ IsModule(module)
         /\ output = [b \in DOMAIN module |-> [s \in DOMAIN module[b] |-> Text(names, b, s, module[b][s])]]
         /\ \A b \in DOMAIN module : \A s \in DOMAIN module[b] : Covers(names, b, s, module[b][s])
<1>1. pc = "write" /\ block > Len(module) /\ Inv /\ OutputInv
  BY DEF Written, WInv
<1>2. /\ IsModule(module) /\ Len(module) \in Nat /\ DOMAIN module = 1 .. Len(module) /\ block \in Nat
      /\ \A b \in DOMAIN module : DOMAIN module[b] = 1 .. Len(module[b])
  BY <1>1, ModuleFacts DEF Inv, PositionInv
<1>3. \A b \in DOMAIN module : 1 .. WrittenTo(b) = DOMAIN module[b]
  BY <1>1, <1>2 DEF WrittenTo
<1>4. QED
  BY <1>1, <1>2, <1>3 DEF OutputInv

\* A sequence lists its members.
LEMMA SequenceListing ==
  ASSUME NEW q, IsSequence(q)
  PROVE  q = [i \in 1 .. Len(q) |-> q[i]] /\ Len(q) \in Nat /\ DOMAIN q = 1 .. Len(q)
BY DEF IsSequence

\* The names that the printer uses separate the results of a block.
LEMMA PrinterSeparates ==
  ASSUME WInv, Written, client \in {"print", "print fresh", "facts fresh"}
  PROVE  Separates(names, module)
<1>1. pc = "write" /\ Inv /\ NamesInv /\ OutputInv
  BY DEF Written, WInv
<1>2. /\ IsProgram(program) /\ WellFormed(program) /\ DOMAIN module = DOMAIN program
      /\ \A b \in DOMAIN module : DOMAIN module[b] = DOMAIN program[b] /\
           \A s \in DOMAIN module[b] : /\ module[b][s].outputs = Len(program[b][s].results)
  BY <1>1, ModuleFacts DEF Inv, PositionInv
<1>3. ASSUME NEW b \in DOMAIN module, NEW s \in DOMAIN module[b], NEW t \in DOMAIN module[b],
             NEW i \in 1 .. module[b][s].outputs, NEW j \in 1 .. module[b][t].outputs
      PROVE  /\ names[OperationResult(b, s, i)] # AnyValue
             /\ names[OperationResult(b, s, i)] = names[OperationResult(b, t, j)] => s = t /\ i = j
  <2>1. CASE client = "print"
    <3>1. KeepsNames /\ Named(b)
      BY <1>1, <2>1 DEF KeepsNames, Named
    <3>2. /\ b \in DOMAIN program /\ s \in DOMAIN program[b] /\ t \in DOMAIN program[b]
          /\ i \in DOMAIN program[b][s].results /\ j \in DOMAIN program[b][t].results
      <4>1. b \in DOMAIN program /\ s \in DOMAIN program[b] /\ t \in DOMAIN program[b]
        BY <1>2
      <4>2. module[b][s].outputs = Len(program[b][s].results)
            /\ module[b][t].outputs = Len(program[b][t].results)
        BY <1>2
      <4>3. DOMAIN program[b][s].results = 1 .. Len(program[b][s].results)
            /\ DOMAIN program[b][t].results = 1 .. Len(program[b][t].results)
        <5>1. IsProgram(program)
          BY <1>2
        <5>2. \A x \in DOMAIN program[b] : DOMAIN program[b][x].results = 1 .. Len(program[b][x].results)
          <6>1. \A x \in DOMAIN program[b] : IsSequence(program[b][x].results)
            BY <4>1, <5>1 DEF IsProgram
          <6>2. QED
            BY <6>1, SequenceListing
        <5>3. QED
          BY <4>1, <5>2
      <4>4. QED
        BY <4>1, <4>2, <4>3
    <3>3. names[OperationResult(b, s, i)] = program[b][s].results[i]
          /\ names[OperationResult(b, t, j)] = program[b][t].results[j]
      BY <1>1, <3>1, <3>2 DEF NamesInv
    <3>4. AnyValue \notin ToSet(program[b][s].results)
      BY <1>2, <3>2, ProgramFacts
    <3>5. program[b][s].results[i] # AnyValue
      BY <3>2, <3>4 DEF ToSet
    <3>6. Unambiguous(program, b)
      BY <1>2, <3>2, WellFormedAt
    <3>7. program[b][s].results[i] = program[b][t].results[j] => s = t /\ i = j
      BY <3>2, <3>6, UnambiguousAt, ZenonT(60)
    <3>8. QED
      BY <3>3, <3>5, <3>7
  <2>2. CASE client \in {"print fresh", "facts fresh"}
    <3>1. Numbered(names)
      BY <1>1, <2>2 DEF OutputInv
    <3>2. OperationResult(b, s, i) \in DOMAIN names /\ OperationResult(b, t, j) \in DOMAIN names
      BY WrittenOutput DEF Covers
    <3>3. names[OperationResult(b, s, i)] \in Nat
      BY <3>1, <3>2 DEF Numbered
    <3>4. OperationResult(b, s, i) = OperationResult(b, t, j) => s = t /\ i = j
      BY DEF OperationResult
    <3>5. QED
      BY <3>1, <3>2, <3>3, <3>4, ProgramsAssumption DEF Numbered, IsInjective
  <2>3. QED
    BY <2>1, <2>2
<1>4. QED
  BY <1>3 DEF Separates

\* Printed with the parser's names, the text is the program.
LEMMA PrintedIsProgram ==
  ASSUME WInv, Written, client = "print"
  PROVE  output = Normalized(program)
<1>1. pc = "write" /\ Inv /\ NamesInv /\ OutputInv
  BY DEF Written, WInv
<1>2. /\ IsProgram(program) /\ WellFormed(program) /\ module = Meaning(program)
      /\ DOMAIN module = DOMAIN program
      /\ \A b \in DOMAIN module : DOMAIN module[b] = DOMAIN program[b]
  BY <1>1, ModuleFacts DEF Inv, PositionInv
<1>3. ASSUME NEW b \in DOMAIN program, NEW s \in DOMAIN program[b]
      PROVE  Text(names, b, s, module[b][s]) =
               [program[b][s] EXCEPT !.attributes = InOrder(ToSet(@))]
  <2> DEFINE st == program[b][s]
             op == module[b][s]
             results == [i \in 1 .. op.outputs |-> names[OperationResult(b, s, i)]]
             inputs == [i \in DOMAIN op.inputs |->
                          IF op.inputs[i] = AnyValue THEN AnyValue ELSE names[op.inputs[i]]]
  <2>1. /\ st = Statement(st.results, st.operator, st.attributes, st.inputs)
        /\ IsSequence(st.results) /\ IsSequence(st.inputs)
    BY <1>2 DEF IsProgram
  <2>2. /\ op.outputs = Len(st.results) /\ op.operator = st.operator
        /\ op.attributes = ToSet(st.attributes)
        /\ DOMAIN op.inputs = DOMAIN st.inputs
        /\ \A i \in DOMAIN st.inputs :
             IF st.inputs[i] = AnyValue THEN op.inputs[i] = AnyValue
             ELSE \E t \in DOMAIN program[b] : \E j \in 1 .. Len(program[b][t].results) :
                    /\ program[b][t].results[j] = st.inputs[i]
                    /\ op.inputs[i] = OperationResult(b, t, j)
    BY <1>2, MeaningIsModule
  <2>3. \A t \in DOMAIN program[b] : \A j \in 1 .. Len(program[b][t].results) :
          names[OperationResult(b, t, j)] = program[b][t].results[j]
    <3>1. KeepsNames /\ Named(b)
      BY <1>1 DEF KeepsNames, Named
    <3>2. \A t \in DOMAIN program[b] : \A j \in DOMAIN program[b][t].results :
            names[OperationResult(b, t, j)] = program[b][t].results[j]
      BY <1>1, <3>1 DEF NamesInv
    <3>3. QED
      BY <1>2, <3>2, ProgramFacts
  <2>4. results = st.results
    <3>1. st.results = [i \in 1 .. Len(st.results) |-> st.results[i]]
      BY <2>1, SequenceListing
    <3>2. results = [i \in 1 .. Len(st.results) |-> st.results[i]]
      BY <2>2, <2>3
    <3>3. QED
      BY <3>1, <3>2
  <2>5. inputs = st.inputs
    <3>1. st.inputs = [i \in DOMAIN st.inputs |-> st.inputs[i]]
      BY <2>1, SequenceListing
    <3>2. ASSUME NEW i \in DOMAIN st.inputs PROVE inputs[i] = st.inputs[i]
      <4>1. i \in DOMAIN op.inputs
        BY <2>2
      <4>2. CASE st.inputs[i] = AnyValue
        BY <2>2, <4>1, <4>2
      <4>3. CASE st.inputs[i] # AnyValue
        <5>1. PICK t \in DOMAIN program[b] : \E j \in 1 .. Len(program[b][t].results) :
                    /\ program[b][t].results[j] = st.inputs[i]
                    /\ op.inputs[i] = OperationResult(b, t, j)
          BY <2>2, <4>3
        <5>2. PICK j \in 1 .. Len(program[b][t].results) :
                    /\ program[b][t].results[j] = st.inputs[i]
                    /\ op.inputs[i] = OperationResult(b, t, j)
          BY <5>1
        <5>3. b \in DOMAIN module /\ t \in DOMAIN module[b]
          BY <1>2
        <5>4. op.inputs[i] # AnyValue
          <6>1. b \in Nat /\ t \in Nat /\ j \in Nat
            BY <1>2, <5>2, ProgramFacts
          <6>2. op.inputs[i] \in Nat \X Nat \X Nat
            BY <5>2, <6>1 DEF OperationResult
          <6>3. QED
            BY <6>2, ProgramsAssumption
        <5>5. inputs[i] = names[op.inputs[i]]
          BY <4>1, <5>4
        <5>6. QED
          BY <2>3, <5>2, <5>5
      <4>4. QED
        BY <4>2, <4>3
    <3>3. inputs = [i \in DOMAIN st.inputs |-> inputs[i]]
      BY <2>2
    <3> HIDE DEF inputs
    <3>4. inputs = [i \in DOMAIN st.inputs |-> st.inputs[i]]
      BY <3>2, <3>3
    <3>5. QED
      BY <3>1, <3>4
  <2>6. Text(names, b, s, op) = Statement(results, op.operator, InOrder(op.attributes), inputs)
    BY DEF Text
  <2>7. [st EXCEPT !.attributes = InOrder(ToSet(st.attributes))] =
          Statement(st.results, st.operator, InOrder(ToSet(st.attributes)), st.inputs)
    <3> DEFINE r == st.results
               o == st.operator
               a == st.attributes
               u == st.inputs
    <3> HIDE DEF r, o, a, u
    <3>1. [Statement(r, o, a, u) EXCEPT !.attributes = InOrder(ToSet(a))] =
            Statement(r, o, InOrder(ToSet(a)), u)
      BY DEF Statement
    <3>2. st = Statement(r, o, a, u)
      BY <2>1 DEF r, o, a, u
    <3>3. QED
      BY <3>1, <3>2 DEF r, o, a, u
  <2>8. QED
    BY <2>2, <2>4, <2>5, <2>6, <2>7
<1>4. output = [b \in DOMAIN program |-> [s \in DOMAIN program[b] |-> Text(names, b, s, module[b][s])]]
  BY <1>2, WrittenOutput
<1>5. QED
  BY <1>3, <1>4 DEF Normalized

\* Text that IRPrinter prints parses to the module it was printed from; with
\* the names of the parser it is the program, whatever programs are parsed.
THEOREM PrintedTextRoundTripsHolds == Spec => []PrintedTextRoundTrips
<1>1. WInv => PrintedTextRoundTrips
  <2> SUFFICES ASSUME WInv, Written, client \in Printers
               PROVE  /\ WellFormed(output) /\ Meaning(output) = module
                      /\ client = "print" => output = Normalized(program)
    BY DEF PrintedTextRoundTrips
  <2>1. client \in {"print", "print fresh", "facts fresh"}
    BY DEF Printers
  <2>2. WellFormed(output) /\ Meaning(output) = module
    <3>1. Separates(names, module)
      BY <2>1, PrinterSeparates
    <3>2. IsModule(module)
          /\ output = [b \in DOMAIN module |-> [s \in DOMAIN module[b] |-> Text(names, b, s, module[b][s])]]
      BY WrittenOutput
    <3>3. QED
      BY <3>1, <3>2, WrittenModule, Zenon
  <2>3. QED
    BY <2>2, PrintedIsProgram
<1>2. QED
  BY <1>1, WInvHolds, PTL

-----------------------------------------------------------------------------
(* The facts: all operations in one list. *)

\* The blocks of the module, with the operands where they are in that list.
MovedModule ==
  [b \in DOMAIN module |->
     [s \in DOMAIN module[b] |->
        [module[b][s] EXCEPT !.inputs = [i \in DOMAIN @ |-> Moved(@[i])]]]]

\* Where the s-th operation of block b is in that list.
At(b, s) == Offset(module, b) + s

\* An operation with its operands moved.
IsMoved(op, moved) ==
  moved = [operator |-> op.operator, outputs |-> op.outputs, attributes |-> op.attributes,
           inputs |-> [i \in DOMAIN op.inputs |-> Moved(op.inputs[i])]]

\* Its fields.
FieldsMoved(op, moved) ==
         /\ moved.operator = op.operator /\ moved.outputs = op.outputs
         /\ moved.attributes = op.attributes /\ DOMAIN moved.inputs = DOMAIN op.inputs
         /\ \A i \in DOMAIN op.inputs : moved.inputs[i] = Moved(op.inputs[i])
         /\ moved = [operator |-> moved.operator, outputs |-> moved.outputs,
                      attributes |-> moved.attributes, inputs |-> moved.inputs]
         /\ moved.inputs = [i \in DOMAIN moved.inputs |-> moved.inputs[i]]

\* The fields of a record.
LEMMA MovedFields ==
  ASSUME NEW op, NEW moved, IsMoved(op, moved)
  PROVE  FieldsMoved(op, moved)
<1> DEFINE u == [i \in DOMAIN op.inputs |-> Moved(op.inputs[i])]
<1>1. moved = [operator |-> op.operator, outputs |-> op.outputs, attributes |-> op.attributes, inputs |-> u]
  BY DEF IsMoved
<1>2. /\ DOMAIN u = DOMAIN op.inputs /\ u = [i \in DOMAIN u |-> u[i]]
      /\ \A i \in DOMAIN op.inputs : u[i] = Moved(op.inputs[i])
  OBVIOUS
<1> HIDE DEF u
<1>3. moved.operator = op.operator /\ moved.outputs = op.outputs
      /\ moved.attributes = op.attributes /\ moved.inputs = u
  BY <1>1
<1>4. QED
  BY <1>1, <1>2, <1>3 DEF FieldsMoved

\* Positions are natural numbers.
LEMMA InInterval == \A n \in Nat : \A i \in 1 .. n : i \in Nat
OBVIOUS

\* A list of one block.
LEMMA OneBlock ==
  ASSUME NEW F, NEW blocks, blocks = <<F>>
  PROVE  DOMAIN blocks = {1} /\ blocks[1] = F /\ blocks = [b \in {1} |-> F]
OBVIOUS

\* Moving operands keeps the shape of the module.
LEMMA MovedFacts ==
  ASSUME Inv, pc = "write"
  PROVE  /\ Lists(module, Len(module)) /\ Lists(MovedModule, Len(module))
         /\ \A b \in DOMAIN module :
              /\ Len(MovedModule[b]) = Len(module[b])
              /\ \A s \in DOMAIN module[b] : IsMoved(module[b][s], MovedModule[b][s])
<1>1. /\ IsModule(module) /\ Len(module) \in Nat /\ DOMAIN module = 1 .. Len(module)
      /\ \A b \in DOMAIN module : Len(module[b]) \in Nat /\ DOMAIN module[b] = 1 .. Len(module[b])
  BY ModuleFacts
<1>2. /\ module = [b \in DOMAIN module |-> module[b]]
      /\ \A b \in DOMAIN module : module[b] = [s \in DOMAIN module[b] |-> module[b][s]]
  BY <1>1 DEF IsModule
<1>3. Lists(module, Len(module))
  BY <1>1, <1>2 DEF Lists
<1>4. ASSUME NEW b \in DOMAIN module, NEW s \in DOMAIN module[b]
      PROVE  IsMoved(module[b][s], MovedModule[b][s])
  <2> DEFINE op == module[b][s]
             o == op.operator
             n == op.outputs
             a == op.attributes
             u == op.inputs
             moved == [i \in DOMAIN u |-> Moved(u[i])]
  <2>1. op = [operator |-> o, outputs |-> n, attributes |-> a, inputs |-> u]
    BY <1>1 DEF IsModule
  <2>2. MovedModule[b][s] = [op EXCEPT !.inputs = moved]
    BY DEF MovedModule
  <2> HIDE DEF op, o, n, a, u, moved
  <2>3. [op EXCEPT !.inputs = moved] = [operator |-> o, outputs |-> n, attributes |-> a, inputs |-> moved]
    BY <2>1
  <2>4. QED
    BY <2>2, <2>3 DEF op, o, n, a, u, moved, IsMoved
<1>5. /\ DOMAIN MovedModule = 1 .. Len(module)
      /\ MovedModule = [b \in 1 .. Len(module) |-> MovedModule[b]]
      /\ \A b \in DOMAIN module : /\ DOMAIN MovedModule[b] = 1 .. Len(module[b])
                                  /\ MovedModule[b] = [s \in 1 .. Len(module[b]) |-> MovedModule[b][s]]
  BY <1>1 DEF MovedModule
<1>6. Len(MovedModule) = Len(module)
  BY <1>1, <1>5
<1>7. \A b \in DOMAIN module : Len(MovedModule[b]) = Len(module[b])
  BY <1>1, <1>5
<1>8. Lists(MovedModule, Len(module))
  BY <1>1, <1>5, <1>6, <1>7 DEF Lists
<1>9. QED
  BY <1>3, <1>4, <1>7, <1>8

\* The place of a result.
LEMMA MovedResult ==
  ASSUME NEW b \in Nat, NEW s \in Nat, NEW i \in Nat
  PROVE  Moved(OperationResult(b, s, i)) = OperationResult(1, At(b, s), i)
<1>1. OperationResult(b, s, i) \in Nat \X Nat \X Nat
  BY DEF OperationResult
<1>2. OperationResult(b, s, i) # AnyValue
  BY <1>1, ProgramsAssumption
<1>3. QED
  BY <1>2 DEF Moved, At, Offset, Prefix, OperationResult

\* The list of operations: each stands at its place, and nothing else.
LEMMA MovedList ==
  ASSUME Inv, pc = "write"
  PROVE  LET F == FlattenSeq(MovedModule)
         IN /\ Len(F) \in Nat /\ F = [k \in 1 .. Len(F) |-> F[k]]
            /\ \A b \in DOMAIN module : \A s \in DOMAIN module[b] :
                 At(b, s) \in 1 .. Len(F) /\ IsMoved(module[b][s], F[At(b, s)])
            /\ \A k \in 1 .. Len(F) : \E b \in DOMAIN module : \E s \in DOMAIN module[b] : k = At(b, s)
            /\ \A b, c \in DOMAIN module : \A s \in DOMAIN module[b] : \A t \in DOMAIN module[c] :
                 At(b, s) = At(c, t) => b = c /\ s = t
<1> DEFINE F == FlattenSeq(MovedModule)
           n == Len(module)
<1>1. /\ DOMAIN module = 1 .. n
      /\ \A b \in DOMAIN module : DOMAIN module[b] = 1 .. Len(module[b])
  BY ModuleFacts
<1>2. /\ Lists(module, n) /\ Lists(MovedModule, n)
      /\ \A b \in 1 .. n : Len(MovedModule[b]) = Len(module[b])
  BY <1>1, MovedFacts
<1> HIDE DEF n
<1>3. \A b \in 1 .. n : Offset(MovedModule, b) = Offset(module, b)
  BY <1>2, SameOffsets
<1>4. /\ Len(F) \in Nat
      /\ F = [k \in 1 .. Len(F) |-> F[k]]
      /\ \A b \in 1 .. n : \A s \in 1 .. Len(MovedModule[b]) :
           /\ Offset(MovedModule, b) + s \in 1 .. Len(F)
           /\ F[Offset(MovedModule, b) + s] = MovedModule[b][s]
      /\ \A k \in 1 .. Len(F) : \E b \in 1 .. n : \E s \in 1 .. Len(MovedModule[b]) :
              k = Offset(MovedModule, b) + s
      /\ \A b, c \in 1 .. n : \A s \in 1 .. Len(MovedModule[b]) : \A t \in 1 .. Len(MovedModule[c]) :
              Offset(MovedModule, b) + s = Offset(MovedModule, c) + t => b = c /\ s = t
  <2>1. Placed(MovedModule, n)
    BY <1>2, Places
  <2>2. QED
    BY <2>1, Zenon DEF Placed, F
<1> HIDE DEF F
<1>5. \A b \in 1 .. n : DOMAIN module[b] = 1 .. Len(MovedModule[b])
  BY <1>1, <1>2
<1>6. \A b \in 1 .. n : \A s : At(b, s) = Offset(MovedModule, b) + s
  BY <1>3 DEF At
<1>7. \A b \in DOMAIN module : \A s \in DOMAIN module[b] :
                 At(b, s) \in 1 .. Len(F) /\ IsMoved(module[b][s], F[At(b, s)])
  <2>1. ASSUME NEW b \in DOMAIN module, NEW s \in DOMAIN module[b]
        PROVE  At(b, s) \in 1 .. Len(F) /\ IsMoved(module[b][s], F[At(b, s)])
    <3>1. At(b, s) \in 1 .. Len(F) /\ F[At(b, s)] = MovedModule[b][s]
      BY <1>1, <1>4, <1>5, <1>6
    <3>2. IsMoved(module[b][s], MovedModule[b][s])
      BY MovedFacts
    <3>3. QED
      BY <3>1, <3>2
  <2>2. QED
    BY <2>1
<1>8. \A k \in 1 .. Len(F) : \E b \in DOMAIN module : \E s \in DOMAIN module[b] : k = At(b, s)
  BY <1>1, <1>4, <1>5, <1>6
<1>9. \A b, c \in DOMAIN module : \A s \in DOMAIN module[b] : \A t \in DOMAIN module[c] :
                 At(b, s) = At(c, t) => b = c /\ s = t
  <2>1. ASSUME NEW b \in DOMAIN module, NEW c \in DOMAIN module,
               NEW s \in DOMAIN module[b], NEW t \in DOMAIN module[c], At(b, s) = At(c, t)
        PROVE  b = c /\ s = t
    <3>1. b \in 1 .. n /\ c \in 1 .. n /\ s \in 1 .. Len(MovedModule[b]) /\ t \in 1 .. Len(MovedModule[c])
      BY <1>1, <1>5
    <3>2. Offset(MovedModule, b) + s = Offset(MovedModule, c) + t
      BY <1>6, <2>1, <3>1
    <3>3. QED
      BY <1>4, <3>1, <3>2, ZenonT(60)
  <2>2. QED
    BY <2>1
<1>10. QED
  BY <1>4, <1>7, <1>8, <1>9 DEF F

\* So does what is written.
LEMMA WrittenList ==
  ASSUME WInv, Written
  PROVE  LET W == FlattenSeq(output)
         IN /\ Len(W) = Len(FlattenSeq(MovedModule)) /\ W = [k \in 1 .. Len(W) |-> W[k]]
            /\ \A b \in DOMAIN module : \A s \in DOMAIN module[b] :
                 W[At(b, s)] = Text(names, b, s, module[b][s])
<1> DEFINE W == FlattenSeq(output)
           n == Len(module)
<1>1. Inv /\ pc = "write"
  BY DEF WInv, Written
<1>2. /\ n \in Nat /\ DOMAIN module = 1 .. n
      /\ \A b \in DOMAIN module : Len(module[b]) \in Nat /\ DOMAIN module[b] = 1 .. Len(module[b])
  BY <1>1, ModuleFacts
<1>3. output = [b \in DOMAIN module |-> [s \in DOMAIN module[b] |-> Text(names, b, s, module[b][s])]]
  BY WrittenOutput
<1>4. Lists(module, n) /\ Lists(MovedModule, n) /\ \A b \in DOMAIN module : Len(MovedModule[b]) = Len(module[b])
  BY <1>1, MovedFacts
<1> HIDE DEF n
<1>5. DOMAIN output = 1 .. n /\ output = [b \in 1 .. n |-> output[b]]
      /\ \A b \in 1 .. n : /\ DOMAIN output[b] = 1 .. Len(module[b])
                           /\ output[b] = [s \in 1 .. Len(module[b]) |-> output[b][s]]
                           /\ \A s \in 1 .. Len(module[b]) : output[b][s] = Text(names, b, s, module[b][s])
  BY <1>2, <1>3
<1>6. Len(output) = n /\ \A b \in 1 .. n : Len(output[b]) = Len(module[b])
  BY <1>2, <1>5
<1>7. Lists(output, n)
  BY <1>2, <1>5, <1>6 DEF Lists
<1>8. \A b \in 1 .. n : Offset(output, b) = Offset(module, b)
  BY <1>4, <1>6, <1>7, SameOffsets
<1>9. Len(W) = Len(FlattenSeq(MovedModule))
  <2>1. \A b \in 1 .. n : Len(output[b]) = Len(MovedModule[b])
    BY <1>2, <1>4, <1>6
  <2>2. QED
    BY <1>4, <1>7, <2>1, SameOffsets, Zenon
<1>10. /\ W = [k \in 1 .. Len(W) |-> W[k]]
       /\ \A b \in 1 .. n : \A s \in 1 .. Len(output[b]) : W[Offset(output, b) + s] = output[b][s]
  <2>1. Placed(output, n)
    BY <1>7, Places
  <2>2. QED
    BY <2>1, Zenon DEF Placed, W
<1> HIDE DEF W
<1>11. ASSUME NEW b \in DOMAIN module, NEW s \in DOMAIN module[b]
       PROVE  W[At(b, s)] = Text(names, b, s, module[b][s])
  <2>1. b \in 1 .. n /\ s \in 1 .. Len(output[b]) /\ s \in 1 .. Len(module[b])
    BY <1>2, <1>6
  <2>2. At(b, s) = Offset(output, b) + s
    BY <1>8, <2>1 DEF At
  <2>3. QED
    BY <1>5, <1>10, <2>1, <2>2
<1>12. QED
  BY <1>9, <1>10, <1>11 DEF W

\* The names of the list's results: a result keeps the name it has in its block.
Renames(table) ==
  \A b \in DOMAIN module : \A s \in DOMAIN module[b] : \A i \in Nat :
    table[OperationResult(1, At(b, s), i)] = names[OperationResult(b, s, i)]

\* The list has a table of names too.
LEMMA JoinedTable ==
  ASSUME Inv, pc = "write"
  PROVE  \E table : Renames(table)
<1> DEFINE N == Len(FlattenSeq(MovedModule))
           B(k) == CHOOSE b \in DOMAIN module : \E s \in DOMAIN module[b] : k = At(b, s)
           S(k) == CHOOSE s \in DOMAIN module[B(k)] : k = At(B(k), s)
           table == [v \in {1} \X (1 .. N) \X Nat |-> names[OperationResult(B(v[2]), S(v[2]), v[3])]]
<1>1. /\ \A b \in DOMAIN module : \A s \in DOMAIN module[b] : At(b, s) \in 1 .. N
      /\ \A b, c \in DOMAIN module : \A s \in DOMAIN module[b] : \A t \in DOMAIN module[c] :
           At(b, s) = At(c, t) => b = c /\ s = t
  BY MovedList
<1> HIDE DEF N
<1>2. ASSUME NEW b \in DOMAIN module, NEW s \in DOMAIN module[b], NEW i \in Nat
      PROVE  table[OperationResult(1, At(b, s), i)] = names[OperationResult(b, s, i)]
  <2> DEFINE k == At(b, s)
  <2>1. k \in 1 .. N
    BY <1>1
  <2>2. B(k) \in DOMAIN module /\ \E t \in DOMAIN module[B(k)] : k = At(B(k), t)
    <3>1. \E c \in DOMAIN module : \E t \in DOMAIN module[c] : k = At(c, t)
      OBVIOUS
    <3>2. QED
      BY <3>1, Zenon
  <2>3. S(k) \in DOMAIN module[B(k)] /\ k = At(B(k), S(k))
    BY <2>2, Zenon
  <2>4. B(k) = b /\ S(k) = s
    <3> HIDE DEF B, S, k
    <3>1. At(b, s) = At(B(k), S(k))
      BY <2>3 DEF k
    <3>2. B(k) \in DOMAIN module /\ S(k) \in DOMAIN module[B(k)]
      BY <2>2, <2>3
    <3>3. QED
      BY <1>1, <3>1, <3>2, Zenon
  <2> HIDE DEF B, S, k
  <2>5. OperationResult(1, k, i) \in {1} \X (1 .. N) \X Nat
    BY <2>1 DEF OperationResult
  <2>6. table[OperationResult(1, k, i)] = names[OperationResult(B(k), S(k), i)]
    BY <2>5 DEF OperationResult
  <2>7. QED
    BY <2>4, <2>6 DEF k
<1> HIDE DEF table
<1>3. Renames(table)
  BY <1>2 DEF Renames
<1>4. QED
  BY <1>3

\* The list of operations is a module of one block.
LEMMA JoinedIsModule ==
  ASSUME Inv, pc = "write"
  PROVE  IsModule(JoinedModule)
<1> DEFINE F == FlattenSeq(MovedModule)
<1>1. IsModule(module) /\ DOMAIN module = 1 .. Len(module)
      /\ \A b \in DOMAIN module : DOMAIN module[b] = 1 .. Len(module[b]) /\ Len(module[b]) \in Nat
  BY ModuleFacts
<1>2. /\ Len(F) \in Nat /\ F = [k \in 1 .. Len(F) |-> F[k]]
      /\ \A b \in DOMAIN module : \A s \in DOMAIN module[b] :
           At(b, s) \in 1 .. Len(F) /\ IsMoved(module[b][s], F[At(b, s)])
      /\ \A k \in 1 .. Len(F) : \E b \in DOMAIN module : \E s \in DOMAIN module[b] : k = At(b, s)
  BY MovedList
<1>3. JoinedModule = <<F>>
  BY DEF JoinedModule, Joined, MovedModule
<1> HIDE DEF F
<1>4. \A b \in DOMAIN module : \A s \in DOMAIN module[b] :
        /\ At(b, s) \in 1 .. Len(F)
        /\ F[At(b, s)].operator = module[b][s].operator
        /\ F[At(b, s)].outputs = module[b][s].outputs
  BY <1>2, MovedFields DEF FieldsMoved
<1>5. DOMAIN F = 1 .. Len(F)
  BY <1>2
<1>6. ASSUME NEW k \in 1 .. Len(F)
      PROVE  /\ F[k] = [operator |-> F[k].operator, outputs |-> F[k].outputs,
                        attributes |-> F[k].attributes, inputs |-> F[k].inputs]
             /\ F[k].outputs \in Nat
             /\ F[k].attributes \subseteq Nat /\ IsFiniteSet(F[k].attributes)
             /\ F[k].inputs = [i \in DOMAIN F[k].inputs |-> F[k].inputs[i]]
             /\ \A i \in DOMAIN F[k].inputs : F[k].inputs[i] # AnyValue =>
                  \E l \in 1 .. Len(F) : \E j \in 1 .. F[l].outputs :
                    F[k].inputs[i] = OperationResult(1, l, j)
  <2>1. PICK b \in DOMAIN module : \E s \in DOMAIN module[b] : k = At(b, s)
    BY <1>2
  <2>2. PICK s \in DOMAIN module[b] : k = At(b, s)
    BY <2>1
  <2> DEFINE op == module[b][s]
             moved == F[k]
  <2>3. /\ op.outputs \in Nat
        /\ op.attributes \subseteq Nat /\ IsFiniteSet(op.attributes)
        /\ \A i \in DOMAIN op.inputs : op.inputs[i] # AnyValue =>
             \E t \in DOMAIN module[b] : \E j \in 1 .. module[b][t].outputs :
               op.inputs[i] = OperationResult(b, t, j)
    BY <1>1 DEF IsModule
  <2>4. IsMoved(op, moved)
    BY <1>2, <2>2
  <2>5. ASSUME NEW i \in DOMAIN op.inputs, Moved(op.inputs[i]) # AnyValue
        PROVE  \E l \in 1 .. Len(F) : \E j \in 1 .. F[l].outputs :
                 Moved(op.inputs[i]) = OperationResult(1, l, j)
    <3>1. op.inputs[i] # AnyValue
      BY <2>5 DEF Moved
    <3>2. PICK t \in DOMAIN module[b] : \E j \in 1 .. module[b][t].outputs :
               op.inputs[i] = OperationResult(b, t, j)
      BY <2>3, <3>1
    <3>3. PICK j \in 1 .. module[b][t].outputs : op.inputs[i] = OperationResult(b, t, j)
      BY <3>2
    <3>4. module[b][t].outputs \in Nat
      BY <1>1 DEF IsModule
    <3>5. b \in Nat /\ t \in Nat /\ j \in Nat
      BY <1>1, <3>4
    <3>6. Moved(op.inputs[i]) = OperationResult(1, At(b, t), j)
      BY <3>3, <3>5, MovedResult
    <3>7. At(b, t) \in 1 .. Len(F) /\ F[At(b, t)].outputs = module[b][t].outputs
      BY <1>4
    <3>8. QED
      BY <3>6, <3>7
  <2> HIDE DEF op, moved
  <2>6. /\ moved.outputs = op.outputs /\ moved.attributes = op.attributes
        /\ DOMAIN moved.inputs = DOMAIN op.inputs
        /\ \A i \in DOMAIN op.inputs : moved.inputs[i] = Moved(op.inputs[i])
        /\ moved = [operator |-> moved.operator, outputs |-> moved.outputs,
                     attributes |-> moved.attributes, inputs |-> moved.inputs]
        /\ moved.inputs = [i \in DOMAIN moved.inputs |-> moved.inputs[i]]
    BY <2>4, MovedFields DEF FieldsMoved
  <2>7. \A i \in DOMAIN moved.inputs : moved.inputs[i] # AnyValue =>
                  \E l \in 1 .. Len(F) : \E j \in 1 .. F[l].outputs :
                    moved.inputs[i] = OperationResult(1, l, j)
    BY <2>5, <2>6
  <2>8. moved.outputs \in Nat /\ moved.attributes \subseteq Nat /\ IsFiniteSet(moved.attributes)
    BY <2>3, <2>6
  <2>9. QED
    BY <2>6, <2>7, <2>8, Zenon DEF moved
<1>7. ASSUME NEW k \in 1 .. Len(F), NEW l \in 1 .. Len(F), F[k].operator = F[l].operator
      PROVE  F[k].outputs = F[l].outputs
  <2>1. PICK b \in DOMAIN module : \E s \in DOMAIN module[b] : k = At(b, s)
    BY <1>2
  <2>2. PICK s \in DOMAIN module[b] : k = At(b, s)
    BY <2>1
  <2>3. PICK c \in DOMAIN module : \E t \in DOMAIN module[c] : l = At(c, t)
    BY <1>2
  <2>4. PICK t \in DOMAIN module[c] : l = At(c, t)
    BY <2>3
  <2>5. F[k].operator = module[b][s].operator /\ F[k].outputs = module[b][s].outputs
    BY <1>4, <2>2
  <2>6. F[l].operator = module[c][t].operator /\ F[l].outputs = module[c][t].outputs
    BY <1>4, <2>4
  <2>7. module[b][s].operator = module[c][t].operator
    BY <1>7, <2>5, <2>6
  <2>8. QED
    BY <1>1, <2>5, <2>6, <2>7 DEF IsModule
<1> DEFINE blocks == <<F>>
<1>8. DOMAIN blocks = {1} /\ blocks[1] = F /\ blocks = [b \in DOMAIN blocks |-> blocks[b]]
  OBVIOUS
<1> HIDE DEF blocks
<1>9. IsModule(blocks)
  <2>1. DOMAIN blocks \subseteq Nat /\ DOMAIN F \subseteq Nat /\ F = [s \in DOMAIN F |-> F[s]]
    BY <1>2, <1>5, <1>8
  <2>2. \A b \in DOMAIN blocks : b = 1 /\ blocks[b] = F
    BY <1>8
  <2>3. QED
    BY <1>5, <1>6, <1>7, <1>8, <2>1, <2>2 DEF IsModule
<1>10. QED
  BY <1>3, <1>9 DEF blocks

\* An operation reads the same at its place in the list.
SameText(table, b, s, moved) ==
  Text(table, 1, At(b, s), moved) = Text(names, b, s, module[b][s])

\* Moved operands are found under their names.
LEMMA MovedText ==
  ASSUME Inv, pc = "write", NEW table, Renames(table),
         NEW b \in DOMAIN module, NEW s \in DOMAIN module[b],
         NEW moved, IsMoved(module[b][s], moved)
  PROVE  SameText(table, b, s, moved)
<1> DEFINE op == module[b][s]
<1>1. IsModule(module) /\ DOMAIN module = 1 .. Len(module) /\ Len(module) \in Nat
      /\ DOMAIN module[b] = 1 .. Len(module[b]) /\ Len(module[b]) \in Nat
  BY ModuleFacts
<1>2. /\ op.outputs \in Nat
      /\ \A i \in DOMAIN op.inputs : op.inputs[i] # AnyValue =>
           \E t \in DOMAIN module[b] : \E j \in 1 .. module[b][t].outputs :
             op.inputs[i] = OperationResult(b, t, j)
      /\ \A t \in DOMAIN module[b] : module[b][t].outputs \in Nat
  BY <1>1 DEF IsModule
<1>3. b \in Nat /\ \A t \in DOMAIN module[b] : t \in Nat
  BY <1>1, InInterval, Zenon
<1>4. \A t \in DOMAIN module[b] : At(b, t) \in Nat
  <2>1. Len(FlattenSeq(MovedModule)) \in Nat
        /\ \A t \in DOMAIN module[b] : At(b, t) \in 1 .. Len(FlattenSeq(MovedModule))
    BY MovedList
  <2>2. QED
    BY <2>1, InInterval, Zenon
<1>5. \A t \in DOMAIN module[b] : \A i \in Nat :
        table[OperationResult(1, At(b, t), i)] = names[OperationResult(b, t, i)]
  BY DEF Renames
<1> HIDE DEF op
<1>6. /\ moved.operator = op.operator /\ moved.outputs = op.outputs /\ moved.attributes = op.attributes
      /\ DOMAIN moved.inputs = DOMAIN op.inputs
      /\ \A i \in DOMAIN op.inputs : moved.inputs[i] = Moved(op.inputs[i])
  <2>1. IsMoved(op, moved)
    BY DEF op
  <2>2. FieldsMoved(op, moved)
    BY <2>1, MovedFields
  <2>3. QED
    BY <2>2 DEF FieldsMoved
<1> DEFINE uses == [i \in DOMAIN op.inputs |->
                      IF op.inputs[i] = AnyValue THEN AnyValue ELSE names[op.inputs[i]]]
           movedUses == [i \in DOMAIN op.inputs |->
                           IF moved.inputs[i] = AnyValue THEN AnyValue ELSE table[moved.inputs[i]]]
           defines == [i \in 1 .. op.outputs |-> names[OperationResult(b, s, i)]]
           movedDefines == [i \in 1 .. op.outputs |-> table[OperationResult(1, At(b, s), i)]]
<1>7. defines = movedDefines
  <2>1. \A i \in 1 .. op.outputs : i \in Nat
    BY <1>2, InInterval, Zenon
  <2>2. \A i \in 1 .. op.outputs : table[OperationResult(1, At(b, s), i)] = names[OperationResult(b, s, i)]
    BY <1>5, <2>1, Zenon
  <2>3. QED
    BY <2>2
<1>8. ASSUME NEW i \in DOMAIN op.inputs PROVE uses[i] = movedUses[i]
  <2> HIDE DEF uses, movedUses
  <2>1. uses[i] = IF op.inputs[i] = AnyValue THEN AnyValue ELSE names[op.inputs[i]]
    BY DEF uses
  <2>2. movedUses[i] = IF moved.inputs[i] = AnyValue THEN AnyValue ELSE table[moved.inputs[i]]
    BY DEF movedUses
  <2>3. moved.inputs[i] = Moved(op.inputs[i])
    BY <1>6
  <2>4. CASE op.inputs[i] = AnyValue
    <3>1. Moved(op.inputs[i]) = AnyValue
      BY <2>4 DEF Moved
    <3>2. QED
      BY <2>1, <2>2, <2>3, <2>4, <3>1
  <2>5. CASE op.inputs[i] # AnyValue
    <3>1. PICK t \in DOMAIN module[b] : \E j \in 1 .. module[b][t].outputs :
               op.inputs[i] = OperationResult(b, t, j)
      BY <1>2, <2>5
    <3>2. PICK j \in 1 .. module[b][t].outputs : op.inputs[i] = OperationResult(b, t, j)
      BY <3>1
    <3>3. j \in Nat
      BY <1>2, InInterval, Zenon
    <3>4. Moved(OperationResult(b, t, j)) = OperationResult(1, At(b, t), j)
      BY <1>3, <3>3, MovedResult, Zenon
    <3>5. moved.inputs[i] = OperationResult(1, At(b, t), j)
      BY <2>3, <3>2, <3>4
    <3>6. OperationResult(1, At(b, t), j) # AnyValue
      <4>1. OperationResult(1, At(b, t), j) \in Nat \X Nat \X Nat
        BY <1>4, <3>3 DEF OperationResult
      <4>2. QED
        BY <4>1, ProgramsAssumption
    <3>7. table[OperationResult(1, At(b, t), j)] = names[OperationResult(b, t, j)]
      BY <1>5, <3>3, Zenon
    <3>8. QED
      BY <2>1, <2>2, <2>5, <3>2, <3>5, <3>6, <3>7
  <2>6. QED
    BY <2>4, <2>5
<1>9. uses = movedUses
  <2>1. /\ uses = [i \in DOMAIN op.inputs |-> uses[i]]
        /\ movedUses = [i \in DOMAIN op.inputs |-> movedUses[i]]
    OBVIOUS
  <2> HIDE DEF uses, movedUses
  <2>2. [i \in DOMAIN op.inputs |-> uses[i]] = [i \in DOMAIN op.inputs |-> movedUses[i]]
    BY <1>8
  <2>3. QED
    BY <2>1, <2>2
<1>10. Text(names, b, s, op) = Statement(defines, op.operator, InOrder(op.attributes), uses)
  BY DEF Text
<1>11. Text(table, 1, At(b, s), moved) = Statement(movedDefines, op.operator, InOrder(op.attributes), movedUses)
  BY <1>6 DEF Text
<1>12. QED
  BY <1>7, <1>9, <1>10, <1>11 DEF op, SameText

\* Read as one list, what is written is that module in writing.
LEMMA JoinedOutput ==
  ASSUME WInv, Written, client = "facts fresh"
  PROVE  \E table :
           /\ Separates(table, JoinedModule)
           /\ Joined(output) =
                [b \in DOMAIN JoinedModule |->
                   [k \in DOMAIN JoinedModule[b] |-> Text(table, b, k, JoinedModule[b][k])]]
<1> DEFINE F == FlattenSeq(MovedModule)
           W == FlattenSeq(output)
<1>1. Inv /\ OutputInv /\ pc = "write"
  BY DEF WInv, Written
<1>0. PICK table : Renames(table)
  BY <1>1, JoinedTable
<1>2. \A b \in DOMAIN module : \A s \in DOMAIN module[b] : \A i \in Nat :
           table[OperationResult(1, At(b, s), i)] = names[OperationResult(b, s, i)]
  BY <1>0 DEF Renames
<1>3. IsModule(module) /\ DOMAIN module = 1 .. Len(module)
      /\ \A b \in DOMAIN module : DOMAIN module[b] = 1 .. Len(module[b]) /\ Len(module[b]) \in Nat
  BY <1>1, ModuleFacts
<1>4. /\ Len(F) \in Nat /\ F = [k \in 1 .. Len(F) |-> F[k]]
      /\ \A b \in DOMAIN module : \A s \in DOMAIN module[b] :
           At(b, s) \in 1 .. Len(F) /\ IsMoved(module[b][s], F[At(b, s)])
      /\ \A k \in 1 .. Len(F) : \E b \in DOMAIN module : \E s \in DOMAIN module[b] : k = At(b, s)
  BY <1>1, MovedList
<1>5. /\ Len(W) = Len(F) /\ W = [k \in 1 .. Len(W) |-> W[k]]
      /\ \A b \in DOMAIN module : \A s \in DOMAIN module[b] :
           W[At(b, s)] = Text(names, b, s, module[b][s])
  BY WrittenList
<1>6. \A b \in DOMAIN module : \A s \in DOMAIN module[b] : Covers(names, b, s, module[b][s])
  BY WrittenOutput
<1>7. Numbered(names)
  BY <1>1 DEF OutputInv
<1>8. JoinedModule = <<F>> /\ Joined(output) = <<W>>
  BY DEF JoinedModule, Joined, MovedModule
<1> HIDE DEF F, W
<1>9. \A b \in DOMAIN module : \A s \in DOMAIN module[b] :
        /\ At(b, s) \in 1 .. Len(F)
        /\ F[At(b, s)].operator = module[b][s].operator
        /\ F[At(b, s)].outputs = module[b][s].outputs
  BY <1>4, MovedFields DEF FieldsMoved
<1>10. ASSUME NEW k \in 1 .. Len(F), NEW l \in 1 .. Len(F),
              NEW i \in 1 .. F[k].outputs, NEW j \in 1 .. F[l].outputs
       PROVE  /\ table[OperationResult(1, k, i)] # AnyValue
              /\ table[OperationResult(1, k, i)] = table[OperationResult(1, l, j)] => k = l /\ i = j
  <2>1. PICK b \in DOMAIN module : \E s \in DOMAIN module[b] : k = At(b, s)
    BY <1>4
  <2>2. PICK s \in DOMAIN module[b] : k = At(b, s)
    BY <2>1
  <2>3. PICK c \in DOMAIN module : \E t \in DOMAIN module[c] : l = At(c, t)
    BY <1>4
  <2>4. PICK t \in DOMAIN module[c] : l = At(c, t)
    BY <2>3
  <2>5. i \in 1 .. module[b][s].outputs /\ j \in 1 .. module[c][t].outputs
    <3>1. F[At(b, s)].outputs = module[b][s].outputs /\ F[At(c, t)].outputs = module[c][t].outputs
      BY <1>9
    <3>2. QED
      BY <2>2, <2>4, <3>1
  <2>6. module[b][s].outputs \in Nat /\ module[c][t].outputs \in Nat
    BY <1>3 DEF IsModule
  <2>7. table[OperationResult(1, k, i)] = names[OperationResult(b, s, i)]
        /\ table[OperationResult(1, l, j)] = names[OperationResult(c, t, j)]
    <3>1. i \in Nat /\ j \in Nat
      BY <2>5, <2>6, InInterval, Zenon
    <3>2. table[OperationResult(1, At(b, s), i)] = names[OperationResult(b, s, i)]
          /\ table[OperationResult(1, At(c, t), j)] = names[OperationResult(c, t, j)]
      BY <1>2, <3>1
    <3>3. QED
      BY <2>2, <2>4, <3>2, Zenon
  <2>8. OperationResult(b, s, i) \in DOMAIN names /\ OperationResult(c, t, j) \in DOMAIN names
    BY <1>6, <2>5 DEF Covers
  <2>9. names[OperationResult(b, s, i)] \in Nat
    BY <1>7, <2>8 DEF Numbered
  <2>10. OperationResult(b, s, i) = OperationResult(c, t, j) => b = c /\ s = t /\ i = j
    BY DEF OperationResult
  <2>11. names[OperationResult(b, s, i)] = names[OperationResult(c, t, j)] => k = l /\ i = j
    BY <1>7, <2>2, <2>4, <2>8, <2>10 DEF Numbered, IsInjective
  <2>12. QED
    BY <2>7, <2>9, <2>11, ProgramsAssumption
<1>11. ASSUME NEW k \in 1 .. Len(F) PROVE W[k] = Text(table, 1, k, F[k])
  <2>1. PICK b \in DOMAIN module : \E s \in DOMAIN module[b] : k = At(b, s)
    BY <1>4
  <2>2. PICK s \in DOMAIN module[b] : k = At(b, s)
    BY <2>1
  <2>3. IsMoved(module[b][s], F[k]) /\ W[k] = Text(names, b, s, module[b][s])
    BY <1>4, <1>5, <2>2
  <2>4. SameText(table, b, s, F[k])
    BY <1>0, <1>1, <2>3, MovedText
  <2>5. QED
    BY <2>2, <2>3, <2>4 DEF SameText
<1>12. DOMAIN F = 1 .. Len(F) /\ W = [k \in DOMAIN F |-> W[k]]
  BY <1>4, <1>5
<1>13. W = [k \in DOMAIN F |-> Text(table, 1, k, F[k])]
  BY <1>11, <1>12
<1> DEFINE blocks == <<F>>
<1> HIDE DEF blocks
<1>14. DOMAIN blocks = {1} /\ blocks[1] = F
  BY OneBlock DEF blocks
<1>15. Separates(table, blocks)
  <2>1. \A b \in DOMAIN blocks : b = 1 /\ blocks[b] = F
    BY <1>14
  <2>2. ASSUME NEW b \in DOMAIN blocks, NEW s \in DOMAIN blocks[b], NEW t \in DOMAIN blocks[b],
               NEW i \in 1 .. blocks[b][s].outputs, NEW j \in 1 .. blocks[b][t].outputs
        PROVE  /\ table[OperationResult(b, s, i)] # AnyValue
               /\ table[OperationResult(b, s, i)] = table[OperationResult(b, t, j)] => s = t /\ i = j
    <3>1. b = 1 /\ blocks[b] = F
      BY <2>1
    <3>2. s \in 1 .. Len(F) /\ t \in 1 .. Len(F) /\ i \in 1 .. F[s].outputs /\ j \in 1 .. F[t].outputs
      BY <1>12, <3>1, Zenon
    <3>3. QED
      <4>1. /\ table[OperationResult(1, s, i)] # AnyValue
            /\ table[OperationResult(1, s, i)] = table[OperationResult(1, t, j)] => s = t /\ i = j
        BY <1>10, <3>2, Zenon
      <4>2. QED
        BY <3>1, <4>1
  <2>3. QED
    BY <2>2, Zenon DEF Separates
<1>16. <<W>> = [b \in DOMAIN blocks |-> [k \in DOMAIN blocks[b] |-> Text(table, b, k, blocks[b][k])]]
  <2> DEFINE text == [b \in {1} |-> [k \in DOMAIN F |-> Text(table, b, k, F[k])]]
  <2>1. [b \in DOMAIN blocks |-> [k \in DOMAIN blocks[b] |-> Text(table, b, k, blocks[b][k])]] = text
    BY <1>14
  <2>2. text = [b \in {1} |-> W]
    BY <1>13
  <2> HIDE DEF text
  <2>3. <<W>> = [b \in {1} |-> W]
    BY OneBlock
  <2>4. QED
    BY <2>1, <2>2, <2>3
<1>17. QED
  <2>1. JoinedModule = blocks /\ Joined(output) = <<W>>
    BY <1>8 DEF blocks
  <2>2. QED
    <3>1. Separates(table, JoinedModule)
      BY <1>15, <2>1
    <3>2. Joined(output) =
            [b \in DOMAIN JoinedModule |->
               [k \in DOMAIN JoinedModule[b] |-> Text(table, b, k, JoinedModule[b][k])]]
      BY <1>16, <2>1
    <3>3. QED
      BY <3>1, <3>2, Zenon

\* The facts that DatalogLoweringVisitor writes with ids of its own, read as
\* one list of operations, have the data flow of the module, whatever programs
\* are parsed.
THEOREM FactsKeepDataFlowHolds == Spec => []FactsKeepDataFlow
<1>1. WInv => FactsKeepDataFlow
  <2> SUFFICES ASSUME WInv, Written, client = "facts fresh"
               PROVE  WellFormed(Joined(output)) /\ Meaning(Joined(output)) = JoinedModule
    BY DEF FactsKeepDataFlow
  <2>1. IsModule(JoinedModule)
    BY JoinedIsModule DEF WInv, Written
  <2>2. PICK table :
           /\ Separates(table, JoinedModule)
           /\ Joined(output) =
                [b \in DOMAIN JoinedModule |->
                   [k \in DOMAIN JoinedModule[b] |-> Text(table, b, k, JoinedModule[b][k])]]
    BY JoinedOutput
  <2>3. QED
    <3> DEFINE text == Joined(output)
               blocks == JoinedModule
    <3> HIDE DEF text, blocks
    <3>1. /\ IsModule(blocks) /\ Separates(table, blocks)
          /\ text = [b \in DOMAIN blocks |-> [k \in DOMAIN blocks[b] |-> Text(table, b, k, blocks[b][k])]]
      BY <2>1, <2>2, Zenon DEF text, blocks
    <3>2. WellFormed(text) /\ Meaning(text) = blocks
      BY <3>1, WrittenModule, Zenon
    <3>3. QED
      BY <3>2 DEF text, blocks
<1>2. QED
  BY <1>1, WInvHolds, PTL
=============================================================================
