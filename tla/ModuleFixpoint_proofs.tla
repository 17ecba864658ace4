----------------------- MODULE ModuleFixpoint_proofs -----------------------
(***************************************************************************)
(* Proofs about the fixpoint loop for every set of modules and every       *)
(* abstract semantics that is typed, whose join is a semilattice with      *)
(* Bottom at its foot and, where a theorem says so, whose transformers are *)
(* monotone and keep Bottom.                                               *)
(***************************************************************************)
EXTENDS ModuleFixpoint, TLAPS

\* The module of the call is one of Modules: the types of its operations'
\* outputs depend on it.
TypeInv == TypeOK /\ module \in Modules

-----------------------------------------------------------------------------
\* The nodes of the graph: what an operation reads, and its results.
LEMMA NodesOfOperation ==
  ASSUME NEW m, IsModule(m), NEW op \in m.ops
  PROVE  /\ Results(m, op) \subseteq ValueNodes(m)
         /\ \A i \in DOMAIN m.inputs[op] :
              /\ m.inputs[op][i] \in InputValues(m, op)
              /\ m.inputs[op][i] \in ValueNodes(m)
  BY DEF ValueNodes, InputValues

\* An entry value is not a result.
LEMMA EntryIsNoResult ==
  ASSUME NEW m, IsModule(m), NEW op \in m.ops, NEW v \in Results(m, op)
  PROVE  v \notin EntryValue
<1>1. v \in OperationResult
  BY DEF Results, OperationResult, IsModule
<1>2. QED
  BY <1>1, EntryValueAssumption

\* What get_current_state returns is a state.
LEMMA CurrentStateTyped ==
  ASSUME SemanticsTyped(Modules), TypeInv, NEW v
  PROVE  CurrentState(v) \in AbstractState
  BY DEF SemanticsTyped, TypeInv, TypeOK, CurrentState, FirstVisit

LEMMA InputStatesTyped ==
  ASSUME SemanticsTyped(Modules), TypeInv, NEW op \in module.ops
  PROVE  InputStates(op) \in InputAssignments(module, op)
  BY CurrentStateTyped DEF InputStates, InputAssignments

\* A visit that does not die computes a state for every result.
LEMMA OutputStatesTyped ==
  ASSUME SemanticsTyped(Modules), TypeInv, NEW op \in module.ops,
         OutputStates(op) # CheckFailure, NEW v \in Results(module, op)
  PROVE  /\ OutputStates(op)[v[2]] \in AbstractState
         /\ JoinedState(v, OutputStates(op)) \in AbstractState
<1>1. OutputStates(op)[v[2]] \in AbstractState
  <2>1. v[2] \in 1 .. module.outputs[op]
    BY DEF Results
  <2>2. InputStates(op) \in InputAssignments(module, op) /\ module \in Modules
    BY InputStatesTyped DEF TypeInv
  <2>3. QED
    BY <2>1, <2>2 DEF OutputStates, SemanticsTyped
<1>2. QED
  BY <1>1, CurrentStateTyped DEF JoinedState, SemanticsTyped

-----------------------------------------------------------------------------
LEMMA InitTyped == SemanticsTyped(Modules) /\ Init => TypeInv
<1>1. SUFFICES ASSUME SemanticsTyped(Modules), Init PROVE TypeInv
  OBVIOUS
<1>2. IsModule(module)
  BY <1>1, ModulesAssumption DEF Init
<1>3. QED
  BY <1>1, <1>2 DEF Init, TypeInv, TypeOK, SemanticsTyped

LEMMA VisitTyped ==
  ASSUME SemanticsTyped(Modules), TypeInv, NEW op \in module.ops, Visit(op)
  PROVE  TypeInv'
<1> DEFINE out == OutputStates(op)
           changed == {v \in Results(module, op) : Changes(v, out)}
<1>1. /\ out # CheckFailure
      /\ valueStates' = [v \in DOMAIN valueStates \cup changed |->
                           IF v \in changed THEN JoinedState(v, out) ELSE valueStates[v]]
      /\ worklist' = (worklist \ {op}) \cup UNION {Uses(module, v) : v \in changed}
      /\ module' = module /\ pc' = pc
  BY DEF Visit
<1>2. changed \subseteq ValueNodes(module)
  BY NodesOfOperation DEF TypeInv, TypeOK
<1>3. \A v \in changed : JoinedState(v, out) \in AbstractState
  BY <1>1, OutputStatesTyped
<1> HIDE DEF changed, out
<1>4. worklist' \subseteq module.ops
  BY <1>1 DEF TypeInv, TypeOK, Uses
<1>5. DOMAIN valueStates' \subseteq ValueNodes(module)
  BY <1>1, <1>2 DEF TypeInv, TypeOK
<1>6. \A v \in DOMAIN valueStates' : valueStates'[v] \in AbstractState
  BY <1>1, <1>3 DEF TypeInv, TypeOK
<1>7. QED
  BY <1>1, <1>4, <1>5, <1>6 DEF TypeInv, TypeOK

LEMMA StepTyped ==
  ASSUME SemanticsTyped(Modules), TypeInv, [Next]_vars
  PROVE  TypeInv'
<1>1. ASSUME NEW op \in module.ops, Visit(op) PROVE TypeInv'
  BY <1>1, VisitTyped
<1>2. ASSUME NEW op \in module.ops, VisitDies(op) PROVE TypeInv'
  BY <1>2 DEF VisitDies, TypeInv, TypeOK
<1>3. CASE Return
  BY <1>3 DEF Return, TypeInv, TypeOK
<1>4. CASE UNCHANGED vars
  BY <1>4 DEF vars, TypeInv, TypeOK
<1>5. QED
  BY <1>1, <1>2, <1>3, <1>4 DEF Next

\* Every value_states entry is an abstract state of a node of the graph, and
\* the worklist holds operations of the module: no insert of the loop stores
\* anything else.
THEOREM TypeCorrect ==
  ASSUME SemanticsTyped(Modules)
  PROVE  Spec => []TypeOK
<1>1. Init => TypeInv
  BY InitTyped
<1>2. TypeInv /\ [Next]_vars => TypeInv'
  BY StepTyped
<1>3. TypeInv => TypeOK
  BY DEF TypeInv
<1>4. QED
  BY <1>1, <1>2, <1>3, PTL DEF Spec

-----------------------------------------------------------------------------
\* The order of the semilattice.
LEMMA JoinIsUpperBound ==
  ASSUME SemanticsTyped(Modules), JoinIsSemilattice(AbstractState),
         NEW a \in AbstractState, NEW b \in AbstractState
  PROVE  LeqOp(a, JoinOp(a, b)) /\ LeqOp(b, JoinOp(a, b))
<1>1. JoinOp(a, JoinOp(a, b)) = JoinOp(JoinOp(a, a), b)
  BY DEF JoinIsSemilattice
<1>2. JoinOp(b, JoinOp(b, a)) = JoinOp(JoinOp(b, b), a)
  BY DEF JoinIsSemilattice
<1>3. JoinOp(a, a) = a /\ JoinOp(b, b) = b /\ JoinOp(a, b) = JoinOp(b, a)
  BY DEF JoinIsSemilattice
<1>4. QED
  BY <1>1, <1>2, <1>3 DEF LeqOp

LEMMA JoinIsLeast ==
  ASSUME JoinIsSemilattice(AbstractState),
         NEW a \in AbstractState, NEW b \in AbstractState, NEW c \in AbstractState,
         LeqOp(a, c), LeqOp(b, c)
  PROVE  LeqOp(JoinOp(a, b), c)
<1>1. JoinOp(JoinOp(a, b), c) = JoinOp(a, JoinOp(b, c))
  BY DEF JoinIsSemilattice
<1>2. QED
  BY <1>1 DEF LeqOp

LEMMA LeqTransitive ==
  ASSUME JoinIsSemilattice(AbstractState),
         NEW a \in AbstractState, NEW b \in AbstractState, NEW c \in AbstractState,
         LeqOp(a, b), LeqOp(b, c)
  PROVE  LeqOp(a, c)
<1>1. JoinOp(JoinOp(a, b), c) = JoinOp(a, JoinOp(b, c))
  BY DEF JoinIsSemilattice
<1>2. QED
  BY <1>1 DEF LeqOp

LEMMA LeqReflexive ==
  ASSUME JoinIsSemilattice(AbstractState), NEW a \in AbstractState
  PROVE  LeqOp(a, a) /\ LeqOp(Bottom, a)
  BY DEF JoinIsSemilattice, LeqOp

-----------------------------------------------------------------------------
\* What a visit does to the state of a value, and to the rest.
ChangedBy(op) == {v \in Results(module, op) : Changes(v, OutputStates(op))}

LEMMA VisitEffect ==
  ASSUME NEW op \in module.ops, Visit(op)
  PROVE  /\ OutputStates(op) # CheckFailure
         /\ DOMAIN valueStates' = DOMAIN valueStates \cup ChangedBy(op)
         /\ worklist' = (worklist \ {op}) \cup UNION {Uses(module, v) : v \in ChangedBy(op)}
         /\ \A v \in Results(module, op) :
              CurrentState(v)' = JoinedState(v, OutputStates(op)) /\ v \in DOMAIN valueStates'
         /\ \A v : v \notin ChangedBy(op) =>
              /\ CurrentState(v)' = CurrentState(v)
              /\ v \in DOMAIN valueStates' <=> v \in DOMAIN valueStates
         /\ module' = module /\ pc' = pc /\ pc = "iterate"
<1> DEFINE changed == ChangedBy(op)
           out == OutputStates(op)
<1>1. /\ out # CheckFailure
      /\ valueStates' = [v \in DOMAIN valueStates \cup changed |->
                           IF v \in changed THEN JoinedState(v, out) ELSE valueStates[v]]
      /\ worklist' = (worklist \ {op}) \cup UNION {Uses(module, v) : v \in changed}
      /\ module' = module /\ pc' = pc /\ pc = "iterate"
  BY DEF Visit, ChangedBy
<1>2. \A v \in Results(module, op) \ changed :
         v \in DOMAIN valueStates /\ JoinedState(v, out) = CurrentState(v)
  BY DEF ChangedBy, Changes, FirstVisit
<1> HIDE DEF changed, out
<1>3. DOMAIN valueStates' = DOMAIN valueStates \cup changed
  BY <1>1
<1>4. ASSUME NEW v, v \notin changed
      PROVE  /\ CurrentState(v)' = CurrentState(v)
             /\ v \in DOMAIN valueStates' <=> v \in DOMAIN valueStates
  BY <1>1, <1>4 DEF CurrentState, FirstVisit
<1>5. ASSUME NEW v \in Results(module, op)
      PROVE  CurrentState(v)' = JoinedState(v, out) /\ v \in DOMAIN valueStates'
  <2>1. CASE v \in changed
    BY <1>1, <2>1 DEF CurrentState, FirstVisit
  <2>2. CASE v \notin changed
    BY <1>2, <1>4, <2>2
  <2>3. QED
    BY <2>1, <2>2
<1>6. QED
  BY <1>1, <1>3, <1>4, <1>5 DEF changed, out

\* The inputs of an operation none of which changed are the same states.
LEMMA UnchangedInputs ==
  ASSUME NEW op \in module.ops, module' = module,
         \A i \in DOMAIN module.inputs[op] :
           CurrentState(module.inputs[op][i])' = CurrentState(module.inputs[op][i])
  PROVE  InputStates(op)' = InputStates(op) /\ OutputStates(op)' = OutputStates(op)
<1>1. InputStates(op)' = InputStates(op)
  BY DEF InputStates
<1>2. QED
  BY <1>1 DEF OutputStates

-----------------------------------------------------------------------------
\* A step only raises states.
LEMMA StepGrows ==
  ASSUME SemanticsTyped(Modules), JoinIsSemilattice(AbstractState), TypeInv, [Next]_vars,
         NEW v \in DOMAIN valueStates
  PROVE  v \in DOMAIN valueStates' /\ LeqOp(valueStates[v], valueStates'[v])
<1>0. valueStates[v] \in AbstractState
  BY DEF TypeInv, TypeOK
<1>1. ASSUME NEW op \in module.ops, Visit(op)
      PROVE  v \in DOMAIN valueStates' /\ LeqOp(valueStates[v], valueStates'[v])
  <2>1. v \in DOMAIN valueStates'
    BY <1>1, VisitEffect
  <2>2. CurrentState(v) = valueStates[v] /\ CurrentState(v)' = valueStates'[v]
    BY <2>1 DEF CurrentState, FirstVisit
  <2>3. CASE v \in Results(module, op)
    <3>1. CurrentState(v)' = JoinOp(CurrentState(v), OutputStates(op)[v[2]])
      BY <1>1, <2>3, VisitEffect DEF JoinedState
    <3>2. OutputStates(op)[v[2]] \in AbstractState
      BY <1>1, <2>3, VisitEffect, OutputStatesTyped
    <3>3. QED
      BY <1>0, <2>1, <2>2, <3>1, <3>2, JoinIsUpperBound
  <2>4. CASE v \notin Results(module, op)
    <3>1. CurrentState(v)' = CurrentState(v)
      BY <1>1, <2>4, VisitEffect DEF ChangedBy
    <3>2. QED
      BY <1>0, <2>1, <2>2, <3>1, LeqReflexive
  <2>5. QED
    BY <2>3, <2>4
<1>2. CASE UNCHANGED valueStates
  BY <1>0, <1>2, LeqReflexive
<1>3. QED
  BY <1>1, <1>2 DEF Next, VisitDies, Return, vars

\* value_states.insert_or_assign never loses what was learnt along another
\* path: a stored state is only replaced by one that is at least as large.
THEOREM StatesOnlyGrow ==
  ASSUME SemanticsTyped(Modules), JoinIsSemilattice(AbstractState)
  PROVE  Spec => StatesGrow
<1>1. Init => TypeInv
  BY InitTyped
<1>2. TypeInv /\ [Next]_vars => TypeInv'
  BY StepTyped
<1>3. TypeInv /\ [Next]_vars =>
        [\A v \in DOMAIN valueStates :
           v \in DOMAIN valueStates' /\ LeqOp(valueStates[v], valueStates'[v])]_vars
  BY StepGrows
<1>4. QED
  BY <1>1, <1>2, <1>3, PTL DEF Spec, StatesGrow

-----------------------------------------------------------------------------
(***************************************************************************)
(* The invariant of the worklist.  WorklistComplete alone is not enough    *)
(* for what the loop returns: the absorbed outcome must not be a failed    *)
(* CHECK, and the loop is over only when nothing is queued.                *)
(***************************************************************************)
Settled(op) == OutputStates(op) # CheckFailure /\ Absorbed(op)

CompleteInv ==
  /\ TypeInv
  /\ pc # "died" => \A op \in module.ops : Reached(op) /\ op \notin worklist => Settled(op)
  /\ pc = "done" => worklist = {}

LEMMA InitComplete ==
  ASSUME SemanticsTyped(Modules), Init
  PROVE  CompleteInv
<1>1. TypeInv
  BY InitTyped
<1>2. ASSUME NEW op \in module.ops, Reached(op) PROVE op \in worklist
  <2>1. CASE module.inputs[op] = <<>>
    BY <2>1 DEF Init
  <2>2. CASE InputValues(module, op) \cap DOMAIN valueStates # {}
    BY <2>2 DEF Init
  <2>3. QED
    BY <1>2, <2>1, <2>2 DEF Reached
<1>3. QED
  BY <1>1, <1>2 DEF Init, CompleteInv

\* The users of what a visit changes are queued.
LEMMA VisitQueuesUsers ==
  ASSUME NEW op \in module.ops, Visit(op), NEW o \in module.ops, o \notin worklist'
  PROVE  \A v \in InputValues(module, o) : v \notin ChangedBy(op)
<1>1. ASSUME NEW v \in InputValues(module, o), v \in ChangedBy(op) PROVE FALSE
  <2>1. o \in Uses(module, v)
    BY <1>1 DEF Uses
  <2>2. o \in UNION {Uses(module, w) : w \in ChangedBy(op)}
    BY <1>1, <2>1
  <2>3. worklist' = (worklist \ {op}) \cup UNION {Uses(module, w) : w \in ChangedBy(op)}
    BY VisitEffect
  <2>4. QED
    BY <2>2, <2>3
<1>2. QED
  BY <1>1

\* The operation just visited, unless it reads one of its own results.
LEMMA VisitSettles ==
  ASSUME SemanticsTyped(Modules), JoinIsSemilattice(AbstractState), TypeInv,
         NEW op \in module.ops, Visit(op), op \notin worklist'
  PROVE  Settled(op)'
<1>1. \A i \in DOMAIN module.inputs[op] : module.inputs[op][i] \notin ChangedBy(op)
  BY VisitQueuesUsers DEF InputValues
<1>2. OutputStates(op)' = OutputStates(op)
  BY <1>1, VisitEffect, UnchangedInputs
<1>3. ASSUME NEW v \in Results(module, op)
      PROVE  v \in DOMAIN valueStates' /\ LeqOp(OutputStates(op)[v[2]], valueStates'[v])
  <2>1. v \in DOMAIN valueStates' /\ valueStates'[v] = JoinedState(v, OutputStates(op))
    BY VisitEffect DEF CurrentState, FirstVisit
  <2>2. OutputStates(op)[v[2]] \in AbstractState /\ CurrentState(v) \in AbstractState
    BY VisitEffect, OutputStatesTyped, CurrentStateTyped
  <2>3. QED
    BY <2>1, <2>2, JoinIsUpperBound DEF JoinedState
<1>4. QED
  BY <1>2, <1>3, VisitEffect DEF Settled, Absorbed

\* Every other operation that is not queued reads and writes what it did.
LEMMA VisitKeepsSettled ==
  ASSUME SemanticsTyped(Modules), JoinIsSemilattice(AbstractState), CompleteInv,
         NEW op \in module.ops, Visit(op),
         NEW o \in module.ops, o # op, Reached(o)', o \notin worklist'
  PROVE  Settled(o)'
<1>1. \A i \in DOMAIN module.inputs[o] : module.inputs[o][i] \notin ChangedBy(op)
  BY VisitQueuesUsers DEF InputValues
<1>2. OutputStates(o)' = OutputStates(o)
  BY <1>1, VisitEffect, UnchangedInputs
<1>3. Reached(o)
  <2>1. \A v \in InputValues(module, o) : v \in DOMAIN valueStates' => v \in DOMAIN valueStates
    BY VisitQueuesUsers, VisitEffect
  <2>2. module.inputs[o] = <<>> \/ InputValues(module, o) \cap DOMAIN valueStates' # {}
    BY VisitEffect DEF Reached
  <2>3. QED
    BY <2>1, <2>2 DEF Reached
<1>4. o \notin worklist
  BY VisitEffect
<1>5. Settled(o)
  BY <1>3, <1>4, VisitEffect DEF CompleteInv
<1>6. ASSUME NEW v \in Results(module, o)
      PROVE  v \in DOMAIN valueStates' /\ valueStates'[v] = valueStates[v]
  <2>1. v \notin ChangedBy(op)
    BY DEF ChangedBy, Results
  <2>2. v \in DOMAIN valueStates
    BY <1>5 DEF Settled, Absorbed
  <2>3. QED
    BY <2>1, <2>2, VisitEffect DEF CurrentState, FirstVisit
<1>7. QED
  BY <1>2, <1>5, <1>6, VisitEffect DEF Settled, Absorbed

LEMMA StepComplete ==
  ASSUME SemanticsTyped(Modules), JoinIsSemilattice(AbstractState), CompleteInv, [Next]_vars
  PROVE  CompleteInv'
<1>0. TypeInv /\ TypeInv'
  BY StepTyped DEF CompleteInv
<1>1. ASSUME NEW op \in module.ops, Visit(op) PROVE CompleteInv'
  <2>1. module' = module /\ pc' = "iterate"
    BY <1>1, VisitEffect
  <2>2. ASSUME NEW o \in module.ops, Reached(o)', o \notin worklist' PROVE Settled(o)'
    BY <1>0, <1>1, <2>2, VisitSettles, VisitKeepsSettled
  <2>3. QED
    BY <1>0, <2>1, <2>2 DEF CompleteInv
<1>2. ASSUME NEW op \in module.ops, VisitDies(op) PROVE CompleteInv'
  BY <1>0, <1>2 DEF VisitDies, CompleteInv
<1>3. ASSUME UNCHANGED <<module, valueStates, worklist>>, pc' # "died" => pc # "died",
             pc' = "done" => worklist = {}
      PROVE  CompleteInv'
  <2>1. ASSUME NEW o \in module.ops PROVE Settled(o)' = Settled(o) /\ Reached(o)' = Reached(o)
    BY <1>3 DEF Settled, Absorbed, OutputStates, InputStates, CurrentState, FirstVisit, Reached
  <2>2. QED
    BY <1>0, <1>3, <2>1 DEF CompleteInv
<1>4. Return => CompleteInv'
  BY <1>3 DEF Return
<1>5. UNCHANGED vars => CompleteInv'
  BY <1>3 DEF vars, CompleteInv
<1>6. QED
  BY <1>1, <1>2, <1>4, <1>5 DEF Next

LEMMA CompleteInvariant ==
  ASSUME SemanticsTyped(Modules), JoinIsSemilattice(AbstractState)
  PROVE  Spec => []CompleteInv
<1>1. Init => CompleteInv
  BY InitComplete
<1>2. CompleteInv /\ [Next]_vars => CompleteInv'
  BY StepComplete
<1>3. QED
  BY <1>1, <1>2, PTL DEF Spec

\* The loop of ComputeFixpoint queues again whatever has to be visited again:
\* an operation that was reached and is not on the worklist has nothing to add
\* to its results.
THEOREM WorklistIsComplete ==
  ASSUME SemanticsTyped(Modules), JoinIsSemilattice(AbstractState)
  PROVE  Spec => []WorklistComplete
<1>1. Spec => []CompleteInv
  BY CompleteInvariant
<1>2. CompleteInv => WorklistComplete
  BY DEF CompleteInv, WorklistComplete, Settled
<1>3. QED
  BY <1>1, <1>2, PTL

-----------------------------------------------------------------------------
\* Every state is at most that of any solution.
BelowSolutions ==
  \A s \in Assignments :
    IsSolution(s) => \A v \in ValueNodes(module) : LeqOp(CurrentState(v), s[v])

LEMMA AssignmentsTyped ==
  ASSUME SemanticsTyped(Modules), NEW s \in Assignments, NEW v \in ValueNodes(module)
  PROVE  s[v] \in AbstractState /\ (v \in EntryValue => s[v] = InitialState(v))
<1>1. PICK r \in [ValueNodes(module) \ EntryValue -> AbstractState] :
        s = [w \in ValueNodes(module) |-> IF w \in EntryValue THEN InitialState(w) ELSE r[w]]
  BY DEF Assignments
<1>2. QED
  BY <1>1 DEF SemanticsTyped

LEMMA InitBelow ==
  ASSUME SemanticsTyped(Modules), JoinIsSemilattice(AbstractState), Init
  PROVE  BelowSolutions
<1>1. ASSUME NEW s \in Assignments, NEW v \in ValueNodes(module)
      PROVE  LeqOp(CurrentState(v), s[v])
  <2>1. CASE v \in EntryValue
    <3>1. CurrentState(v) = s[v] /\ s[v] \in AbstractState
      BY <2>1, AssignmentsTyped DEF Init, CurrentState, FirstVisit
    <3>2. QED
      BY <3>1, LeqReflexive
  <2>2. CASE v \notin EntryValue
    <3>1. CurrentState(v) = Bottom
      BY <2>2 DEF Init, CurrentState, FirstVisit
    <3>2. QED
      BY <3>1, AssignmentsTyped, LeqReflexive
  <2>3. QED
    BY <2>1, <2>2
<1>2. QED
  BY <1>1 DEF BelowSolutions

\* What a visit computes is at most what the solution has.
LEMMA OutputBelow ==
  ASSUME SemanticsTyped(Modules), JoinIsSemilattice(AbstractState),
         TransformerMonotone({module}), TypeInv, BelowSolutions,
         NEW op \in module.ops, NEW s \in Assignments, IsSolution(s),
         NEW v \in Results(module, op)
  PROVE  /\ OutputStates(op) # CheckFailure
         /\ LeqOp(OutputStates(op)[v[2]], s[v])
<1> DEFINE x == InputStates(op)
           y == [i \in DOMAIN module.inputs[op] |-> s[module.inputs[op][i]]]
<1>0. module \in Modules /\ IsModule(module)
  BY DEF TypeInv, TypeOK
<1>1. \A i \in DOMAIN module.inputs[op] : module.inputs[op][i] \in ValueNodes(module)
  BY <1>0, NodesOfOperation
<1>2. x \in InputAssignments(module, op)
  BY InputStatesTyped
<1>3. y \in InputAssignments(module, op)
  BY <1>1, AssignmentsTyped DEF InputAssignments
<1>4. \A i \in DOMAIN module.inputs[op] : LeqOp(x[i], y[i])
  BY <1>1 DEF BelowSolutions, InputStates
<1>5. Transformer(module, op, y) # CheckFailure /\ LeqOp(Transformer(module, op, y)[v[2]], s[v])
  BY DEF IsSolution, TransformerAt
<1>6. v[2] \in 1 .. module.outputs[op] /\ v \in ValueNodes(module)
  BY <1>0, NodesOfOperation DEF Results
<1> HIDE DEF x, y
<1>7. Transformer(module, op, x) # CheckFailure
      /\ LeqOp(Transformer(module, op, x)[v[2]], Transformer(module, op, y)[v[2]])
  BY <1>0, <1>2, <1>3, <1>4, <1>5, <1>6 DEF TransformerMonotone
<1>8. /\ Transformer(module, op, x)[v[2]] \in AbstractState
      /\ Transformer(module, op, y)[v[2]] \in AbstractState
      /\ s[v] \in AbstractState
  BY <1>0, <1>2, <1>3, <1>5, <1>6, <1>7, AssignmentsTyped DEF SemanticsTyped
<1>9. OutputStates(op) = Transformer(module, op, x)
  BY DEF OutputStates, x
<1>10. QED
  BY <1>5, <1>7, <1>8, <1>9, LeqTransitive

LEMMA StepBelow ==
  ASSUME SemanticsTyped(Modules), JoinIsSemilattice(AbstractState),
         TransformerMonotone({module}), TypeInv, BelowSolutions, [Next]_vars
  PROVE  BelowSolutions'
<1>1. ASSUME NEW op \in module.ops, Visit(op) PROVE BelowSolutions'
  <2>1. module' = module
    BY <1>1, VisitEffect
  <2>2. Assignments' = Assignments
    BY <2>1 DEF Assignments
  <2>3. ASSUME NEW s \in Assignments, IsSolution(s), NEW v \in ValueNodes(module)
        PROVE  LeqOp(CurrentState(v)', s[v])
    <3>1. LeqOp(CurrentState(v), s[v])
      BY <2>3 DEF BelowSolutions
    <3>2. CASE v \in Results(module, op)
      <4>1. LeqOp(OutputStates(op)[v[2]], s[v]) /\ OutputStates(op) # CheckFailure
        BY <2>3, <3>2, OutputBelow
      <4>2. /\ OutputStates(op)[v[2]] \in AbstractState
            /\ CurrentState(v) \in AbstractState /\ s[v] \in AbstractState
        BY <3>2, <4>1, OutputStatesTyped, CurrentStateTyped, AssignmentsTyped
      <4>3. LeqOp(JoinedState(v, OutputStates(op)), s[v])
        BY <3>1, <4>1, <4>2, JoinIsLeast DEF JoinedState
      <4>4. QED
        BY <1>1, <3>2, <4>3, VisitEffect
    <3>3. CASE v \notin Results(module, op)
      BY <1>1, <3>1, <3>3, VisitEffect DEF ChangedBy
    <3>4. QED
      BY <3>2, <3>3
  <2>4. ASSUME NEW s, IsSolution(s)' PROVE IsSolution(s)
    BY <2>1, <2>4 DEF IsSolution, TransformerAt
  <2>5. QED
    BY <2>1, <2>2, <2>3, <2>4 DEF BelowSolutions
<1>2. ASSUME UNCHANGED <<module, valueStates>> PROVE BelowSolutions'
  <2>1. Assignments' = Assignments /\ \A v : CurrentState(v)' = CurrentState(v)
    BY <1>2 DEF Assignments, CurrentState, FirstVisit
  <2>2. ASSUME NEW s, IsSolution(s)' PROVE IsSolution(s)
    BY <1>2, <2>2 DEF IsSolution, TransformerAt
  <2>3. QED
    BY <1>2, <2>1, <2>2 DEF BelowSolutions
<1>3. QED
  BY <1>1, <1>2 DEF Next, VisitDies, Return, vars

-----------------------------------------------------------------------------
\* Once the worklist is empty nothing can be raised.  An operation that was
\* never reached reads bottom everywhere: it is here that the transformers
\* must keep bottom.
LEMMA DoneMeansSolved ==
  ASSUME SemanticsTyped(Modules), JoinIsSemilattice(AbstractState),
         TransformerStrict(Modules), CompleteInv, worklist = {}, pc # "died",
         NEW op \in module.ops
  PROVE  /\ OutputStates(op) # CheckFailure
         /\ \A v \in Results(module, op) : LeqOp(OutputStates(op)[v[2]], CurrentState(v))
<1>1. CASE Reached(op)
  BY <1>1 DEF CompleteInv, Settled, Absorbed, CurrentState, FirstVisit
<1>2. CASE ~Reached(op)
  <2>1. module \in Modules /\ InputStates(op) \in InputAssignments(module, op)
    BY InputStatesTyped DEF CompleteInv, TypeInv
  <2>2. /\ module.inputs[op] # <<>>
        /\ \A i \in DOMAIN module.inputs[op] : InputStates(op)[i] = Bottom
    BY <1>2 DEF Reached, InputValues, InputStates, CurrentState, FirstVisit
  <2>3. /\ OutputStates(op) # CheckFailure
        /\ \A i \in 1 .. module.outputs[op] : OutputStates(op)[i] = Bottom
    BY <2>1, <2>2 DEF TransformerStrict, OutputStates
  <2>4. ASSUME NEW v \in Results(module, op)
        PROVE  LeqOp(OutputStates(op)[v[2]], CurrentState(v))
    <3>1. OutputStates(op)[v[2]] = Bottom
      BY <2>3 DEF Results
    <3>2. QED
      BY <3>1, CurrentStateTyped, LeqReflexive DEF CompleteInv
  <2>5. QED
    BY <2>3, <2>4
<1>3. QED
  BY <1>1, <1>2

LEMMA TotalStatesAreCurrent ==
  ASSUME IsModule(module), NEW op \in module.ops
  PROVE  /\ TransformerAt(TotalStates, op) = OutputStates(op)
         /\ \A v \in Results(module, op) : TotalStates[v] = CurrentState(v)
<1>1. \A i \in DOMAIN module.inputs[op] :
        TotalStates[module.inputs[op][i]] = CurrentState(module.inputs[op][i])
  BY NodesOfOperation DEF TotalStates
<1>2. [i \in DOMAIN module.inputs[op] |-> TotalStates[module.inputs[op][i]]] = InputStates(op)
  BY <1>1 DEF InputStates
<1>3. \A v \in Results(module, op) : TotalStates[v] = CurrentState(v)
  BY NodesOfOperation DEF TotalStates
<1>4. QED
  BY <1>2, <1>3 DEF TransformerAt, OutputStates

LEMMA DoneMeansLeastSolution ==
  ASSUME SemanticsTyped(Modules), JoinIsSemilattice(AbstractState),
         TransformerStrict(Modules), CompleteInv, BelowSolutions
  PROVE  ReturnsLeastSolution
<1>1. ASSUME pc = "done" PROVE IsSolution(TotalStates)
  <2>1. IsModule(module) /\ worklist = {} /\ pc # "died"
    BY <1>1 DEF CompleteInv, TypeInv, TypeOK
  <2>2. QED
    BY <2>1, DoneMeansSolved, TotalStatesAreCurrent DEF IsSolution
<1>2. QED
  BY <1>1 DEF ReturnsLeastSolution, BelowSolutions

(***************************************************************************)
(* "Computes a least fixpoint for the given graph": if the transformers    *)
(* keep bottom, the map ComputeFixpoint returns for a module whose         *)
(* transformers are monotone is the least solution, whatever operations    *)
(* *worklist.begin() gave.                                                 *)
(***************************************************************************)
THEOREM LeastSolution ==
  ASSUME SemanticsTyped(Modules), JoinIsSemilattice(AbstractState),
         TransformerStrict(Modules)
  PROVE  Spec => []LeastSolutionIfMonotone
<1> DEFINE BelowIfMonotone == TransformerMonotone({module}) => BelowSolutions
<1>1. Spec => []CompleteInv
  BY CompleteInvariant
<1>2. Init => BelowIfMonotone
  BY InitBelow
<1>3. CompleteInv /\ BelowIfMonotone /\ [Next]_vars => BelowIfMonotone'
  <2> SUFFICES ASSUME CompleteInv, BelowIfMonotone, [Next]_vars,
                      TransformerMonotone({module})'
               PROVE  BelowSolutions'
    OBVIOUS
  <2>1. module' = module
    BY VisitEffect DEF Next, VisitDies, Return, vars
  <2>2. TransformerMonotone({module})
    BY <2>1 DEF TransformerMonotone, InputAssignments
  <2>3. QED
    BY <2>2, StepBelow DEF CompleteInv
<1>4. CompleteInv /\ BelowIfMonotone => LeastSolutionIfMonotone
  BY DoneMeansLeastSolution DEF LeastSolutionIfMonotone
<1> HIDE DEF BelowIfMonotone
<1>5. QED
  BY <1>1, <1>2, <1>3, <1>4, PTL DEF Spec

-----------------------------------------------------------------------------
\* The graph of ChaoticIteration is the same graph.
LEMMA ChaoticGraph ==
  ASSUME NEW m
  PROVE  /\ Chaotic!ValueNodes(m) = ValueNodes(m)
         /\ Chaotic!IsModule(m) = IsModule(m)
         /\ \A op : Chaotic!Results(m, op) = Results(m, op)
<1>1. \A op : /\ Chaotic!Results(m, op) = Results(m, op)
              /\ Chaotic!InputValues(m, op) = InputValues(m, op)
  BY DEF Results, InputValues, Chaotic!Results, Chaotic!InputValues
<1>2. Chaotic!ValueNodes(m) = ValueNodes(m)
  BY <1>1 DEF ValueNodes, Chaotic!ValueNodes
<1>3. Chaotic!IsModule(m) = IsModule(m)
  BY DEF IsModule, Value, OperationResult, Chaotic!IsModule, Chaotic!Value, Chaotic!OperationResult
<1>4. QED
  BY <1>1, <1>2, <1>3

\* The refinement mapping on the operators of ChaoticIteration.
LEMMA ChaoticOutputs ==
  ASSUME IsModule(module), NEW op \in module.ops
  PROVE  Chaotic!Outputs(op) = OutputStates(op)
  BY TotalStatesAreCurrent DEF Chaotic!Outputs, TransformerAt

LEMMA InitRefines ==
  ASSUME Init
  PROVE  Chaotic!Init
<1>1. IsModule(module)
  BY ModulesAssumption DEF Init
<1>2. TotalStates = [v \in ValueNodes(module) |-> IF v \in EntryValue THEN InitialState(v) ELSE Bottom]
  BY DEF Init, TotalStates, CurrentState, FirstVisit
<1>3. QED
  BY <1>1, <1>2, ChaoticGraph DEF Init, Chaotic!Init

\* A turn of the loop raises the results of one operation.
LEMMA VisitRefines ==
  ASSUME TypeInv, NEW op \in module.ops, Visit(op)
  PROVE  Chaotic!Raise(op)
<1>1. IsModule(module)
  BY DEF TypeInv, TypeOK
<1>2. Chaotic!Outputs(op) = OutputStates(op)
  BY <1>1, ChaoticOutputs
<1>3. ASSUME NEW v \in ValueNodes(module)
      PROVE  CurrentState(v)' = IF v \in Results(module, op)
                                THEN JoinOp(TotalStates[v], OutputStates(op)[v[2]])
                                ELSE TotalStates[v]
  <2>1. TotalStates[v] = CurrentState(v)
    BY DEF TotalStates
  <2>2. CASE v \in Results(module, op)
    BY <2>1, <2>2, VisitEffect DEF JoinedState
  <2>3. CASE v \notin Results(module, op)
    BY <2>1, <2>3, VisitEffect DEF ChangedBy
  <2>4. QED
    BY <2>2, <2>3
<1>4. TotalStates' = [v \in ValueNodes(module) |-> CurrentState(v)']
  BY VisitEffect DEF TotalStates
<1>5. TotalStates' = Chaotic!Raised(op)
  BY <1>2, <1>3, <1>4, ChaoticGraph DEF Chaotic!Raised
<1>6. QED
  BY <1>2, <1>5, VisitEffect DEF Chaotic!Raise

\* The loop ends only where the abstract computation may stop.
LEMMA ReturnRefines ==
  ASSUME SemanticsTyped(Modules), JoinIsSemilattice(AbstractState),
         TransformerStrict(Modules), CompleteInv, Return
  PROVE  Chaotic!Stop
<1>1. IsModule(module) /\ worklist = {} /\ pc = "iterate"
  BY DEF CompleteInv, TypeInv, TypeOK, Return
<1>2. ASSUME NEW op \in module.ops
      PROVE  Chaotic!Outputs(op) # CheckFailure /\ Chaotic!Raised(op) = TotalStates
  <2>1. Chaotic!Outputs(op) = OutputStates(op)
    BY <1>1, ChaoticOutputs
  <2>2. /\ OutputStates(op) # CheckFailure
        /\ \A v \in Results(module, op) : LeqOp(OutputStates(op)[v[2]], CurrentState(v))
    BY <1>1, DoneMeansSolved
  <2>3. ASSUME NEW v \in Results(module, op)
        PROVE  JoinOp(TotalStates[v], OutputStates(op)[v[2]]) = TotalStates[v]
    <3>1. /\ OutputStates(op)[v[2]] \in AbstractState
          /\ CurrentState(v) \in AbstractState
      BY <2>2, OutputStatesTyped, CurrentStateTyped DEF CompleteInv
    <3>2. JoinOp(CurrentState(v), OutputStates(op)[v[2]]) = CurrentState(v)
      BY <2>2, <3>1 DEF LeqOp, JoinIsSemilattice
    <3>3. QED
      BY <1>1, <3>2, TotalStatesAreCurrent
  <2>4. TotalStates = [v \in ValueNodes(module) |-> TotalStates[v]]
    BY DEF TotalStates
  <2>5. Chaotic!Raised(op) = TotalStates
    BY <2>1, <2>3, <2>4, ChaoticGraph DEF Chaotic!Raised
  <2>6. QED
    BY <2>1, <2>2, <2>5
<1>3. TotalStates' = TotalStates
  BY DEF Return, TotalStates, CurrentState, FirstVisit
<1>4. QED
  BY <1>1, <1>2, <1>3 DEF Return, Chaotic!Stop

LEMMA StepRefines ==
  ASSUME SemanticsTyped(Modules), JoinIsSemilattice(AbstractState),
         TransformerStrict(Modules), CompleteInv, [Next]_vars
  PROVE  [Chaotic!Next]_Chaotic!vars
<1>1. ASSUME NEW op \in module.ops, Visit(op) PROVE Chaotic!Next
  BY <1>1, VisitRefines DEF CompleteInv, Chaotic!Next
<1>2. ASSUME NEW op \in module.ops, VisitDies(op) PROVE Chaotic!Next
  <2>1. Chaotic!Outputs(op) = CheckFailure
    BY <1>2, ChaoticOutputs DEF VisitDies, CompleteInv, TypeInv, TypeOK
  <2>2. TotalStates' = TotalStates
    BY <1>2 DEF VisitDies, TotalStates, CurrentState, FirstVisit
  <2>3. QED
    BY <1>2, <2>1, <2>2 DEF VisitDies, Chaotic!Die, Chaotic!Next
<1>3. Return => Chaotic!Next
  BY ReturnRefines DEF Chaotic!Next
<1>4. UNCHANGED vars => UNCHANGED Chaotic!vars
  BY DEF vars, Chaotic!vars, TotalStates, CurrentState, FirstVisit
<1>5. QED
  BY <1>1, <1>2, <1>3, <1>4 DEF Next

(***************************************************************************)
(* ComputeFixpoint is a chaotic iteration: every turn of its loop raises   *)
(* the results of one operation to what the whole map of states says, and  *)
(* it returns only from a map that no operation would raise.  Monotonicity *)
(* is not needed for this.                                                 *)
(***************************************************************************)
THEOREM RefinesChaoticIteration ==
  ASSUME SemanticsTyped(Modules), JoinIsSemilattice(AbstractState),
         TransformerStrict(Modules)
  PROVE  Spec => ImplementsChaoticIteration
<1>1. Spec => []CompleteInv
  BY CompleteInvariant
<1>2. Init => Chaotic!Init
  BY InitRefines
<1>3. CompleteInv /\ [Next]_vars => [Chaotic!Next]_Chaotic!vars
  BY StepRefines
<1>4. QED
  BY <1>1, <1>2, <1>3, PTL DEF Spec, ImplementsChaoticIteration, Chaotic!Spec
=============================================================================
