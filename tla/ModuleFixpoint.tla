--------------------------- MODULE ModuleFixpoint ---------------------------
(***************************************************************************)
(* ModuleFixpointIterator<AbstractSemantics>::ComputeFixpoint              *)
(* (src/analysis/common/module_fixpoint_iterator.h): one call, from the    *)
(* initialised worklist to the returned map.  Like the C++ template the    *)
(* module is parameterised by the abstract semantics.                      *)
(*                                                                         *)
(* The worklist is a hash set of operation pointers of which begin() is    *)
(* taken, an order that differs from run to run: any operation of it may   *)
(* be next.                                                                *)
(***************************************************************************)
EXTENDS ModuleGraph

CONSTANTS
  AbstractState,       \* the states of AbstractSemantics
  Bottom,              \* AbstractState::Bottom()
  CheckFailure,        \* the outcome of a CHECK that fails in the semantics
  InitialState(_),     \* AbstractSemantics::GetInitialState
  JoinOp(_, _),        \* AbstractState::Join
  Transformer(_, _, _), \* ApplyOperationTransformer of a module's operation
  Modules              \* the modules ComputeFixpoint may be called with

ASSUME ModulesAssumption == \A m \in Modules : IsModule(m)

VARIABLES
  module,       \* the argument of the call
  valueStates,  \* value_states: the states computed so far, a partial map
  worklist,     \* the operations that have to be visited
  pc            \* "iterate", then "done" or "died" (a CHECK failed)

vars == <<module, valueStates, worklist, pc>>

\* get_current_state: a value without an entry counts as bottom.
FirstVisit(v) == v \notin DOMAIN valueStates
CurrentState(v) == IF FirstVisit(v) THEN Bottom ELSE valueStates[v]

InputStates(op) ==
  [i \in DOMAIN module.inputs[op] |-> CurrentState(module.inputs[op][i])]

OutputStates(op) == Transformer(module, op, InputStates(op))

TypeOK ==
  /\ IsModule(module)
  /\ DOMAIN valueStates \subseteq ValueNodes(module)
  /\ \A v \in DOMAIN valueStates : valueStates[v] \in AbstractState
  /\ worklist \subseteq module.ops
  /\ pc \in {"iterate", "done", "died"}

-----------------------------------------------------------------------------
\* Faulty: every entry value gets a state, in the graph or not.
InitAllEntries ==
  /\ module \in Modules
  /\ valueStates = [v \in EntryValue |-> InitialState(v)]
  /\ worklist = {op \in module.ops : \/ module.inputs[op] = <<>>
                                     \/ InputValues(module, op) \cap EntryValue # {}}
  /\ pc = "iterate"

\* Faulty: the operations without inputs are not queued.
InitForgetsSeeds ==
  /\ module \in Modules
  /\ valueStates = [v \in ValueNodes(module) \cap EntryValue |-> InitialState(v)]
  /\ worklist = {op \in module.ops : InputValues(module, op) \cap EntryValue # {}}
  /\ pc = "iterate"

(***************************************************************************)
(* Entry values get the initial state and put their users on the worklist, *)
(* together with the operations that have no inputs.                       *)
(***************************************************************************)
Init ==
  /\ module \in Modules
  /\ valueStates = [v \in ValueNodes(module) \cap EntryValue |-> InitialState(v)]
  /\ worklist = {op \in module.ops : \/ module.inputs[op] = <<>>
                                     \/ InputValues(module, op) \cap EntryValue # {}}
  /\ pc = "iterate"

\* Faulty: the old state is overwritten, not joined.
Overwritten(v, out) == out[v[2]]

\* The state a result takes when op is visited, and whether it is stored.
JoinedState(v, out) == JoinOp(CurrentState(v), out[v[2]])

\* Faulty: a first visit that computes bottom, a later change, or no change
\* at all is handled wrongly.
ChangesOnlyByState(v, out) == JoinedState(v, out) # CurrentState(v)
ChangesOnlyOnFirstVisit(v, out) == FirstVisit(v)
ChangesAlways(v, out) == TRUE

Changes(v, out) == FirstVisit(v) \/ JoinedState(v, out) # CurrentState(v)

(***************************************************************************)
(* One turn of the loop: take an operation, apply its transformer to the   *)
(* current states of its inputs, join the outcome into its results, and    *)
(* queue the users of every result that is new or has changed.             *)
(***************************************************************************)
Visit(op) ==
  /\ pc = "iterate" /\ op \in worklist
  /\ LET out == OutputStates(op)
         changed == {v \in Results(module, op) : Changes(v, out)}
     IN /\ out # CheckFailure
        /\ valueStates' = [v \in DOMAIN valueStates \cup changed |->
                             IF v \in changed THEN JoinedState(v, out)
                             ELSE valueStates[v]]
        /\ worklist' = (worklist \ {op}) \cup UNION {Uses(module, v) : v \in changed}
  /\ UNCHANGED <<module, pc>>

\* The transformer fails a CHECK: the process ends.
VisitDies(op) ==
  /\ pc = "iterate" /\ op \in worklist
  /\ OutputStates(op) = CheckFailure
  /\ pc' = "died"
  /\ UNCHANGED <<module, valueStates, worklist>>

Return ==
  /\ pc = "iterate" /\ worklist = {}
  /\ pc' = "done"
  /\ UNCHANGED <<module, valueStates, worklist>>

Next == (\E op \in module.ops : Visit(op) \/ VisitDies(op)) \/ Return

\* The loop is sequential code: it takes its next step.
Spec == Init /\ [][Next]_vars /\ WF_vars(Next)

-----------------------------------------------------------------------------
LeqOp(a, b) == JoinOp(a, b) = b

(***************************************************************************)
(* What the template asks of a semantics without stating it.  The theorems *)
(* take these as hypotheses on the modules ms = Modules; a semantics that  *)
(* breaks the third is not iterated to a least fixpoint.                   *)
(***************************************************************************)
InputAssignments(m, op) == [DOMAIN m.inputs[op] -> AbstractState]

SemanticsTyped(ms) ==
  /\ Bottom \in AbstractState
  /\ \A v \in EntryValue : InitialState(v) \in AbstractState
  /\ \A a, b \in AbstractState : JoinOp(a, b) \in AbstractState
  /\ \A m \in ms : \A op \in m.ops : \A in \in InputAssignments(m, op) :
       Transformer(m, op, in) # CheckFailure =>
         \A i \in 1 .. m.outputs[op] : Transformer(m, op, in)[i] \in AbstractState

JoinIsSemilattice(S) ==
  /\ \A a \in S : JoinOp(a, a) = a /\ JoinOp(Bottom, a) = a
  /\ \A a, b \in S : JoinOp(a, b) = JoinOp(b, a)
  /\ \A a, b, c \in S : JoinOp(JoinOp(a, b), c) = JoinOp(a, JoinOp(b, c))

TransformerMonotone(ms) ==
  \A m \in ms : \A op \in m.ops : \A x, y \in InputAssignments(m, op) :
    /\ \A i \in DOMAIN m.inputs[op] : LeqOp(x[i], y[i])
    /\ Transformer(m, op, y) # CheckFailure
    => /\ Transformer(m, op, x) # CheckFailure
       /\ \A i \in 1 .. m.outputs[op] :
            LeqOp(Transformer(m, op, x)[i], Transformer(m, op, y)[i])

TransformerStrict(ms) ==
  \A m \in ms : \A op \in m.ops : \A in \in InputAssignments(m, op) :
    m.inputs[op] # <<>> /\ (\A i \in DOMAIN m.inputs[op] : in[i] = Bottom) =>
      /\ Transformer(m, op, in) # CheckFailure
      /\ \A i \in 1 .. m.outputs[op] : Transformer(m, op, in)[i] = Bottom

-----------------------------------------------------------------------------
\* op has been reached: it reads nothing, or some input has a state.
Reached(op) ==
  module.inputs[op] = <<>> \/ InputValues(module, op) \cap DOMAIN valueStates # {}

\* The results of op have states that absorb what the transformer computes.
Absorbed(op) ==
  \A v \in Results(module, op) :
     /\ v \in DOMAIN valueStates
     /\ LeqOp(OutputStates(op)[v[2]], valueStates[v])

(***************************************************************************)
(* The worklist forgets nothing: an operation that was reached and is not  *)
(* queued has nothing to add to its results.  This is what makes it right  *)
(* for the loop to stop on an empty worklist (and what a missed            *)
(* worklist.insert of a user of a changed value would break).              *)
(***************************************************************************)
WorklistComplete ==
  pc # "died" =>
    \A op \in module.ops : Reached(op) /\ op \notin worklist => Absorbed(op)

(***************************************************************************)
(* A solution gives every entry value its initial state and every result   *)
(* at least what its operation computes from the solution's own states.    *)
(***************************************************************************)
TransformerAt(states, op) ==
  Transformer(module, op,
    [i \in DOMAIN module.inputs[op] |-> states[module.inputs[op][i]]])

Assignments ==
  {[v \in ValueNodes(module) |-> IF v \in EntryValue THEN InitialState(v) ELSE r[v]] :
      r \in [ValueNodes(module) \ EntryValue -> AbstractState]}

IsSolution(states) ==
  \A op \in module.ops :
    /\ TransformerAt(states, op) # CheckFailure
    /\ \A v \in Results(module, op) : LeqOp(TransformerAt(states, op)[v[2]], states[v])

\* The map computed so far, values without an entry being bottom.
TotalStates == [v \in ValueNodes(module) |-> CurrentState(v)]

(***************************************************************************)
(* "Computes a least fixpoint for the given graph": what the call returns  *)
(* is a solution, and at most any other solution, in whichever order the   *)
(* worklist was emptied.                                                   *)
(***************************************************************************)
ReturnsLeastSolution ==
  pc = "done" =>
    /\ IsSolution(TotalStates)
    /\ \A states \in Assignments :
         IsSolution(states) =>
           \A v \in ValueNodes(module) : LeqOp(CurrentState(v), states[v])

\* It does so for every module whose transformers are monotone.
LeastSolutionIfMonotone ==
  pc = "done" /\ TransformerMonotone({module}) => ReturnsLeastSolution

(***************************************************************************)
(* A state once stored is only ever replaced by a larger one: joining with *)
(* the old state loses nothing learnt along another path.                  *)
(***************************************************************************)
StatesGrow ==
  [][\A v \in DOMAIN valueStates :
       v \in DOMAIN valueStates' /\ LeqOp(valueStates[v], valueStates'[v])]_vars

\* Every call returns (or fails a CHECK): the loop cannot run forever.
Termination == <>(pc # "iterate")

(***************************************************************************)
(* The loop is one of the orders of a chaotic iteration: it refines the    *)
(* specification that raises states in any order and may stop only at a    *)
(* solution.                                                               *)
(***************************************************************************)
Chaotic == INSTANCE ChaoticIteration WITH states <- TotalStates

ImplementsChaoticIteration == Chaotic!Spec
=============================================================================
