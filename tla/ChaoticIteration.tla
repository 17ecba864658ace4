-------------------------- MODULE ChaoticIteration --------------------------
(***************************************************************************)
(* What a fixpoint computation over a module promises, without a worklist: *)
(* the states of all values start at their bottom or initial state, any    *)
(* operation may raise the states of its results at any time, and the      *)
(* computation may end only when no operation would raise anything.        *)
(***************************************************************************)
EXTENDS ModuleGraph

CONSTANTS
  AbstractState, Bottom, CheckFailure,
  InitialState(_), JoinOp(_, _), Transformer(_, _, _)

VARIABLES
  module,   \* the module
  states,   \* the state of every value of the module
  pc        \* "iterate", then "done" or "died"

vars == <<module, states, pc>>

Outputs(op) ==
  Transformer(module, op,
    [i \in DOMAIN module.inputs[op] |-> states[module.inputs[op][i]]])

Raised(op) ==
  [v \in ValueNodes(module) |->
     IF v \in Results(module, op) THEN JoinOp(states[v], Outputs(op)[v[2]])
     ELSE states[v]]

Init ==
  /\ IsModule(module)
  /\ states = [v \in ValueNodes(module) |->
                 IF v \in EntryValue THEN InitialState(v) ELSE Bottom]
  /\ pc = "iterate"

Raise(op) ==
  /\ pc = "iterate" /\ Outputs(op) # CheckFailure
  /\ states' = Raised(op)
  /\ UNCHANGED <<module, pc>>

Die(op) ==
  /\ pc = "iterate" /\ Outputs(op) = CheckFailure
  /\ pc' = "died"
  /\ UNCHANGED <<module, states>>

Stop ==
  /\ pc = "iterate"
  /\ \A op \in module.ops : Outputs(op) # CheckFailure /\ Raised(op) = states
  /\ pc' = "done"
  /\ UNCHANGED <<module, states>>

Next == (\E op \in module.ops : Raise(op) \/ Die(op)) \/ Stop

Spec == Init /\ [][Next]_vars
=============================================================================
