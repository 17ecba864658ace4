--------------------------- MODULE TaintAnalysis ---------------------------
(***************************************************************************)
(* TaintAnalysis == ModuleFixpointIterator<taint::AbstractSemantics>       *)
(* (src/backends/policy_engine/abstract_interpretation): the fixpoint loop *)
(* run with the IFC tag semantics.  The inference rules are keyed by the   *)
(* operations of the module they were made for, so a module record carries *)
(* them: rules[op] maps output indices to sequences of rules.              *)
(***************************************************************************)
EXTENDS AbstractSemantics

CONSTANTS Operation, EntryValue, Modules

VARIABLES module, valueStates, worklist, pc

TransformerOf(m, op, inputs) ==
  ApplyOperationTransformer(m.rules[op], m.outputs[op], inputs)

INSTANCE ModuleFixpoint WITH
  InitialState <- GetInitialState, JoinOp <- Join, Transformer <- TransformerOf

\* The rules of a module name inputs and outputs the operations have.
RulesInBounds(m) ==
  \A op \in m.ops : \A i \in DOMAIN m.rules[op] :
    i \in 1 .. m.outputs[op] /\ AreRules(m.rules[op][i], Len(m.inputs[op]))

ASSUME GraphAssumption ==
  /\ EntryValue \cap OperationResult = {}
  /\ \A m \in Modules : IsModule(m)

ASSUME RulesAssumption ==
  \A m \in Modules : DOMAIN m.rules = m.ops /\ RulesInBounds(m)

\* What makes the transformers of a module monotone.
MonotoneRules(m) ==
  \A op \in m.ops : \A i \in DOMAIN m.rules[op] : \A k \in 1 .. Len(m.rules[op][i]) :
    IsMonotoneRule(m.rules[op][i][k])

(***************************************************************************)
(* What the iterator asks of a semantics holds of the tags:                *)
(* ApplyOperationTransformer is typed and strict on every operation, with  *)
(* the CHECKs it dies of, and monotone if its rules are, and Join is a     *)
(* semilattice.  A module of one operation tells what that operation does. *)
(***************************************************************************)
TagSemantics ==
  (\E op \in module.ops : module.ops = {op}) =>
    /\ SemanticsTyped({module})
    /\ TransformerStrict({module})
    /\ MonotoneRules(module) => TransformerMonotone({module})
    /\ JoinIsSemilattice(AbstractState)
=============================================================================
