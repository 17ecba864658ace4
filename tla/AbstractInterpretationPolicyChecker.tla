---------------- MODULE AbstractInterpretationPolicyChecker ----------------
(***************************************************************************)
(* AbstractInterpretationPolicyChecker::IsModulePolicyCompliant            *)
(* (src/backends/policy_engine/abstract_interpretation): run the taint     *)
(* analysis on the module, then require that nothing an egress operation   *)
(* reads carries a secrecy tag.  A module record names its egress          *)
(* operations, those whose operator is in egress_operation_names_.         *)
(***************************************************************************)
EXTENDS TaintAnalysis, FiniteSets

VARIABLE verdict   \* "none" until the egress check, then its outcome

checkerVars == <<module, valueStates, worklist, pc, verdict>>

CheckerTypeOK == TypeOK /\ verdict \in {"none", "compliant", "violation", "died"}

CheckerInit == Init /\ verdict = "none"

Analyse == Next /\ UNCHANGED verdict

\* An egress operation is an operation of the module.
ASSUME EgressAssumption == \A m \in Modules : IsFiniteSet(m.ops) /\ m.egress \subseteq m.ops

EgressInputs == UNION {InputValues(module, op) : op \in module.egress}

(***************************************************************************)
(* The loops over blocks, operations and inputs.  An input without an      *)
(* entry was unreachable and is skipped; HasNoSecrecy fails its CHECK on a *)
(* bottom entry, and the loops go on after a violation, so one bottom      *)
(* entry anywhere is enough.                                               *)
(***************************************************************************)
CheckEgress ==
  LET states == {valueStates[v] : v \in EgressInputs \cap DOMAIN valueStates}
  IN /\ pc = "done" /\ verdict = "none"
     /\ verdict' = CASE Bottom \in states -> "died"
                     [] Bottom \notin states /\ \A a \in states : HasNoSecrecy(a) -> "compliant"
                     [] OTHER -> "violation"
     /\ UNCHANGED <<module, valueStates, worklist, pc>>

CheckerNext == Analyse \/ CheckEgress

CheckerSpec == CheckerInit /\ [][CheckerNext]_checkerVars /\ WF_checkerVars(CheckerNext)

-----------------------------------------------------------------------------
(***************************************************************************)
(* Flow of one tag along the edges of the graph, by paths and not by       *)
(* states.  A rule fires when its premises hold in the returned map.       *)
(***************************************************************************)
Fires(op, rule) == PremisesHold(rule, InputStates(op))
FiredRules(v) ==
  IF v[2] \in DOMAIN module.rules[v[1]]
  THEN {r \in ToSet(module.rules[v[1]][v[2]]) : Fires(v[1], r)} ELSE {}

HasModification(v, kind, t) == \E r \in FiredRules(v) : r.conclusion = ModifyTag(kind, t)

\* The inputs whose secrecy a result has: all, or the one a rule copies.
Carried(v) ==
  LET copied == {r.conclusion.index : r \in {q \in FiredRules(v) : q.conclusion.type = "CopyInput"}}
  IN IF copied = {} THEN InputValues(module, v[1])
     ELSE {module.inputs[v[1]][i] : i \in copied}

ResultValues == UNION {Results(module, op) : op \in module.ops}

(***************************************************************************)
(* The results t reaches, from the operations that add it along inputs     *)
(* whose secrecy a result has: what every set that has these results has.  *)
(***************************************************************************)
HoldsTaint(S, t) ==
  \A v \in ResultValues :
    \/ Reached(v[1]) /\ HasModification(v, "kAddSecrecy", t)
    \/ Carried(v) \cap S # {} /\ ~HasModification(v, "kRemoveSecrecy", t)
    => v \in S

TaintedBy(t) ==
  {v \in ResultValues : \A S \in SUBSET ResultValues : HoldsTaint(S, t) => v \in S}

(***************************************************************************)
(* The rules the SQL frontend makes for an output: copy an input and then  *)
(* modify one tag, or merge integrity.  A policy rule that adds secrecy    *)
(* under preconditions is left out: it is not monotone.                    *)
(***************************************************************************)
IsTransform(rules) ==
  /\ Len(rules) = 2
  /\ rules[1].conclusion.type = "CopyInput" /\ rules[1].premises = {}
  /\ rules[2].conclusion.type = "ModifyTag"

IsMerge(rules) ==
  /\ Len(rules) = 1
  /\ rules[1].conclusion.type = "MergeIntegrityTags" /\ rules[1].premises = {}

SqlRules(m) ==
  /\ MonotoneRules(m)
  /\ \A op \in m.ops : \A i \in DOMAIN m.rules[op] :
       IsTransform(m.rules[op][i]) \/ IsMerge(m.rules[op][i])

SomeFlow == \E t \in Tag : EgressInputs \cap TaintedBy(t) # {}

(***************************************************************************)
(* The verdict is that of the data flow paths, whatever order the worklist *)
(* was emptied in: the module is rejected iff some tag has a path from an  *)
(* operation that adds it to an egress on which nothing removes it.  For   *)
(* acceptance every value must have been evaluated: a value left bottom    *)
(* hides what flows into it.                                               *)
(***************************************************************************)
AllEvaluated == \A v \in ValueNodes(module) : CurrentState(v) # Bottom

VerdictIsExact ==
  /\ verdict = "violation" => SomeFlow
  /\ verdict = "compliant" /\ AllEvaluated => ~SomeFlow

(***************************************************************************)
(* The egress check ends the process only for a module in which an         *)
(* operation waits for a value that was never reached, or for its own      *)
(* result, directly or around a cycle.  An operation waits for all its     *)
(* inputs if it has a MergeIntegrityTags rule, and for what it copies.     *)
(***************************************************************************)
AwaitedBy(op, rule) ==
  {module.inputs[op][i] :
     i \in {j \in DOMAIN module.inputs[op] :
             \/ rule.conclusion.type = "MergeIntegrityTags"
             \/ rule.conclusion.type = "CopyInput" /\ rule.conclusion.index = j}}

AwaitedInputs(op) ==
  UNION {AwaitedBy(op, rule) :
           rule \in UNION {ToSet(module.rules[op][i]) : i \in DOMAIN module.rules[op]}}

IsClosedDownstream(S) ==
  \A op \in module.ops : InputValues(module, op) \cap S # {} => Results(module, op) \subseteq S

\* The values that the results of op reach, themselves included.
Downstream(op) ==
  {v \in ValueNodes(module) :
     \A S \in SUBSET ValueNodes(module) :
       Results(module, op) \subseteq S /\ IsClosedDownstream(S) => v \in S}

DiesOnlyOnStuckOperation ==
  verdict = "died" =>
    \E op \in module.ops : \E v \in AwaitedInputs(op) :
       v \notin DOMAIN valueStates \/ v \in Downstream(op)

\* Every module gets an answer, unless a CHECK fails.
Answers == <>(verdict # "none" \/ pc = "died")
=============================================================================
