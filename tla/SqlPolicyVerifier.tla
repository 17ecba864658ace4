------------------------- MODULE SqlPolicyVerifier -------------------------
(***************************************************************************)
(* The Datalog program of the SQL policy verifier (src/analysis/souffle/   *)
(* sql_policy_verifier_interface.dl with operations, dataflow_graph,       *)
(* taint, tag_transforms and sql_output) as the least model of its rules.  *)
(*                                                                         *)
(* Its input is a set of operations and a set of policy rules.  All        *)
(* operations have the actor "sql" and one result.  Lists are sequences    *)
(* and the numbers of predecessors, which encode "for all predecessors",   *)
(* are that quantifier; the positions of preconditions are kept.  Names of *)
(* values have no dots, so that none is a member of another.               *)
(***************************************************************************)
EXTENDS Naturals, SequencesExt

CONSTANT ArbitraryComputation   \* the access path that has no integrity

\* SqlPolicyRule, its preconditions and its three results.
SqlPolicyRulePrecondition(name, tag) == [name |-> name, tag |-> tag]
SqlPolicyRuleResult(kind, tag) == [kind |-> kind, tag |-> tag]
SqlPolicyRule(name, result, preconditions) ==
  [name |-> name, result |-> result, preconditions |-> preconditions]

UnionItagRuleName == "##raksha_internal#union_itag_rule"
IntersectItagRuleName == "##raksha_internal#intersect_itag_rule"

-----------------------------------------------------------------------------
IsTagTransform(op) == op.operator = "sql.tag_transform"

\* Faulty: preconditions are data flow like the transformed value.
AllOperands(op) == ToSet(op.operands) \cup {ArbitraryComputation}

(***************************************************************************)
(* resolvedEdge: the values an operation's result flows from.  A transform *)
(* has an edge from the value it transforms only, everything else one from *)
(* each operand and one that takes away the integrity.                     *)
(***************************************************************************)
Sources(op) ==
  IF IsTagTransform(op) THEN {op.operands[i] : i \in DOMAIN op.operands \cap {1}}
  ELSE ToSet(op.operands) \cup {ArbitraryComputation}

Predecessors(ops, value) == UNION {Sources(op) : op \in {o \in ops : o.result = value}}

HasRuleName(op, name) ==
  /\ IsTagTransform(op) /\ "rule_name" \in DOMAIN op.attributes
  /\ op.attributes["rule_name"] = name

RulesNamed(op, rules) == {r \in rules : HasRuleName(op, r.name)}

\* Faulty: the index counts from the head of the list.
PreconditionsFromHead(op, rules, index) ==
  {r.preconditions[index] : r \in {q \in RulesNamed(op, rules) : index \in DOMAIN q.preconditions}}

\* The index of a precondition is the length of the list behind it.
PreconditionsAtIndex(op, rules, index) ==
  {r.preconditions[Len(r.preconditions) - index] :
     r \in {q \in RulesNamed(op, rules) : index < Len(q.preconditions)}}

\* The attribute of that name says which operand must have the tag.
IsMet(op, precondition, integrity) ==
  /\ precondition.name \in DOMAIN op.attributes \ {"rule_name"}
  /\ op.attributes[precondition.name] + 1 \in DOMAIN op.operands
  /\ <<op.operands[op.attributes[precondition.name] + 1], precondition.tag>> \in integrity

AllPreconditionsMet(op, rules, integrity) ==
  \E r \in RulesNamed(op, rules) : \A index \in 0 .. Len(r.preconditions) - 1 :
    \E p \in PreconditionsAtIndex(op, rules, index) : IsMet(op, p, integrity)

\* The tags that the rules of a transform add or remove.
TagsByRule(op, kind, rules, integrity) ==
  IF AllPreconditionsMet(op, rules, integrity)
  THEN {r.result.tag : r \in {q \in RulesNamed(op, rules) : q.result.kind = kind}}
  ELSE {}

-----------------------------------------------------------------------------
\* A special transform of a merge has the merge propagate integrity.
IsModifiedMerge(ops, merge, name) ==
  /\ merge.operator = "sql.merge"
  /\ \E op \in ops : HasRuleName(op, name) /\ op.operands # <<>> /\ op.operands[1] = merge.result

ControlStart(merge) ==
  IF "control_input_start_index" \in DOMAIN merge.attributes
  THEN merge.attributes["control_input_start_index"] ELSE 0

DirectInputs(merge) ==
  {merge.operands[i] : i \in {j \in DOMAIN merge.operands : j <= ControlStart(merge)}}

UnionedTags(merge, integrity) == {h[2] : h \in {g \in integrity : g[1] \in DirectInputs(merge)}}

IntersectedTags(merge, integrity) ==
  {tag \in UnionedTags(merge, integrity) :
     /\ ControlStart(merge) \in DOMAIN merge.operands
     /\ \A value \in DirectInputs(merge) : <<value, tag>> \in integrity}

PropagatedTags(ops, value, integrity) ==
  {tag \in {h[2] : h \in integrity} :
     /\ Predecessors(ops, value) # {}
     /\ \A source \in Predecessors(ops, value) : <<source, tag>> \in integrity}

\* The integrity tags one application of the rules gives the result of op.
DerivedIntegrity(ops, rules, op, integrity) ==
  PropagatedTags(ops, op.result, integrity)
  \cup TagsByRule(op, "AddIntegrityTag", rules, integrity)
  \cup (IF IsModifiedMerge(ops, op, UnionItagRuleName)
        THEN UnionedTags(op, integrity) ELSE {})
  \cup (IF IsModifiedMerge(ops, op, IntersectItagRuleName)
        THEN IntersectedTags(op, integrity) ELSE {})

TagFacts(ops, rules) == {op.result : op \in ops} \X {r.result.tag : r \in rules}

\* Some facts, and what the rules make of them until there is nothing new.
Derived(step, facts) ==
  LET derive[known \in DOMAIN step] ==
        LET more == known \cup step[known]
        IN  IF more = known THEN known ELSE derive[more]
  IN  derive[facts]

IntegrityStep(ops, rules) ==
  [known \in SUBSET TagFacts(ops, rules) |->
     UNION {{op.result} \X DerivedIntegrity(ops, rules, op, known) : op \in ops}]

MustHaveIntegrityTag(ops, rules) == Derived(IntegrityStep(ops, rules), {})

-----------------------------------------------------------------------------
\* hasTag and removeTag: of the transforms whose preconditions are met.
TagsOf(kind, ops, rules) ==
  LET integrity == MustHaveIntegrityTag(ops, rules)
  IN  UNION {{op.result} \X TagsByRule(op, kind, rules, integrity) : op \in ops}

\* A tag flows along the edges to where it is not removed.
FlowingTags(ops, value, known) ==
  {h[2] : h \in {g \in known : g[1] \in Predecessors(ops, value)}}

FlowStep(ops, rules) ==
  LET removed == TagsOf("RemoveConfidentialityTag", ops, rules)
  IN  [known \in SUBSET TagFacts(ops, rules) |->
         (UNION {{op.result} \X FlowingTags(ops, op.result, known) : op \in ops}) \ removed]

MayHaveTag(ops, rules) ==
  Derived(FlowStep(ops, rules), TagsOf("AddConfidentialityTag", ops, rules))

ViolatesPolicy(ops, rules) ==
  \E op \in ops : /\ op.operator = "sql.sql_output"
                  /\ \E h \in MayHaveTag(ops, rules) : h[1] = op.result
=============================================================================
