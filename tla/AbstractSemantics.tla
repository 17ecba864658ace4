------------------------- MODULE AbstractSemantics -------------------------
(***************************************************************************)
(* What one IR operation does to the tags of its inputs (src/analysis/     *)
(* taint/abstract_semantics.cc): the default transformer, and the          *)
(* inference rules that override it output by output.                      *)
(*                                                                         *)
(* Input and output indices count from 1 here and from 0 in the code.      *)
(* A CHECK that fails ends the process; an operator whose C++ counterpart  *)
(* would fail one returns CheckFailure.                                    *)
(***************************************************************************)
EXTENDS AbstractIfcTags, SequencesExt

CONSTANT CheckFailure   \* the outcome of a failed CHECK

ASSUME CheckFailureAssumption == CheckFailure \notin AbstractState \cup Seq(AbstractState)

(***************************************************************************)
(* The conclusions of a rule (inference_rule.h), and a rule: a conclusion  *)
(* and the set of its premises InputHasIntegrity(input_index, tag).        *)
(***************************************************************************)
CopyInput(index) == [type |-> "CopyInput", index |-> index]
ModifyTag(kind, tag) == [type |-> "ModifyTag", kind |-> kind, tag |-> tag]
MergeIntegrityTags(kind, indices) ==
  [type |-> "MergeIntegrityTags", kind |-> kind, indices |-> indices]

InputHasIntegrity(index, tag) == [index |-> index, tag |-> tag]
InferenceRule(conclusion, premises) ==
  [conclusion |-> conclusion, premises |-> premises]

\* The values of these types, for an operation with n inputs.  Only a merge
\* may name inputs the operation does not have.
IsConclusion(c, n) ==
  \/ \E i \in 1 .. n : c = CopyInput(i)
  \/ \E kind \in {"kAddIntegrity", "kRemoveSecrecy", "kAddSecrecy"}, tag \in Tag :
       c = ModifyTag(kind, tag)
  \/ c.type = "MergeIntegrityTags" /\ c = MergeIntegrityTags(c.kind, c.indices)

IsRule(r, n) ==
  /\ r = InferenceRule(r.conclusion, r.premises)
  /\ IsConclusion(r.conclusion, n)
  /\ \A p \in r.premises : \E i \in 1 .. n, tag \in Tag : p = InputHasIntegrity(i, tag)

AreRules(rules, n) ==
  /\ Len(rules) \in Nat /\ DOMAIN rules = 1 .. Len(rules)
  /\ \A k \in DOMAIN rules : IsRule(rules[k], n)

(***************************************************************************)
(* A conclusion that depends on a premise may only lower the state.  The   *)
(* premises hold while their inputs are bottom: a conclusion that raises   *)
(* it, drawn then, would stay in the joined state for good.                *)
(***************************************************************************)
OnlyLowers(conclusion) ==
  conclusion.type = "ModifyTag" /\ conclusion.kind \in {"kAddIntegrity", "kRemoveSecrecy"}

IsMonotoneRule(r) == r.premises # {} => OnlyLowers(r.conclusion)

(***************************************************************************)
(* The state every value starts from, whichever it is: no secrecy, no      *)
(* integrity.                                                              *)
(***************************************************************************)
GetInitialState(value) == MakeTags({}, {})

(***************************************************************************)
(* Without inputs an operation is a seed; otherwise its outputs carry the  *)
(* secrecy of all inputs that have been reached, and no integrity.         *)
(***************************************************************************)
ApplyDefaultOperationTransformer(inputs) ==
  LET reached == {a \in ToSet(inputs) : ~IsBottom(a)}
  IN CASE inputs = <<>> -> GetInitialState(<<>>)
       [] inputs # <<>> /\ reached = {} -> Bottom
       [] OTHER -> MakeTags(UNION {a.secrecy : a \in reached}, {})

\* Faulty: the merge forgets the secrecy of its inputs.
MergeWithoutSecrecy(rule, inputs, current) ==
  LET integrities == {inputs[i].integrity : i \in rule.indices}
  IN CASE IsBottom(current) \/ Bottom \in ToSet(inputs) -> Bottom
       [] ~IsBottom(current) /\ Bottom \notin ToSet(inputs)
            /\ ~(rule.indices \subseteq DOMAIN inputs) -> CheckFailure
       [] OTHER -> MakeTags({}, UNION integrities)

(***************************************************************************)
(* Keep the secrecy of the current value and take the union or the         *)
(* intersection of the integrity of the named inputs.  Wait (stay bottom)  *)
(* while any input of the operation, named or not, is bottom.              *)
(***************************************************************************)
InterpretMergeIntegrityTags(rule, inputs, current) ==
  LET integrities == {inputs[i].integrity : i \in rule.indices}
  IN CASE IsBottom(current) \/ Bottom \in ToSet(inputs) -> Bottom
       [] ~IsBottom(current) /\ Bottom \notin ToSet(inputs)
            /\ ~(rule.indices \subseteq DOMAIN inputs) -> CheckFailure
       [] OTHER -> MakeTags(current.secrecy,
            IF rule.kind = "kUnion" THEN UNION integrities
            ELSE {t \in UNION integrities : \A I \in integrities : t \in I})

\* Faulty: a bottom input refutes every premise about it.
PremisesHoldStrictly(rule, inputs) ==
  \A p \in rule.premises :
     ~IsBottom(inputs[p.index]) /\ HasIntegrity(inputs[p.index], p.tag)

\* A bottom input satisfies every premise about it.
PremisesHold(rule, inputs) ==
  \A p \in rule.premises :
     IsBottom(inputs[p.index]) \/ HasIntegrity(inputs[p.index], p.tag)

InterpretModifyTag(conclusion, current) ==
  CASE conclusion.kind = "kAddIntegrity" -> SetIntegrity(current, conclusion.tag)
    [] conclusion.kind = "kRemoveSecrecy" -> ClearSecrecy(current, conclusion.tag)
    [] conclusion.kind = "kAddSecrecy" -> SetSecrecy(current, conclusion.tag)

InterpretInferenceRule(rule, inputs, current) ==
  LET conclusion == rule.conclusion
  IN CASE current = CheckFailure \/ ~PremisesHold(rule, inputs) -> current
       [] OTHER ->
            CASE conclusion.type = "CopyInput" -> inputs[conclusion.index]
              [] conclusion.type = "ModifyTag" ->
                   InterpretModifyTag(conclusion, current)
              [] conclusion.type = "MergeIntegrityTags" ->
                   InterpretMergeIntegrityTags(conclusion, inputs, current)

(***************************************************************************)
(* The states of all outputs.  rules maps the output indices that have     *)
(* rules to their sequences; a sequence refines the default result rule    *)
(* by rule, and an output without rules gets the default result.           *)
(***************************************************************************)
ApplyOutputRules(rules, inputs, default) ==
  LET refined[n \in 0 .. Len(rules)] ==
        IF n = 0 THEN default ELSE InterpretInferenceRule(rules[n], inputs, refined[n - 1])
  IN refined[Len(rules)]

ApplyOperationTransformer(rules, numberOfOutputs, inputs) ==
  LET default == ApplyDefaultOperationTransformer(inputs)
      results == [i \in 1 .. numberOfOutputs |->
                    IF i \in DOMAIN rules
                    THEN ApplyOutputRules(rules[i], inputs, default)
                    ELSE default]
  IN IF DOMAIN rules \subseteq 1 .. numberOfOutputs
        /\ \A i \in DOMAIN results : results[i] # CheckFailure
     THEN results ELSE CheckFailure
=============================================================================
