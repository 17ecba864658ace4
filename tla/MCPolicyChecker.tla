-------------------------- MODULE MCPolicyChecker --------------------------
(***************************************************************************)
(* The policy checker on modules with an egress.  The programs are those   *)
(* of abstract_interpretation_policy_checker_test.cc, made a family: the   *)
(* tag C of a secret, or of a merge, is removed by a tag transform whose   *)
(* two preconditions look at an A-tagged value, a B-tagged one or the      *)
(* merge; the merge unites or intersects integrity, has no rule, or is on  *)
(* a cycle with the tag transform.                                         *)
(***************************************************************************)
EXTENDS AbstractInterpretationPolicyChecker

CONSTANTS AnyValue, AddA, AddB, AddC, MergeAB, RemoveC, Output

MCTag == {"A", "B", "C"}
MCOperation == {AddA, AddB, AddC, MergeAB, RemoveC, Output}
MCEntryValue == {AnyValue}

Result(op) == <<op, 1>>
TransformRules(kind, tag, premises) ==
  1 :> <<InferenceRule(CopyInput(1), {}), InferenceRule(ModifyTag(kind, tag), premises)>>
MergeRules(kind, indices) == 1 :> <<InferenceRule(MergeIntegrityTags(kind, indices), {})>>

Program(mergeInputs, mergeRules, z, x, y, out) ==
  [ops |-> MCOperation,
   inputs |-> AddA :> <<AnyValue>> @@ AddB :> <<AnyValue>> @@ AddC :> <<AnyValue>>
              @@ MergeAB :> mergeInputs
              @@ RemoveC :> <<z, x, y>>
              @@ Output :> out,
   outputs |-> [op \in MCOperation |-> 1],
   rules |-> AddA :> TransformRules("kAddIntegrity", "A", {})
             @@ AddB :> TransformRules("kAddIntegrity", "B", {})
             @@ AddC :> TransformRules("kAddSecrecy", "C", {})
             @@ MergeAB :> mergeRules
             @@ RemoveC :> TransformRules("kRemoveSecrecy", "C",
                             {InputHasIntegrity(2, "A"), InputHasIntegrity(3, "B")})
             @@ Output :> <<>>,
   egress |-> {Output}]

MCModules ==
  {Program(<<p, q>>, rules, z, x, y, out) :
     p \in {Result(AddA), Result(AddC)},
     q \in {Result(AddB), Result(RemoveC)},
     rules \in {MergeRules("kUnion", {1, 2}), MergeRules("kUnion", {1}),
                MergeRules("kIntersect", {1, 2}), MergeRules("kUnion", {1, 3}), <<>>},
     z \in {Result(AddC), Result(MergeAB), Result(RemoveC)},
     x \in {Result(AddA), Result(AddB), Result(MergeAB)},
     y \in {Result(AddB), Result(MergeAB)},
     out \in {<<Result(RemoveC)>>, <<Result(MergeAB), Result(AddA)>>}}

\* The theorems about the verdict speak of these modules.
ASSUME MCModulesAssumption == \A m \in MCModules : SqlRules(m)
=============================================================================
