-------------------------- MODULE MCTaintAnalysis --------------------------
(***************************************************************************)
(* The taint analysis on every module of three operations over one entry   *)
(* value and one tag, built from the operations the SQL frontend's rules   *)
(* produce: plain operations, the tag transforms, and merges.  The first   *)
(* operation is a source of a tag; the others are arbitrary, so that self  *)
(* loops, cycles, and cycles nothing enters occur.                         *)
(***************************************************************************)
EXTENDS TaintAnalysis

CONSTANTS EntryA, Op1, Op2, Op3

T == "t"
MCTag == {T}
MCOperation == {Op1, Op2, Op3}
MCEntryValue == {EntryA}
MCValues == MCEntryValue \cup {<<op, 1>> : op \in MCOperation}

OneRule(rules) == 1 :> rules
NoRules == <<>>
Code(inputs, rules) == [inputs |-> inputs, rules |-> rules]

\* The rules DecodeSqlPolicyRules makes: copy the first input, modify a tag.
Transform(kind, inputs, premises) ==
  Code(inputs, OneRule(<<InferenceRule(CopyInput(1), {}),
                         InferenceRule(ModifyTag(kind, T), premises)>>))
Merge(kind, inputs, indices) ==
  Code(inputs, OneRule(<<InferenceRule(MergeIntegrityTags(kind, indices), {})>>))

Seeds == {Code(<<>>, NoRules)}
Sources ==
  {Transform(kind, <<v>>, {}) : kind \in {"kAddSecrecy", "kAddIntegrity"}, v \in MCValues}
Plain == {Code(<<v>>, NoRules) : v \in MCValues}
Removals ==
  {Transform("kRemoveSecrecy", <<v, w>>, {InputHasIntegrity(2, T)}) :
     v \in MCValues, w \in MCValues}
Merges ==
  {Merge(kind, <<v, w>>, {1, 2}) :
     kind \in {"kUnion", "kIntersect"}, v \in MCValues, w \in MCValues}
\* control_input_start_index is larger than the number of inputs.
BadMerges == {Merge("kUnion", <<v>>, {1, 2}) : v \in MCValues}

ModuleOf(ops, code) ==
  [ops |-> ops,
   inputs |-> [op \in ops |-> code[op].inputs],
   outputs |-> [op \in ops |-> 1],
   rules |-> [op \in ops |-> code[op].rules]]

Program(c1, c2, c3) == ModuleOf(MCOperation, Op1 :> c1 @@ Op2 :> c2 @@ Op3 :> c3)

Programs ==
  {Program(c1, c2, c3) : c1 \in Sources,
                         c2 \in Sources \cup Removals \cup Plain \cup Seeds,
                         c3 \in Removals \cup Merges \cup BadMerges}

\* Each of these operations alone, over the entry value and its own result.
OneOperationModules ==
  {ModuleOf({Op3}, Op3 :> c) :
     c \in {d \in Seeds \cup Sources \cup Plain \cup Removals \cup Merges \cup BadMerges :
              ToSet(d.inputs) \subseteq {EntryA, <<Op3, 1>>}}}

MCModules == Programs \cup OneOperationModules

\* The theorems about the least solution speak of these modules.
ASSUME MCModulesAssumption == \A m \in MCModules : MonotoneRules(m)
=============================================================================
