------------------------ MODULE PolicyChecker_proofs ------------------------
(***************************************************************************)
(* The tags are a join semilattice, and ApplyOperationTransformer is a     *)
(* typed, strict function of them for every operation and every sequence   *)
(* of rules, monotone if the rules are: what the fixpoint loop needs of    *)
(* the semantics, for every set of tags.  So the taint analysis is the     *)
(* fixpoint loop with a semantics that meets its hypotheses: what was      *)
(* proved of the loop holds of it, for every module, every set of tags and *)
(* every order of the worklist.                                            *)
(*                                                                         *)
(* The verdict of AbstractInterpretationPolicyChecker is that of the paths *)
(* along which a tag flows, for every module with rules of the SQL         *)
(* frontend; and the egress check only ends the process for a module, with *)
(* whatever rules, in which an operation waits for ever.                   *)
(***************************************************************************)
EXTENDS AbstractInterpretationPolicyChecker, FiniteRecursion, SequenceTheorems, FiniteSetTheorems

\* AbstractIfcTags::Join of two states is a state.
LEMMA JoinTyped ==
  ASSUME NEW a \in AbstractState, NEW b \in AbstractState
  PROVE  Join(a, b) \in AbstractState
  BY BottomAssumption DEF AbstractState, IfcTags, Join, IsBottom, MakeTags

\* Joining a state with itself or with Bottom changes nothing.
LEMMA JoinUnit ==
  ASSUME NEW a \in AbstractState
  PROVE  Join(a, a) = a /\ Join(Bottom, a) = a /\ Join(a, Bottom) = a
  BY BottomAssumption DEF AbstractState, IfcTags, Join, IsBottom, MakeTags

\* The order of the operands of Join does not matter.
LEMMA JoinCommutes ==
  ASSUME NEW a \in AbstractState, NEW b \in AbstractState
  PROVE  Join(a, b) = Join(b, a)
  BY BottomAssumption DEF AbstractState, IfcTags, Join, IsBottom, MakeTags

\* Nor does their grouping: the outcome of a chain of joins is a function of
\* the set of joined states.
LEMMA JoinAssociates ==
  ASSUME NEW a \in AbstractState, NEW b \in AbstractState, NEW c \in AbstractState
  PROVE  Join(Join(a, b), c) = Join(a, Join(b, c))
<1>1. CASE a = Bottom \/ b = Bottom \/ c = Bottom
  BY <1>1, JoinUnit, JoinTyped
<1>2. CASE a \in IfcTags /\ b \in IfcTags /\ c \in IfcTags
  <2>1. \A x, y \in IfcTags : /\ MakeTags(x.secrecy \cup y.secrecy, x.integrity \cap y.integrity) \in IfcTags
                             /\ Join(x, y) = MakeTags(x.secrecy \cup y.secrecy, x.integrity \cap y.integrity)
    BY BottomAssumption DEF IfcTags, Join, IsBottom, MakeTags
  <2>2. Join(Join(a, b), c) =
          MakeTags((a.secrecy \cup b.secrecy) \cup c.secrecy,
                   (a.integrity \cap b.integrity) \cap c.integrity)
    <3>1. /\ Join(a, b) \in IfcTags
          /\ Join(a, b) = MakeTags(a.secrecy \cup b.secrecy, a.integrity \cap b.integrity)
      BY <1>2, <2>1
    <3>2. /\ Join(a, b).secrecy = a.secrecy \cup b.secrecy
          /\ Join(a, b).integrity = a.integrity \cap b.integrity
      BY <3>1 DEF MakeTags
    <3>3. QED
      BY <1>2, <2>1, <3>1, <3>2
  <2>3. Join(a, Join(b, c)) =
          MakeTags(a.secrecy \cup (b.secrecy \cup c.secrecy),
                   a.integrity \cap (b.integrity \cap c.integrity))
    <3>1. /\ Join(b, c) \in IfcTags
          /\ Join(b, c) = MakeTags(b.secrecy \cup c.secrecy, b.integrity \cap c.integrity)
      BY <1>2, <2>1
    <3>2. /\ Join(b, c).secrecy = b.secrecy \cup c.secrecy
          /\ Join(b, c).integrity = b.integrity \cap c.integrity
      BY <3>1 DEF MakeTags
    <3>3. QED
      BY <1>2, <2>1, <3>1, <3>2
  <2>4. /\ (a.secrecy \cup b.secrecy) \cup c.secrecy = a.secrecy \cup (b.secrecy \cup c.secrecy)
        /\ (a.integrity \cap b.integrity) \cap c.integrity = a.integrity \cap (b.integrity \cap c.integrity)
    OBVIOUS
  <2>5. QED
    BY <2>2, <2>3, <2>4
<1>3. QED
  BY <1>1, <1>2 DEF AbstractState

\* Leq is a partial order and Join its least upper bound.
THEOREM JoinIsLeastUpperBound ==
  ASSUME NEW a \in AbstractState, NEW b \in AbstractState
  PROVE  /\ Leq(a, Join(a, b)) /\ Leq(b, Join(a, b))
         /\ \A c \in AbstractState : Leq(a, c) /\ Leq(b, c) => Leq(Join(a, b), c)
<1>1. Leq(a, Join(a, b))
  <2>1. Join(a, Join(a, b)) = Join(Join(a, a), b)
    BY JoinAssociates
  <2>2. QED
    BY <2>1, JoinUnit DEF Leq
<1>2. Leq(b, Join(a, b))
  <2>1. Join(b, Join(b, a)) = Join(Join(b, b), a)
    BY JoinAssociates
  <2>2. QED
    BY <2>1, JoinUnit, JoinCommutes DEF Leq
<1>3. ASSUME NEW c \in AbstractState, Leq(a, c), Leq(b, c)
      PROVE  Leq(Join(a, b), c)
  BY <1>3, JoinAssociates DEF Leq
<1>4. QED
  BY <1>1, <1>2, <1>3

-----------------------------------------------------------------------------
\* The rules of an output refine its default result.
RefinedByRules(rules, inputs, S, default) ==
  \E g \in [0 .. Len(rules) -> S] :
     /\ g[0] = default
     /\ \A n \in 1 .. Len(rules) : g[n] = InterpretInferenceRule(rules[n], inputs, g[n - 1])
     /\ ApplyOutputRules(rules, inputs, default) = g[Len(rules)]

\* The loop of ApplyOperationTransformer over the rules of an output
\* computes a state rule by rule; if no rule leaves S, the outcome is in S.
LEMMA OutputRulesExist ==
  ASSUME NEW rules, Len(rules) \in Nat, NEW inputs, NEW S, NEW default \in S,
         \A n \in 1 .. Len(rules) : \A a \in S : InterpretInferenceRule(rules[n], inputs, a) \in S
  PROVE  RefinedByRules(rules, inputs, S, default)
<1> DEFINE Interpret(n, a) == InterpretInferenceRule(rules[n], inputs, a)
           len == Len(rules)
           step == [na \in (1 .. len) \X S |-> Interpret(na[1], na[2])]
           Body(g) == [n \in 0 .. len |-> IF n = 0 THEN default ELSE Interpret(n, g[n - 1])]
           refined == CHOOSE g : g = Body(g)
<1>0. len \in Nat
  OBVIOUS
<1>9. \A n \in 1 .. len : \A a \in S : Interpret(n, a) \in S
  OBVIOUS
<1>5. ApplyOutputRules(rules, inputs, default) = refined[len]
  BY DEF ApplyOutputRules
<1> HIDE DEF len, Interpret, Body, refined
<1>1. step \in [(1 .. len) \X S -> S]
  BY <1>9
<1>2. \A n \in 1 .. len, a \in S : step[<<n, a>>] = Interpret(n, a)
  OBVIOUS
<1> HIDE DEF step
<1>3. PICK g \in [0 .. len -> S] : /\ g[0] = default
                                   /\ \A n \in 1 .. len : g[n] = step[<<n, g[n - 1]>>]
  <2>1. RecursionExists(len, S, default, step)
    BY <1>0, <1>1, FiniteRecursion
  <2>2. QED
    BY <2>1 DEF RecursionExists
<1>4. ASSUME NEW n \in 1 .. len PROVE g[n] = Interpret(n, g[n - 1])
  <2>1. n - 1 \in 0 .. len
    BY <1>0
  <2>2. g[n - 1] \in S
    BY <2>1
  <2>3. QED
    BY <1>2, <1>3, <2>2
<1>6. g = Body(g)
  BY <1>0, <1>3, <1>4 DEF Body
<1>7. refined = Body(refined)
  BY <1>6 DEF refined
<1>8. /\ refined[0] = default
      /\ \A n \in 1 .. len : refined[n] = Interpret(n, refined[n - 1])
  BY <1>0, <1>7 DEF Body
<1>10. refined = g
  <2> DEFINE T == {n \in 0 .. len : refined[n] = g[n]}
  <2>1. 0 \in T
    BY <1>0, <1>3, <1>8
  <2>2. ASSUME NEW n \in 1 .. len, n - 1 \in T PROVE n \in T
    BY <1>0, <1>4, <1>8, <2>2
  <2> HIDE DEF T
  <2>3. 0 .. len \subseteq T
    BY <1>0, <2>1, <2>2, FiniteInduction
  <2>4. \A n \in 0 .. len : refined[n] = g[n]
    BY <2>3 DEF T
  <2>5. refined = [n \in 0 .. len |-> refined[n]]
    BY <1>7 DEF Body
  <2>6. QED
    BY <2>4, <2>5
<1>11. ApplyOutputRules(rules, inputs, default) = g[len]
  BY <1>5, <1>10
<1>12. QED
  BY <1>3, <1>4, <1>11 DEF len, Interpret, RefinedByRules

Inputs(n) == [1 .. n -> AbstractState]

LeqInputs(n, x, y) == \A i \in 1 .. n : Leq(x[i], y[i])

\* The order of AbstractIfcTags::Join: more secrecy, less integrity.
LEMMA LeqIsInclusion ==
  ASSUME NEW a \in AbstractState, NEW b \in AbstractState
  PROVE  Leq(a, b) <=> \/ a = Bottom
                       \/ /\ a # Bottom /\ b # Bottom
                          /\ a.secrecy \subseteq b.secrecy /\ b.integrity \subseteq a.integrity
<1>1. CASE a = Bottom
  BY <1>1 DEF Leq, Join, IsBottom
<1>2. CASE a # Bottom /\ b = Bottom
  BY <1>2 DEF Leq, Join, IsBottom
<1>3. CASE a # Bottom /\ b # Bottom
  <2>1. a \in IfcTags /\ b \in IfcTags
    BY <1>3 DEF AbstractState
  <2>2. Join(a, b) = MakeTags(a.secrecy \cup b.secrecy, a.integrity \cap b.integrity)
    BY <1>3 DEF Join, IsBottom
  <2>3. Join(a, b) = b <=> a.secrecy \cup b.secrecy = b.secrecy /\ a.integrity \cap b.integrity = b.integrity
    BY <2>1, <2>2 DEF MakeTags, IfcTags
  <2>4. QED
    BY <1>3, <2>3 DEF Leq
<1>4. QED
  BY <1>1, <1>2, <1>3

\* The two sets of a state that is not bottom.
LEMMA TagsTyped ==
  ASSUME NEW a \in AbstractState, a # Bottom
  PROVE  a \in IfcTags /\ a.secrecy \subseteq Tag /\ a.integrity \subseteq Tag
  BY DEF AbstractState, IfcTags

\* The constructor of AbstractIfcTags never returns bottom.
LEMMA MakeTagsTyped ==
  ASSUME NEW s \in SUBSET Tag, NEW t \in SUBSET Tag
  PROVE  /\ MakeTags(s, t) \in AbstractState /\ MakeTags(s, t) # Bottom
         /\ MakeTags(s, t).secrecy = s /\ MakeTags(s, t).integrity = t
  BY BottomAssumption DEF MakeTags, AbstractState, IfcTags

\* An operation without inputs is a seed.
LEMMA NoInputs ==
  ASSUME NEW n \in Nat, NEW x \in Inputs(n)
  PROVE  x = <<>> <=> n = 0
<1>1. x = <<>> => n = 0
  BY DEF Inputs
<1>2. n = 0 => x = <<>>
  BY DEF Inputs
<1>3. QED
  BY <1>1, <1>2

\* The three outcomes of ApplyDefaultOperationTransformer: the state of a
\* seed, bottom as long as no input was reached, and the secrecy of those
\* that were.
LEMMA DefaultIs ==
  ASSUME NEW n \in Nat, NEW x \in Inputs(n)
  PROVE  /\ n = 0 => ApplyDefaultOperationTransformer(x) = MakeTags({}, {})
         /\ n # 0 /\ (\A i \in 1 .. n : x[i] = Bottom) => ApplyDefaultOperationTransformer(x) = Bottom
         /\ n # 0 /\ (\E i \in 1 .. n : x[i] # Bottom) =>
              ApplyDefaultOperationTransformer(x) =
                MakeTags(UNION {x[i].secrecy : i \in {j \in 1 .. n : x[j] # Bottom}}, {})
<1> DEFINE reached == {a \in ToSet(x) : ~IsBottom(a)}
<1>1. ApplyDefaultOperationTransformer(x) =
        CASE x = <<>> -> MakeTags({}, {})
          [] x # <<>> /\ reached = {} -> Bottom
          [] OTHER -> MakeTags(UNION {a.secrecy : a \in reached}, {})
  BY DEF ApplyDefaultOperationTransformer, GetInitialState
<1>2. reached = {x[i] : i \in {j \in 1 .. n : x[j] # Bottom}}
  BY DEF Inputs, ToSet, IsBottom
<1>3. UNION {a.secrecy : a \in reached} = UNION {x[i].secrecy : i \in {j \in 1 .. n : x[j] # Bottom}}
  BY <1>2
<1> HIDE DEF reached
<1>4. CASE n = 0
  BY <1>1, <1>4, NoInputs
<1>5. CASE n # 0 /\ \A i \in 1 .. n : x[i] = Bottom
  <2>1. x # <<>> /\ reached = {}
    BY <1>2, <1>5, NoInputs
  <2>2. QED
    BY <1>1, <1>5, <2>1
<1>6. CASE n # 0 /\ \E i \in 1 .. n : x[i] # Bottom
  <2>1. x # <<>> /\ reached # {}
    BY <1>2, <1>6, NoInputs
  <2>2. ApplyDefaultOperationTransformer(x) = MakeTags(UNION {a.secrecy : a \in reached}, {})
    BY <1>1, <2>1
  <2>3. QED
    BY <1>3, <1>6, <2>2
<1>7. QED
  BY <1>4, <1>5, <1>6

\* ApplyDefaultOperationTransformer returns a state.
LEMMA DefaultTyped ==
  ASSUME NEW n \in Nat, NEW x \in Inputs(n)
  PROVE  ApplyDefaultOperationTransformer(x) \in AbstractState
<1> DEFINE secrecy == UNION {x[i].secrecy : i \in {j \in 1 .. n : x[j] # Bottom}}
<1>1. secrecy \in SUBSET Tag
  BY TagsTyped DEF Inputs
<1> HIDE DEF secrecy
<1>2. MakeTags(secrecy, {}) \in AbstractState /\ MakeTags({}, {}) \in AbstractState
  BY <1>1, MakeTagsTyped
<1>3. QED
  BY <1>2, DefaultIs DEF secrecy, AbstractState

\* ApplyDefaultOperationTransformer is monotone.
LEMMA DefaultMonotone ==
  ASSUME NEW n \in Nat, NEW x \in Inputs(n), NEW y \in Inputs(n), LeqInputs(n, x, y)
  PROVE  Leq(ApplyDefaultOperationTransformer(x), ApplyDefaultOperationTransformer(y))
<1> DEFINE secrecy(z) == UNION {z[i].secrecy : i \in {j \in 1 .. n : z[j] # Bottom}}
<1>0. ApplyDefaultOperationTransformer(x) \in AbstractState /\ ApplyDefaultOperationTransformer(y) \in AbstractState
  BY DefaultTyped
<1>1. CASE n = 0
  <2>1. ApplyDefaultOperationTransformer(x) = ApplyDefaultOperationTransformer(y)
    BY <1>1, DefaultIs
  <2>2. QED
    BY <1>0, <2>1, JoinUnit DEF Leq
<1>2. CASE n # 0 /\ \A i \in 1 .. n : x[i] = Bottom
  BY <1>0, <1>2, DefaultIs, LeqIsInclusion
<1>3. CASE n # 0 /\ \E i \in 1 .. n : x[i] # Bottom
  <2>0. \A i \in 1 .. n : x[i] \in AbstractState /\ y[i] \in AbstractState
    BY DEF Inputs
  <2>1. ASSUME NEW i \in 1 .. n, x[i] # Bottom
        PROVE  y[i] # Bottom /\ x[i].secrecy \subseteq y[i].secrecy
    BY <2>0, <2>1, LeqIsInclusion DEF LeqInputs
  <2>2. secrecy(x) \subseteq secrecy(y)
    BY <2>1
  <2>3. secrecy(x) \in SUBSET Tag /\ secrecy(y) \in SUBSET Tag
    BY <2>0, TagsTyped
  <2>4. \E i \in 1 .. n : y[i] # Bottom
    BY <1>3, <2>1
  <2>5. /\ ApplyDefaultOperationTransformer(x) = MakeTags(secrecy(x), {})
        /\ ApplyDefaultOperationTransformer(y) = MakeTags(secrecy(y), {})
    BY <1>3, <2>4, DefaultIs
  <2> HIDE DEF secrecy
  <2>6. QED
    BY <1>0, <2>2, <2>3, <2>5, MakeTagsTyped, LeqIsInclusion
<1>4. QED
  BY <1>1, <1>2, <1>3

Outcome == AbstractState \cup {CheckFailure}

\* What the conclusion and the premises of a rule name.
LEMMA RuleFields ==
  ASSUME NEW n \in Nat, NEW r, IsRule(r, n)
  PROVE  /\ \A p \in r.premises : p.index \in 1 .. n /\ p.tag \in Tag
         /\ \/ r.conclusion.type = "CopyInput" /\ r.conclusion.index \in 1 .. n
            \/ /\ r.conclusion.type = "ModifyTag" /\ r.conclusion.tag \in Tag
               /\ r.conclusion.kind \in {"kAddIntegrity", "kRemoveSecrecy", "kAddSecrecy"}
            \/ r.conclusion.type = "MergeIntegrityTags"
  BY DEF IsRule, IsConclusion, InferenceRule, InputHasIntegrity, CopyInput, ModifyTag, MergeIntegrityTags

\* InterpretInferenceRule returns early on a premise that does not hold, and
\* else does what the conclusion says.
LEMMA InterpretIs ==
  ASSUME NEW r, NEW x, NEW a
  PROVE  /\ a = CheckFailure \/ ~PremisesHold(r, x) => InterpretInferenceRule(r, x, a) = a
         /\ ~(a = CheckFailure \/ ~PremisesHold(r, x)) =>
              /\ r.conclusion.type = "CopyInput" =>
                   InterpretInferenceRule(r, x, a) = x[r.conclusion.index]
              /\ r.conclusion.type = "ModifyTag" =>
                   InterpretInferenceRule(r, x, a) = InterpretModifyTag(r.conclusion, a)
              /\ r.conclusion.type = "MergeIntegrityTags" =>
                   InterpretInferenceRule(r, x, a) = InterpretMergeIntegrityTags(r.conclusion, x, a)
  BY DEF InterpretInferenceRule

\* A modification keeps bottom and changes one of the two sets.
LEMMA ModifyTyped ==
  ASSUME NEW a \in AbstractState, NEW c, c.tag \in Tag,
         c.kind \in {"kAddIntegrity", "kRemoveSecrecy", "kAddSecrecy"}
  PROVE  /\ InterpretModifyTag(c, a) \in AbstractState
         /\ InterpretModifyTag(c, a) = Bottom <=> a = Bottom
         /\ a # Bottom =>
              /\ c.kind = "kAddIntegrity" =>
                   /\ InterpretModifyTag(c, a).secrecy = a.secrecy
                   /\ InterpretModifyTag(c, a).integrity = a.integrity \cup {c.tag}
              /\ c.kind = "kRemoveSecrecy" =>
                   /\ InterpretModifyTag(c, a).secrecy = a.secrecy \ {c.tag}
                   /\ InterpretModifyTag(c, a).integrity = a.integrity
              /\ c.kind = "kAddSecrecy" =>
                   /\ InterpretModifyTag(c, a).secrecy = a.secrecy \cup {c.tag}
                   /\ InterpretModifyTag(c, a).integrity = a.integrity
<1>1. CASE a = Bottom
  BY <1>1 DEF InterpretModifyTag, SetIntegrity, SetSecrecy, ClearSecrecy, IsBottom
<1>2. CASE a # Bottom
  <2>1. a \in IfcTags
    BY <1>2 DEF AbstractState
  <2>2. a = MakeTags(a.secrecy, a.integrity)
    BY <2>1 DEF IfcTags, MakeTags
  <2>3. InterpretModifyTag(c, a) =
          IF c.kind = "kAddIntegrity" THEN MakeTags(a.secrecy, a.integrity \cup {c.tag})
          ELSE IF c.kind = "kRemoveSecrecy" THEN MakeTags(a.secrecy \ {c.tag}, a.integrity)
          ELSE MakeTags(a.secrecy \cup {c.tag}, a.integrity)
    BY <1>2, <2>1 DEF InterpretModifyTag, SetIntegrity, SetSecrecy, ClearSecrecy, IsBottom, IfcTags, MakeTags
  <2>4. a.secrecy \in SUBSET Tag /\ a.integrity \in SUBSET Tag
    BY <2>1 DEF IfcTags
  <2>5. /\ a.integrity \cup {c.tag} \in SUBSET Tag
        /\ a.secrecy \cup {c.tag} \in SUBSET Tag
        /\ a.secrecy \ {c.tag} \in SUBSET Tag
    BY <2>4
  <2>6. CASE c.kind = "kAddIntegrity"
    BY <1>2, <2>3, <2>4, <2>5, <2>6, MakeTagsTyped
  <2>7. CASE c.kind = "kRemoveSecrecy"
    BY <1>2, <2>3, <2>4, <2>5, <2>7, MakeTagsTyped
  <2>8. CASE c.kind = "kAddSecrecy"
    BY <1>2, <2>3, <2>4, <2>5, <2>8, MakeTagsTyped
  <2>9. QED
    BY <2>6, <2>7, <2>8
<1>3. QED
  BY <1>1, <1>2

MergedIntegrity(c, x) ==
  LET integrities == {x[i].integrity : i \in c.indices}
  IN IF c.kind = "kUnion" THEN UNION integrities
     ELSE {t \in UNION integrities : \A I \in integrities : t \in I}

\* InterpretMergeIntegrityTags waits for every input, and then for indices
\* the operation has.
LEMMA MergeIs ==
  ASSUME NEW n \in Nat, NEW x \in Inputs(n), NEW a \in AbstractState, NEW c
  PROVE  /\ a = Bottom \/ (\E i \in 1 .. n : x[i] = Bottom) =>
              InterpretMergeIntegrityTags(c, x, a) = Bottom
         /\ a # Bottom /\ (\A i \in 1 .. n : x[i] # Bottom) =>
              /\ ~(c.indices \subseteq 1 .. n) =>
                   InterpretMergeIntegrityTags(c, x, a) = CheckFailure
              /\ c.indices \subseteq 1 .. n =>
                   /\ InterpretMergeIntegrityTags(c, x, a) = MakeTags(a.secrecy, MergedIntegrity(c, x))
                   /\ MergedIntegrity(c, x) \in SUBSET Tag
                   /\ a.secrecy \in SUBSET Tag
<1>1. DOMAIN x = 1 .. n /\ \A i \in 1 .. n : x[i] \in AbstractState
  BY DEF Inputs
<1>2. Bottom \in ToSet(x) <=> \E i \in 1 .. n : x[i] = Bottom
  BY <1>1 DEF ToSet
<1>3. InterpretMergeIntegrityTags(c, x, a) =
        CASE a = Bottom \/ Bottom \in ToSet(x) -> Bottom
          [] a # Bottom /\ Bottom \notin ToSet(x) /\ ~(c.indices \subseteq DOMAIN x) -> CheckFailure
          [] OTHER -> MakeTags(a.secrecy, MergedIntegrity(c, x))
  BY DEF InterpretMergeIntegrityTags, MergedIntegrity, IsBottom
<1>4. ASSUME a # Bottom, \A i \in 1 .. n : x[i] # Bottom, c.indices \subseteq 1 .. n
      PROVE  MergedIntegrity(c, x) \in SUBSET Tag /\ a.secrecy \in SUBSET Tag
  <2>1. \A i \in c.indices : x[i].integrity \in SUBSET Tag
    BY <1>1, <1>4, TagsTyped
  <2>2. a.secrecy \in SUBSET Tag
    BY <1>4, TagsTyped
  <2>3. UNION {x[i].integrity : i \in c.indices} \subseteq Tag
    BY <2>1
  <2>4. QED
    BY <2>2, <2>3 DEF MergedIntegrity
<1>5. QED
  BY <1>1, <1>2, <1>3, <1>4

\* InterpretInferenceRule returns a state or fails a CHECK.
LEMMA RuleTyped ==
  ASSUME NEW n \in Nat, NEW r, IsRule(r, n), NEW x \in Inputs(n), NEW a \in Outcome
  PROVE  InterpretInferenceRule(r, x, a) \in Outcome
<1>1. CASE a = CheckFailure \/ ~PremisesHold(r, x)
  BY <1>1, InterpretIs
<1>2. CASE ~(a = CheckFailure \/ ~PremisesHold(r, x))
  <2>0. a \in AbstractState
    BY <1>2 DEF Outcome
  <2>1. CASE r.conclusion.type = "CopyInput"
    BY <1>2, <2>1, InterpretIs, RuleFields DEF Inputs, Outcome
  <2>2. CASE r.conclusion.type = "ModifyTag"
    BY <1>2, <2>0, <2>2, InterpretIs, RuleFields, ModifyTyped DEF Outcome
  <2>3. CASE r.conclusion.type = "MergeIntegrityTags"
    <3>1. InterpretInferenceRule(r, x, a) = InterpretMergeIntegrityTags(r.conclusion, x, a)
      BY <1>2, <2>3, InterpretIs
    <3>2. Bottom \in AbstractState
      BY DEF AbstractState
    <3>3. QED
      BY <2>0, <3>1, <3>2, MergeIs, MakeTagsTyped DEF Outcome
  <2>4. QED
    BY <2>1, <2>2, <2>3, RuleFields
<1>3. QED
  BY <1>1, <1>2

\* InterpretInferenceRule keeps bottom while all inputs are bottom.
LEMMA RuleStrict ==
  ASSUME NEW n \in Nat \ {0}, NEW r, IsRule(r, n), NEW x \in Inputs(n),
         \A i \in 1 .. n : x[i] = Bottom
  PROVE  InterpretInferenceRule(r, x, Bottom) = Bottom
<1>0. Bottom \in AbstractState /\ Bottom # CheckFailure
  BY CheckFailureAssumption DEF AbstractState
<1>1. CASE ~PremisesHold(r, x)
  BY <1>1, InterpretIs
<1>2. CASE PremisesHold(r, x)
  <2>1. CASE r.conclusion.type = "CopyInput"
    BY <1>0, <1>2, <2>1, InterpretIs, RuleFields
  <2>2. CASE r.conclusion.type = "ModifyTag"
    BY <1>0, <1>2, <2>2, InterpretIs, RuleFields, ModifyTyped
  <2>3. CASE r.conclusion.type = "MergeIntegrityTags"
    BY <1>0, <1>2, <2>3, InterpretIs, MergeIs
  <2>4. QED
    BY <2>1, <2>2, <2>3, RuleFields
<1>3. QED
  BY <1>1, <1>2

\* A premise that holds of larger inputs held of the smaller ones: larger
\* states have less integrity, and a bottom input satisfies it.
LEMMA PremisesAntitone ==
  ASSUME NEW n \in Nat, NEW r, IsRule(r, n), NEW x \in Inputs(n), NEW y \in Inputs(n),
         LeqInputs(n, x, y), PremisesHold(r, y)
  PROVE  PremisesHold(r, x)
<1>1. ASSUME NEW p \in r.premises PROVE IsBottom(x[p.index]) \/ HasIntegrity(x[p.index], p.tag)
  <2>1. /\ x[p.index] \in AbstractState /\ y[p.index] \in AbstractState
        /\ Leq(x[p.index], y[p.index])
    BY RuleFields DEF Inputs, LeqInputs
  <2>2. y[p.index] = Bottom \/ p.tag \in y[p.index].integrity
    BY DEF PremisesHold, IsBottom, HasIntegrity
  <2>3. QED
    BY <2>1, <2>2, LeqIsInclusion DEF IsBottom, HasIntegrity
<1>2. QED
  BY <1>1 DEF PremisesHold

\* InterpretMergeIntegrityTags is monotone, and fails on smaller inputs only
\* if it fails on larger ones.
LEMMA MergeMonotone ==
  ASSUME NEW n \in Nat, NEW x \in Inputs(n), NEW y \in Inputs(n), LeqInputs(n, x, y),
         NEW a \in AbstractState, NEW b \in AbstractState, Leq(a, b), NEW c,
         InterpretMergeIntegrityTags(c, y, b) # CheckFailure
  PROVE  /\ InterpretMergeIntegrityTags(c, x, a) # CheckFailure
         /\ Leq(InterpretMergeIntegrityTags(c, x, a), InterpretMergeIntegrityTags(c, y, b))
<1>0. /\ \A i \in 1 .. n : x[i] \in AbstractState /\ y[i] \in AbstractState
      /\ Bottom \in AbstractState /\ CheckFailure \notin AbstractState
  BY CheckFailureAssumption DEF Inputs, AbstractState
<1>1. CASE a = Bottom \/ \E i \in 1 .. n : x[i] = Bottom
  <2>1. InterpretMergeIntegrityTags(c, x, a) = Bottom
    BY <1>1, MergeIs
  <2>2. InterpretMergeIntegrityTags(c, y, b) \in AbstractState
    BY <1>0, MergeIs, MakeTagsTyped
  <2>3. QED
    BY <1>0, <2>1, <2>2, LeqIsInclusion
<1>2. CASE a # Bottom /\ \A i \in 1 .. n : x[i] # Bottom
  <2>1. \A i \in 1 .. n : y[i] # Bottom /\ y[i].integrity \subseteq x[i].integrity
    BY <1>0, <1>2, LeqIsInclusion DEF LeqInputs
  <2>2. b # Bottom /\ a.secrecy \subseteq b.secrecy
    BY <1>2, LeqIsInclusion
  <2>3. c.indices \subseteq 1 .. n
    BY <2>1, <2>2, MergeIs
  <2>4. /\ InterpretMergeIntegrityTags(c, x, a) = MakeTags(a.secrecy, MergedIntegrity(c, x))
        /\ InterpretMergeIntegrityTags(c, y, b) = MakeTags(b.secrecy, MergedIntegrity(c, y))
        /\ MergedIntegrity(c, x) \in SUBSET Tag /\ a.secrecy \in SUBSET Tag
        /\ MergedIntegrity(c, y) \in SUBSET Tag /\ b.secrecy \in SUBSET Tag
    BY <1>2, <2>1, <2>2, <2>3, MergeIs
  <2>5. MergedIntegrity(c, y) \subseteq MergedIntegrity(c, x)
    <3>1. \A i \in c.indices : y[i].integrity \subseteq x[i].integrity
      BY <2>1, <2>3
    <3>2. CASE c.kind = "kUnion"
      BY <3>1, <3>2 DEF MergedIntegrity
    <3>3. CASE c.kind # "kUnion"
      <4>1. ASSUME NEW t \in MergedIntegrity(c, y) PROVE t \in MergedIntegrity(c, x)
        <5>1. PICK i \in c.indices : t \in y[i].integrity
          BY <3>3 DEF MergedIntegrity
        <5>2. \A j \in c.indices : t \in y[j].integrity
          BY <3>3 DEF MergedIntegrity
        <5>3. \A j \in c.indices : t \in x[j].integrity
          BY <3>1, <5>2
        <5>4. QED
          BY <3>3, <5>1, <5>3 DEF MergedIntegrity
      <4>2. QED
        BY <4>1
    <3>4. QED
      BY <3>2, <3>3
  <2>6. QED
    BY <1>0, <2>2, <2>4, <2>5, MakeTagsTyped, LeqIsInclusion
<1>3. QED
  BY <1>1, <1>2

\* A modification is monotone, and two of the three kinds lower the state.
LEMMA ModifyMonotone ==
  ASSUME NEW a \in AbstractState, NEW b \in AbstractState, Leq(a, b),
         NEW c, c.tag \in Tag, c.kind \in {"kAddIntegrity", "kRemoveSecrecy", "kAddSecrecy"}
  PROVE  /\ Leq(InterpretModifyTag(c, a), InterpretModifyTag(c, b))
         /\ c.kind \in {"kAddIntegrity", "kRemoveSecrecy"} => Leq(InterpretModifyTag(c, a), b)
<1>1. CASE a = Bottom
  BY <1>1, ModifyTyped, LeqIsInclusion
<1>2. CASE a # Bottom
  <2> DEFINE p == InterpretModifyTag(c, a)
             q == InterpretModifyTag(c, b)
  <2>1. b # Bottom /\ a.secrecy \subseteq b.secrecy /\ b.integrity \subseteq a.integrity
    BY <1>2, LeqIsInclusion
  <2>2. p \in AbstractState /\ q \in AbstractState /\ p # Bottom /\ q # Bottom
    BY <1>2, <2>1, ModifyTyped
  <2>3. /\ c.kind = "kAddIntegrity" =>
             /\ p.secrecy = a.secrecy /\ p.integrity = a.integrity \cup {c.tag}
             /\ q.secrecy = b.secrecy /\ q.integrity = b.integrity \cup {c.tag}
        /\ c.kind = "kRemoveSecrecy" =>
             /\ p.secrecy = a.secrecy \ {c.tag} /\ p.integrity = a.integrity
             /\ q.secrecy = b.secrecy \ {c.tag} /\ q.integrity = b.integrity
        /\ c.kind = "kAddSecrecy" =>
             /\ p.secrecy = a.secrecy \cup {c.tag} /\ p.integrity = a.integrity
             /\ q.secrecy = b.secrecy \cup {c.tag} /\ q.integrity = b.integrity
    BY <1>2, <2>1, ModifyTyped
  <2> HIDE DEF p, q
  <2>4. p.secrecy \subseteq q.secrecy /\ q.integrity \subseteq p.integrity
    BY <2>1, <2>3
  <2>5. c.kind \in {"kAddIntegrity", "kRemoveSecrecy"} =>
          p.secrecy \subseteq b.secrecy /\ b.integrity \subseteq p.integrity
    BY <2>1, <2>3
  <2>6. Leq(p, q) /\ (c.kind \in {"kAddIntegrity", "kRemoveSecrecy"} => Leq(p, b))
    BY <2>1, <2>2, <2>4, <2>5, LeqIsInclusion
  <2>7. QED
    BY <2>6 DEF p, q
<1>3. QED
  BY <1>1, <1>2

\* InterpretInferenceRule is monotone for a rule that has no premises or
\* only lowers: a premise lost on larger inputs then loses nothing.
LEMMA RuleMonotone ==
  ASSUME NEW n \in Nat, NEW r, IsRule(r, n), IsMonotoneRule(r),
         NEW x \in Inputs(n), NEW y \in Inputs(n), LeqInputs(n, x, y),
         NEW a \in Outcome, NEW b \in Outcome, b # CheckFailure => a # CheckFailure /\ Leq(a, b),
         InterpretInferenceRule(r, y, b) # CheckFailure
  PROVE  /\ InterpretInferenceRule(r, x, a) # CheckFailure
         /\ Leq(InterpretInferenceRule(r, x, a), InterpretInferenceRule(r, y, b))
<1>0. a \in AbstractState /\ b \in AbstractState /\ a # CheckFailure /\ b # CheckFailure /\ Leq(a, b)
  BY InterpretIs DEF Outcome
<1>00. CheckFailure \notin AbstractState
  BY CheckFailureAssumption
<1>1. CASE ~PremisesHold(r, x)
  <2>1. ~PremisesHold(r, y)
    BY <1>1, PremisesAntitone
  <2>2. QED
    BY <1>0, <1>1, <2>1, InterpretIs
<1>2. CASE PremisesHold(r, x) /\ ~PremisesHold(r, y)
  <2>1. r.premises # {}
    BY <1>2 DEF PremisesHold
  <2>2. OnlyLowers(r.conclusion)
    BY <2>1 DEF IsMonotoneRule
  <2>3. /\ InterpretInferenceRule(r, x, a) = InterpretModifyTag(r.conclusion, a)
        /\ InterpretInferenceRule(r, y, b) = b
    BY <1>0, <1>2, <2>2, InterpretIs DEF OnlyLowers
  <2>4. QED
    BY <1>0, <1>00, <2>2, <2>3, RuleFields, ModifyTyped, ModifyMonotone DEF OnlyLowers
<1>3. CASE PremisesHold(r, x) /\ PremisesHold(r, y)
  <2>1. CASE r.conclusion.type = "CopyInput"
    <3>1. /\ InterpretInferenceRule(r, x, a) = x[r.conclusion.index]
          /\ InterpretInferenceRule(r, y, b) = y[r.conclusion.index]
      BY <1>0, <1>3, <2>1, InterpretIs
    <3>2. r.conclusion.index \in 1 .. n
      BY <2>1, RuleFields
    <3>3. QED
      BY <1>00, <3>1, <3>2 DEF Inputs, LeqInputs
  <2>2. CASE r.conclusion.type = "ModifyTag"
    <3>1. /\ InterpretInferenceRule(r, x, a) = InterpretModifyTag(r.conclusion, a)
          /\ InterpretInferenceRule(r, y, b) = InterpretModifyTag(r.conclusion, b)
      BY <1>0, <1>3, <2>2, InterpretIs
    <3>2. QED
      BY <1>0, <1>00, <2>2, <3>1, RuleFields, ModifyTyped, ModifyMonotone
  <2>3. CASE r.conclusion.type = "MergeIntegrityTags"
    <3>1. /\ InterpretInferenceRule(r, x, a) = InterpretMergeIntegrityTags(r.conclusion, x, a)
          /\ InterpretInferenceRule(r, y, b) = InterpretMergeIntegrityTags(r.conclusion, y, b)
      BY <1>0, <1>3, <2>3, InterpretIs
    <3>2. QED
      BY <1>0, <3>1, MergeMonotone
  <2>4. QED
    BY <2>1, <2>2, <2>3, RuleFields
<1>4. QED
  BY <1>1, <1>2, <1>3

\* The rules of an output make a state or fail a CHECK.
LEMMA OutputTyped ==
  ASSUME NEW n \in Nat, NEW rules, AreRules(rules, n), NEW x \in Inputs(n), NEW a \in AbstractState
  PROVE  ApplyOutputRules(rules, x, a) \in Outcome
<1>1. \A k \in 1 .. Len(rules) : \A b \in Outcome : InterpretInferenceRule(rules[k], x, b) \in Outcome
  BY RuleTyped DEF AreRules
<1>2. Len(rules) \in Nat /\ a \in Outcome
  BY DEF AreRules, Outcome
<1>3. PICK g \in [0 .. Len(rules) -> Outcome] : ApplyOutputRules(rules, x, a) = g[Len(rules)]
  <2>1. RefinedByRules(rules, x, Outcome, a)
    BY <1>1, <1>2, OutputRulesExist
  <2>2. QED
    BY <2>1 DEF RefinedByRules
<1>4. QED
  BY <1>2, <1>3

\* They keep bottom while all inputs are bottom.
LEMMA OutputStrict ==
  ASSUME NEW n \in Nat \ {0}, NEW rules, AreRules(rules, n), NEW x \in Inputs(n),
         \A i \in 1 .. n : x[i] = Bottom
  PROVE  ApplyOutputRules(rules, x, Bottom) = Bottom
<1>1. \A k \in 1 .. Len(rules) : \A b \in {Bottom} : InterpretInferenceRule(rules[k], x, b) \in {Bottom}
  BY RuleStrict DEF AreRules
<1>2. Len(rules) \in Nat /\ Bottom \in {Bottom}
  BY DEF AreRules
<1>3. PICK g \in [0 .. Len(rules) -> {Bottom}] : ApplyOutputRules(rules, x, Bottom) = g[Len(rules)]
  <2>1. RefinedByRules(rules, x, {Bottom}, Bottom)
    BY <1>1, <1>2, OutputRulesExist
  <2>2. QED
    BY <2>1 DEF RefinedByRules
<1>4. QED
  BY <1>2, <1>3

\* They are monotone if each of them is.
LEMMA OutputMonotone ==
  ASSUME NEW n \in Nat, NEW rules, AreRules(rules, n),
         \A k \in 1 .. Len(rules) : IsMonotoneRule(rules[k]),
         NEW x \in Inputs(n), NEW y \in Inputs(n), LeqInputs(n, x, y),
         NEW a \in AbstractState, NEW b \in AbstractState, Leq(a, b),
         ApplyOutputRules(rules, y, b) # CheckFailure
  PROVE  /\ ApplyOutputRules(rules, x, a) # CheckFailure
         /\ Leq(ApplyOutputRules(rules, x, a), ApplyOutputRules(rules, y, b))
<1> DEFINE len == Len(rules)
<1>1. /\ len \in Nat /\ a \in Outcome /\ b \in Outcome
      /\ a # CheckFailure /\ b # CheckFailure
  BY CheckFailureAssumption DEF AreRules, Outcome
<1>2. \A k \in 1 .. len : \A c \in Outcome : /\ InterpretInferenceRule(rules[k], x, c) \in Outcome
                                             /\ InterpretInferenceRule(rules[k], y, c) \in Outcome
  BY RuleTyped DEF AreRules
<1>3. PICK g \in [0 .. len -> Outcome] :
        /\ g[0] = a
        /\ \A k \in 1 .. len : g[k] = InterpretInferenceRule(rules[k], x, g[k - 1])
        /\ ApplyOutputRules(rules, x, a) = g[len]
  <2>1. RefinedByRules(rules, x, Outcome, a)
    BY <1>1, <1>2, OutputRulesExist
  <2>2. QED
    BY <2>1 DEF RefinedByRules
<1>4. PICK h \in [0 .. len -> Outcome] :
        /\ h[0] = b
        /\ \A k \in 1 .. len : h[k] = InterpretInferenceRule(rules[k], y, h[k - 1])
        /\ ApplyOutputRules(rules, y, b) = h[len]
  <2>1. RefinedByRules(rules, y, Outcome, b)
    BY <1>1, <1>2, OutputRulesExist
  <2>2. QED
    BY <2>1 DEF RefinedByRules
<1> DEFINE T == {k \in 0 .. len : h[k] # CheckFailure => g[k] # CheckFailure /\ Leq(g[k], h[k])}
<1>5. 0 \in T
  BY <1>1, <1>3, <1>4
<1>6. ASSUME NEW k \in 1 .. len, k - 1 \in T PROVE k \in T
  <2>1. k - 1 \in 0 .. len /\ k \in 0 .. len
    BY <1>1
  <2>2. g[k - 1] \in Outcome /\ h[k - 1] \in Outcome
    BY <2>1
  <2>3. IsRule(rules[k], n) /\ IsMonotoneRule(rules[k])
    BY DEF AreRules
  <2>4. h[k - 1] # CheckFailure => g[k - 1] # CheckFailure /\ Leq(g[k - 1], h[k - 1])
    BY <1>6
  <2>5. h[k] # CheckFailure => g[k] # CheckFailure /\ Leq(g[k], h[k])
    BY <1>3, <1>4, <2>2, <2>3, <2>4, RuleMonotone
  <2>6. QED
    BY <2>1, <2>5
<1> HIDE DEF T
<1>7. 0 .. len \subseteq T
  BY <1>1, <1>5, <1>6, FiniteInduction
<1>8. len \in T
  BY <1>1, <1>7
<1>9. QED
  BY <1>3, <1>4, <1>8 DEF T

-----------------------------------------------------------------------------
\* The rules of the outputs of an operation with n inputs.
OperationRules(rules, outputs, n) ==
  DOMAIN rules \subseteq 1 .. outputs /\ \A i \in DOMAIN rules : AreRules(rules[i], n)

OutputState(rules, i, x) ==
  IF i \in DOMAIN rules
  THEN ApplyOutputRules(rules[i], x, ApplyDefaultOperationTransformer(x))
  ELSE ApplyDefaultOperationTransformer(x)

\* ApplyOperationTransformer computes the outputs one by one and fails if
\* one of them fails.
LEMMA TransformerIs ==
  ASSUME NEW n \in Nat, NEW outputs \in Nat, NEW rules, OperationRules(rules, outputs, n),
         NEW x \in Inputs(n)
  PROVE  LET out == ApplyOperationTransformer(rules, outputs, x)
         IN  /\ out = CheckFailure <=> \E i \in 1 .. outputs : OutputState(rules, i, x) = CheckFailure
             /\ out # CheckFailure => /\ out = [i \in 1 .. outputs |-> OutputState(rules, i, x)]
                                      /\ \A i \in 1 .. outputs : out[i] \in AbstractState
             /\ \A i \in 1 .. outputs : OutputState(rules, i, x) \in Outcome
<1> DEFINE results == [i \in 1 .. outputs |-> OutputState(rules, i, x)]
           out == ApplyOperationTransformer(rules, outputs, x)
<1>1. out = IF \A i \in 1 .. outputs : OutputState(rules, i, x) # CheckFailure
            THEN results ELSE CheckFailure
  BY DEF ApplyOperationTransformer, OutputState, OperationRules
<1>2. \A i \in 1 .. outputs : OutputState(rules, i, x) \in Outcome
  BY DefaultTyped, OutputTyped DEF OutputState, OperationRules, Outcome
<1>3. ASSUME \A i \in 1 .. outputs : OutputState(rules, i, x) # CheckFailure
      PROVE  /\ results # CheckFailure
             /\ \A i \in 1 .. outputs : results[i] \in AbstractState
  <2>1. \A i \in 1 .. outputs : OutputState(rules, i, x) \in AbstractState
    BY <1>2, <1>3 DEF Outcome
  <2>2. results \in Seq(AbstractState)
    BY <2>1, IsASeq
  <2>3. QED
    BY <2>1, <2>2, CheckFailureAssumption
<1>4. QED
  BY <1>1, <1>2, <1>3

\* An operation with inputs none of which was reached computes bottom for
\* every output, and fails no CHECK.
LEMMA TransformerKeepsBottom ==
  ASSUME NEW n \in Nat \ {0}, NEW outputs \in Nat, NEW rules, OperationRules(rules, outputs, n),
         NEW x \in Inputs(n), \A i \in 1 .. n : x[i] = Bottom
  PROVE  /\ ApplyOperationTransformer(rules, outputs, x) # CheckFailure
         /\ \A i \in 1 .. outputs : ApplyOperationTransformer(rules, outputs, x)[i] = Bottom
<1>1. ApplyDefaultOperationTransformer(x) = Bottom
  BY DefaultIs
<1>2. \A i \in 1 .. outputs : OutputState(rules, i, x) = Bottom
  BY <1>1, OutputStrict DEF OutputState, OperationRules
<1>3. Bottom # CheckFailure
  BY CheckFailureAssumption DEF AbstractState
<1>4. QED
  BY <1>2, <1>3, TransformerIs

\* ApplyOperationTransformer is monotone if every rule is.
LEMMA TransformerIsMonotone ==
  ASSUME NEW n \in Nat, NEW outputs \in Nat, NEW rules, OperationRules(rules, outputs, n),
         \A i \in DOMAIN rules : \A k \in 1 .. Len(rules[i]) : IsMonotoneRule(rules[i][k]),
         NEW x \in Inputs(n), NEW y \in Inputs(n), LeqInputs(n, x, y),
         ApplyOperationTransformer(rules, outputs, y) # CheckFailure
  PROVE  /\ ApplyOperationTransformer(rules, outputs, x) # CheckFailure
         /\ \A i \in 1 .. outputs : Leq(ApplyOperationTransformer(rules, outputs, x)[i],
                                        ApplyOperationTransformer(rules, outputs, y)[i])
<1>1. ASSUME NEW i \in 1 .. outputs
      PROVE  /\ OutputState(rules, i, x) # CheckFailure
             /\ Leq(OutputState(rules, i, x), OutputState(rules, i, y))
  <2>1. OutputState(rules, i, y) # CheckFailure
    BY TransformerIs
  <2>2. /\ ApplyDefaultOperationTransformer(x) \in AbstractState
        /\ ApplyDefaultOperationTransformer(y) \in AbstractState
        /\ Leq(ApplyDefaultOperationTransformer(x), ApplyDefaultOperationTransformer(y))
        /\ CheckFailure \notin AbstractState
    BY DefaultTyped, DefaultMonotone, CheckFailureAssumption
  <2>3. CASE i \in DOMAIN rules
    BY <2>1, <2>2, <2>3, OutputMonotone DEF OutputState, OperationRules
  <2>4. CASE i \notin DOMAIN rules
    BY <2>2, <2>4 DEF OutputState
  <2>5. QED
    BY <2>3, <2>4
<1>2. ApplyOperationTransformer(rules, outputs, x) # CheckFailure
  BY <1>1, TransformerIs
<1>3. \A i \in 1 .. outputs :
        /\ ApplyOperationTransformer(rules, outputs, x)[i] = OutputState(rules, i, x)
        /\ ApplyOperationTransformer(rules, outputs, y)[i] = OutputState(rules, i, y)
  BY <1>2, TransformerIs
<1>4. QED
  BY <1>1, <1>2, <1>3

-----------------------------------------------------------------------------
(* The loop with this semantics. *)

Loop == INSTANCE ModuleFixpoint_proofs WITH
  InitialState <- GetInitialState, JoinOp <- Join, Transformer <- TransformerOf

\* The inputs, outputs and rules of an operation of a module.
LEMMA OperationTyped ==
  ASSUME NEW m \in Modules, NEW op \in m.ops
  PROVE  /\ Len(m.inputs[op]) \in Nat /\ m.outputs[op] \in Nat
         /\ DOMAIN m.inputs[op] = 1 .. Len(m.inputs[op])
         /\ m.inputs[op] = <<>> <=> Len(m.inputs[op]) = 0
         /\ InputAssignments(m, op) = Inputs(Len(m.inputs[op]))
         /\ OperationRules(m.rules[op], m.outputs[op], Len(m.inputs[op]))
<1>1. IsModule(m) /\ DOMAIN m.rules = m.ops /\ RulesInBounds(m)
  BY GraphAssumption, RulesAssumption
<1>2. m.inputs[op] \in Seq(Value) /\ m.outputs[op] \in Nat
  BY <1>1 DEF IsModule
<1>3. /\ Len(m.inputs[op]) \in Nat /\ DOMAIN m.inputs[op] = 1 .. Len(m.inputs[op])
      /\ m.inputs[op] = <<>> <=> Len(m.inputs[op]) = 0
  BY <1>2
<1>4. OperationRules(m.rules[op], m.outputs[op], Len(m.inputs[op]))
  BY <1>1 DEF RulesInBounds, OperationRules
<1>5. QED
  BY <1>2, <1>3, <1>4 DEF InputAssignments, Inputs

\* ApplyOperationTransformer, Join and GetInitialState return states.
LEMMA TagsTypedForLoop == SemanticsTyped(Modules)
<1>1. Bottom \in AbstractState
  BY DEF AbstractState
<1>2. \A v \in EntryValue : GetInitialState(v) \in AbstractState
  BY MakeTagsTyped DEF GetInitialState
<1>3. \A a, b \in AbstractState : Join(a, b) \in AbstractState
  BY JoinTyped
<1>4. ASSUME NEW m \in Modules, NEW op \in m.ops, NEW in \in InputAssignments(m, op),
             TransformerOf(m, op, in) # CheckFailure, NEW i \in 1 .. m.outputs[op]
      PROVE  TransformerOf(m, op, in)[i] \in AbstractState
  BY <1>4, OperationTyped, TransformerIs DEF TransformerOf
<1>5. QED
  BY <1>1, <1>2, <1>3, <1>4 DEF SemanticsTyped

\* AbstractIfcTags::Join is commutative, associative and idempotent, with
\* bottom as its unit.
LEMMA TagsFormSemilattice == JoinIsSemilattice(AbstractState)
  BY JoinUnit, JoinCommutes, JoinAssociates DEF JoinIsSemilattice

\* ApplyOperationTransformer keeps bottom on every operation with inputs.
LEMMA TransformersKeepBottom == TransformerStrict(Modules)
<1>1. ASSUME NEW m \in Modules, NEW op \in m.ops, NEW in \in InputAssignments(m, op),
             m.inputs[op] # <<>>, \A i \in DOMAIN m.inputs[op] : in[i] = Bottom
      PROVE  /\ TransformerOf(m, op, in) # CheckFailure
             /\ \A i \in 1 .. m.outputs[op] : TransformerOf(m, op, in)[i] = Bottom
  BY <1>1, OperationTyped, TransformerKeepsBottom DEF TransformerOf
<1>2. QED
  BY <1>1 DEF TransformerStrict

\* It is monotone on the operations of a module with monotone rules.
LEMMA TransformersMonotone ==
  ASSUME NEW m \in Modules, MonotoneRules(m)
  PROVE  TransformerMonotone({m})
<1>1. ASSUME NEW op \in m.ops, NEW x \in InputAssignments(m, op), NEW y \in InputAssignments(m, op),
             \A i \in DOMAIN m.inputs[op] : LeqOp(x[i], y[i]), TransformerOf(m, op, y) # CheckFailure
      PROVE  /\ TransformerOf(m, op, x) # CheckFailure
             /\ \A i \in 1 .. m.outputs[op] :
                  LeqOp(TransformerOf(m, op, x)[i], TransformerOf(m, op, y)[i])
  <2>1. LeqInputs(Len(m.inputs[op]), x, y)
    BY <1>1, OperationTyped DEF LeqInputs, LeqOp, Leq
  <2>2. \A i \in DOMAIN m.rules[op] : \A k \in 1 .. Len(m.rules[op][i]) : IsMonotoneRule(m.rules[op][i][k])
    BY DEF MonotoneRules
  <2>3. QED
    BY <1>1, <2>1, <2>2, OperationTyped, TransformerIsMonotone DEF TransformerOf, LeqOp, Leq
<1>2. QED
  BY <1>1 DEF TransformerMonotone

-----------------------------------------------------------------------------
\* The proofs about the loop are about this loop.
LEMMA LoopIsTheSame ==
  /\ Init <=> Loop!Init
  /\ Next <=> Loop!Next
  /\ vars = Loop!vars
<1>1. Init <=> Loop!Init
  BY DEF Init, Loop!Init, ValueNodes, Loop!ValueNodes, InputValues, Loop!InputValues, Results, Loop!Results
<1>2. Next <=> Loop!Next
  BY DEF Next, Loop!Next, Visit, Loop!Visit, VisitDies, Loop!VisitDies, Return, Loop!Return,
    OutputStates, Loop!OutputStates, InputStates, Loop!InputStates, CurrentState, Loop!CurrentState,
    FirstVisit, Loop!FirstVisit, Changes, Loop!Changes, JoinedState, Loop!JoinedState,
    Results, Loop!Results, Uses, Loop!Uses, InputValues, Loop!InputValues
<1>3. vars = Loop!vars
  BY DEF vars, Loop!vars
<1>4. QED
  BY <1>1, <1>2, <1>3

\* The hypotheses of the proofs about the loop.
LEMMA LoopHypotheses ==
  /\ \A m \in Modules : Loop!IsModule(m)
  /\ EntryValue \cap Loop!OperationResult = {}
  /\ Loop!SemanticsTyped(Modules)
  /\ Loop!JoinIsSemilattice(AbstractState)
  /\ Loop!TransformerStrict(Modules)
<1>1. \A m \in Modules : Loop!IsModule(m)
  BY GraphAssumption DEF IsModule, Loop!IsModule, Value, Loop!Value, OperationResult, Loop!OperationResult
<1>2. Loop!SemanticsTyped(Modules)
  BY TagsTypedForLoop DEF SemanticsTyped, Loop!SemanticsTyped, InputAssignments, Loop!InputAssignments
<1>3. Loop!JoinIsSemilattice(AbstractState)
  BY TagsFormSemilattice DEF JoinIsSemilattice, Loop!JoinIsSemilattice
<1>4. Loop!TransformerStrict(Modules)
  BY TransformersKeepBottom DEF TransformerStrict, Loop!TransformerStrict, InputAssignments, Loop!InputAssignments
<1>5. EntryValue \cap Loop!OperationResult = {}
  BY GraphAssumption DEF OperationResult, Loop!OperationResult
<1>6. QED
  BY <1>1, <1>2, <1>3, <1>4, <1>5

\* The worklist forgets nothing, and no state is above that of a solution.
TaintInv ==
  /\ Loop!CompleteInv
  /\ MonotoneRules(module) => Loop!BelowSolutions

\* The last hypothesis, for modules with monotone rules.
LEMMA MonotoneForLoop ==
  ASSUME Loop!CompleteInv, MonotoneRules(module)
  PROVE  Loop!TransformerMonotone({module})
<1>1. module \in Modules
  BY DEF Loop!CompleteInv, Loop!TypeInv
<1>2. TransformerMonotone({module})
  BY <1>1, TransformersMonotone
<1>3. QED
  BY <1>2 DEF TransformerMonotone, Loop!TransformerMonotone, LeqOp, Loop!LeqOp, InputAssignments, Loop!InputAssignments

\* The invariant holds when ComputeFixpoint enters its loop.
LEMMA InitTaint == Init => TaintInv
<1> SUFFICES ASSUME Init PROVE TaintInv
  OBVIOUS
<1>1. Loop!Init
  BY LoopIsTheSame
<1>2. Loop!CompleteInv
  BY <1>1, LoopHypotheses, Loop!InitComplete
<1>3. Loop!BelowSolutions
  BY <1>1, LoopHypotheses, Loop!InitBelow
<1>4. QED
  BY <1>2, <1>3 DEF TaintInv

\* Every turn of the loop, and its end, keeps the invariant.
LEMMA StepTaint == TaintInv /\ [Next]_vars => TaintInv'
<1> SUFFICES ASSUME TaintInv, [Next]_vars PROVE TaintInv'
  OBVIOUS
<1>1. [Loop!Next]_Loop!vars
  BY LoopIsTheSame DEF vars, Loop!vars
<1>2. Loop!CompleteInv'
  BY <1>1, LoopHypotheses, Loop!StepComplete DEF TaintInv
<1>3. module' = module
  BY DEF Next, Visit, VisitDies, Return, vars
<1>4. ASSUME MonotoneRules(module)' PROVE Loop!BelowSolutions'
  <2>1. MonotoneRules(module)
    BY <1>3, <1>4 DEF MonotoneRules
  <2>2. Loop!TransformerMonotone({module}) /\ Loop!BelowSolutions /\ Loop!TypeInv
    BY <2>1, MonotoneForLoop DEF TaintInv, Loop!CompleteInv
  <2>3. QED
    BY <1>1, <2>2, LoopHypotheses, Loop!StepBelow
<1>5. QED
  BY <1>2, <1>4 DEF TaintInv

\* So it always holds.
LEMMA TaintInvariant == Spec => []TaintInv
  BY InitTaint, StepTaint, PTL DEF Spec

\* On return it says that the map is the least solution.
LEMMA TaintSolution ==
  ASSUME TaintInv, MonotoneRules(module)
  PROVE  ReturnsLeastSolution
<1>1. Loop!ReturnsLeastSolution
  BY LoopHypotheses, Loop!DoneMeansLeastSolution DEF TaintInv
<1>2. Loop!ValueNodes(module) = ValueNodes(module)
  BY DEF Loop!ValueNodes, ValueNodes, Loop!InputValues, InputValues, Loop!Results, Results
<1>3. \A v : Loop!CurrentState(v) = CurrentState(v)
  BY DEF Loop!CurrentState, CurrentState, Loop!FirstVisit, FirstVisit
<1>4. \A s : Loop!IsSolution(s) <=> IsSolution(s)
  BY DEF Loop!IsSolution, IsSolution, Loop!TransformerAt, TransformerAt, Loop!Results, Results, Loop!LeqOp, LeqOp
<1>5. Loop!Assignments = Assignments
  BY <1>2 DEF Loop!Assignments, Assignments
<1>6. Loop!TotalStates = TotalStates
  BY <1>2, <1>3 DEF Loop!TotalStates, TotalStates
<1>7. QED
  BY <1>1, <1>2, <1>3, <1>4, <1>5, <1>6 DEF Loop!ReturnsLeastSolution, ReturnsLeastSolution, Loop!LeqOp, LeqOp

\* TaintAnalysis::ComputeFixpoint returns the least solution for every
\* module whose rules are monotone, in whichever order the worklist was
\* emptied: the tags of a value do not depend on addresses in memory.
THEOREM LeastTaint == Spec => [](MonotoneRules(module) => ReturnsLeastSolution)
<1>1. TaintInv => (MonotoneRules(module) => ReturnsLeastSolution)
  BY TaintSolution
<1>2. QED
  BY <1>1, TaintInvariant, PTL

\* AbstractSemantics gives ModuleFixpointIterator what it asks of its
\* semantics, for every operation and every set of tags.
THEOREM TagsMeetHypotheses == Spec => []TagSemantics
<1>1. TaintInv => TagSemantics
  <2> SUFFICES ASSUME TaintInv
               PROVE  /\ SemanticsTyped({module})
                      /\ TransformerStrict({module})
                      /\ MonotoneRules(module) => TransformerMonotone({module})
                      /\ JoinIsSemilattice(AbstractState)
    BY DEF TagSemantics
  <2>1. module \in Modules
    BY DEF TaintInv, Loop!CompleteInv, Loop!TypeInv
  <2>2. SemanticsTyped({module})
    BY <2>1, TagsTypedForLoop DEF SemanticsTyped
  <2>3. TransformerStrict({module})
    BY <2>1, TransformersKeepBottom DEF TransformerStrict
  <2>4. QED
    BY <2>1, <2>2, <2>3, TransformersMonotone, TagsFormSemilattice
<1>2. QED
  BY <1>1, TaintInvariant, PTL

-----------------------------------------------------------------------------
(* The verdict of the policy checker. *)

\* Two rules are interpreted one after the other.
LEMMA TwoRules ==
  ASSUME NEW n \in Nat, NEW rules, AreRules(rules, n), Len(rules) = 2,
         NEW x \in Inputs(n), NEW a \in AbstractState
  PROVE  ApplyOutputRules(rules, x, a) =
           InterpretInferenceRule(rules[2], x, InterpretInferenceRule(rules[1], x, a))
<1>1. \A k \in 1 .. Len(rules) : \A b \in Outcome : InterpretInferenceRule(rules[k], x, b) \in Outcome
  BY RuleTyped DEF AreRules
<1>2. Len(rules) \in Nat /\ a \in Outcome
  BY DEF AreRules, Outcome
<1>3. RefinedByRules(rules, x, Outcome, a)
  BY <1>1, <1>2, OutputRulesExist
<1>4. PICK g \in [0 .. Len(rules) -> Outcome] :
        /\ g[0] = a
        /\ \A k \in 1 .. Len(rules) : g[k] = InterpretInferenceRule(rules[k], x, g[k - 1])
        /\ ApplyOutputRules(rules, x, a) = g[Len(rules)]
  BY <1>3 DEF RefinedByRules
<1>5. g[1] = InterpretInferenceRule(rules[1], x, g[0])
  BY <1>4
<1>6. g[2] = InterpretInferenceRule(rules[2], x, g[1])
  BY <1>4
<1>7. QED
  BY <1>4, <1>5, <1>6

\* One rule refines the default result.
LEMMA OneRuleApplied ==
  ASSUME NEW n \in Nat, NEW rules, AreRules(rules, n), Len(rules) = 1,
         NEW x \in Inputs(n), NEW a \in AbstractState
  PROVE  ApplyOutputRules(rules, x, a) = InterpretInferenceRule(rules[1], x, a)
<1>1. \A k \in 1 .. Len(rules) : \A b \in Outcome : InterpretInferenceRule(rules[k], x, b) \in Outcome
  BY RuleTyped DEF AreRules
<1>2. Len(rules) \in Nat /\ a \in Outcome
  BY DEF AreRules, Outcome
<1>3. RefinedByRules(rules, x, Outcome, a)
  BY <1>1, <1>2, OutputRulesExist
<1>4. PICK g \in [0 .. Len(rules) -> Outcome] :
        /\ g[0] = a
        /\ \A k \in 1 .. Len(rules) : g[k] = InterpretInferenceRule(rules[k], x, g[k - 1])
        /\ ApplyOutputRules(rules, x, a) = g[Len(rules)]
  BY <1>3 DEF RefinedByRules
<1>5. g[1] = InterpretInferenceRule(rules[1], x, g[0])
  BY <1>4
<1>6. QED
  BY <1>4, <1>5

\* A value that was reached carries the tag.
Carries(a, t) == a # Bottom /\ t \in a.secrecy

\* ApplyDefaultOperationTransformer carries what the inputs carry.
LEMMA DefaultSecrecy ==
  ASSUME NEW n \in Nat, NEW x \in Inputs(n), NEW t
  PROVE  /\ Carries(ApplyDefaultOperationTransformer(x), t) <=> \E j \in 1 .. n : Carries(x[j], t)
         /\ ApplyDefaultOperationTransformer(x) = Bottom <=> n # 0 /\ \A j \in 1 .. n : x[j] = Bottom
<1> DEFINE secrecy == UNION {x[i].secrecy : i \in {j \in 1 .. n : x[j] # Bottom}}
<1>1. secrecy \in SUBSET Tag
  BY TagsTyped DEF Inputs
<1>2. t \in secrecy <=> \E j \in 1 .. n : Carries(x[j], t)
  BY DEF Carries
<1>3. CASE n = 0
  <2>1. ApplyDefaultOperationTransformer(x) = MakeTags({}, {})
    BY <1>3, DefaultIs
  <2>2. MakeTags({}, {}) # Bottom /\ MakeTags({}, {}).secrecy = {}
    BY MakeTagsTyped
  <2>3. QED
    BY <1>3, <2>1, <2>2 DEF Carries
<1>4. CASE n # 0 /\ \A i \in 1 .. n : x[i] = Bottom
  BY <1>4, DefaultIs DEF Carries
<1>5. CASE n # 0 /\ \E i \in 1 .. n : x[i] # Bottom
  <2>1. ApplyDefaultOperationTransformer(x) = MakeTags(secrecy, {})
    BY <1>5, DefaultIs
  <2> HIDE DEF secrecy
  <2>2. /\ ApplyDefaultOperationTransformer(x) # Bottom
        /\ ApplyDefaultOperationTransformer(x).secrecy = secrecy
    BY <1>1, <2>1, MakeTagsTyped
  <2>3. QED
    BY <1>2, <1>5, <2>2 DEF Carries
<1>6. QED
  BY <1>3, <1>4, <1>5

\* What the result of a tag transform carries.
TransformCarries(n, rules, x, out, t) ==
  LET k == rules[1].conclusion.index
      c == rules[2].conclusion
  IN  /\ k \in 1 .. n
      /\ out \in AbstractState /\ (out = Bottom <=> x[k] = Bottom)
      /\ Carries(out, t) <=>
           \/ Carries(x[k], t) /\ ~(PremisesHold(rules[2], x) /\ c.kind = "kRemoveSecrecy" /\ c.tag = t)
           \/ x[k] # Bottom /\ PremisesHold(rules[2], x) /\ c.kind = "kAddSecrecy" /\ c.tag = t

\* A tag transform carries what the input it copies carries, less the tag it
\* removes and with the one it adds.
LEMMA TransformSecrecy ==
  ASSUME NEW n \in Nat, NEW rules, AreRules(rules, n), IsTransform(rules), NEW x \in Inputs(n),
         NEW a \in AbstractState, NEW t
  PROVE  TransformCarries(n, rules, x, ApplyOutputRules(rules, x, a), t)
<1> DEFINE k == rules[1].conclusion.index
           c == rules[2].conclusion
           out == ApplyOutputRules(rules, x, a)
<1>1. IsRule(rules[1], n) /\ IsRule(rules[2], n)
  BY DEF AreRules, IsTransform
<1>2. k \in 1 .. n /\ c.tag \in Tag /\ c.kind \in {"kAddIntegrity", "kRemoveSecrecy", "kAddSecrecy"}
  BY <1>1, RuleFields DEF IsTransform
<1>3. PremisesHold(rules[1], x)
  BY DEF PremisesHold, IsTransform
<1>4. a # CheckFailure /\ x[k] \in AbstractState /\ x[k] # CheckFailure
  BY <1>2, CheckFailureAssumption DEF Inputs
<1>5. InterpretInferenceRule(rules[1], x, a) = x[k]
  BY <1>3, <1>4, InterpretIs DEF IsTransform
<1>6. out = InterpretInferenceRule(rules[2], x, x[k])
  BY <1>5, TwoRules DEF IsTransform
<1>7. CASE ~PremisesHold(rules[2], x)
  <2>1. out = x[k]
    BY <1>6, <1>7, InterpretIs
  <2>2. QED
    BY <1>2, <1>4, <1>7, <2>1 DEF TransformCarries
<1>8. CASE PremisesHold(rules[2], x)
  <2>1. out = InterpretModifyTag(c, x[k])
    BY <1>4, <1>6, <1>8, InterpretIs DEF IsTransform
  <2>2. out \in AbstractState /\ (out = Bottom <=> x[k] = Bottom)
    BY <1>2, <1>4, <2>1, ModifyTyped
  <2>3. ASSUME x[k] # Bottom
        PROVE  t \in out.secrecy <=> \/ t \in x[k].secrecy /\ ~(c.kind = "kRemoveSecrecy" /\ c.tag = t)
                                     \/ c.kind = "kAddSecrecy" /\ c.tag = t
    <3>1. CASE c.kind = "kAddIntegrity"
      BY <1>2, <1>4, <2>1, <2>3, <3>1, ModifyTyped
    <3>2. CASE c.kind = "kRemoveSecrecy"
      BY <1>2, <1>4, <2>1, <2>3, <3>2, ModifyTyped
    <3>3. CASE c.kind = "kAddSecrecy"
      BY <1>2, <1>4, <2>1, <2>3, <3>3, ModifyTyped
    <3>4. QED
      BY <1>2, <3>1, <3>2, <3>3
  <2>4. QED
    BY <1>2, <1>8, <2>2, <2>3 DEF Carries, TransformCarries
<1>9. QED
  BY <1>7, <1>8

\* A merge waits for all its inputs and carries what the default result
\* carries.
LEMMA MergeSecrecy ==
  ASSUME NEW n \in Nat, NEW rules, AreRules(rules, n), IsMerge(rules), NEW x \in Inputs(n),
         NEW a \in AbstractState, NEW t, ApplyOutputRules(rules, x, a) # CheckFailure
  PROVE  LET out == ApplyOutputRules(rules, x, a)
         IN  /\ out = Bottom <=> a = Bottom \/ \E j \in 1 .. n : x[j] = Bottom
             /\ out # Bottom => (Carries(out, t) <=> Carries(a, t))
<1> DEFINE out == ApplyOutputRules(rules, x, a)
           c == rules[1].conclusion
<1>1. PremisesHold(rules[1], x)
  BY DEF PremisesHold, IsMerge
<1>2. a # CheckFailure
  BY CheckFailureAssumption
<1>3. out = InterpretMergeIntegrityTags(c, x, a)
  BY <1>1, <1>2, OneRuleApplied, InterpretIs DEF IsMerge
<1>4. CASE a = Bottom \/ \E j \in 1 .. n : x[j] = Bottom
  BY <1>3, <1>4, MergeIs
<1>5. CASE a # Bottom /\ \A j \in 1 .. n : x[j] # Bottom
  <2>1. /\ out = MakeTags(a.secrecy, MergedIntegrity(c, x))
        /\ MergedIntegrity(c, x) \in SUBSET Tag /\ a.secrecy \in SUBSET Tag
    BY <1>3, <1>5, MergeIs
  <2>2. QED
    BY <1>5, <2>1, MakeTagsTyped DEF Carries
<1>6. QED
  BY <1>4, <1>5

-----------------------------------------------------------------------------
\* The results of the operations of the module.
LEMMA ResultParts ==
  ASSUME NEW v
  PROVE  v \in ResultValues <=> \E op \in module.ops : \E i \in 1 .. module.outputs[op] : v = <<op, i>>
  BY DEF ResultValues, Results

\* The rules of an operation of the module, and the states its transformer
\* is given.
LEMMA RulesTyped ==
  ASSUME TaintInv, NEW op \in module.ops
  PROVE  /\ Len(module.inputs[op]) \in Nat /\ module.outputs[op] \in Nat
         /\ DOMAIN module.inputs[op] = 1 .. Len(module.inputs[op])
         /\ module.inputs[op] = <<>> <=> Len(module.inputs[op]) = 0
         /\ OperationRules(module.rules[op], module.outputs[op], Len(module.inputs[op]))
         /\ InputStates(op) \in Inputs(Len(module.inputs[op]))
         /\ \A j \in 1 .. Len(module.inputs[op]) :
              InputStates(op)[j] = CurrentState(module.inputs[op][j])
<1>1. module \in Modules /\ Loop!TypeInv
  BY DEF TaintInv, Loop!CompleteInv, Loop!TypeInv
<1>2. InputStates(op) \in InputAssignments(module, op)
  <2>1. Loop!InputStates(op) \in Loop!InputAssignments(module, op)
    BY <1>1, LoopHypotheses, Loop!InputStatesTyped
  <2>2. QED
    BY <2>1 DEF Loop!InputStates, InputStates, Loop!CurrentState, CurrentState, Loop!FirstVisit, FirstVisit,
                Loop!InputAssignments, InputAssignments
<1>3. QED
  BY <1>1, <1>2, OperationTyped DEF InputStates

\* get_current_state returns a state.
LEMMA StatesTyped ==
  ASSUME TaintInv, NEW v
  PROVE  CurrentState(v) \in AbstractState
<1>1. Loop!CurrentState(v) \in AbstractState
  BY LoopHypotheses, Loop!CurrentStateTyped DEF TaintInv, Loop!CompleteInv
<1>2. QED
  BY <1>1 DEF Loop!CurrentState, CurrentState, Loop!FirstVisit, FirstVisit

\* The returned map absorbs what the operations compute from it.
LEMMA DoneSolved ==
  ASSUME TaintInv, pc = "done", NEW op \in module.ops, NEW i \in 1 .. module.outputs[op]
  PROVE  LET out == OutputState(module.rules[op], i, InputStates(op))
         IN  /\ out # CheckFailure /\ out \in AbstractState
             /\ Leq(out, CurrentState(<<op, i>>))
<1> DEFINE out == OutputState(module.rules[op], i, InputStates(op))
<1>1. worklist = {} /\ pc # "died"
  BY DEF TaintInv, Loop!CompleteInv
<1>2. /\ Loop!OutputStates(op) # CheckFailure
      /\ \A v \in Loop!Results(module, op) : Loop!LeqOp(Loop!OutputStates(op)[v[2]], Loop!CurrentState(v))
  BY <1>1, LoopHypotheses, Loop!DoneMeansSolved DEF TaintInv
<1>3. Loop!OutputStates(op) = ApplyOperationTransformer(module.rules[op], module.outputs[op], InputStates(op))
  BY DEF Loop!OutputStates, TransformerOf, Loop!InputStates, InputStates, Loop!CurrentState, CurrentState,
         Loop!FirstVisit, FirstVisit
<1>4. /\ Loop!OutputStates(op)[i] = out
      /\ out # CheckFailure /\ out \in AbstractState
  BY <1>2, <1>3, RulesTyped, TransformerIs DEF Outcome
<1>5. Loop!LeqOp(Loop!OutputStates(op)[i], Loop!CurrentState(<<op, i>>))
  BY <1>2 DEF Loop!Results
<1>6. QED
  BY <1>4, <1>5 DEF Loop!LeqOp, Leq, Loop!CurrentState, CurrentState, Loop!FirstVisit, FirstVisit

\* A modification names one kind and one tag.
LEMMA ModifiesOneTag ==
  ASSUME NEW n \in Nat, NEW c, IsConclusion(c, n), c.type = "ModifyTag"
  PROVE  \A kind, t : c = ModifyTag(kind, t) <=> c.kind = kind /\ c.tag = t
<1>1. \A i : c # CopyInput(i)
  BY DEF CopyInput
<1>2. c # MergeIntegrityTags(c.kind, c.indices)
  BY DEF MergeIntegrityTags
<1>3. PICK kind \in {"kAddIntegrity", "kRemoveSecrecy", "kAddSecrecy"}, tag \in Tag : c = ModifyTag(kind, tag)
  BY <1>1, <1>2 DEF IsConclusion
<1>4. QED
  BY <1>3 DEF ModifyTag

\* What the rules of a result modify and copy: nothing and all inputs, or
\* one tag and one input.
LEMMA ResultRules ==
  ASSUME TaintInv, NEW op \in module.ops, NEW i \in 1 .. module.outputs[op]
  PROVE  LET R == module.rules[op]
             v == <<op, i>>
             c == R[i][2].conclusion
         IN  /\ i \notin DOMAIN R \/ (i \in DOMAIN R /\ IsMerge(R[i])) =>
                  /\ \A kind, t : ~HasModification(v, kind, t)
                  /\ Carried(v) = InputValues(module, op)
             /\ i \in DOMAIN R /\ IsTransform(R[i]) =>
                  /\ \A kind, t : HasModification(v, kind, t) <=>
                       PremisesHold(R[i][2], InputStates(op)) /\ c.kind = kind /\ c.tag = t
                  /\ Carried(v) = {module.inputs[op][R[i][1].conclusion.index]}
<1> DEFINE R == module.rules[op]
           v == <<op, i>>
           c == R[i][2].conclusion
           copied == {r.conclusion.index : r \in {q \in FiredRules(v) : q.conclusion.type = "CopyInput"}}
<1>1. FiredRules(v) = IF i \in DOMAIN R THEN {r \in ToSet(R[i]) : PremisesHold(r, InputStates(op))} ELSE {}
  BY DEF FiredRules, Fires
<1>2. Carried(v) = IF copied = {} THEN InputValues(module, op) ELSE {module.inputs[op][j] : j \in copied}
  BY DEF Carried
<1>3. CASE i \notin DOMAIN R
  <2>1. FiredRules(v) = {}
    BY <1>1, <1>3
  <2>2. QED
    BY <1>2, <1>3, <2>1 DEF HasModification
<1>4. CASE i \in DOMAIN R /\ IsMerge(R[i])
  <2>1. AreRules(R[i], Len(module.inputs[op]))
    BY <1>4, RulesTyped DEF OperationRules
  <2>2. ToSet(R[i]) = {R[i][1]}
    BY <1>4, <2>1 DEF AreRules, IsMerge, ToSet
  <2>3. \A r \in FiredRules(v) : r.conclusion.type = "MergeIntegrityTags"
    BY <1>1, <1>4, <2>2 DEF IsMerge
  <2>4. QED
    BY <1>2, <1>4, <2>3 DEF HasModification, ModifyTag, IsTransform, IsMerge
<1>5. CASE i \in DOMAIN R /\ IsTransform(R[i])
  <2>1. AreRules(R[i], Len(module.inputs[op]))
    BY <1>5, RulesTyped DEF OperationRules
  <2>2. ToSet(R[i]) = {R[i][1], R[i][2]}
    BY <1>5, <2>1 DEF AreRules, IsTransform, ToSet
  <2>3. IsRule(R[i][2], Len(module.inputs[op]))
    BY <1>5, <2>1 DEF AreRules, IsTransform
  <2>4. \A kind, t : c = ModifyTag(kind, t) <=> c.kind = kind /\ c.tag = t
    <3>1. IsConclusion(c, Len(module.inputs[op])) /\ c.type = "ModifyTag"
      BY <1>5, <2>3 DEF IsRule, IsTransform
    <3>2. Len(module.inputs[op]) \in Nat
      BY RulesTyped
    <3> HIDE DEF c
    <3>3. QED
      BY <3>1, <3>2, ModifiesOneTag
  <2>5. PremisesHold(R[i][1], InputStates(op))
    BY <1>5 DEF IsTransform, PremisesHold
  <2>6. \A r : r \in FiredRules(v) <=> \/ r = R[i][1]
                                       \/ r = R[i][2] /\ PremisesHold(R[i][2], InputStates(op))
    BY <1>1, <1>5, <2>2, <2>5
  <2>7. \A kind, t : R[i][1].conclusion # ModifyTag(kind, t)
    BY <1>5 DEF IsTransform, ModifyTag
  <2>8. copied = {R[i][1].conclusion.index}
    BY <1>5, <2>6 DEF IsTransform
  <2>9. \A kind, t : HasModification(v, kind, t) <=>
          PremisesHold(R[i][2], InputStates(op)) /\ c.kind = kind /\ c.tag = t
    BY <2>4, <2>6, <2>7 DEF HasModification
  <2>10. Carried(v) = {module.inputs[op][R[i][1].conclusion.index]}
    BY <1>2, <2>8
  <2>11. ~IsMerge(R[i])
    BY <1>5 DEF IsTransform, IsMerge
  <2> HIDE DEF R, v, c
  <2>12. QED
    BY <1>5, <2>9, <2>10, <2>11 DEF R, v, c
<1>6. QED
  BY <1>3, <1>4, <1>5

-----------------------------------------------------------------------------
\* The entry values keep the state the loop gave them.
EntryStates ==
  \A v \in ValueNodes(module) \cap EntryValue : CurrentState(v) = GetInitialState(v)

\* ComputeFixpoint gives the entry values their initial state.
LEMMA InitEntries == Init => EntryStates
  BY DEF Init, EntryStates, CurrentState, FirstVisit

\* No turn of the loop changes the state of an entry value: it is no
\* operation's result.
LEMMA StepEntries == TaintInv /\ EntryStates /\ [Next]_vars => EntryStates'
<1> SUFFICES ASSUME TaintInv, EntryStates, [Next]_vars PROVE EntryStates'
  OBVIOUS
<1>1. module' = module
  BY DEF Next, Visit, VisitDies, Return, vars
<1>2. ValueNodes(module)' = ValueNodes(module)
  BY <1>1 DEF ValueNodes, InputValues, Results
<1>3. ASSUME NEW op \in module.ops, Visit(op), NEW v \in EntryValue
      PROVE  CurrentState(v)' = CurrentState(v)
  <2>1. IsModule(module)
    BY GraphAssumption DEF TaintInv, Loop!CompleteInv, Loop!TypeInv
  <2>2. op \in Operation /\ module.outputs[op] \in Nat
    BY <2>1 DEF IsModule
  <2>3. \A i \in 1 .. module.outputs[op] : <<op, i>> \in OperationResult
    BY <2>2 DEF OperationResult
  <2>4. v \notin Results(module, op)
    BY <2>3, GraphAssumption DEF Results
  <2>5. QED
    BY <1>3, <2>4 DEF Visit, CurrentState, FirstVisit
<1>4. CASE Next
  BY <1>2, <1>3, <1>4 DEF Next, VisitDies, Return, EntryStates, CurrentState, FirstVisit
<1>5. CASE vars' = vars
  BY <1>2, <1>5 DEF vars, EntryStates, CurrentState, FirstVisit
<1>6. QED
  BY <1>4, <1>5

\* What the verdict was reached from.
VerdictFits ==
  LET states == {valueStates[v] : v \in EgressInputs \cap DOMAIN valueStates}
  IN verdict # "none" =>
       /\ pc = "done"
       /\ verdict = "died" => Bottom \in states
       /\ verdict = "compliant" => Bottom \notin states /\ \A a \in states : HasNoSecrecy(a)
       /\ verdict = "violation" => Bottom \notin states /\ ~\A a \in states : HasNoSecrecy(a)

CheckerInv == TaintInv /\ EntryStates /\ VerdictFits

\* The invariant of the checker holds before the analysis.
LEMMA InitChecker == CheckerInit => CheckerInv
  BY InitTaint, InitEntries DEF CheckerInit, CheckerInv, VerdictFits

\* The analysis keeps it, and the egress check establishes its last part.
LEMMA StepChecker == CheckerInv /\ [CheckerNext]_checkerVars => CheckerInv'
<1> SUFFICES ASSUME CheckerInv, [CheckerNext]_checkerVars PROVE CheckerInv'
  OBVIOUS
<1>1. [Next]_vars
  BY DEF CheckerNext, Analyse, CheckEgress, checkerVars, vars
<1>2. TaintInv' /\ EntryStates'
  BY <1>1, StepTaint, StepEntries DEF CheckerInv
<1>3. CASE Analyse
  <2>1. verdict # "none" => pc = "done"
    BY DEF CheckerInv, VerdictFits
  <2>2. pc # "done"
    BY <1>3 DEF Analyse, Next, Visit, VisitDies, Return
  <2>3. QED
    BY <1>2, <1>3, <2>1, <2>2 DEF Analyse, CheckerInv, VerdictFits
<1>4. CASE CheckEgress
  BY <1>2, <1>4 DEF CheckEgress, CheckerInv, VerdictFits, EgressInputs, InputValues
<1>5. CASE checkerVars' = checkerVars
  BY <1>2, <1>5 DEF checkerVars, CheckerInv, VerdictFits, EgressInputs, InputValues
<1>6. QED
  BY <1>3, <1>4, <1>5 DEF CheckerNext

\* So it always holds.
LEMMA CheckerInvariant == CheckerSpec => []CheckerInv
  BY InitChecker, StepChecker, PTL DEF CheckerSpec

-----------------------------------------------------------------------------
\* In a module whose rules come from the SQL frontend, what an output carries.
\* An output without a tag transform carries what the inputs carry.
PlainCarries(n, x, out, t) ==
  /\ Carries(out, t) => \E j \in 1 .. n : Carries(x[j], t)
  /\ (\A j \in 1 .. n : x[j] # Bottom) /\ (\E j \in 1 .. n : Carries(x[j], t)) => Carries(out, t)

\* An output without a tag transform carries only what some input carries,
\* and all of it once every input was reached.
LEMMA PlainSecrecy ==
  ASSUME TaintInv, NEW op \in module.ops, NEW i \in 1 .. module.outputs[op],
         i \notin DOMAIN module.rules[op] \/ (i \in DOMAIN module.rules[op] /\ IsMerge(module.rules[op][i])),
         NEW x \in Inputs(Len(module.inputs[op])), NEW t,
         OutputState(module.rules[op], i, x) # CheckFailure
  PROVE  PlainCarries(Len(module.inputs[op]), x, OutputState(module.rules[op], i, x), t)
<1> DEFINE R == module.rules[op]
           n == Len(module.inputs[op])
           a == ApplyDefaultOperationTransformer(x)
           out == OutputState(R, i, x)
<1>1. n \in Nat /\ OperationRules(R, module.outputs[op], n)
  BY RulesTyped
<1>2. out = IF i \in DOMAIN R THEN ApplyOutputRules(R[i], x, a) ELSE a
  BY DEF OutputState
<1>3. /\ a \in AbstractState
      /\ Carries(a, t) <=> \E j \in 1 .. n : Carries(x[j], t)
      /\ a = Bottom <=> n # 0 /\ \A j \in 1 .. n : x[j] = Bottom
  BY <1>1, DefaultTyped, DefaultSecrecy
<1>4. CASE i \notin DOMAIN R
  BY <1>2, <1>3, <1>4 DEF PlainCarries
<1>5. CASE i \in DOMAIN R /\ IsMerge(R[i])
  <2>1. AreRules(R[i], n)
    BY <1>1, <1>5 DEF OperationRules
  <2>2. /\ out = Bottom <=> a = Bottom \/ \E j \in 1 .. n : x[j] = Bottom
        /\ out # Bottom => (Carries(out, t) <=> Carries(a, t))
    BY <1>1, <1>2, <1>3, <1>5, <2>1, MergeSecrecy
  <2> HIDE DEF a, out, R, n
  <2>3. Carries(out, t) => \E j \in 1 .. n : Carries(x[j], t)
    BY <1>3, <2>2 DEF Carries
  <2>4. (\A j \in 1 .. n : x[j] # Bottom) /\ (\E j \in 1 .. n : Carries(x[j], t)) => Carries(out, t)
    BY <1>3, <2>2
  <2>5. PlainCarries(n, x, out, t)
    BY <2>3, <2>4 DEF PlainCarries
  <2>6. QED
    BY <2>5 DEF out, R, n
<1>6. QED
  BY <1>4, <1>5

\* An output with a tag transform carries what its two rules say.
LEMMA TransformedSecrecy ==
  ASSUME TaintInv, NEW op \in module.ops, NEW i \in 1 .. module.outputs[op],
         i \in DOMAIN module.rules[op], IsTransform(module.rules[op][i]),
         NEW x \in Inputs(Len(module.inputs[op])), NEW t
  PROVE  /\ IsRule(module.rules[op][i][2], Len(module.inputs[op]))
         /\ TransformCarries(Len(module.inputs[op]), module.rules[op][i], x, OutputState(module.rules[op], i, x), t)
<1> DEFINE R == module.rules[op]
           n == Len(module.inputs[op])
           a == ApplyDefaultOperationTransformer(x)
           out == OutputState(R, i, x)
<1>1. n \in Nat /\ OperationRules(R, module.outputs[op], n)
  BY RulesTyped
<1>2. AreRules(R[i], n)
  BY <1>1 DEF OperationRules
<1>3. IsRule(R[i][2], n)
  BY <1>2 DEF AreRules, IsTransform
<1>4. x \in Inputs(n) /\ a \in AbstractState /\ IsTransform(R[i])
  BY <1>1, DefaultTyped
<1>5. out = ApplyOutputRules(R[i], x, a)
  BY DEF OutputState
<1> HIDE DEF a, out, R, n
<1>6. TransformCarries(n, R[i], x, ApplyOutputRules(R[i], x, a), t)
  BY <1>1, <1>2, <1>4, TransformSecrecy
<1>7. QED
  BY <1>3, <1>5, <1>6 DEF out, R, n

\* A tag carried by a state is carried by every larger one.
LEMMA CarriesGrows ==
  ASSUME NEW a \in AbstractState, NEW b \in AbstractState, Leq(a, b), NEW t, Carries(a, t)
  PROVE  Carries(b, t)
  BY LeqIsInclusion DEF Carries

\* If every value was evaluated, a tag is carried along every path of the
\* data flow.
LEMMA PathsCarry ==
  ASSUME CheckerInv, pc = "done", SqlRules(module), AllEvaluated, NEW t
  PROVE  HoldsTaint({v \in ResultValues : Carries(CurrentState(v), t)}, t)
<1> DEFINE S == {v \in ResultValues : Carries(CurrentState(v), t)}
<1>0. TaintInv
  BY DEF CheckerInv
<1>1. ASSUME NEW op \in module.ops, NEW i \in 1 .. module.outputs[op],
             \/ Reached(op) /\ HasModification(<<op, i>>, "kAddSecrecy", t)
             \/ Carried(<<op, i>>) \cap S # {} /\ ~HasModification(<<op, i>>, "kRemoveSecrecy", t)
      PROVE  <<op, i>> \in S
  <2> DEFINE R == module.rules[op]
             n == Len(module.inputs[op])
             k == R[i][1].conclusion.index
             c == R[i][2].conclusion
             x == InputStates(op)
             out == OutputState(R, i, x)
             v == <<op, i>>
  <2>1. out # CheckFailure /\ out \in AbstractState /\ Leq(out, CurrentState(v))
    BY <1>0, DoneSolved
  <2>2. /\ n \in Nat /\ DOMAIN module.inputs[op] = 1 .. n /\ x \in Inputs(n)
        /\ \A j \in 1 .. n : x[j] = CurrentState(module.inputs[op][j])
    BY <1>0, RulesTyped
  <2>3. \A j \in 1 .. n : x[j] # Bottom
    BY <2>2 DEF AllEvaluated, ValueNodes, InputValues
  <2>4. Carries(out, t)
    <3>1. CASE i \notin DOMAIN R \/ (i \in DOMAIN R /\ IsMerge(R[i]))
      <4>1. (\A kind, u : ~HasModification(v, kind, u)) /\ Carried(v) = InputValues(module, op)
        BY <1>0, <3>1, ResultRules
      <4>2. PICK w \in InputValues(module, op) : w \in S
        BY <1>1, <4>1
      <4>3. \E j \in 1 .. n : Carries(x[j], t)
        BY <2>2, <4>2 DEF InputValues
      <4>4. PlainCarries(n, x, out, t)
        BY <1>0, <2>1, <2>2, <3>1, PlainSecrecy
      <4>5. QED
        BY <2>3, <4>3, <4>4 DEF PlainCarries
    <3>2. CASE i \in DOMAIN R /\ IsTransform(R[i])
      <4>1. /\ \A kind, u : HasModification(v, kind, u) <=> PremisesHold(R[i][2], x) /\ c.kind = kind /\ c.tag = u
            /\ Carried(v) = {module.inputs[op][k]}
        BY <1>0, <3>2, ResultRules
      <4>2. TransformCarries(n, R[i], x, out, t)
        BY <1>0, <2>2, <3>2, TransformedSecrecy
      <4>3. /\ k \in 1 .. n
            /\ Carries(out, t) <=>
                 \/ Carries(x[k], t) /\ ~(PremisesHold(R[i][2], x) /\ c.kind = "kRemoveSecrecy" /\ c.tag = t)
                 \/ x[k] # Bottom /\ PremisesHold(R[i][2], x) /\ c.kind = "kAddSecrecy" /\ c.tag = t
        BY <4>2 DEF TransformCarries
      <4>4. CASE HasModification(v, "kAddSecrecy", t)
        BY <2>3, <4>1, <4>3, <4>4
      <4>5. CASE Carried(v) \cap S # {} /\ ~HasModification(v, "kRemoveSecrecy", t)
        <5>1. Carries(CurrentState(module.inputs[op][k]), t)
          BY <4>1, <4>5
        <5>2. QED
          BY <2>2, <4>1, <4>3, <4>5, <5>1
      <4>6. QED
        BY <1>1, <4>4, <4>5
    <3>3. QED
      BY <3>1, <3>2 DEF SqlRules
  <2>5. Carries(CurrentState(v), t)
    BY <1>0, <2>1, <2>4, StatesTyped, CarriesGrows
  <2>6. QED
    BY <2>5, ResultParts
<1>2. QED
  <2> SUFFICES ASSUME NEW v \in ResultValues,
                      \/ Reached(v[1]) /\ HasModification(v, "kAddSecrecy", t)
                      \/ Carried(v) \cap S # {} /\ ~HasModification(v, "kRemoveSecrecy", t)
               PROVE  v \in S
    BY DEF HoldsTaint
  <2>1. PICK op \in module.ops : \E i \in 1 .. module.outputs[op] : v = <<op, i>>
    BY ResultParts
  <2>2. PICK i \in 1 .. module.outputs[op] : v = <<op, i>>
    BY <2>1
  <2>3. v[1] = op
    BY <2>2
  <2>4. QED
    BY <1>1, <2>2, <2>3

-----------------------------------------------------------------------------
(***************************************************************************)
(* The states without a tag that no path in S brings: a solution too.      *)
(***************************************************************************)
WithoutTag(a, t) == MakeTags(a.secrecy \ {t}, a.integrity)

Without(S, t) ==
  [v \in ValueNodes(module) |->
     CASE v \in EntryValue -> GetInitialState(v)
       [] v \notin EntryValue /\ (v \notin ResultValues \/ CurrentState(v) = Bottom) -> Bottom
       [] v \notin EntryValue /\ v \in ResultValues /\ CurrentState(v) # Bottom /\ v \in S -> CurrentState(v)
       [] OTHER -> WithoutTag(CurrentState(v), t)]

\* The states without the tag are states, at most the computed ones, and
\* carry the tag only in S.
LEMMA WithoutIs ==
  ASSUME TaintInv, EntryStates, NEW S, NEW t, NEW v \in ValueNodes(module)
  PROVE  /\ Without(S, t)[v] \in AbstractState
         /\ Leq(Without(S, t)[v], CurrentState(v))
         /\ v \in EntryValue => Without(S, t)[v] = GetInitialState(v)
         /\ v \in ResultValues /\ v \notin EntryValue /\ (v \in S \/ CurrentState(v) = Bottom) =>
              Without(S, t)[v] = CurrentState(v)
         /\ v \in ResultValues /\ v \notin EntryValue /\ v \notin S /\ CurrentState(v) # Bottom =>
              Without(S, t)[v] = WithoutTag(CurrentState(v), t)
         /\ Carries(Without(S, t)[v], t) => v \in S
<1> DEFINE a == CurrentState(v)
<1>1. a \in AbstractState /\ Bottom \in AbstractState
  BY StatesTyped DEF AbstractState
<1>2. Leq(a, a) /\ Leq(Bottom, a)
  BY <1>1 DEF Leq, Join, IsBottom, AbstractState, IfcTags, MakeTags
<1>3. ~Carries(Bottom, t)
  BY DEF Carries
<1>4. CASE v \in EntryValue
  <2>1. a = GetInitialState(v)
    BY <1>4 DEF EntryStates
  <2>2. Without(S, t)[v] = a
    BY <1>4, <2>1 DEF Without
  <2>3. ~Carries(a, t)
    BY <2>1, MakeTagsTyped DEF GetInitialState, Carries
  <2>4. QED
    BY <1>1, <1>2, <1>4, <2>1, <2>2, <2>3
<1>5. CASE v \notin EntryValue /\ (v \notin ResultValues \/ a = Bottom)
  <2>1. Without(S, t)[v] = Bottom
    BY <1>5 DEF Without
  <2>2. QED
    BY <1>1, <1>2, <1>3, <1>5, <2>1
<1>6. CASE v \notin EntryValue /\ v \in ResultValues /\ a # Bottom /\ v \in S
  <2>1. Without(S, t)[v] = a
    BY <1>6 DEF Without
  <2>2. QED
    BY <1>1, <1>2, <1>6, <2>1
<1>7. CASE v \notin EntryValue /\ v \in ResultValues /\ a # Bottom /\ v \notin S
  <2>1. Without(S, t)[v] = WithoutTag(a, t)
    BY <1>7 DEF Without
  <2>2. a.secrecy \in SUBSET Tag /\ a.integrity \in SUBSET Tag
    BY <1>1, <1>7, TagsTyped
  <2> HIDE DEF a
  <2>3. /\ WithoutTag(a, t) \in AbstractState /\ WithoutTag(a, t) # Bottom
        /\ WithoutTag(a, t).secrecy = a.secrecy \ {t} /\ WithoutTag(a, t).integrity = a.integrity
    BY <2>2, MakeTagsTyped DEF WithoutTag
  <2>4. Leq(WithoutTag(a, t), a) /\ ~Carries(WithoutTag(a, t), t)
    BY <1>1, <1>7, <2>3, LeqIsInclusion DEF Carries
  <2>5. QED
    BY <1>7, <2>1, <2>3, <2>4 DEF a
<1>8. QED
  BY <1>4, <1>5, <1>6, <1>7

\* They give the entry values their initial state.
LEMMA WithoutIsAssignment ==
  ASSUME TaintInv, EntryStates, NEW S, NEW t
  PROVE  Without(S, t) \in Assignments
<1> DEFINE s == Without(S, t)
           r == [v \in ValueNodes(module) \ EntryValue |-> s[v]]
<1>1. r \in [ValueNodes(module) \ EntryValue -> AbstractState]
  BY WithoutIs
<1>2. s = [v \in ValueNodes(module) |-> s[v]]
  BY DEF Without
<1>3. s = [v \in ValueNodes(module) |-> IF v \in EntryValue THEN GetInitialState(v) ELSE r[v]]
  <2>1. \A v \in ValueNodes(module) : s[v] = IF v \in EntryValue THEN GetInitialState(v) ELSE r[v]
    BY WithoutIs
  <2> HIDE DEF s, r
  <2>2. QED
    BY <1>2, <2>1
<1>4. QED
  BY <1>1, <1>3 DEF Assignments

\* What an operation computes from them carries the tag only if a path
\* brings it to the result, and then the result is in S.  A removal that
\* fires on the computed states fires on these as well.
LEMMA WithoutFollowsPaths ==
  ASSUME CheckerInv, SqlRules(module), NEW t, NEW S, HoldsTaint(S, t),
         NEW op \in module.ops, NEW i \in 1 .. module.outputs[op],
         NEW x \in Inputs(Len(module.inputs[op])),
         \A j \in 1 .. Len(module.inputs[op]) : x[j] = Without(S, t)[module.inputs[op][j]],
         LeqInputs(Len(module.inputs[op]), x, InputStates(op)),
         OutputState(module.rules[op], i, x) # CheckFailure,
         Carries(OutputState(module.rules[op], i, x), t)
  PROVE  <<op, i>> \in S
<1> DEFINE R == module.rules[op]
           n == Len(module.inputs[op])
           k == R[i][1].conclusion.index
           c == R[i][2].conclusion
           y == InputStates(op)
           out == OutputState(R, i, x)
           v == <<op, i>>
<1>1. TaintInv /\ EntryStates
  BY DEF CheckerInv
<1>2. /\ n \in Nat /\ DOMAIN module.inputs[op] = 1 .. n /\ y \in Inputs(n)
      /\ \A j \in 1 .. n : y[j] = CurrentState(module.inputs[op][j])
  BY <1>1, RulesTyped
<1>3. ASSUME NEW j \in 1 .. n, Carries(x[j], t)
      PROVE  module.inputs[op][j] \in S
  <2>1. module.inputs[op][j] \in ValueNodes(module)
    BY <1>2 DEF ValueNodes, InputValues
  <2>2. QED
    BY <1>1, <1>3, <2>1, WithoutIs
<1>4. v \in ResultValues /\ v[1] = op
  BY ResultParts
<1>5. CASE i \notin DOMAIN R \/ (i \in DOMAIN R /\ IsMerge(R[i]))
  <2>1. (\A kind, u : ~HasModification(v, kind, u)) /\ Carried(v) = InputValues(module, op)
    BY <1>1, <1>5, ResultRules
  <2>2. PlainCarries(n, x, out, t)
    BY <1>1, <1>5, PlainSecrecy
  <2>3. PICK j \in 1 .. n : Carries(x[j], t)
    BY <2>2 DEF PlainCarries
  <2>4. module.inputs[op][j] \in Carried(v) \cap S
    BY <1>2, <1>3, <2>1, <2>3 DEF InputValues
  <2>5. QED
    BY <1>4, <2>1, <2>4 DEF HoldsTaint
<1>6. CASE i \in DOMAIN R /\ IsTransform(R[i])
  <2>1. /\ \A kind, u : HasModification(v, kind, u) <=> PremisesHold(R[i][2], y) /\ c.kind = kind /\ c.tag = u
        /\ Carried(v) = {module.inputs[op][k]}
    BY <1>1, <1>6, ResultRules
  <2>2. IsRule(R[i][2], n) /\ TransformCarries(n, R[i], x, out, t)
    BY <1>1, <1>6, TransformedSecrecy
  <2>3. /\ k \in 1 .. n
        /\ \/ Carries(x[k], t) /\ ~(PremisesHold(R[i][2], x) /\ c.kind = "kRemoveSecrecy" /\ c.tag = t)
           \/ x[k] # Bottom /\ PremisesHold(R[i][2], x) /\ c.kind = "kAddSecrecy" /\ c.tag = t
    BY <2>2 DEF TransformCarries
  <2>4. PremisesHold(R[i][2], y) => PremisesHold(R[i][2], x)
    BY <1>2, <2>2, PremisesAntitone
  <2>5. CASE Carries(x[k], t) /\ ~(PremisesHold(R[i][2], x) /\ c.kind = "kRemoveSecrecy" /\ c.tag = t)
    <3>1. ~HasModification(v, "kRemoveSecrecy", t)
      BY <2>1, <2>4, <2>5
    <3>2. module.inputs[op][k] \in Carried(v) \cap S
      BY <1>3, <2>1, <2>3, <2>5
    <3>3. QED
      BY <1>4, <3>1, <3>2 DEF HoldsTaint
  <2>6. CASE x[k] # Bottom /\ PremisesHold(R[i][2], x) /\ c.kind = "kAddSecrecy" /\ c.tag = t
    <3>1. IsMonotoneRule(R[i][2])
      <4>1. 2 \in 1 .. Len(R[i])
        BY <1>6 DEF IsTransform
      <4>2. QED
        BY <1>6, <4>1 DEF SqlRules, MonotoneRules
    <3>2. R[i][2].premises = {}
      BY <2>6, <3>1 DEF IsMonotoneRule, OnlyLowers
    <3>3. HasModification(v, "kAddSecrecy", t)
      BY <2>1, <2>6, <3>2 DEF PremisesHold
    <3>4. y[k] # Bottom
      <4>1. Leq(x[k], y[k]) /\ x[k] \in AbstractState /\ y[k] \in AbstractState
        BY <1>2, <2>3 DEF LeqInputs, Inputs
      <4>2. QED
        BY <2>6, <4>1, LeqIsInclusion
    <3>5. Reached(op)
      <4>1. CurrentState(module.inputs[op][k]) # Bottom
        BY <1>2, <2>3, <3>4
      <4>2. module.inputs[op][k] \in InputValues(module, op)
        BY <1>2, <2>3 DEF InputValues
      <4>3. QED
        BY <4>1, <4>2 DEF Reached, CurrentState, FirstVisit
    <3>6. QED
      BY <1>4, <3>3, <3>5 DEF HoldsTaint
  <2>7. QED
    BY <2>3, <2>5, <2>6
<1>7. QED
  BY <1>5, <1>6 DEF SqlRules

\* So they are a solution.
LEMMA WithoutIsSolution ==
  ASSUME CheckerInv, pc = "done", SqlRules(module), NEW t, NEW S, HoldsTaint(S, t)
  PROVE  IsSolution(Without(S, t))
<1> DEFINE s == Without(S, t)
<1>1. TaintInv /\ EntryStates /\ module \in Modules /\ MonotoneRules(module)
  BY DEF CheckerInv, SqlRules, TaintInv, Loop!CompleteInv, Loop!TypeInv
<1>2. ASSUME NEW op \in module.ops
      PROVE  /\ TransformerAt(s, op) # CheckFailure
             /\ \A v \in Results(module, op) : LeqOp(TransformerAt(s, op)[v[2]], s[v])
  <2> DEFINE R == module.rules[op]
             n == Len(module.inputs[op])
             y == InputStates(op)
             x == [i \in DOMAIN module.inputs[op] |-> s[module.inputs[op][i]]]
  <2>1. /\ n \in Nat /\ module.outputs[op] \in Nat /\ DOMAIN module.inputs[op] = 1 .. n
        /\ OperationRules(R, module.outputs[op], n) /\ y \in Inputs(n)
        /\ \A j \in 1 .. n : y[j] = CurrentState(module.inputs[op][j])
    BY <1>1, RulesTyped
  <2>2. \A j \in 1 .. n : module.inputs[op][j] \in ValueNodes(module)
    BY <2>1 DEF ValueNodes, InputValues
  <2>3. x \in Inputs(n) /\ (\A j \in 1 .. n : x[j] = s[module.inputs[op][j]])
    BY <1>1, <2>1, <2>2, WithoutIs DEF Inputs
  <2>4. LeqInputs(n, x, y)
    BY <1>1, <2>1, <2>2, <2>3, WithoutIs DEF LeqInputs
  <2> HIDE DEF x, y
  <2>5. TransformerAt(s, op) = ApplyOperationTransformer(R, module.outputs[op], x)
    BY DEF TransformerAt, TransformerOf, x
  <2>6. ApplyOperationTransformer(R, module.outputs[op], y) # CheckFailure
    <3>1. \A i \in 1 .. module.outputs[op] : OutputState(R, i, y) # CheckFailure
      BY <1>1, DoneSolved DEF y
    <3>2. QED
      BY <2>1, <3>1, TransformerIs
  <2>7. \A i \in DOMAIN R : \A j \in 1 .. Len(R[i]) : IsMonotoneRule(R[i][j])
    BY <1>1 DEF MonotoneRules
  <2>8. /\ ApplyOperationTransformer(R, module.outputs[op], x) # CheckFailure
        /\ \A i \in 1 .. module.outputs[op] : Leq(ApplyOperationTransformer(R, module.outputs[op], x)[i],
                                                  ApplyOperationTransformer(R, module.outputs[op], y)[i])
    BY <2>1, <2>3, <2>4, <2>6, <2>7, TransformerIsMonotone
  <2>9. ASSUME NEW i \in 1 .. module.outputs[op]
        PROVE  LeqOp(TransformerAt(s, op)[i], s[<<op, i>>])
    <3> DEFINE v == <<op, i>>
               a == OutputState(R, i, x)
               b == OutputState(R, i, y)
    <3>1. /\ a = ApplyOperationTransformer(R, module.outputs[op], x)[i] /\ a \in AbstractState
          /\ b = ApplyOperationTransformer(R, module.outputs[op], y)[i] /\ b \in AbstractState
          /\ a # CheckFailure
      BY <2>1, <2>3, <2>6, <2>8, TransformerIs
    <3>2. Leq(a, b)
      BY <2>8, <3>1
    <3>3. Leq(b, CurrentState(v)) /\ CurrentState(v) \in AbstractState
      BY <1>1, DoneSolved, StatesTyped DEF y
    <3> HIDE DEF a, b
    <3>4. Leq(a, CurrentState(v))
      BY <3>1, <3>2, <3>3, LeqIsInclusion
    <3>5. v \in ResultValues /\ v \in ValueNodes(module) /\ v \notin EntryValue
      <4>1. IsModule(module)
        BY <1>1, GraphAssumption
      <4>2. op \in Operation
        BY <4>1 DEF IsModule
      <4>3. v \in OperationResult
        BY <4>2, <2>1 DEF OperationResult
      <4>4. QED
        BY <4>3, ResultParts, GraphAssumption DEF ValueNodes, Results
    <3>6. CASE v \in S \/ CurrentState(v) = Bottom
      <4>1. s[v] = CurrentState(v)
        BY <1>1, <3>5, <3>6, WithoutIs
      <4>2. QED
        BY <2>5, <3>1, <3>4, <4>1 DEF LeqOp, Leq
    <3>7. CASE v \notin S /\ CurrentState(v) # Bottom
      <4>1. s[v] = WithoutTag(CurrentState(v), t) /\ s[v] \in AbstractState
        BY <1>1, <3>5, <3>7, WithoutIs
      <4>2. /\ CurrentState(v).secrecy \in SUBSET Tag
            /\ CurrentState(v).integrity \in SUBSET Tag
        BY <3>3, <3>7, TagsTyped
      <4>3. /\ WithoutTag(CurrentState(v), t) # Bottom
            /\ WithoutTag(CurrentState(v), t).secrecy = CurrentState(v).secrecy \ {t}
            /\ WithoutTag(CurrentState(v), t).integrity = CurrentState(v).integrity
        BY <4>2, MakeTagsTyped DEF WithoutTag
      <4>4. ~Carries(a, t)
        <5>1. /\ x \in Inputs(Len(module.inputs[op])) /\ LeqInputs(Len(module.inputs[op]), x, InputStates(op))
              /\ \A j \in 1 .. Len(module.inputs[op]) : x[j] = Without(S, t)[module.inputs[op][j]]
          BY <2>3, <2>4 DEF y
        <5>2. a = OutputState(module.rules[op], i, x) /\ a # CheckFailure
          BY <3>1 DEF a
        <5> HIDE DEF s, n, R
        <5>3. Carries(a, t) => v \in S
          BY <5>1, <5>2, WithoutFollowsPaths
        <5>4. QED
          BY <3>7, <5>3
      <4>5. Leq(a, s[v])
        BY <3>1, <3>3, <3>4, <3>7, <4>1, <4>3, <4>4, LeqIsInclusion DEF Carries
      <4>6. QED
        BY <2>5, <3>1, <4>5 DEF LeqOp, Leq
    <3>8. QED
      BY <3>6, <3>7
  <2>10. QED
    BY <2>5, <2>8, <2>9 DEF Results
<1>3. QED
  BY <1>2 DEF IsSolution

\* What the analysis computes is at most any solution: a value carries a tag
\* only if a path brings it.
LEMMA TagsFollowPaths ==
  ASSUME CheckerInv, pc = "done", SqlRules(module), NEW t, NEW S, HoldsTaint(S, t),
         NEW v \in ValueNodes(module), Carries(CurrentState(v), t)
  PROVE  v \in S
<1>1. TaintInv /\ EntryStates /\ MonotoneRules(module)
  BY DEF CheckerInv, SqlRules
<1>2. LeqOp(CurrentState(v), Without(S, t)[v])
  BY <1>1, TaintSolution, WithoutIsAssignment, WithoutIsSolution DEF ReturnsLeastSolution
<1>3. Carries(Without(S, t)[v], t)
  BY <1>1, <1>2, WithoutIs, StatesTyped, CarriesGrows DEF LeqOp, Leq
<1>4. QED
  BY <1>1, <1>3, WithoutIs

\* What an egress operation reads is in the graph.
LEMMA EgressInGraph ==
  ASSUME TaintInv
  PROVE  EgressInputs \subseteq ValueNodes(module)
<1>1. module.egress \subseteq module.ops
  BY EgressAssumption DEF TaintInv, Loop!CompleteInv, Loop!TypeInv
<1>2. QED
  BY <1>1 DEF EgressInputs, ValueNodes

\* On every state of the invariant the verdict is that of the paths.
LEMMA ExactVerdict == CheckerInv => (SqlRules(module) => VerdictIsExact)
<1> SUFFICES ASSUME CheckerInv, SqlRules(module) PROVE VerdictIsExact
  OBVIOUS
<1> DEFINE states == {valueStates[v] : v \in EgressInputs \cap DOMAIN valueStates}
<1>1. TaintInv /\ EntryStates /\ VerdictFits
  BY DEF CheckerInv
<1>2. ASSUME verdict = "violation" PROVE SomeFlow
  <2>1. pc = "done" /\ Bottom \notin states /\ ~\A a \in states : HasNoSecrecy(a)
    BY <1>1, <1>2 DEF VerdictFits
  <2>2. PICK v \in EgressInputs \cap DOMAIN valueStates : valueStates[v].secrecy # {} /\ valueStates[v] # Bottom
    BY <2>1 DEF HasNoSecrecy
  <2>3. CurrentState(v) = valueStates[v] /\ CurrentState(v) \in AbstractState
    BY <1>1, <2>2, StatesTyped DEF CurrentState, FirstVisit
  <2>4. PICK t \in Tag : Carries(CurrentState(v), t)
    BY <2>2, <2>3, TagsTyped DEF Carries
  <2>5. v \in ValueNodes(module)
    BY <1>1, <2>2, EgressInGraph
  <2>6. HoldsTaint(ResultValues, t)
    BY DEF HoldsTaint
  <2>7. v \in ResultValues
    BY <2>1, <2>4, <2>5, <2>6, TagsFollowPaths
  <2>8. v \in TaintedBy(t)
    BY <2>1, <2>4, <2>5, <2>7, TagsFollowPaths DEF TaintedBy
  <2>9. QED
    BY <2>2, <2>8 DEF SomeFlow
<1>3. ASSUME verdict = "compliant", AllEvaluated PROVE ~SomeFlow
  <2> SUFFICES ASSUME NEW t \in Tag, NEW v \in EgressInputs, v \in TaintedBy(t) PROVE FALSE
    BY DEF SomeFlow
  <2> DEFINE S == {w \in ResultValues : Carries(CurrentState(w), t)}
  <2>1. pc = "done" /\ \A a \in states : HasNoSecrecy(a)
    BY <1>1, <1>3 DEF VerdictFits
  <2>2. HoldsTaint(S, t)
    BY <1>3, <2>1, PathsCarry
  <2>3. S \in SUBSET ResultValues
    OBVIOUS
  <2> HIDE DEF S
  <2>4. v \in S
    BY <2>2, <2>3 DEF TaintedBy
  <2>5. Carries(CurrentState(v), t)
    BY <2>4 DEF S
  <2>6. v \in DOMAIN valueStates /\ t \in valueStates[v].secrecy
    BY <2>5 DEF Carries, CurrentState, FirstVisit
  <2>7. QED
    BY <2>1, <2>6 DEF HasNoSecrecy
<1>4. QED
  BY <1>2, <1>3 DEF VerdictIsExact

\* IsModulePolicyCompliant rejects a module only if some tag has a path from
\* an operation that adds it to an egress, and accepts it, once every value
\* was evaluated, only if none has: for every module with monotone rules of
\* the SQL frontend, whatever the order of the worklist.
THEOREM VerdictExact == CheckerSpec => [](SqlRules(module) => VerdictIsExact)
  BY ExactVerdict, CheckerInvariant, PTL

-----------------------------------------------------------------------------
(***************************************************************************)
(* The analysis only reaches what lies downstream of the entry values and  *)
(* of the operations without inputs: a set that has these and is closed    *)
(* has every value with an entry.                                          *)
(***************************************************************************)
HasSources(X) ==
  /\ ValueNodes(module) \cap EntryValue \subseteq X
  /\ \A op \in module.ops : module.inputs[op] = <<>> => Results(module, op) \subseteq X

OnlyDownstream ==
  \A X \in SUBSET ValueNodes(module) :
    HasSources(X) /\ IsClosedDownstream(X) =>
      /\ DOMAIN valueStates \subseteq X
      /\ \A op \in worklist : Results(module, op) \subseteq X

\* At first only entry values have a state, and their users and the seeds
\* are queued.
LEMMA InitDownstream == Init => OnlyDownstream
<1> SUFFICES ASSUME Init, NEW X \in SUBSET ValueNodes(module), HasSources(X), IsClosedDownstream(X)
             PROVE  /\ DOMAIN valueStates \subseteq X
                    /\ \A op \in worklist : Results(module, op) \subseteq X
  BY DEF OnlyDownstream
<1>1. DOMAIN valueStates \subseteq X
  BY DEF Init, HasSources
<1>2. ASSUME NEW op \in worklist PROVE Results(module, op) \subseteq X
  <2>1. op \in module.ops /\ (module.inputs[op] = <<>> \/ InputValues(module, op) \cap EntryValue # {})
    BY DEF Init
  <2>2. InputValues(module, op) \subseteq ValueNodes(module)
    BY <2>1 DEF ValueNodes
  <2>3. QED
    BY <2>1, <2>2 DEF HasSources, IsClosedDownstream
<1>3. QED
  BY <1>1, <1>2

\* A visit gives states to the results of a queued operation, and queues
\* their users.
LEMMA StepDownstream == OnlyDownstream /\ [Next]_vars => OnlyDownstream'
<1> SUFFICES ASSUME OnlyDownstream, [Next]_vars PROVE OnlyDownstream'
  OBVIOUS
<1>1. module' = module
  BY DEF Next, Visit, VisitDies, Return, vars
<1>2. /\ ValueNodes(module)' = ValueNodes(module)
      /\ \A X : HasSources(X)' <=> HasSources(X)
      /\ \A X : IsClosedDownstream(X)' <=> IsClosedDownstream(X)
      /\ \A op : Results(module, op)' = Results(module, op)
  BY <1>1 DEF ValueNodes, InputValues, Results, HasSources, IsClosedDownstream
<1>3. ASSUME NEW op \in module.ops, Visit(op), NEW X \in SUBSET ValueNodes(module), HasSources(X), IsClosedDownstream(X)
      PROVE  /\ DOMAIN valueStates' \subseteq X
             /\ \A o \in worklist' : Results(module, o) \subseteq X
  <2> DEFINE changed == {v \in Results(module, op) : Changes(v, OutputStates(op))}
  <2>1. /\ DOMAIN valueStates' = DOMAIN valueStates \cup changed
        /\ worklist' = (worklist \ {op}) \cup UNION {Uses(module, v) : v \in changed}
        /\ op \in worklist
    BY <1>3 DEF Visit
  <2>2. Results(module, op) \subseteq X
    BY <1>3, <2>1 DEF OnlyDownstream
  <2>3. \A o \in worklist' : o \in worklist \/ (o \in module.ops /\ InputValues(module, o) \cap X # {})
    BY <2>1, <2>2 DEF Uses
  <2>4. QED
    BY <1>3, <2>1, <2>2, <2>3 DEF OnlyDownstream, IsClosedDownstream
<1>4. CASE \E op \in module.ops : Visit(op)
  BY <1>2, <1>3, <1>4 DEF OnlyDownstream
<1>5. CASE vars' = vars \/ Return \/ \E op \in module.ops : VisitDies(op)
  BY <1>2, <1>5 DEF vars, Return, VisitDies, OnlyDownstream
<1>6. QED
  BY <1>4, <1>5 DEF Next

\* So only what lies downstream of the sources ever gets a state.
LEMMA DownstreamInvariant == CheckerSpec => [](CheckerInv /\ OnlyDownstream)
<1>1. CheckerInit => OnlyDownstream
  BY InitDownstream DEF CheckerInit
<1>2. OnlyDownstream /\ [CheckerNext]_checkerVars => OnlyDownstream'
  <2>1. [CheckerNext]_checkerVars => [Next]_vars
    BY DEF CheckerNext, Analyse, CheckEgress, checkerVars, vars
  <2>2. QED
    BY <2>1, StepDownstream
<1>3. QED
  BY <1>1, <1>2, CheckerInvariant, PTL DEF CheckerSpec

-----------------------------------------------------------------------------
\* The results of an operation are downstream of it, and so is what is
\* computed from them.
LEMMA DownstreamClosed ==
  ASSUME NEW op \in module.ops
  PROVE  /\ Results(module, op) \subseteq Downstream(op)
         /\ IsClosedDownstream(Downstream(op))
<1>1. \A o \in module.ops : Results(module, o) \subseteq ValueNodes(module)
  BY DEF ValueNodes
<1>2. Results(module, op) \subseteq Downstream(op)
  BY <1>1 DEF Downstream
<1>3. ASSUME NEW o \in module.ops, NEW u \in InputValues(module, o), u \in Downstream(op),
             NEW v \in Results(module, o)
      PROVE  v \in Downstream(op)
  BY <1>1, <1>3 DEF Downstream, IsClosedDownstream
<1>4. QED
  BY <1>2, <1>3 DEF IsClosedDownstream

\* Nothing else is.
LEMMA DownstreamLeast ==
  ASSUME NEW op \in module.ops, NEW S, Results(module, op) \subseteq S, IsClosedDownstream(S)
  PROVE  Downstream(op) \subseteq S
<1> DEFINE X == S \cap ValueNodes(module)
<1>1. Results(module, op) \subseteq X
  BY DEF ValueNodes
<1>2. IsClosedDownstream(X)
  BY DEF IsClosedDownstream, ValueNodes
<1>3. X \in SUBSET ValueNodes(module)
  OBVIOUS
<1> HIDE DEF X
<1>4. Downstream(op) \subseteq X
  BY <1>1, <1>2, <1>3 DEF Downstream
<1>5. QED
  BY <1>4 DEF X

\* op has something to work on, and yet a result is bottom.
IsStuck(op) ==
  /\ op \in module.ops
  /\ module.inputs[op] = <<>> \/ \E v \in InputValues(module, op) : CurrentState(v) # Bottom
  /\ \E v \in Results(module, op) : CurrentState(v) = Bottom

\* An operation that has an input and still computes bottom for an output
\* has a rule that waits for an input that is bottom: no other rule turns a
\* state into bottom.
LEMMA StuckWaits ==
  ASSUME TaintInv, pc = "done", NEW op, IsStuck(op)
  PROVE  \E v \in AwaitedInputs(op) : CurrentState(v) = Bottom
<1> SUFFICES ASSUME \A v \in AwaitedInputs(op) : CurrentState(v) # Bottom PROVE FALSE
  OBVIOUS
<1> DEFINE R == module.rules[op]
           n == Len(module.inputs[op])
           x == InputStates(op)
           a == ApplyDefaultOperationTransformer(x)
           S == Outcome \ {Bottom}
<1>1. op \in module.ops
  BY DEF IsStuck
<1>2. /\ n \in Nat /\ DOMAIN module.inputs[op] = 1 .. n /\ x \in Inputs(n)
      /\ module.inputs[op] = <<>> <=> n = 0
      /\ OperationRules(R, module.outputs[op], n)
      /\ \A j \in 1 .. n : x[j] = CurrentState(module.inputs[op][j])
  BY <1>1, RulesTyped
<1>3. PICK i \in 1 .. module.outputs[op] : CurrentState(<<op, i>>) = Bottom
  BY DEF IsStuck, Results
<1> DEFINE out == OutputState(R, i, x)
<1>4. out = Bottom
  <2>1. out \in AbstractState /\ Leq(out, Bottom)
    BY <1>1, <1>3, DoneSolved
  <2> HIDE DEF out
  <2>2. Bottom \in AbstractState
    BY DEF AbstractState
  <2>3. QED
    BY <2>1, <2>2, LeqIsInclusion
<1>5. a \in AbstractState /\ a # Bottom
  <2>1. n = 0 \/ \E j \in 1 .. n : x[j] # Bottom
    BY <1>2 DEF IsStuck, InputValues
  <2>2. QED
    BY <1>2, <2>1, DefaultTyped, DefaultSecrecy
<1>6. i \in DOMAIN R /\ ApplyOutputRules(R[i], x, a) = Bottom
  BY <1>4, <1>5 DEF OutputState
<1>7. AreRules(R[i], n)
  BY <1>2, <1>6 DEF OperationRules
<1>8. \A k \in 1 .. Len(R[i]) : AwaitedBy(op, R[i][k]) \subseteq AwaitedInputs(op)
  BY <1>6, <1>7 DEF AreRules, AwaitedInputs, ToSet
<1>9. ASSUME NEW k \in 1 .. Len(R[i]), NEW b \in S
      PROVE  InterpretInferenceRule(R[i][k], x, b) \in S
  <2> DEFINE r == R[i][k]
             c == r.conclusion
             o == InterpretInferenceRule(r, x, b)
  <2>1. IsRule(r, n) /\ b \in Outcome /\ o \in Outcome
    BY <1>2, <1>7, RuleTyped DEF AreRules
  <2>2. CASE b = CheckFailure \/ ~PremisesHold(r, x)
    BY <2>2, InterpretIs
  <2>3. CASE ~(b = CheckFailure \/ ~PremisesHold(r, x))
    <3>1. b \in AbstractState /\ b # Bottom
      BY <2>3 DEF Outcome
    <3>2. CASE c.type = "CopyInput" /\ c.index \in 1 .. n
      <4>1. o = x[c.index]
        BY <2>3, <3>2, InterpretIs
      <4>2. module.inputs[op][c.index] \in AwaitedInputs(op)
        BY <1>2, <1>8, <3>2 DEF AwaitedBy
      <4>3. x[c.index] # Bottom
        BY <1>2, <3>2, <4>2
      <4>4. QED
        BY <2>1, <4>1, <4>3
    <3>3. CASE /\ c.type = "ModifyTag" /\ c.tag \in Tag
               /\ c.kind \in {"kAddIntegrity", "kRemoveSecrecy", "kAddSecrecy"}
      <4>1. o = InterpretModifyTag(c, b)
        BY <2>3, <3>3, InterpretIs
      <4>2. o # Bottom
        BY <3>1, <3>3, <4>1, ModifyTyped
      <4>3. QED
        BY <2>1, <4>2
    <3>4. CASE c.type = "MergeIntegrityTags"
      <4>1. o = InterpretMergeIntegrityTags(c, x, b)
        BY <2>3, <3>4, InterpretIs
      <4>2. \A j \in 1 .. n : module.inputs[op][j] \in AwaitedInputs(op)
        BY <1>2, <1>8, <3>4 DEF AwaitedBy
      <4>3. \A j \in 1 .. n : x[j] # Bottom
        BY <1>2, <4>2
      <4>4. o # Bottom
        <5>1. CASE ~(c.indices \subseteq 1 .. n)
          <6>1. o = CheckFailure
            BY <1>2, <3>1, <4>1, <4>3, <5>1, MergeIs
          <6>2. QED
            BY <6>1, CheckFailureAssumption DEF AbstractState
        <5>2. CASE c.indices \subseteq 1 .. n
          <6> DEFINE merged == InterpretMergeIntegrityTags(c, x, b)
          <6>0. /\ merged = MakeTags(b.secrecy, MergedIntegrity(c, x))
                /\ MergedIntegrity(c, x) \in SUBSET Tag
            <7> HIDE DEF x, c, merged
            <7>1. x \in Inputs(n) /\ n \in Nat  BY <1>2
            <7> HIDE DEF n
            <7> QED  BY <3>1, <4>3, <5>2, <7>1, MergeIs DEF merged
          <6>1. o = MakeTags(b.secrecy, MergedIntegrity(c, x)) /\ MergedIntegrity(c, x) \in SUBSET Tag
            BY <4>1, <6>0
          <6>2. b.secrecy \in SUBSET Tag
            BY <3>1, TagsTyped
          <6> HIDE DEF o, c, r, x
          <6>3. QED
            BY <6>1, <6>2, MakeTagsTyped
        <5>3. QED
          BY <5>1, <5>2
      <4>5. QED
        BY <2>1, <4>4
    <3>5. QED
      BY <1>2, <2>1, <3>2, <3>3, <3>4, RuleFields
  <2>4. QED
    BY <2>2, <2>3
<1>10. a \in S /\ Len(R[i]) \in Nat
  BY <1>5, <1>7 DEF Outcome, AreRules
<1> HIDE DEF S, a, R, x
<1>11. RefinedByRules(R[i], x, S, a)
  BY <1>9, <1>10, OutputRulesExist
<1>12. ApplyOutputRules(R[i], x, a) \in S
  BY <1>10, <1>11 DEF RefinedByRules
<1>13. QED
  BY <1>6, <1>12 DEF S

\* A value that has an entry and is bottom lies downstream of an operation
\* that is stuck.
LEMMA BottomIsDownstream ==
  ASSUME CheckerInv, OnlyDownstream, NEW v \in DOMAIN valueStates, CurrentState(v) = Bottom
  PROVE  \E op : IsStuck(op) /\ v \in Downstream(op)
<1> DEFINE X == {w \in ValueNodes(module) :
                   CurrentState(w) # Bottom \/ \E op : IsStuck(op) /\ w \in Downstream(op)}
<1>1. \A op \in module.ops : Results(module, op) \subseteq ValueNodes(module)
  BY DEF ValueNodes
<1>2. ASSUME NEW w \in ValueNodes(module) \cap EntryValue PROVE w \in X
  <2>1. CurrentState(w) # Bottom
    BY MakeTagsTyped DEF CheckerInv, EntryStates, GetInitialState
  <2>2. QED
    BY <2>1
<1>3. ASSUME NEW op \in module.ops, module.inputs[op] = <<>>, NEW w \in Results(module, op) PROVE w \in X
  <2>1. CurrentState(w) = Bottom => IsStuck(op)
    BY <1>3 DEF IsStuck
  <2>2. QED
    BY <1>1, <2>1, DownstreamClosed
<1>4. ASSUME NEW op \in module.ops, NEW u \in InputValues(module, op), u \in X,
             NEW w \in Results(module, op)
      PROVE  w \in X
  <2>1. CASE CurrentState(w) # Bottom
    BY <1>1, <2>1
  <2>2. CASE CurrentState(w) = Bottom /\ CurrentState(u) # Bottom
    <3>1. IsStuck(op)
      BY <2>2 DEF IsStuck
    <3>2. QED
      BY <1>1, <3>1, DownstreamClosed
  <2>3. CASE CurrentState(u) = Bottom
    <3>1. PICK o : IsStuck(o) /\ u \in Downstream(o)
      BY <1>4, <2>3
    <3>2. w \in Downstream(o)
      BY <3>1, DownstreamClosed DEF IsStuck, IsClosedDownstream
    <3>3. QED
      BY <1>1, <3>1, <3>2
  <2>4. QED
    BY <2>1, <2>2, <2>3
<1>5. HasSources(X) /\ IsClosedDownstream(X) /\ X \in SUBSET ValueNodes(module)
  BY <1>2, <1>3, <1>4 DEF HasSources, IsClosedDownstream
<1>6. v \in X
  <2> HIDE DEF X
  <2>1. QED
    BY <1>5 DEF OnlyDownstream
<1>7. QED
  BY <1>6

\* The operations a value lies downstream of.
Upstream(v) == {op \in module.ops : v \in Downstream(op)}

\* If the check fails on a bottom entry, follow what is waited for upstream:
\* the value with the fewest operations upstream among those that are bottom
\* cannot wait for another one.
LEMMA StuckOperation == CheckerInv /\ OnlyDownstream => DiesOnlyOnStuckOperation
<1> SUFFICES ASSUME CheckerInv, OnlyDownstream, verdict = "died",
                    \A op \in module.ops : \A v \in AwaitedInputs(op) :
                      v \in DOMAIN valueStates /\ v \notin Downstream(op)
             PROVE  FALSE
  BY DEF DiesOnlyOnStuckOperation
<1> DEFINE B == {v \in DOMAIN valueStates : valueStates[v] = Bottom}
           N == {Cardinality(Upstream(v)) : v \in B}
<1>1. TaintInv /\ pc = "done" /\ B # {}
  BY DEF CheckerInv, VerdictFits
<1>2. \A v : v \in B <=> v \in DOMAIN valueStates /\ CurrentState(v) = Bottom
  BY DEF CurrentState, FirstVisit
<1> HIDE DEF B
<1>3. IsFiniteSet(module.ops)
  BY <1>1, EgressAssumption DEF TaintInv, Loop!CompleteInv, Loop!TypeInv
<1>4. \A v : IsFiniteSet(Upstream(v)) /\ Cardinality(Upstream(v)) \in Nat
  <2>1. \A v : Upstream(v) \in SUBSET module.ops
    BY DEF Upstream
  <2>2. QED
    BY <1>3, <2>1, FS_Subset, FS_CardinalityType
<1>5. PICK v \in B : \A w \in B : Cardinality(Upstream(v)) <= Cardinality(Upstream(w))
  <2>1. N \subseteq Nat /\ N # {}
    BY <1>1, <1>4
  <2>2. PICK m \in N : \A k \in N : m <= k
    <3> HIDE DEF N
    <3>1. QED
      BY <2>1, LeastNatural
  <2>3. QED
    BY <2>2
<1>6. PICK op : IsStuck(op) /\ v \in Downstream(op)
  BY <1>2, BottomIsDownstream
<1>7. op \in module.ops
  BY <1>6 DEF IsStuck
<1>8. PICK w \in AwaitedInputs(op) : CurrentState(w) = Bottom
  BY <1>1, <1>6, StuckWaits
<1>9. w \in B /\ w \notin Downstream(op)
  BY <1>2, <1>7, <1>8
<1>10. w \in InputValues(module, op)
  BY <1>8 DEF AwaitedInputs, AwaitedBy, InputValues
<1>11. Upstream(w) \subseteq Upstream(v)
  <2> SUFFICES ASSUME NEW o \in module.ops, w \in Downstream(o) PROVE v \in Downstream(o)
    BY DEF Upstream
  <2>1. IsClosedDownstream(Downstream(o))
    BY DownstreamClosed
  <2>2. Results(module, op) \subseteq Downstream(o)
    BY <1>7, <1>10, <2>1 DEF IsClosedDownstream
  <2>3. Downstream(op) \subseteq Downstream(o)
    BY <1>7, <2>1, <2>2, DownstreamLeast
  <2>4. QED
    BY <1>6, <2>3
<1>12. op \in Upstream(v) /\ op \notin Upstream(w)
  BY <1>6, <1>7, <1>9 DEF Upstream
<1>13. Cardinality(Upstream(w)) <= Cardinality(Upstream(v)) /\ Cardinality(Upstream(v)) # Cardinality(Upstream(w))
  BY <1>4, <1>11, <1>12, FS_Subset
<1>14. QED
  BY <1>4, <1>5, <1>9, <1>13

\* The CHECK in HasNoSecrecy fails only for a module in which an operation
\* waits for a value that is never reached or that lies downstream of the
\* operation itself: for every module and all rules, monotone or not.
THEOREM DiesOnlyOnStuck == CheckerSpec => []DiesOnlyOnStuckOperation
  BY StuckOperation, DownstreamInvariant, PTL
=============================================================================
