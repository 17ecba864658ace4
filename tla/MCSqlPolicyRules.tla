-------------------------- MODULE MCSqlPolicyRules --------------------------
(***************************************************************************)
(* Queries of three operations: a merge or another operation, and two tag  *)
(* transforms of it, special ones and ones with rules that may be used     *)
(* twice with different positions of their arguments; policies and seed    *)
(* tags with and without duplicates.  And queries in which two values are  *)
(* tagged, merged, perhaps specially, or one confirmed if it is checked,   *)
(* and the tag of one is removed if others have integrity, or one added.   *)
(***************************************************************************)
EXTENDS SqlPolicyBackends

CONSTANT EntryA

MCTagName == {"t1", "t2"}
MCTag == 0 .. 2
MCRuleName == {"R", "S", "secret", "checked", "confirm", "adjust"}

First == <<1, 1>>
Heads == {MergeOp(<<EntryA, EntryA>>, 1), MergeOp(<<EntryA, EntryA>>, 2), OtherOp(<<EntryA>>)}
NoArguments == <<>>
Specials ==
  {TagTransformOp(rule, inputs, NoArguments) :
     rule \in SpecialRules, inputs \in {<<First>>, <<EntryA>>, <<First, EntryA>>}}
Arguments ==
  {"a" :> 1 @@ "b" :> 2, "a" :> 2 @@ "b" :> 1, "a" :> 1,
   "a" :> 0 @@ "b" :> 1, "a" :> 1 @@ "b" :> 3}
Transforms ==
  {TagTransformOp(rule, <<First, EntryA, EntryA>>, arguments) :
     rule \in {"R", "S"}, arguments \in Arguments}
  \cup {TagTransformOp("S", inputs, NoArguments) : inputs \in {<<>>, <<First>>}}

Precondition(argument, tag) == [argument |-> argument, tag |-> tag]
Rule(name, preconditions, action, tag) ==
  [name |-> name, preconditions |-> preconditions, action |-> action, tag |-> tag]
RuleR ==
  Rule("R", <<Precondition("b", "t2"), Precondition("a", "t1")>>, "ADD_CONFIDENTIALITY", "t2")
RulesS == {Rule("S", <<>>, "REMOVE_CONFIDENTIALITY", "t1"),
           Rule("S", <<Precondition("a", "t1")>>, "ADD_INTEGRITY", "t2"),
           Rule("S", <<>>, "UNKNOWN", "t1")}
Policies == {<<RuleR>>, <<RuleR, RuleR>>} \cup {<<RuleR, s>> : s \in RulesS}

Decodings ==
  {[code |-> <<h, x, y>>, policy |-> policy, seeds |-> seeds] :
     h \in Heads, x \in Specials \cup Transforms, y \in Specials \cup Transforms,
     policy \in Policies, seeds \in {<<>>, <<"t2">>, <<"t1", "t1">>}}

-----------------------------------------------------------------------------
Result(k) == <<k, 1>>
Tagging(rule, v) == TagTransformOp(rule, <<v>>, NoArguments)
Adjustment(inputs, arguments) == TagTransformOp("adjust", inputs, arguments)

BothChecked == <<Precondition("a", "t2"), Precondition("b", "t2")>>
FlowPolicies ==
  {<<Rule("secret", <<>>, "ADD_CONFIDENTIALITY", "t1"),
     Rule("checked", <<>>, "ADD_INTEGRITY", "t2"),
     Rule("confirm", <<Precondition("a", "t2")>>, "ADD_INTEGRITY", "t2"), adjust>> :
     adjust \in {Rule("adjust", BothChecked, "REMOVE_CONFIDENTIALITY", "t1"),
                Rule("adjust", Tail(BothChecked), "REMOVE_CONFIDENTIALITY", "t1"),
                Rule("adjust", <<>>, "ADD_CONFIDENTIALITY", "t2")}}

Flows ==
  {[code |-> <<Tagging("secret", EntryA), Tagging("checked", v), MergeOp(merged, start),
               between, Adjustment(<<z, x, y>>, "a" :> 1 @@ "b" :> 2)>>,
    policy |-> policy, seeds |-> <<>>] :
     v \in {EntryA, Result(1)},
     merged \in {<<Result(1), Result(2)>>, <<Result(2), Result(1)>>, <<Result(2), Result(2)>>},
     start \in 0 .. 3,
     between \in {Tagging(UnionItagRule, Result(3)), Tagging(IntersectItagRule, Result(3)),
                  Tagging("checked", Result(3)), OtherOp(<<Result(2)>>),
                  TagTransformOp("confirm", <<Result(3), Result(2)>>, "a" :> 1)},
     z \in {Result(1), Result(3), Result(4)},
     x \in {Result(2), Result(3), Result(4)}, y \in {Result(1), Result(2), Result(3), Result(4)},
     policy \in FlowPolicies}

MCQueries == Decodings \cup Flows
=============================================================================
