--------------------------- MODULE SqlPolicyRules ---------------------------
(***************************************************************************)
(* DecodeSqlPolicyRules (src/frontends/sql/decode_sql_policy_rules.cc) and *)
(* the InferenceRulesBuilder it fills: from the policy rules of a query    *)
(* and the sql.tag_transform and sql.merge operations of its module to the *)
(* inference rules of operations.  The operations of the module's blocks   *)
(* are visited once, in their order.                                       *)
(*                                                                         *)
(* The argument of the call is a record: the operations (code, named by    *)
(* their positions), the policy rules, and the seed tags.                  *)
(***************************************************************************)
EXTENDS AbstractSemantics, Naturals, FiniteSets

CONSTANTS
  TagName,     \* the names of tags; TagIds count from 0
  RuleName,    \* the names of policy rules, special ones apart
  Queries      \* the arguments DecodeSqlPolicyRules may be called with

UnionItagRule == "##raksha_internal#union_itag_rule"
IntersectItagRule == "##raksha_internal#intersect_itag_rule"
SpecialRules == {UnionItagRule, IntersectItagRule}

(***************************************************************************)
(* The operations: an input is the result <<op, 1>> of an operation or     *)
(* some other value; the arguments of a transform are attributes that name *)
(* inputs, counting from 0.                                                *)
(***************************************************************************)
TagTransformOp(rule, inputs, arguments) ==
  [operator |-> "sql.tag_transform", rule |-> rule, inputs |-> inputs,
   arguments |-> arguments]
MergeOp(inputs, start) ==
  [operator |-> "sql.merge", inputs |-> inputs, controlInputStart |-> start]
OtherOp(inputs) == [operator |-> "other", inputs |-> inputs]

\* The values of the fields that decoding reads; the tables are keyed by names.
IsSequence(s) == s \in Seq(ToSet(s))

IsOperation(op) ==
  /\ IsSequence(op.inputs)
  /\ op.operator = "sql.tag_transform" =>
       op.rule \in RuleName \cup SpecialRules /\ op.arguments \in [DOMAIN op.arguments -> Nat]
  /\ op.operator = "sql.merge" => op.controlInputStart \in Nat

IsPolicyRule(r) ==
  /\ r.tag \in TagName
  /\ r.action \in {"ADD_CONFIDENTIALITY", "REMOVE_CONFIDENTIALITY", "ADD_INTEGRITY", "UNKNOWN"}
  /\ IsSequence(r.preconditions)
  /\ \A p \in ToSet(r.preconditions) : p.tag \in TagName

ASSUME QueriesAssumption ==
  \A q \in Queries :
    /\ q.seeds \in Seq(TagName)
    /\ IsSequence(q.code) /\ \A op \in ToSet(q.code) : IsOperation(op)
    /\ IsSequence(q.policy) /\ \A r \in ToSet(q.policy) : IsPolicyRule(r)

VARIABLES
  query,        \* the argument of the call
  next,         \* the position of the next operation
  ruleCounts,   \* rule_counts: how often a rule name has been seen
  tagNames,     \* tag_names_: the name of each TagId
  tags,         \* tags_: the TagId of each name
  actions,      \* actions_: the action an operation is marked as
  actionRules,  \* action_rules_: the rules of the output of an action
  pc            \* "decode", then "done" or "died" (a CHECK failed)

builder == <<tagNames, tags, actions, actionRules>>
vars == <<query, next, ruleCounts, tagNames, tags, actions, actionRules, pc>>

Operations == DOMAIN query.code
Code(k) == query.code[k]
IsOperationResult(v) == v \in {<<k, 1>> : k \in Operations}
IsSpecial(k) == Code(k).operator = "sql.tag_transform" /\ Code(k).rule \in SpecialRules
IsOrdinary(k) == Code(k).operator = "sql.tag_transform" /\ Code(k).rule \notin SpecialRules
PolicyRule(name) == CHOOSE r \in ToSet(query.policy) : r.name = name

-----------------------------------------------------------------------------

With(f, x, y) == [z \in DOMAIN f \cup {x} |-> IF z = x THEN y ELSE f[z]]

\* Faulty: the name is remembered whether it is new or not.
NameAlways(tables, name) ==
  [names |-> Append(tables.names, name),
   ids |-> tables.ids @@ (name :> Cardinality(DOMAIN tables.ids))]

\* A name that is new gets the next id, and is remembered under it.
GetOrCreateTagId(tables, name) ==
  IF name \in DOMAIN tables.ids THEN tables
  ELSE [names |-> Append(tables.names, name),
        ids |-> With(tables.ids, name, Cardinality(DOMAIN tables.ids))]

SeedTables(seeds) ==
  [names |-> seeds,
   ids |-> [name \in ToSet(seeds) |->
              CHOOSE i \in 0 .. Len(seeds) - 1 : seeds[i + 1] = name]]

\* The tables after the tags of a policy rule were looked up, one by one.
RequiredTags(rule) ==
  Append([i \in DOMAIN rule.preconditions |-> rule.preconditions[i].tag], rule.tag)

TablesAfter(rule) ==
  LET names == RequiredTags(rule)
      tables[i \in 0 .. Len(names)] ==
        IF i = 0 THEN [names |-> tagNames, ids |-> tags]
        ELSE GetOrCreateTagId(tables[i - 1], names[i])
  IN  tables[Len(names)]

\* Faulty: the attribute counts from 0, the inputs here from 1.
PremisesOffByOne(rule, op, ids) ==
  {InputHasIntegrity(op.arguments[p.argument], ids[p.tag]) : p \in ToSet(rule.preconditions)}

Premises(rule, op, ids) ==
  {InputHasIntegrity(op.arguments[p.argument] + 1, ids[p.tag]) :
     p \in ToSet(rule.preconditions)}

ModifyTagKind(action) ==
  CASE action = "ADD_CONFIDENTIALITY" -> "kAddSecrecy"
    [] action = "REMOVE_CONFIDENTIALITY" -> "kRemoveSecrecy"
    [] action = "ADD_INTEGRITY" -> "kAddIntegrity"

\* Copy the transformed value, then modify the tag if the premises hold.
TagTransformRules(rule, op, ids) ==
  <<InferenceRule(CopyInput(1), {}),
    InferenceRule(ModifyTag(ModifyTagKind(rule.action), ids[rule.tag]),
                  Premises(rule, op, ids))>>

\* The integrity of the direct inputs of the merge.
MergeRules(name, merge) ==
  <<InferenceRule(MergeIntegrityTags(IF name = UnionItagRule THEN "kUnion" ELSE "kIntersect",
                                     1 .. merge.controlInputStart), {})>>

\* Faulty: a rule name is used as an action once.
RuleNameAsAction(name, count) == <<name, 0>>

\* Rule names are not unique, positions of arguments differ: number them.
ActionName(name, count) == <<name, count>>

\* GetPreconditionInputIndices: every attribute names an input but the first.
ArgumentsValid(op) ==
  \A a \in DOMAIN op.arguments : op.arguments[a] \in 1 .. Len(op.inputs) - 1

-----------------------------------------------------------------------------
HasDuplicates(seq) == Cardinality(ToSet(seq)) < Len(seq)
DuplicateNames(q) ==
  HasDuplicates(q.seeds) \/ HasDuplicates([i \in DOMAIN q.policy |-> q.policy[i].name])

Init ==
  /\ query \in Queries
  /\ next = 1
  /\ ruleCounts = [name \in RuleName \cup SpecialRules |-> 0]
  /\ tagNames = SeedTables(query.seeds).names
  /\ tags = SeedTables(query.seeds).ids
  /\ actions = <<>> /\ actionRules = <<>>
  /\ pc = IF DuplicateNames(query) THEN "died" ELSE "decode"

IsNext(k) == pc = "decode" /\ k = next
NextAction(k) == ActionName(Code(k).rule, ruleCounts[Code(k).rule])

\* Mark an operation as an action and give the action its rules.
AddAction(op, action, rules) ==
  /\ actions' = With(actions, op, action)
  /\ actionRules' = With(actionRules, action, rules)

Advance(k) ==
  /\ next' = k + 1
  /\ ruleCounts' = IF Code(k).operator = "sql.tag_transform"
                   THEN [ruleCounts EXCEPT ![Code(k).rule] = @ + 1]
                   ELSE ruleCounts
  /\ UNCHANGED <<query, pc>>

\* A special transform gives its rule to the merge that it transforms.
MergeCanBeMarked(k) ==
  /\ Len(Code(k).inputs) = 1
  /\ IsOperationResult(Code(k).inputs[1])
  /\ LET target == Code(k).inputs[1][1]
     IN target \notin DOMAIN actions /\ Code(target).operator = "sql.merge"
  /\ NextAction(k) \notin DOMAIN actionRules

DecodeSpecialTransform(k) ==
  /\ IsNext(k)
  /\ IsSpecial(k) /\ MergeCanBeMarked(k)
  /\ LET target == Code(k).inputs[1][1]
     IN AddAction(target, NextAction(k), MergeRules(Code(k).rule, Code(target)))
  /\ Advance(k)
  /\ UNCHANGED <<tagNames, tags>>

RuleApplies(k) ==
  /\ k \notin DOMAIN actions /\ NextAction(k) \notin DOMAIN actionRules
  /\ \E r \in ToSet(query.policy) : r.name = Code(k).rule
  /\ ArgumentsValid(Code(k)) /\ Code(k).inputs # <<>>
  /\ LET r == PolicyRule(Code(k).rule)
     IN /\ \A p \in ToSet(r.preconditions) : p.argument \in DOMAIN Code(k).arguments
        /\ r.action # "UNKNOWN"

DecodeTransform(k) ==
  /\ IsNext(k)
  /\ IsOrdinary(k) /\ RuleApplies(k)
  /\ LET r == PolicyRule(Code(k).rule)
         tables == TablesAfter(r)
     IN /\ tagNames' = tables.names /\ tags' = tables.ids
        /\ AddAction(k, NextAction(k), TagTransformRules(r, Code(k), tables.ids))
  /\ Advance(k)

SkipOperation(k) ==
  /\ IsNext(k) /\ Code(k).operator # "sql.tag_transform"
  /\ Advance(k)
  /\ UNCHANGED builder

DecodeFails(k) ==
  /\ IsNext(k)
  /\ \/ IsSpecial(k) /\ ~MergeCanBeMarked(k)
     \/ IsOrdinary(k) /\ ~RuleApplies(k)
  /\ pc' = "died"
  /\ UNCHANGED <<query, next, ruleCounts, builder>>

Build ==
  /\ pc = "decode" /\ next > Len(query.code)
  /\ pc' = "done"
  /\ UNCHANGED <<query, next, ruleCounts, builder>>

Next ==
  \/ \E k \in Operations : \/ DecodeSpecialTransform(k) \/ DecodeTransform(k)
                           \/ SkipOperation(k) \/ DecodeFails(k)
  \/ Build

Spec == Init /\ [][Next]_vars

-----------------------------------------------------------------------------
TypeOK ==
  /\ next \in 1 .. Len(query.code) + 1
  /\ ruleCounts \in [RuleName \cup SpecialRules -> 0 .. Len(query.code)]
  /\ tagNames \in Seq(TagName)
  /\ DOMAIN tags \subseteq TagName /\ ToSet(tags) \subseteq 0 .. Len(tagNames) - 1
  /\ DOMAIN actions \subseteq Operations
  /\ \A op \in DOMAIN actions : actions[op] \in DOMAIN actionRules
  /\ pc \in {"decode", "done", "died"}

\* GetTagName and GetTagId are inverse to each other: ids are canonical.
TagTablesAgree ==
  pc # "died" =>
    /\ DOMAIN tags = ToSet(tagNames)
    /\ \A i \in DOMAIN tagNames : tags[tagNames[i]] = i - 1

\* GetOutputRulesForOperation: the rules of an operation, if it has any.
RulesOf(op) == IF op \in DOMAIN actions THEN actionRules[actions[op]] ELSE <<>>

(***************************************************************************)
(* What the rules of every operation must be, read off the whole module:   *)
(* a transform has its policy rule's with its own argument positions,      *)
(* however often the rule is used; a merge has what some special transform *)
(* of it says; nothing else has rules.                                     *)
(***************************************************************************)
Transforming(k) ==
  {j \in Operations : IsSpecial(j) /\ Code(j).inputs[1] = <<k, 1>>}

NamedRule(rule) ==
  LET c == rule.conclusion
  IN  InferenceRule(IF c.type = "ModifyTag" THEN ModifyTag(c.kind, tagNames[c.tag + 1]) ELSE c,
                    {InputHasIntegrity(p.index, tagNames[p.tag + 1]) : p \in rule.premises})

NamedRules(rules) == [i \in DOMAIN rules |-> NamedRule(rules[i])]

IntendedTransform(r, op) ==
  <<InferenceRule(CopyInput(1), {}),
    InferenceRule(ModifyTag(ModifyTagKind(r.action), r.tag),
                  {InputHasIntegrity(op.arguments[r.preconditions[i].argument] + 1,
                                     r.preconditions[i].tag) : i \in DOMAIN r.preconditions})>>

IntendedMerge(rule, merge) ==
  <<InferenceRule(MergeIntegrityTags(
       IF rule = IntersectItagRule THEN "kIntersect" ELSE "kUnion",
       1 .. merge.controlInputStart), {})>>

RulesMatchModule ==
  pc = "done" =>
    \A k \in Operations :
      LET op == Code(k)
          intended ==
            CASE IsOrdinary(k) ->
                   {IntendedTransform(PolicyRule(op.rule), op)}
              [] op.operator = "sql.merge" /\ Transforming(k) # {} ->
                   {IntendedMerge(Code(j).rule, op) : j \in Transforming(k)}
              [] OTHER -> {<<>>}
      IN intended = {NamedRules(RulesOf(k))}

(***************************************************************************)
(* A query that is well formed is never refused: the process dies only     *)
(* because names are not unique, a rule or an argument is missing or out   *)
(* of bounds, or a special transform is not the one transform of a merge.  *)
(***************************************************************************)
WellFormedSpecial(k) ==
  /\ Len(Code(k).inputs) = 1
  /\ \E m \in Operations : /\ Code(k).inputs[1] = <<m, 1>>
                           /\ Code(m).operator = "sql.merge"
                           /\ Transforming(m) = {k}

WellFormedTransform(op) ==
  /\ \E r \in ToSet(query.policy) :
       /\ r.name = op.rule /\ r.action # "UNKNOWN"
       /\ \A p \in ToSet(r.preconditions) : p.argument \in DOMAIN op.arguments
  /\ op.inputs # <<>>
  /\ \A a \in DOMAIN op.arguments : op.arguments[a] \in 1 .. Len(op.inputs) - 1

WellFormed ==
  /\ ~DuplicateNames(query)
  /\ \A k \in Operations : /\ IsSpecial(k) => WellFormedSpecial(k)
                           /\ IsOrdinary(k) => WellFormedTransform(Code(k))

DiesOnlyOnMalformed ==
  /\ pc = "died" => ~WellFormed
  /\ pc = "done" => WellFormed
=============================================================================
