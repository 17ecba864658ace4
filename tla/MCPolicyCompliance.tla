------------------------ MODULE MCPolicyCompliance ------------------------
(***************************************************************************)
(* The policy engine with queries of up to three expressions, well formed  *)
(* and not, and queries of six in which two values are tagged, merged and  *)
(* the tag of one is removed; and the command on every combination of a    *)
(* few files and parameters.  Two steps of a check may fail; the directory *)
(* of a call that died, with its facts, is still there.                    *)
(***************************************************************************)
EXTENDS PolicyCompliance, SqlPolicyVerifier, DpBudget

-----------------------------------------------------------------------------
(***************************************************************************)
(* The programs: the SQL ones are SqlPolicyVerifier, that of differential  *)
(* privacy is DpPolicyVerifier.  An authorization logic program has, as    *)
(* far as these instances use it, one verdict.                             *)
(***************************************************************************)
MCReads ==
  "sql_policy_verifier" :> {"isOperation", "isSqlPolicyRule"} @@
  "datalog_policy_verifier" :> {"isOperation", "isSqlPolicyRule"} @@
  "dp_policy_verifier" :> {"isOperation", "isDPParameter"} @@
  "passing_auth_dp" :> {"isOperation", "isDPParameter"} @@
  "failing_auth" :> {"isOperation", "isSqlPolicyRule"}

MCNumber == "1" :> 1 @@ "2" :> 2 @@ "9" :> 9 @@ "10" :> 10
Limits(facts, name) == {l \in ToSet(facts["isDPParameter"]) : name \in DOMAIN l}
MCSqlOperators ==
  {"sql.tag_transform", "sql.group_by", "sql.where", "sql.select", "sql.join", "sql.literal",
   "sql.sum", "sql.sql_output"}

MCViolates(engine, facts) ==
  CASE engine \in {"sql_policy_verifier", "datalog_policy_verifier"} ->
         ViolatesPolicy(ToSet(facts["isOperation"]), ToSet(facts["isSqlPolicyRule"]))
    [] engine = "dp_policy_verifier" ->
         ViolatesDpPolicy(ToSet(facts["isOperation"]),
                          {MCNumber[l.epsilonValue] : l \in Limits(facts, "epsilonValue")},
                          {MCNumber[l.deltaValue] : l \in Limits(facts, "deltaValue")})
    [] engine = "failing_auth" -> TRUE
    [] OTHER -> FALSE

-----------------------------------------------------------------------------
Columns == {SourceTableColumn("c"), SourceTableColumn("")}
Literals == {Literal("l"), Literal("")}
Preconditions == {<<>>, "p" :> 1, "p" :> 1 @@ "q" :> 2, "rule_name" :> 1}

Leaves == {SourceTableColumn("c"), SourceTableColumn("d"), Literal("l")}
Middle == {SourceTableColumn("c"), TagTransform(1, "secret", <<>>), TagTransform(1, "other", "p" :> 1)}
Expressions ==
  {VariantNotSet} \cup Columns \cup Literals
  \cup {MergeOperation(in, control) : in \in {<<>>, <<1>>, <<2>>, <<1, 1>>, <<1, 2>>, <<0>>},
                                      control \in {<<>>, <<2>>, <<1, 2>>}}
  \cup {TagTransform(node, rule, pre) : node \in {0, 1, 2}, rule \in {"", "secret", "other"},
                                        pre \in Preconditions}

Pairs(ids, exprs) == {IdExpressionPair(id, e) : id \in ids, e \in exprs}

Arenas ==
  {<<>>}
  \cup {<<x>> : x \in Pairs({0, 1}, Expressions)}
  \cup {<<x, y>> : x \in Pairs({0, 1}, {SourceTableColumn("c")}), y \in Pairs({1, 2}, Expressions)}
  \cup {<<x, y, z>> : x \in Pairs({1}, Leaves), y \in Pairs({2, 0}, Middle),
                      z \in Pairs({2, 3}, Expressions)}

Special == {UnionItagRuleName, IntersectItagRuleName}
Pipelines ==
  {<<IdExpressionPair(1, SourceTableColumn("c")),
     IdExpressionPair(2, TagTransform(1, "secret", <<>>)),
     IdExpressionPair(3, TagTransform(checked, "checked", <<>>)),
     IdExpressionPair(4, MergeOperation(merged[1], merged[2])),
     IdExpressionPair(5, TagTransform(4, rule, <<>>)),
     IdExpressionPair(6, TagTransform(node, "remove", "p" :> p @@ "q" :> q))>> :
     checked \in {1, 2}, merged \in {<<<<2, 3>>, <<>>>>, <<<<3>>, <<2>>>>},
     rule \in Special \cup {"checked"}, node \in {2, 4, 5}, p \in {2, 3, 4, 5}, q \in {3, 5}}

AddsSecrecy(name) == SqlPolicyRule(name, SqlPolicyRuleResult("AddConfidentialityTag", "c"), <<>>)
MCRules ==
  <<AddsSecrecy("other"), AddsSecrecy("secret"),
    SqlPolicyRule("checked", SqlPolicyRuleResult("AddIntegrityTag", "i"), <<>>),
    SqlPolicyRule("remove", SqlPolicyRuleResult("RemoveConfidentialityTag", "c"),
                  <<SqlPolicyRulePrecondition("q", "i"), SqlPolicyRulePrecondition("p", "i")>>)>>

MCQueries ==
  {[arena |-> a, policy |-> SqlPolicyRulePolicy(rules)] :
     a \in Arenas, rules \in {<<>>, MCRules}}
  \cup {[arena |-> a, policy |-> SqlPolicyRulePolicy(MCRules)] : a \in Pipelines}

-----------------------------------------------------------------------------
Op(operator, operands, result) == IsOperationFact(Operation(operator, <<>>, operands), result)
Mechanism(attributes, operand, result) ==
  IsOperationFact(Operation("privacy_mechanism", attributes, <<operand>>), result)

Input == Op("core.input", <<>>, "%0")
Secret == IsOperationFact(Operation("sql.tag_transform", "rule_name" :> "secret", <<"%0">>), "%1")
OutputOf(value) == IsOperationFact(SqlOutputOp(value), "%9")

\* Two inputs are transformed, joined or selected from, given noise, summed
\* up and put out; some have a second output, or noise at a second place.
Second == <<Op("core.input", <<>>, "%1"), Op("sql.literal", <<>>, "%1")>>
First == <<Op("sql.group_by", <<"%0">>, "%2"), Op("sql.where", <<"%0">>, "%2")>>
Join(v, w) == IsOperationFact(Operation("sql.join", "join_type" :> "INNER", <<v, w>>), "%4")
Both ==
  <<Op("sql.select", <<"%2", "%3">>, "%4"), Op("sql.select", <<"%1", "%2">>, "%4"),
    Op("sql.group_by", <<"%2">>, "%4"), Join("%2", "%1"), Join("%2", "%3")>>
Noise ==
  <<Op("sql.where", <<"%4">>, "%5"), Mechanism(<<>>, "%4", "%5"),
    Mechanism("epsilon" :> 1, "%4", "%5"), Mechanism("epsilon" :> 3, "%4", "%5"),
    Mechanism("epsilon" :> 1 @@ "kappa" :> 3, "%4", "%5"),
    Mechanism("epsilon" :> 2 @@ "delta" :> 2, "%4", "%5")>>
Rest ==
  <<<<>>, <<Op("sql.sql_output", <<"%5">>, "%7")>>,
    <<Mechanism("epsilon" :> 1, "%0", "%7"), Op("sql.sql_output", <<"%7">>, "%8")>>,
    <<Mechanism("epsilon" :> 1 @@ "delta" :> 1, "%5", "%7"),
      Op("sql.sql_output", <<"%7">>, "%8")>>>>

DpChoices == (DOMAIN Second) \X (DOMAIN First) \X (DOMAIN Both) \X (DOMAIN Noise) \X (DOMAIN Rest)
DpName(c) == "dp" \o ToString(c)
DpModule(c) ==
  <<Input, Second[c[1]], First[c[2]], Op("sql.group_by", <<"%1">>, "%3"), Both[c[3]], Noise[c[4]],
    Op("sql.sum", <<"%5">>, "%6"), OutputOf("%6")>> \o Rest[c[5]]

Facts(facts) == [kind |-> "facts", facts |-> facts]
DpContents ==
  [name \in {DpName(c) : c \in DpChoices} |->
     Facts(DpModule(CHOOSE c \in DpChoices : DpName(c) = name))]

MCContents ==
  "module" :> Facts(<<Input, Secret, Mechanism("epsilon" :> 10, "%1", "%2"), OutputOf("%2")>>) @@
  "module without a secret" :>
    Facts(<<Input, Mechanism("epsilon" :> 10, "%0", "%1"), OutputOf("%1")>>) @@
  "no unit" :> [kind |-> "error"] @@
  "no module" :> [kind |-> "malformed"] @@
  "rules" :> Facts(MCRules) @@
  "no rules" :> Facts(<<>>) @@
  DpContents

Graphs == {"", "module", "module without a secret", "no unit", "no module", "no file"}
MCCommands ==
  [ir : Graphs, proto : Graphs,
   sql_policy_rules : {"", "rules", "no rules", "no file"},
   policy_engine : {"", "passing_auth_dp", "failing_auth", "not linked"},
   epsilon_dp_parameter : {"", "9", "10"}, delta_dp_parameter : {"", "1"}]
  \cup {[NoFlags EXCEPT !.ir = DpName(c), !.epsilon_dp_parameter = epsilon,
                        !.delta_dp_parameter = "1"] :
           c \in DpChoices, epsilon \in {"2", "9"}}

MCLeftovers ==
  "AAAAAA" :> ("isOperation" :> <<Input, Secret, OutputOf("%1")>> @@ "isSqlPolicyRule" :> MCRules)
MCDirectoryNames == {"AAAAAA", "BBBBBB"}

\* A call that is over has nothing more to do.
Ended == phase = "end" /\ UNCHANGED vars
MCSpec == Init /\ [][Next \/ Ended]_vars

(***************************************************************************)
(* What verify says of a query is decided by the query: with nothing lost  *)
(* on the way, it is compliant iff the last expression has no secret (and  *)
(* never if there is no directory to check it in).  A transform has the    *)
(* secrets of what it transforms, and changes them if the arguments its    *)
(* policy rule names have their integrity tags; a merge has the secrets of *)
(* all it merges, and no integrity unless a special transform asks for     *)
(* that of the direct inputs.                                              *)
(***************************************************************************)
Where(id) == CHOOSE i \in DOMAIN arena : arena[i].id = id
RulesFor(expr) == {r \in ToSet(policy.facts) : r.name = expr.rule}

IsWrapped(i, rule) ==
  \E pair \in ToSet(arena) : /\ pair.expression.variant = "transform"
                             /\ pair.expression.node = arena[i].id /\ pair.expression.rule = rule

Effect(expr, kind, integrity) ==
  {r.result.tag : r \in {q \in RulesFor(expr) :
     /\ q.result.kind = kind
     /\ \A p \in ToSet(q.preconditions) :
          /\ p.name \in DOMAIN expr.preconditions
          /\ p.tag \in integrity[Where(expr.preconditions[p.name])]}}

Integrity ==
  LET integrity[i \in DOMAIN arena] ==
        LET expr == arena[i].expression
            Inputs == {integrity[Where(id)] : id \in ToSet(expr.inputs)}
        IN  CASE expr.variant = "merge" ->
                   {t \in UNION Inputs : \/ IsWrapped(i, UnionItagRuleName)
                                         \/ /\ IsWrapped(i, IntersectItagRuleName)
                                            /\ \A tags \in Inputs : t \in tags}
              [] expr.variant = "transform" ->
                   integrity[Where(expr.node)] \cup Effect(expr, "AddIntegrityTag", integrity)
              [] OTHER -> {}
  IN  integrity

Secrets ==
  LET integrity == Integrity
      secrets[i \in DOMAIN arena] ==
        LET expr == arena[i].expression
        IN  CASE expr.variant = "merge" ->
                   UNION {secrets[Where(id)] : id \in Children(expr)}
              [] expr.variant = "transform" ->
                   (secrets[Where(expr.node)]
                      \ Effect(expr, "RemoveConfidentialityTag", integrity))
                   \cup Effect(expr, "AddConfidentialityTag", integrity)
              [] OTHER -> {}
  IN  secrets

VerifyJudgesQuery ==
  client = "verify" /\ checking = "answered" /\ NothingLost =>
    (answer <=> Secrets[Len(arena)] = {} /\ "create" \notin troubles)

(***************************************************************************)
(* An exit status of 0 for a differential privacy policy means that the    *)
(* mechanisms on the way from an input to the outputs keep to epsilon and  *)
(* delta, and 1 that there is a reason for it.  It says nothing of routes  *)
(* around every mechanism, of what literals and the like contribute to,    *)
(* and of sums that wrap around: see IsNoisy and IsMeasured in DpBudget.   *)
(***************************************************************************)
BudgetIsKept ==
  /\ client = "command" /\ phase = "end" /\ NothingLost /\ policy.engine = "dp_policy_verifier"
  /\ exitStatus = 0 \/ (exitStatus = 1 /\ checking = "answered" /\ "create" \notin troubles)
  => JudgedByBudget(ToSet(moduleFacts), MCNumber[flags.epsilon_dp_parameter],
                    MCNumber[flags.delta_dp_parameter], exitStatus = 0)
=============================================================================
