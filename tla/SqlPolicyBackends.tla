------------------------- MODULE SqlPolicyBackends -------------------------
(***************************************************************************)
(* The two policy engines on one query: the inference rules that           *)
(* DecodeSqlPolicyRules makes for the abstract interpretation, and the     *)
(* facts that the Datalog program of the SQL policy verifier reads.  The   *)
(* query is extended by an output of its last operation.                   *)
(***************************************************************************)
EXTENDS SqlPolicyRules, SqlPolicyVerifier

(***************************************************************************)
(* What the decoder makes of a query: an operation reads results of those  *)
(* before it and values that are no results, and has its rule's name next  *)
(* to its arguments.  Rules of policies have names of their own, and there *)
(* is a TagId for each tag.                                                *)
(***************************************************************************)
ReadsEarlier(k, v) ==
  v \in {<<j, 1>> : j \in 1 .. k - 1} \/ v \notin (Nat \X Nat) \cup {ArbitraryComputation}

ASSUME BackendsAssumption ==
  /\ RuleName \cap SpecialRules = {}
  /\ IsFiniteSet(TagName) /\ 0 .. Cardinality(TagName) - 1 \subseteq Tag
  /\ ArbitraryComputation \notin Nat \X Nat
  /\ \A q \in Queries :
       /\ q.code # <<>> /\ \A r \in ToSet(q.policy) : r.name \in RuleName
       /\ \A k \in DOMAIN q.code :
            /\ \A v \in ToSet(q.code[k].inputs) : ReadsEarlier(k, v)
            /\ q.code[k].operator # "sql.sql_output"
            /\ q.code[k].operator = "sql.tag_transform" => "rule_name" \notin DOMAIN q.code[k].arguments

\* The facts of the operations and of the policy rules.
Attributes(op) ==
  CASE op.operator = "sql.tag_transform" ->
         [name \in {"rule_name"} \cup DOMAIN op.arguments |->
            IF name = "rule_name" THEN op.rule ELSE op.arguments[name]]
    [] op.operator = "sql.merge" -> [control_input_start_index |-> op.controlInputStart]
    [] OTHER -> <<>>

Fact(operator, k, operands, attributes) ==
  [operator |-> operator, result |-> <<k, 1>>, operands |-> operands, attributes |-> attributes]

OperationFacts ==
  {Fact(Code(k).operator, k, Code(k).inputs, Attributes(Code(k))) : k \in Operations}
  \cup {Fact("sql.sql_output", Len(query.code) + 1, <<<<Len(query.code), 1>>>>, <<>>)}

ResultKind(action) ==
  CASE action = "ADD_CONFIDENTIALITY" -> "AddConfidentialityTag"
    [] action = "REMOVE_CONFIDENTIALITY" -> "RemoveConfidentialityTag"
    [] action = "ADD_INTEGRITY" -> "AddIntegrityTag"

\* A rule with an unknown action has no fact.
RuleFacts ==
  {SqlPolicyRule(r.name, SqlPolicyRuleResult(ResultKind(r.action), r.tag),
                 [i \in DOMAIN r.preconditions |->
                    SqlPolicyRulePrecondition(r.preconditions[i].argument, r.preconditions[i].tag)]) :
     r \in {q \in ToSet(query.policy) : q.action # "UNKNOWN"}}

\* The decoded rules of the outputs of an operation: it has one output.
OutputRules(k) == IF RulesOf(k) = <<>> THEN <<>> ELSE <<RulesOf(k)>>

\* The state of a result from those of the results that its operation reads.
StateFrom(k, state) ==
  LET op == Code(k)
      inputs == [i \in DOMAIN op.inputs |->
                   IF IsOperationResult(op.inputs[i]) THEN state[op.inputs[i][1]]
                   ELSE GetInitialState(op.inputs[i])]
      results == ApplyOperationTransformer(OutputRules(k), 1, inputs)
  IN  IF CheckFailure \in ToSet(inputs) \/ results = CheckFailure
      THEN CheckFailure ELSE results[1]

\* The states of operations that follow those they read.
AbstractStates ==
  LET state[k \in Operations] == StateFrom(k, [j \in 1 .. k - 1 |-> state[j]])
  IN  state

(***************************************************************************)
(* The abstract interpretation: the query as a module that the taint       *)
(* analysis iterates over, from the hash set of operations, and the map of *)
(* these states as what it returns.                                        *)
(***************************************************************************)
OutsideValues == {v \in UNION {ToSet(op.inputs) : op \in UNION {ToSet(q.code) : q \in Queries}} :
                    v \notin Nat \X Nat}

AnalysedModule ==
  [ops |-> Operations, inputs |-> [k \in Operations |-> Code(k).inputs],
   outputs |-> [k \in Operations |-> 1], rules |-> [k \in Operations |-> OutputRules(k)]]

ReturnedStates ==
  [v \in {<<k, 1>> : k \in Operations} \cup UNION {ToSet(Code(k).inputs) : k \in Operations} |->
     IF IsOperationResult(v) THEN AbstractStates[v[1]] ELSE GetInitialState(v)]

Analysis == INSTANCE TaintAnalysis WITH
  Operation <- Nat, EntryValue <- OutsideValues, Modules <- {},
  module <- AnalysedModule, valueStates <- ReturnedStates, worklist <- {}

\* The rules of the query under which the order of the worklist does not matter.
RulesAreMonotone == Analysis!MonotoneRules(AnalysedModule)

NoCheckFails == CheckFailure \notin Range(AbstractStates)

(***************************************************************************)
(* These states are the least solution, which is what ComputeFixpoint      *)
(* returns for monotone rules in whichever order it visits the operations. *)
(***************************************************************************)
StatesAreReturned ==
  pc = "done" /\ NoCheckFails /\ RulesAreMonotone => Analysis!ReturnsLeastSolution

(***************************************************************************)
(* The Datalog program keeps the integrity of what a special transform     *)
(* transforms, the abstract interpretation has no rule for the special     *)
(* transform itself and drops it.                                          *)
(***************************************************************************)
ReadsSpecialTransform(k) ==
  \E v \in ToSet(Code(k).inputs) : IsOperationResult(v) /\ IsSpecial(v[1])

IntegrityIsLost ==
  \E k \in Operations : /\ Code(k).operator \in {"sql.tag_transform", "sql.merge"}
                        /\ ReadsSpecialTransform(k)

IsConditional(action) ==
  \E k \in Operations :
    /\ IsOrdinary(k) /\ PolicyRule(Code(k).rule).action = action
    /\ PolicyRule(Code(k).rule).preconditions # <<>>

(***************************************************************************)
(* A query whose rules can be decoded and are monotone gets one verdict,   *)
(* from whichever engine.  The Datalog program accepts what the abstract   *)
(* interpretation rejects only if integrity is lost and a rule removes     *)
(* tags under a condition.  Under a rule that adds secrecy on a condition  *)
(* the abstract interpretation has no one result: the condition holds      *)
(* while its input is bottom, and what was added then stays.               *)
(***************************************************************************)
BackendsAgree ==
  pc = "done" /\ NoCheckFails /\ RulesAreMonotone =>
    LET secret == ~HasNoSecrecy(AbstractStates[Len(query.code)])
        violation == ViolatesPolicy(OperationFacts, RuleFacts)
    IN  /\ violation => secret
        /\ secret => violation \/ (IntegrityIsLost /\ IsConditional("REMOVE_CONFIDENTIALITY"))
=============================================================================
