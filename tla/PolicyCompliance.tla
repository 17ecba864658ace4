-------------------------- MODULE PolicyCompliance --------------------------
(***************************************************************************)
(* The two programs that ask the Souffle policy engine for a verdict:      *)
(*   verify   src/frontends/sql/driver.cc, which decodes a query and has   *)
(*            its module checked;                                          *)
(*   command  check_policy_compliance.cc, which reads a module from an IR  *)
(*            file or a proto file, chooses a policy by its flags, and     *)
(*            exits with 0 for PASS, 1 for FAIL and 2 for an error.        *)
(* The verdict is that of SoufflePolicyChecker, the query is decoded by    *)
(* SqlDecoder.  How files are parsed is the matter of IrText and IrProto:  *)
(* here a file holds facts, or what makes its parser return an error or    *)
(* die.  A flag that is not given, or given as "", is "".                  *)
(***************************************************************************)
EXTENDS SqlDecoder, SoufflePolicyChecker

CONSTANTS
  Queries,   \* pairs of an arena and a policy that verify is called with
  Commands,  \* flags that the command is called with
  Contents,  \* the files: path -> [kind, facts]
  Leftovers  \* directories of calls that died

\* A call of verify has an arena and one of the policies.
ASSUME QueriesAssumption ==
  \A query \in Queries : IsArena(query.arena) /\ IsPolicy(query.policy)

\* No file has the empty path; what is read of a file has an order.
ASSUME ContentsAssumption ==
  /\ "" \notin DOMAIN Contents
  /\ \A path \in DOMAIN Contents :
       Contents[path].kind = "facts" => IsFacts(Contents[path].facts)

\* A file of policy rules is text, whatever its facts are.
ASSUME CommandsAssumption ==
  \A command \in Commands :
    command.sql_policy_rules \in DOMAIN Contents =>
      IsFacts(Contents[command.sql_policy_rules].facts)

\* The directories that are left behind were made by mkdtemp.
ASSUME LeftoversAssumption == DOMAIN Leftovers \subseteq DirectoryNames

VARIABLES
  client,      \* "verify" or "command"
  flags,       \* of the command
  phase,       \* "decode", "graph", "policy", "check", "end"
  exitStatus   \* of the command; -1 while it has not returned

clientVars == <<client, flags, phase, exitStatus>>
vars == <<decoderVars, checkerVars, clientVars>>

NoPolicy == Policy("", <<>>, "")
NoFlags ==
  [ir |-> "", proto |-> "", sql_policy_rules |-> "", policy_engine |-> "",
   epsilon_dp_parameter |-> "", delta_dp_parameter |-> ""]

CheckerInit ==
  /\ directories = Leftovers /\ checking = "none" /\ moduleFacts = <<>>
  /\ directory = "" /\ loaded = <<>> /\ answer = FALSE /\ troubles = {}

Init ==
  /\ DecoderInit /\ CheckerInit /\ exitStatus = -1
  /\ \/ /\ client = "verify" /\ phase = "decode" /\ flags = NoFlags
        /\ \E query \in Queries : arena = query.arena /\ policy = query.policy
     \/ /\ client = "command" /\ phase = "graph" /\ flags \in Commands
        /\ arena = <<>> /\ policy = NoPolicy

-----------------------------------------------------------------------------
\* Faulty: only the first operand is lowered.
FirstOperandFact(op, result) ==
  [operator |-> op.operator, result |-> result,
   operands |-> SelectSeq(op.inputs, LAMBDA v : v = op.inputs[1]), attributes |-> op.attributes]

\* DatalogLoweringVisitor: a fact for each operation, in their order.
IsOperationFact(op, result) ==
  [operator |-> op.operator, result |-> result,
   operands |-> op.inputs, attributes |-> op.attributes]

LoweredFacts(ops) == [k \in DOMAIN ops |-> IsOperationFact(ops[k], OperationResult(k))]

Decode ==
  /\ phase = "decode" /\ DecoderNext
  /\ phase' = IF decoding' = "died" THEN "end" ELSE phase
  /\ UNCHANGED <<checkerVars, client, flags, exitStatus>>

VerifyModule ==
  /\ phase = "decode" /\ decoding = "decoded"
  /\ moduleFacts' = LoweredFacts(operations)
  /\ checking' = "create" /\ phase' = "check"
  /\ UNCHANGED <<decoderVars, client, flags, exitStatus, directories, policy,
                 directory, loaded, answer, troubles>>

-----------------------------------------------------------------------------
Returns(code) == phase' = "end" /\ exitStatus' = code
Dies == phase' = "end" /\ UNCHANGED exitStatus
RestOfCommand ==
  <<decoderVars, client, flags, directories, directory, loaded, answer, troubles>>

\* Faulty: a file of its own is no reason to refuse the other.
OneGraph == flags.ir # "" \/ flags.proto # ""

OnlyOneGraph == (flags.ir # "") # (flags.proto # "")

GraphPath == IF flags.ir # "" THEN flags.ir ELSE flags.proto
GraphKind == IF GraphPath \in DOMAIN Contents THEN Contents[GraphPath].kind ELSE "no file"

WrongGraphFlags ==
  /\ phase = "graph" /\ ~OnlyOneGraph
  /\ Returns(2)
  /\ UNCHANGED <<RestOfCommand, checking, policy, moduleFacts>>

\* ReadFileContents, and ProtoToIR::Convert of text that is not a unit.
GraphNotOK ==
  /\ phase = "graph" /\ OnlyOneGraph
  /\ GraphKind = "no file" \/ (flags.proto # "" /\ GraphKind = "error")
  /\ Returns(2)
  /\ UNCHANGED <<RestOfCommand, checking, policy, moduleFacts>>

\* ParseProgram, and Convert of a unit that is no module, fail a CHECK.
GraphDies ==
  /\ phase = "graph" /\ OnlyOneGraph
  /\ GraphKind = "malformed" \/ (flags.ir # "" /\ GraphKind = "error")
  /\ Dies
  /\ UNCHANGED <<RestOfCommand, checking, policy, moduleFacts>>

ReadGraph ==
  /\ phase = "graph" /\ OnlyOneGraph /\ GraphKind = "facts"
  /\ moduleFacts' = Contents[GraphPath].facts
  /\ phase' = "policy"
  /\ UNCHANGED <<RestOfCommand, checking, policy, exitStatus>>

Check(chosen) ==
  /\ policy' = chosen
  /\ checking' = "create" /\ phase' = "check"
  /\ UNCHANGED <<RestOfCommand, moduleFacts, exitStatus>>

Has(flag) == flags[flag] # ""

ChooseAuthLogicPolicy ==
  /\ phase = "policy" /\ Has("policy_engine")
  /\ Check(AuthLogicPolicy(flags.policy_engine))

\* The rules are text: whatever the file has is taken.
ChooseCatchallPolicy ==
  /\ phase = "policy" /\ ~Has("policy_engine") /\ Has("sql_policy_rules")
  /\ flags.sql_policy_rules \in DOMAIN Contents
  /\ Check(CatchallPolicyRulePolicy(Contents[flags.sql_policy_rules].facts))

RulesNotOK ==
  /\ phase = "policy" /\ ~Has("policy_engine") /\ Has("sql_policy_rules")
  /\ flags.sql_policy_rules \notin DOMAIN Contents
  /\ Returns(2)
  /\ UNCHANGED <<RestOfCommand, checking, policy, moduleFacts>>

NeitherEngineNorRules == ~Has("policy_engine") /\ ~Has("sql_policy_rules")
BothParameters == Has("epsilon_dp_parameter") /\ Has("delta_dp_parameter")

ChooseDpParameterPolicy ==
  /\ phase = "policy" /\ NeitherEngineNorRules /\ BothParameters
  /\ Check(DpParameterPolicy(flags.epsilon_dp_parameter, flags.delta_dp_parameter))

NoPolicyFlag ==
  /\ phase = "policy" /\ NeitherEngineNorRules /\ ~BothParameters
  /\ Returns(2)
  /\ UNCHANGED <<RestOfCommand, checking, policy, moduleFacts>>

-----------------------------------------------------------------------------
RunChecker ==
  /\ phase = "check" /\ checking \notin {"answered", "died", "exited"} /\ CheckerNext
  /\ UNCHANGED <<decoderVars, clientVars>>

\* Faulty: the codes the other way round.
SwappedCode == IF answer THEN 1 ELSE 0

ReturnCode == IF answer THEN 0 ELSE 1

\* The answer is what verify returns; the command has a code for it.
Answer ==
  /\ phase = "check" /\ checking = "answered"
  /\ phase' = "end"
  /\ exitStatus' = IF client = "command" THEN ReturnCode ELSE exitStatus
  /\ UNCHANGED <<decoderVars, checkerVars, client, flags>>

\* The process ends within the checker.
EndWithChecker ==
  /\ phase = "check" /\ checking \in {"died", "exited"}
  /\ phase' = "end"
  /\ exitStatus' = IF client = "command" /\ checking = "exited" THEN 1 ELSE exitStatus
  /\ UNCHANGED <<decoderVars, checkerVars, client, flags>>

Next ==
  \/ Decode \/ VerifyModule
  \/ WrongGraphFlags \/ GraphNotOK \/ GraphDies \/ ReadGraph
  \/ ChooseAuthLogicPolicy \/ ChooseCatchallPolicy \/ RulesNotOK
  \/ ChooseDpParameterPolicy \/ NoPolicyFlag
  \/ RunChecker \/ Answer \/ EndWithChecker

Spec == Init /\ [][Next]_vars

-----------------------------------------------------------------------------
TypeOK ==
  /\ next \in 1..(Len(arena) + 1)
  /\ DOMAIN idToValue = {arena[i].id : i \in 1..(next - 1)}
  /\ decoding \in {"decode", "decoded", "died"}
  /\ DOMAIN directories \subseteq DirectoryNames
  /\ phase \in {"decode", "graph", "policy", "check", "end"}
  /\ (phase = "check" => checking # "none")
  /\ exitStatus \in -1..2

(***************************************************************************)
(* The decoder refuses exactly the arenas that sql_ir.proto forbids: an id *)
(* used twice, a reference to a later expression, to nothing or to id 0, a *)
(* field left out; and preconditions that are named like the attribute of  *)
(* the rule.                                                               *)
(***************************************************************************)
DecodesExactlyWellFormed ==
  decoding # "decode" => (decoding = "decoded" <=> WellFormed(arena))

(***************************************************************************)
(* Each id of a decoded query stands for the value of its expression, with *)
(* all of the inputs, direct or control, and preconditions by their names, *)
(* in whatever order the hash map had them; the last one is the output.    *)
(***************************************************************************)
MeaningPreserved ==
  decoding = "decoded" =>
    /\ \A i \in DOMAIN arena :
         TreeOfValue(operations, idToValue[arena[i].id]) = TreeOfExpression(arena, i)
    /\ TreeOfValue(operations, Last(operations).inputs[1]) = TreeOfExpression(arena, Len(arena))

(***************************************************************************)
(* A directory outlives its call only if the process ended in the call;    *)
(* directories that other calls left are not touched.                      *)
(***************************************************************************)
CleansUp ==
  /\ \A d \in DOMAIN Leftovers : d \in DOMAIN directories /\ directories[d] = Leftovers[d]
  /\ checking \in {"none", "create", "answered"} => DOMAIN directories = DOMAIN Leftovers

\* The policies that the flags of a command describe.
PoliciesGiven ==
  (IF Has("policy_engine") THEN {AuthLogicPolicy(flags.policy_engine)} ELSE {})
  \cup (IF flags.sql_policy_rules \in DOMAIN Contents
         THEN {CatchallPolicyRulePolicy(Contents[flags.sql_policy_rules].facts)} ELSE {})
  \cup (IF BothParameters
         THEN {DpParameterPolicy(flags.epsilon_dp_parameter, flags.delta_dp_parameter)} ELSE {})

FactsGiven ==
  {Contents[path].facts :
     path \in {p \in {flags.ir, flags.proto} \cap DOMAIN Contents : Contents[p].kind = "facts"}}

(***************************************************************************)
(* Scripts read the verdict off the exit status.  0: every module given    *)
(* complies with a policy given (one of them; the others are not looked    *)
(* at).  1: one does not, or no directory could be made, or the loader of  *)
(* the program ended the process.  2: nothing was checked.                 *)
(***************************************************************************)
ExitStatusTellsVerdict ==
  client = "command" /\ phase = "end" /\ NothingLost =>
    /\ exitStatus = 0 => \A facts \in FactsGiven : \E p \in PoliciesGiven : Compliant(p, facts)
    /\ exitStatus = 1 => \/ "create" \in troubles \/ checking = "exited"
                         \/ \E facts \in FactsGiven, p \in PoliciesGiven : ~Compliant(p, facts)
    /\ exitStatus = 2 => checking = "none"
    /\ exitStatus = -1 => checking \in {"none", "died"}
=============================================================================
