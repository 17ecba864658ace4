------------------------ MODULE SoufflePolicyChecker ------------------------
(***************************************************************************)
(* SoufflePolicyChecker::IsModulePolicyCompliant                           *)
(* (src/backends/policy_engine/souffle/souffle_policy_checker.cc): the     *)
(* facts of a policy and of a module go to files of a temporary directory, *)
(* a Souffle program reads them and derives violations, and the directory  *)
(* is removed.  Any step that touches the file system can fail.            *)
(*                                                                         *)
(* A facts file is a sequence of facts, named for its relation.  A policy  *)
(* has the relation of its facts, "" if it has none, the facts, and the    *)
(* engine: the name of the program that was compiled for it.               *)
(***************************************************************************)
EXTENDS Naturals, FiniteSets, SequencesExt

CONSTANTS
  DirectoryNames,  \* what mkdtemp can make of its template
  Reads,           \* the relations each engine that is linked in reads
  Violates(_, _),  \* whether an engine derives a violation or an error from facts
  MaxTroubles      \* bound: so many steps of a call fail

Policy(relation, facts, engine) == [relation |-> relation, facts |-> facts, engine |-> engine]

\* The facts of a policy are not those of the module, and go to a file in order.
IsFacts(facts) == facts \in Seq(ToSet(facts))
IsPolicy(p) == IsFacts(p.facts) /\ p.relation # "isOperation"

SqlPolicyRulePolicy(rules) == Policy("isSqlPolicyRule", rules, "sql_policy_verifier")
CatchallPolicyRulePolicy(rules) == Policy("isSqlPolicyRule", rules, "datalog_policy_verifier")
DpParameterPolicy(epsilon, delta) ==
  Policy("isDPParameter", <<[epsilonValue |-> epsilon], [deltaValue |-> delta]>>,
         "dp_policy_verifier")
AuthLogicPolicy(engine) == Policy("", <<>>, engine)

VARIABLES
  directories,  \* the temporary directories: relation -> content of its file
  checking,     \* the next step; at the end "answered", "died" or "exited"
  policy,       \* the arguments, the module as the facts it is lowered to
  moduleFacts,
  directory,    \* temp_dir
  loaded,       \* relation -> facts, in the program
  answer,       \* what the call returns
  troubles      \* history: the steps that failed

checkerVars ==
  <<directories, checking, policy, moduleFacts, directory, loaded, answer, troubles>>

Trouble(step) ==
  /\ Cardinality(troubles) < MaxTroubles
  /\ troubles' = troubles \cup {step}

\* Faulty: a directory that is there is used again.
UsableNames == DirectoryNames

\* mkdtemp takes a name that is not in use.
FreshNames == DirectoryNames \ DOMAIN directories

CreateTemporaryDirectory ==
  /\ checking = "create"
  /\ \E name \in FreshNames :
       /\ directory' = name
       /\ directories' = [d \in DOMAIN directories \cup {name} |->
                            IF d \in DOMAIN directories THEN directories[d] ELSE <<>>]
  /\ checking' = "policy facts"
  /\ UNCHANGED <<policy, moduleFacts, loaded, answer, troubles>>

\* Faulty: what cannot be checked passes.
CreateFailsOpen ==
  /\ checking = "create" /\ Trouble("create")
  /\ answer' = TRUE /\ checking' = "answered"
  /\ UNCHANGED <<directories, policy, moduleFacts, directory, loaded>>

CreateFails ==
  /\ checking = "create" /\ Trouble("create")
  /\ answer' = FALSE /\ checking' = "answered"
  /\ UNCHANGED <<directories, policy, moduleFacts, directory, loaded>>

-----------------------------------------------------------------------------
Files == directories[directory]

MayWrite(relation) == relation \notin DOMAIN Files

Puts(relation, content) ==
  directories' =
    [directories EXCEPT ![directory] =
       [r \in DOMAIN Files \cup {relation} |-> IF r = relation THEN content ELSE Files[r]]]

(***************************************************************************)
(* WriteFactsStringToFactsFile returns OK: the file is there, but nobody   *)
(* asks the stream whether all of the facts arrived.                       *)
(***************************************************************************)
WritesFacts(relation, facts) ==
  /\ MayWrite(relation)
  /\ \/ Puts(relation, facts) /\ UNCHANGED troubles
     \/ \E part \in Prefixes(facts) \ {facts} : Puts(relation, part) /\ Trouble("write")

\* It returns an error: the file exists, or cannot be made.
RefusesFacts(relation) ==
  /\ \/ relation \in DOMAIN Files /\ UNCHANGED troubles
     \/ MayWrite(relation) /\ Trouble("open")
  /\ UNCHANGED directories

Goes(from, to) == checking = from /\ checking' = to
RestOfCall == <<policy, moduleFacts, directory, loaded, answer>>

WritePolicyFacts ==
  /\ Goes("policy facts", "module facts")
  /\ IF policy.relation = "" THEN UNCHANGED <<directories, troubles>>
     ELSE WritesFacts(policy.relation, policy.facts)
  /\ UNCHANGED RestOfCall

\* CHECK(output_policy_status.ok()), which leaves the directory behind.
PolicyFactsRefused ==
  /\ Goes("policy facts", "died")
  /\ policy.relation # "" /\ RefusesFacts(policy.relation)
  /\ UNCHANGED RestOfCall

WriteModuleFacts ==
  /\ Goes("module facts", "empty relations")
  /\ WritesFacts("isOperation", moduleFacts)
  /\ UNCHANGED RestOfCall

\* CHECK(output_module_status.ok()).
ModuleFactsRefused ==
  /\ Goes("module facts", "died")
  /\ RefusesFacts("isOperation")
  /\ UNCHANGED RestOfCall

\* Faulty: the empty file replaces one that is there.
ReplacesFacts(relation) == Puts(relation, <<>>) /\ UNCHANGED troubles

EmptiesFacts(relation) == WritesFacts(relation, <<>>) \/ RefusesFacts(relation)

\* An engine may read isDPParameter of a policy that has none.
WriteEmptyRelations ==
  /\ Goes("empty relations", "load")
  /\ EmptiesFacts("isDPParameter")
  /\ UNCHANGED RestOfCall

-----------------------------------------------------------------------------
(***************************************************************************)
(* The program reads what files there are.  Where one is missing or cannot *)
(* be read the generated code reports it, and goes on without the facts or *)
(* ends the process with status 1.                                         *)
(***************************************************************************)
Readable == DOMAIN Files \cap Reads[policy.engine]
Load(relations) ==
  loaded' = [r \in Reads[policy.engine] |-> IF r \in relations THEN Files[r] ELSE <<>>]

LoadAll ==
  /\ Goes("load", "run") /\ policy.engine \in DOMAIN Reads
  /\ \/ Load(Readable) /\ UNCHANGED troubles
     \/ \E r \in Readable : Load(Readable \ {r}) /\ Trouble("load")
  /\ UNCHANGED <<directories, policy, moduleFacts, directory, answer>>

LoadExits ==
  /\ Goes("load", "exited") /\ policy.engine \in DOMAIN Reads
  /\ IF Readable # Reads[policy.engine] THEN UNCHANGED troubles ELSE Trouble("load")
  /\ UNCHANGED <<directories, RestOfCall>>

\* newInstance returns null for a name that is not linked in.
NoSuchEngine ==
  /\ Goes("load", "died") /\ policy.engine \notin DOMAIN Reads
  /\ UNCHANGED <<directories, RestOfCall, troubles>>

\* Faulty: the directory stays.
Kept == directories

Removed == [d \in DOMAIN directories \ {directory} |-> directories[d]]

\* violatesPolicy and hasError are empty; remove_all.
Run ==
  /\ Goes("run", "answered")
  /\ answer' = ~Violates(policy.engine, loaded)
  /\ directories' = Removed
  /\ UNCHANGED <<policy, moduleFacts, directory, loaded, troubles>>

CheckerNext ==
  \/ CreateTemporaryDirectory \/ CreateFails
  \/ WritePolicyFacts \/ PolicyFactsRefused
  \/ WriteModuleFacts \/ ModuleFactsRefused
  \/ WriteEmptyRelations
  \/ LoadAll \/ LoadExits \/ NoSuchEngine
  \/ Run

-----------------------------------------------------------------------------
\* What the program of a policy should read of it and of the operations.
FactsOf(p, operationFacts, r) ==
  IF r = "isOperation" THEN operationFacts
  ELSE IF r = p.relation /\ r # "" THEN p.facts
  ELSE <<>>

FactsFor(p, operationFacts) == [r \in Reads[p.engine] |-> FactsOf(p, operationFacts, r)]

Given == FactsFor(policy, moduleFacts)

Compliant(p, operationFacts) == ~Violates(p.engine, FactsFor(p, operationFacts))

NothingLost == troubles \cap {"write", "load"} = {}

(***************************************************************************)
(* A program never works on facts of another call, nor on more than it was *)
(* given, and it works on less only if a write or a read went wrong.       *)
(***************************************************************************)
ReadsFactsOfThisCall ==
  checking = "run" =>
    /\ DOMAIN loaded = DOMAIN Given
    /\ \A r \in DOMAIN Given : IsPrefix(loaded[r], Given[r])
    /\ NothingLost => loaded = Given

(***************************************************************************)
(* The process dies of a file it cannot make or an engine that it does not *)
(* have, never of an earlier call's files or of its own.                   *)
(***************************************************************************)
DiesOnlyOnTrouble ==
  checking = "died" => "open" \in troubles \/ policy.engine \notin DOMAIN Reads
=============================================================================
