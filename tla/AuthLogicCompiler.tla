------------------------- MODULE AuthLogicCompiler -------------------------
(***************************************************************************)
(* The tool that turns a policy in authorization logic into Datalog        *)
(* (backends/policy_engine/souffle/raksha_policy_datalog_emitter.cc): it   *)
(* reads and parses the policy, inserts the universe relations, lowers the *)
(* program and writes what SouffleEmitter (ir/auth_logic/souffle_emitter.h) *)
(* prints.  One action per pass.                                           *)
(*                                                                         *)
(* The relations a policy declares are single parts (<<"p">>): no policy   *)
(* declares a relation with a name that the passes make up.  Fresh names   *)
(* do not wrap around: the counter has 64 bits.                            *)
(***************************************************************************)
EXTENDS AuthLogicParser, AuthLogicLowering

CONSTANTS Policies,    \* the parse trees of the policies
          Nothing      \* what the tool has not made yet

VARIABLES
  tree,                \* the policy file
  skipDeclarations,    \* the flag of that name
  phase,               \* the next pass, or "exited", or "died" in a CHECK
  program,             \* the abstract syntax
  freshVarCount,       \* the fields of LoweringToDatalogPass
  canSayDepth,
  rules,               \* dlir_assertions
  datalog,             \* the lowered program
  text,                \* what the emitter prints
  file,                \* the Datalog file: Nothing, "partial" or "whole"
  exitCode

vars == <<tree, skipDeclarations, phase, program, freshVarCount, canSayDepth, rules, datalog,
          text, file, exitCode>>

Init ==
  /\ tree \in Policies
  /\ skipDeclarations \in BOOLEAN
  /\ phase = "read"
  /\ program = Nothing /\ datalog = Nothing /\ text = Nothing /\ file = Nothing
  /\ freshVarCount = 0
  /\ canSayDepth = <<>>
  /\ rules = <<>>
  /\ exitCode = Nothing

Exit(code) == phase' = "exited" /\ exitCode' = code

\* ReadFileContents finds no file, or cannot open it.
ReadFails ==
  /\ phase = "read"
  /\ Exit(2)
  /\ UNCHANGED <<tree, skipDeclarations, program, freshVarCount, canSayDepth, rules, datalog, text,
                 file>>

Parse ==
  /\ phase = "read"
  /\ phase' = "insert"
  /\ program' = ConstructProgram(tree)
  /\ UNCHANGED <<tree, skipDeclarations, freshVarCount, canSayDepth, rules, datalog, text, file,
                 exitCode>>

InsertUniverses ==
  /\ phase = "insert"
  /\ IF InsertionDies(program)
       THEN phase' = "died" /\ UNCHANGED program
       ELSE phase' = "assertions" /\ program' = InsertUniverseRelations(program)
  /\ UNCHANGED <<tree, skipDeclarations, freshVarCount, canSayDepth, rules, datalog, text, file,
                 exitCode>>

-----------------------------------------------------------------------------
(* LoweringToDatalogPass::Lower. *)

\* The assertions of a program with their speakers, in order.
SpokenAssertions(p) ==
  FlattenSeq([i \in DOMAIN p.saysAssertions |->
    [j \in DOMAIN p.saysAssertions[i].assertions |->
       [speaker |-> p.saysAssertions[i].principal, assertion |-> p.saysAssertions[i].assertions[j]]]])

LeftHandSide(assertion) == IF assertion.kind = "fact" THEN assertion.fact ELSE assertion.lhs

LowerSpokenAssertion(done, spoken) ==
  LET dlir == SingleSaysAssertionToDLIR(spoken.speaker, spoken.assertion, done.fresh)
  IN  [rules |-> done.rules \o dlir.rules, fresh |-> dlir.fresh,
       depths |-> UpdateCanSayDepth(done.depths, LeftHandSide(spoken.assertion))]

LowerQuery(done, query) ==
  LET dlir == QueryToDLIR(query, done.fresh)
  IN  [rules |-> Append(done.rules, dlir.rule), fresh |-> dlir.fresh,
       depths |-> UpdateCanSayDepth(done.depths, query.fact)]

Pass == [rules |-> rules, fresh |-> freshVarCount, depths |-> canSayDepth]
SetPass(done) ==
  rules' = done.rules /\ freshVarCount' = done.fresh /\ canSayDepth' = done.depths

SaysAssertionsToDLIR ==
  /\ phase = "assertions"
  /\ phase' = "queries"
  /\ SetPass(FoldLeft(LowerSpokenAssertion, Pass, SpokenAssertions(program)))
  /\ UNCHANGED <<tree, skipDeclarations, program, datalog, text, file, exitCode>>

QueriesToDLIR ==
  /\ phase = "queries"
  /\ phase' = "declarations"
  /\ SetPass(FoldLeft(LowerQuery, Pass, program.queries))
  /\ UNCHANGED <<tree, skipDeclarations, program, datalog, text, file, exitCode>>

Delegated == {name \in DOMAIN canSayDepth : canSayDepth[name] > 0}

\* The rest of ProgToDLIR; the hash map is read in any order.
ProgToDLIR ==
  /\ phase = "declarations"
  /\ phase' = "emit"
  /\ \E order \in SetToSeqs(Delegated) :
       datalog' = DatalogProgram(
         RelationDeclarationToDLIR(program.declarations, canSayDepth, order)
           \o QueryRelationDeclarationToDLIR(program.queries),
         Append(rules, Rule(kDummyPredicate, <<>>)),
         [i \in DOMAIN program.queries |-> program.queries[i].name])
  /\ UNCHANGED <<tree, skipDeclarations, program, freshVarCount, canSayDepth, rules, text, file,
                 exitCode>>

-----------------------------------------------------------------------------
(* SouffleEmitter. *)

PredefinedTypes == {"Principal", "Tag", "AccessPath", "Epsilon", "Delta", "Operation"}
PredefinedRelations ==
  {<<"says_", "is", type>> : type \in {"AccessPath", "Tag", "Principal"}}
    \cup {<<"says_", name>> : name \in {"ownsTag", "ownsAccessPath", "hasTag", "removeTag", "may",
                                        "will", "isGlobalEpsilon", "isGlobalDelta"}}
    \cup {<<"is", type>> : type \in {"AccessPath", "Tag", "Principal"}}

EmittedDeclarations(d) ==
  SelectSeq(d.declarations,
            LAMBDA r : skipDeclarations \/ r.name \notin PredefinedRelations)

EmittedTypes(d) ==
  {type.name : type \in
     {t \in UNION {{r.arguments[i].type : i \in DOMAIN r.arguments} : r \in ToSet(d.declarations)} :
        skipDeclarations \/ (t.kind = "kCustom" /\ t.name \notin PredefinedTypes)}}
    \cup {"Number"}

\* EmitPredicate fails a CHECK on a comparison without two arguments.
EmissionDies(d) ==
  \E r \in ToSet(d.rules) : \E predicate \in {r.lhs} \cup ToSet(r.rhs) :
    IsNumericOperator(predicate) /\ Len(predicate.args) # 2

EmitProgram ==
  /\ phase = "emit"
  /\ IF EmissionDies(datalog)
       THEN phase' = "died" /\ UNCHANGED text
       ELSE /\ phase' = "write"
            /\ text' = [types |-> EmittedTypes(datalog), declarations |-> EmittedDeclarations(datalog),
                        rules |-> datalog.rules, outputs |-> datalog.outputs]
  /\ UNCHANGED <<tree, skipDeclarations, program, freshVarCount, canSayDepth, rules, datalog, file,
                 exitCode>>

-----------------------------------------------------------------------------
CreateFails ==
  /\ phase = "write"
  /\ Exit(1)
  /\ UNCHANGED <<tree, skipDeclarations, program, freshVarCount, canSayDepth, rules, datalog, text,
                 file>>

\* The stream is not looked at after the write: a full disk goes unnoticed.
Write ==
  /\ phase = "write"
  /\ Exit(0)
  /\ file' \in {"partial", "whole"}
  /\ UNCHANGED <<tree, skipDeclarations, program, freshVarCount, canSayDepth, rules, datalog, text>>

Next ==
  \/ ReadFails \/ Parse \/ InsertUniverses
  \/ SaysAssertionsToDLIR \/ QueriesToDLIR \/ ProgToDLIR
  \/ EmitProgram \/ CreateFails \/ Write

Spec == Init /\ [][Next]_vars /\ WF_vars(Next)
=============================================================================
