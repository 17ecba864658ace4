---------------------- MODULE PolicyCompliance_proofs -----------------------
(***************************************************************************)
(* The two programs of PolicyCompliance, for all queries, commands, files, *)
(* engines and troubles: the decoder refuses exactly the arenas that are   *)
(* not well formed and keeps the meaning of the others, a policy program   *)
(* reads the facts of its call, a temporary directory goes with its call,  *)
(* and the exit status is the verdict.                                     *)
(*                                                                         *)
(* IInv is inductive for all of that but the meaning of a query; for that, *)
(* MeaningInv says what the ids of the decoder and the operations of the   *)
(* block are while they are made.                                          *)
(***************************************************************************)
EXTENDS PolicyCompliance, FiniteRecursion, FiniteSetTheorems

-----------------------------------------------------------------------------
\* The expressions decoded so far were well formed, and have ids of their own.
WellFormedSoFar ==
  \A i \in 1..(next - 1) :
    /\ arena[i].id \notin IdsBefore(arena, i)
    /\ WellFormedExpression(arena[i].expression, IdsBefore(arena, i))

\* Exactly they have a value; death means that the next one was not well formed.
DecoderInv ==
  /\ IsArena(arena) /\ IsFacts(operations)
  /\ next \in 1..(Len(arena) + 1)
  /\ DOMAIN idToValue = IdsBefore(arena, next)
  /\ WellFormedSoFar
  /\ decoding \in {"decode", "decoded", "died"}
  /\ decoding = "decoded" => next = Len(arena) + 1 /\ arena # <<>>
  /\ decoding = "died" => ~WellFormed(arena)

-----------------------------------------------------------------------------
\* The steps of a call without a directory, with one, and at its end.
Before == {"none", "create"}
Working == {"policy facts", "module facts", "empty relations", "load", "run"}
Over == {"answered", "died", "exited"}
HasDirectory == checking \in Working \cup {"died", "exited"}

\* The directory of the call is there besides those of the calls that died.
DirectoriesInv ==
  /\ checking \in Before \cup Working \cup Over
  /\ DOMAIN directories = DOMAIN Leftovers \cup (IF HasDirectory THEN {directory} ELSE {})
  /\ HasDirectory => directory \in DirectoryNames \ DOMAIN Leftovers
  /\ \A d \in DOMAIN Leftovers : directories[d] = Leftovers[d]

\* The relation of the policy, if it has one.
PolicyFile == {policy.relation} \ {""}

\* A file has a prefix of what it is given, less only if a write went wrong.
FileInv(r) ==
  /\ r # ""
  /\ IsPrefix(Files[r], FactsOf(policy, moduleFacts, r))
  /\ "write" \notin troubles => Files[r] = FactsOf(policy, moduleFacts, r)

\* The files there are at each step.
FilesInv ==
  /\ checking \in Working => \A r \in DOMAIN Files : FileInv(r)
  /\ checking = "policy facts" => DOMAIN Files = {}
  /\ checking = "module facts" => DOMAIN Files = PolicyFile
  /\ checking = "empty relations" => DOMAIN Files = PolicyFile \cup {"isOperation"}
  /\ checking \in {"load", "run"} => PolicyFile \cup {"isOperation"} \subseteq DOMAIN Files

\* What the end of a call says of its arguments.
VerdictInv ==
  /\ ReadsFactsOfThisCall
  /\ DiesOnlyOnTrouble
  /\ checking = "answered" =>
       /\ answer \in BOOLEAN
       /\ \/ "create" \in troubles /\ ~answer
          \/ NothingLost => (answer <=> Compliant(policy, moduleFacts))

CheckerInv ==
  /\ IsPolicy(policy) /\ IsFacts(moduleFacts)
  /\ DirectoriesInv /\ FilesInv /\ VerdictInv

-----------------------------------------------------------------------------
\* Where each program is while nothing is checked yet.
PhaseInv ==
  /\ client \in {"verify", "command"}
  /\ phase \in {"decode", "graph", "policy", "check", "end"}
  /\ exitStatus \in -1..2
  /\ phase # "end" => exitStatus = -1
  /\ phase = "decode" => client = "verify" /\ checking = "none"
  /\ phase \in {"graph", "policy"} => client = "command" /\ checking = "none"
  /\ phase = "check" => checking # "none"

\* What the command has read by its flags, and the status it ends with.
CommandInv ==
  client = "command" =>
    /\ flags \in Commands
    /\ phase = "policy" \/ checking # "none" =>
         /\ OnlyOneGraph /\ GraphKind = "facts"
         /\ moduleFacts = Contents[GraphPath].facts
    /\ checking # "none" => policy \in PoliciesGiven
    /\ phase = "end" =>
         \/ checking = "none" /\ exitStatus \in {-1, 2}
         \/ checking = "answered" /\ exitStatus = ReturnCode
         \/ checking = "exited" /\ exitStatus = 1
         \/ checking = "died" /\ exitStatus = -1

IInv == DecoderInv /\ CheckerInv /\ PhaseInv /\ CommandInv

-----------------------------------------------------------------------------
\* Facts and operations are only ever appended to.
LEMMA AppendKeepsOrder ==
  ASSUME NEW s, IsFacts(s), NEW x
  PROVE  IsFacts(Append(s, x))
<1> DEFINE S == ToSet(s) \cup {x}
<1> DEFINE t == Append(s, x)
<1>1. s \in Seq(S)  BY DEF IsFacts
<1>2. t \in Seq(S) /\ Len(t) = Len(s) + 1  BY <1>1
<1>3. t \in Seq(ToSet(t))  BY <1>2 DEF ToSet
<1> QED  BY <1>3 DEF IsFacts

\* DatalogLoweringVisitor has one fact per operation.
LEMMA LoweringKeepsOrder ==
  ASSUME NEW s, IsFacts(s)
  PROVE  IsFacts(LoweredFacts(s))
<1> DEFINE t == LoweredFacts(s)
<1>1. DOMAIN s = 1..Len(s) /\ Len(s) \in Nat  BY DEF IsFacts
<1>2. t = [k \in 1..Len(s) |-> IsOperationFact(s[k], OperationResult(k))]  BY <1>1 DEF LoweredFacts
<1>3. \A k \in 1..Len(s) : t[k] \in ToSet(t)  BY <1>2 DEF ToSet
<1> QED  BY <1>1, <1>2, <1>3 DEF IsFacts

\* What arrives of a file of facts is a prefix of them.
LEMMA FilePrefixes ==
  ASSUME NEW facts, IsFacts(facts)
  PROVE  /\ IsPrefix(facts, facts)
         /\ IsPrefix(<<>>, facts)
         /\ \A part \in Prefixes(facts) : IsPrefix(part, facts)
<1>1. Len(facts) \in Nat /\ facts \in Seq(ToSet(facts))  BY DEF IsFacts
<1>2. IsPrefix(facts, facts)  BY <1>1 DEF IsPrefix
<1>3. IsPrefix(<<>>, facts)
  <2>1. Len(<<>>) = 0 /\ SubSeq(<<>>, 1, 0) = <<>>  OBVIOUS
  <2>2. SubSeq(facts, 1, 0) = <<>>  BY <1>1
  <2> QED  BY <1>1, <2>1, <2>2 DEF IsPrefix
<1>4. ASSUME NEW part \in Prefixes(facts)
      PROVE  IsPrefix(part, facts)
  <2>1. PICK l \in 0..Len(facts) : part = SubSeq(facts, 1, l)  BY DEF Prefixes
  <2>2. Len(part) = l  BY <1>1, <2>1
  <2>3. SubSeq(part, 1, l) = part  BY <1>1, <2>1, <2>2
  <2> QED  BY <1>1, <2>1, <2>2, <2>3 DEF IsPrefix
<1> QED  BY <1>2, <1>3, <1>4

\* An empty file cannot lose anything.
LEMMA NoPartOfNothing == Prefixes(<<>>) \ {<<>>} = {}
<1>1. Len(<<>>) = 0 /\ SubSeq(<<>>, 1, 0) = <<>>  OBVIOUS
<1> QED  BY <1>1 DEF Prefixes

\* A relation without facts.
LEMMA EmptyIsFacts == IsFacts(<<>>)
BY DEF IsFacts

\* The policies that the flags of the command can name have no facts for
\* isOperation, the relation of the module.
LEMMA PoliciesOfFlags ==
  /\ \A engine : IsPolicy(AuthLogicPolicy(engine))
  /\ \A rules : IsFacts(rules) => IsPolicy(CatchallPolicyRulePolicy(rules))
  /\ \A epsilon, delta : IsPolicy(DpParameterPolicy(epsilon, delta))
<1>1. ASSUME NEW engine PROVE IsPolicy(AuthLogicPolicy(engine))
  BY EmptyIsFacts DEF AuthLogicPolicy, Policy, IsPolicy
<1>2. ASSUME NEW rules, IsFacts(rules) PROVE IsPolicy(CatchallPolicyRulePolicy(rules))
  BY <1>2 DEF CatchallPolicyRulePolicy, Policy, IsPolicy
<1>3. ASSUME NEW epsilon, NEW delta PROVE IsPolicy(DpParameterPolicy(epsilon, delta))
  <2> DEFINE e == [epsilonValue |-> epsilon]
  <2> DEFINE d == [deltaValue |-> delta]
  <2> DEFINE facts == <<e, d>>
  <2> HIDE DEF e, d
  <2>1. facts[1] = e /\ facts[2] = d /\ DOMAIN facts = 1..2  OBVIOUS
  <2>2. e \in ToSet(facts) /\ d \in ToSet(facts)  BY <2>1 DEF ToSet
  <2>3. IsFacts(facts)  BY <2>2 DEF IsFacts
  <2> QED  BY <2>3 DEF DpParameterPolicy, Policy, IsPolicy, e, d
<1> QED  BY <1>1, <1>2, <1>3

-----------------------------------------------------------------------------
\* The cases of an Expression differ by their variant.
LEMMA Variants ==
  /\ VariantNotSet.variant = "none"
  /\ \A x : SourceTableColumn(x).variant = "column" /\ SourceTableColumn(x).path = x
  /\ \A x : Literal(x).variant = "literal" /\ Literal(x).str = x
BY DEF VariantNotSet, SourceTableColumn, Literal

\* The CHECKs of the decoder and of the operations, on one expression: they
\* pass exactly if the expression is well formed over the ids that have a
\* value.
LEMMA PassesIsWellFormed ==
  ASSUME NEW expr, IsExpression(expr)
  PROVE  Passes(expr) <=> WellFormedExpression(expr, DOMAIN idToValue)
<1>1. CASE expr = VariantNotSet
  BY <1>1 DEF VariantNotSet, Passes, WellFormedExpression
<1>2. CASE expr.variant = "column" /\ expr = SourceTableColumn(expr.path)
  <2>1. Passes(expr) <=> expr.path # ""  BY <1>2 DEF Passes
  <2>2. expr # VariantNotSet /\ expr # Literal("")
    BY <1>2, Variants
  <2>3. expr = SourceTableColumn("") <=> expr.path = ""
    BY <1>2, Variants
  <2>4. Children(expr) = {}  BY <1>2 DEF Children
  <2> QED  BY <1>2, <2>1, <2>2, <2>3, <2>4 DEF WellFormedExpression
<1>3. CASE expr.variant = "literal" /\ expr = Literal(expr.str)
  <2>1. Passes(expr) <=> expr.str # ""  BY <1>3 DEF Passes
  <2>2. expr # VariantNotSet /\ expr # SourceTableColumn("")
    BY <1>3, Variants
  <2>3. expr = Literal("") <=> expr.str = ""
    BY <1>3, Variants
  <2>4. Children(expr) = {}  BY <1>3 DEF Children
  <2> QED  BY <1>3, <2>1, <2>2, <2>3, <2>4 DEF WellFormedExpression
<1>4. CASE expr.variant = "merge"
  <2>1. Children(expr) = ToSet(expr.inputs \o expr.controlInputs)  BY <1>4 DEF Children
  <2>2. expr \notin {VariantNotSet, SourceTableColumn(""), Literal("")}
    BY <1>4, Variants
  <2>3. Passes(expr) <=> expr.inputs # <<>> /\ \A id \in Children(expr) : HasValue(id)
    BY <1>4, <2>1 DEF Passes
  <2> QED  BY <1>4, <2>2, <2>3 DEF WellFormedExpression, HasValue
<1>5. CASE expr.variant = "transform"
  <2>1. Children(expr) = {expr.node} \cup Range(expr.preconditions)  BY <1>5 DEF Children
  <2>2. expr \notin {VariantNotSet, SourceTableColumn(""), Literal("")}
    BY <1>5, Variants
  <2>3. Passes(expr) <=> /\ expr.node # 0 /\ expr.rule # ""
                         /\ \A id \in Children(expr) : HasValue(id)
                         /\ "rule_name" \notin DOMAIN expr.preconditions
    BY <1>5, <2>1 DEF Passes
  <2>4. (\A id \in Children(expr) : HasValue(id)) => expr.node # 0
    BY <2>1 DEF HasValue
  <2> QED  BY <1>5, <2>2, <2>3, <2>4 DEF WellFormedExpression, HasValue
<1> QED  BY <1>1, <1>2, <1>3, <1>4, <1>5 DEF IsExpression

\* The expressions of an arena.
LEMMA ArenaItems ==
  ASSUME NEW pairs, IsArena(pairs)
  PROVE  /\ Len(pairs) \in Nat /\ DOMAIN pairs = 1..Len(pairs)
         /\ \A i \in 1..Len(pairs) : IsExpression(pairs[i].expression)
<1>1. Len(pairs) \in Nat /\ DOMAIN pairs = 1..Len(pairs)  BY DEF IsArena
<1> QED  BY <1>1 DEF IsArena, ToSet

\* An arena is well formed iff each expression is, over the ids before it,
\* and has an id that none of those have: what a pass from left to right can
\* decide.
LEMMA WellFormedInOrder ==
  ASSUME NEW pairs, IsArena(pairs)
  PROVE  WellFormed(pairs) <=>
           /\ pairs # <<>>
           /\ \A i \in 1..Len(pairs) :
                /\ pairs[i].id \notin IdsBefore(pairs, i)
                /\ WellFormedExpression(pairs[i].expression, IdsBefore(pairs, i))
<1>1. Len(pairs) \in Nat /\ DOMAIN pairs = 1..Len(pairs)  BY ArenaItems
<1>2. (\A i, j \in 1..Len(pairs) : i # j => pairs[i].id # pairs[j].id)
        <=> (\A i \in 1..Len(pairs) : pairs[i].id \notin IdsBefore(pairs, i))
  BY <1>1 DEF IdsBefore
<1> QED  BY <1>1, <1>2 DEF WellFormed

-----------------------------------------------------------------------------
\* RegisterValue and GetValue decide on the next expression what the
\* definition says of it.
LEMMA NextItem ==
  ASSUME DecoderInv, MoreToDecode
  PROVE  /\ next \in 1..Len(arena) /\ Len(arena) \in Nat
         /\ MayRegister(Id) <=> Id \notin IdsBefore(arena, next)
         /\ Passes(Expr) <=> WellFormedExpression(Expr, IdsBefore(arena, next))
<1>1. Len(arena) \in Nat /\ \A i \in 1..Len(arena) : IsExpression(arena[i].expression)
  BY ArenaItems DEF DecoderInv
<1>2. next \in 1..Len(arena)  BY <1>1 DEF DecoderInv, MoreToDecode
<1>3. MayRegister(Id) <=> Id \notin IdsBefore(arena, next)  BY DEF MayRegister, DecoderInv
<1>4. Passes(Expr) <=> WellFormedExpression(Expr, DOMAIN idToValue)
  <2>1. IsExpression(Expr)  BY <1>1, <1>2 DEF Expr
  <2> QED  BY <2>1, PassesIsWellFormed
<1> QED  BY <1>1, <1>2, <1>3, <1>4 DEF DecoderInv

\* RegisterValue adds the id of a well formed expression.
LEMMA RegisteringKeepsInv ==
  ASSUME DecoderInv, MoreToDecode, Passes(Expr), MayRegister(Id),
         NEW value, RegisterValue(value), IsFacts(operations')
  PROVE  DecoderInv'
<1>1. /\ next \in 1..Len(arena) /\ Len(arena) \in Nat
      /\ Id \notin IdsBefore(arena, next)
      /\ WellFormedExpression(Expr, IdsBefore(arena, next))
  BY NextItem
<1>2. arena' = arena /\ decoding' = decoding /\ next' = next + 1 /\ decoding = "decode"
  BY DEF RegisterValue, MoreToDecode
<1>3. DOMAIN idToValue' = IdsBefore(arena, next) \cup {Id}
  BY DEF RegisterValue, DecoderInv
<1>4. 1..(next + 1 - 1) = (1..(next - 1)) \cup {next}  BY <1>1
<1>5. IdsBefore(arena, next + 1) = IdsBefore(arena, next) \cup {Id}
  BY <1>4 DEF IdsBefore, Id
<1>6. WellFormedSoFar'
  BY <1>1, <1>2, <1>4 DEF WellFormedSoFar, DecoderInv, Id, Expr
<1>7. next' \in 1..(Len(arena') + 1)  BY <1>1, <1>2
<1>8. DOMAIN idToValue' = IdsBefore(arena', next')  BY <1>2, <1>3, <1>5
<1>9. IsArena(arena')  BY <1>2 DEF DecoderInv
<1> QED  BY <1>2, <1>6, <1>7, <1>8, <1>9 DEF DecoderInv

\* So does an operation that is added to the block.
LEMMA AddingKeepsInv ==
  ASSUME DecoderInv, MoreToDecode, Passes(Expr), MayRegister(Id), NEW op, AddOperation(op)
  PROVE  DecoderInv'
<1>1. IsFacts(operations')
  <2>1. IsFacts(operations)  BY DEF DecoderInv
  <2> QED  BY <2>1, AppendKeepsOrder DEF AddOperation
<1>2. RegisterValue(OperationResult(Len(operations) + 1))  BY DEF AddOperation
<1> QED  BY <1>1, <1>2, RegisteringKeepsInv

\* Every step of DecodeExpressionArena keeps the invariant.
LEMMA DecoderStep ==
  ASSUME DecoderInv, DecoderNext
  PROVE  DecoderInv'
<1>1. CASE DecodeSourceTableColumn
  <2>1. MoreToDecode /\ Passes(Expr) /\ MayRegister(Id)  BY <1>1 DEF DecodeSourceTableColumn, At
  <2>2. RegisterValue(StoredValue(Expr.path)) /\ IsFacts(operations')
    BY <1>1 DEF DecodeSourceTableColumn, DecoderInv
  <2> QED  BY <2>1, <2>2, RegisteringKeepsInv
<1>2. CASE DecodeLiteral
  <2>1. MoreToDecode /\ Passes(Expr) /\ MayRegister(Id)  BY <1>2 DEF DecodeLiteral, At
  <2>2. AddOperation(LiteralOp(Expr.str))  BY <1>2 DEF DecodeLiteral
  <2> QED  BY <2>1, <2>2, AddingKeepsInv
<1>3. CASE DecodeMergeOperation
  <2>1. MoreToDecode /\ Passes(Expr) /\ MayRegister(Id)  BY <1>3 DEF DecodeMergeOperation, At
  <2>2. \E op : AddOperation(op)  BY <1>3 DEF DecodeMergeOperation
  <2> QED  BY <2>1, <2>2, AddingKeepsInv
<1>4. CASE DecodeTagTransform
  <2>1. MoreToDecode /\ Passes(Expr) /\ MayRegister(Id)  BY <1>4 DEF DecodeTagTransform, At
  <2>2. \E op : AddOperation(op)  BY <1>4 DEF DecodeTagTransform
  <2> QED  BY <2>1, <2>2, AddingKeepsInv
<1>5. CASE DecodeOutput
  <2>1. IsFacts(operations')
    BY <1>5, AppendKeepsOrder DEF DecodeOutput, DecoderInv
  <2>2. next = Len(arena) + 1
    <3>1. Len(arena) \in Nat  BY ArenaItems DEF DecoderInv
    <3> QED  BY <1>5, <3>1 DEF DecodeOutput, DecoderInv
  <2> QED  BY <1>5, <2>1, <2>2 DEF DecodeOutput, DecoderInv, WellFormedSoFar
<1>6. CASE DecodeDies
  <2>1. /\ UNCHANGED <<arena, next, idToValue, operations>>
        /\ decoding' = "died"
    BY <1>6 DEF DecodeDies
  <2>2. ~WellFormed(arena)
    <3>1. CASE arena = <<>>  BY <3>1 DEF WellFormed
    <3>2. CASE MoreToDecode /\ ~(Passes(Expr) /\ MayRegister(Id))
      <4>1. /\ next \in 1..Len(arena)
            /\ \/ Id \in IdsBefore(arena, next)
               \/ ~WellFormedExpression(Expr, IdsBefore(arena, next))
        BY <3>2, NextItem
      <4> QED  BY <4>1, WellFormedInOrder DEF DecoderInv, Id, Expr
    <3> QED  BY <1>6, <3>1, <3>2 DEF DecodeDies
  <2> QED  BY <2>1, <2>2 DEF DecoderInv, WellFormedSoFar
<1> QED  BY <1>1, <1>2, <1>3, <1>4, <1>5, <1>6 DEF DecoderNext

\* The invariant says what the end of the loop tells of the arena.
LEMMA DecoderInvDecides ==
  ASSUME DecoderInv
  PROVE  DecodesExactlyWellFormed
<1>1. ASSUME decoding = "decoded"
      PROVE  WellFormed(arena)
  <2>1. next = Len(arena) + 1 /\ arena # <<>> /\ Len(arena) \in Nat
    BY <1>1, ArenaItems DEF DecoderInv
  <2>2. \A i \in 1..Len(arena) :
          /\ arena[i].id \notin IdsBefore(arena, i)
          /\ WellFormedExpression(arena[i].expression, IdsBefore(arena, i))
    BY <2>1 DEF DecoderInv, WellFormedSoFar
  <2> QED  BY <2>1, <2>2, WellFormedInOrder DEF DecoderInv
<1> QED  BY <1>1 DEF DecoderInv, DecodesExactlyWellFormed

-----------------------------------------------------------------------------
\* mkdtemp returns a directory that no other call has, without files.
LEMMA CreatingKeepsInv ==
  ASSUME CheckerInv, CreateTemporaryDirectory
  PROVE  CheckerInv'
<1>1. PICK name \in FreshNames :
        /\ directory' = name
        /\ directories' = [d \in DOMAIN directories \cup {name} |->
                             IF d \in DOMAIN directories THEN directories[d] ELSE <<>>]
  BY DEF CreateTemporaryDirectory
<1>2. /\ checking = "create" /\ checking' = "policy facts"
      /\ UNCHANGED <<policy, moduleFacts, loaded, answer, troubles>>
  BY DEF CreateTemporaryDirectory
<1>3. /\ DOMAIN directories = DOMAIN Leftovers
      /\ \A d \in DOMAIN Leftovers : directories[d] = Leftovers[d]
  BY <1>2 DEF CheckerInv, DirectoriesInv, HasDirectory, Working
<1>4. name \in DirectoryNames \ DOMAIN directories  BY <1>1 DEF FreshNames
<1>5. DirectoriesInv'
  BY <1>1, <1>2, <1>3, <1>4 DEF DirectoriesInv, HasDirectory, Working
<1>6. Files' = <<>>  BY <1>1, <1>4 DEF Files
<1>7. DOMAIN Files' = {}  BY <1>6
<1>8. FilesInv'  BY <1>2, <1>7 DEF FilesInv, Working
<1>9. VerdictInv'  BY <1>2 DEF VerdictInv, ReadsFactsOfThisCall, DiesOnlyOnTrouble
<1> QED  BY <1>2, <1>5, <1>8, <1>9 DEF CheckerInv

\* Without a directory the answer is false.
LEMMA CreateFailsKeepsInv ==
  ASSUME CheckerInv, CreateFails
  PROVE  CheckerInv'
<1>1. /\ checking = "create" /\ checking' = "answered" /\ answer' = FALSE
      /\ "create" \in troubles'
      /\ UNCHANGED <<directories, policy, moduleFacts, directory, loaded>>
  BY DEF CreateFails, Trouble
<1>2. DirectoriesInv'
  BY <1>1 DEF CheckerInv, DirectoriesInv, HasDirectory, Working, Over
<1>3. FilesInv'  BY <1>1 DEF FilesInv, Working
<1>4. VerdictInv'  BY <1>1 DEF VerdictInv, ReadsFactsOfThisCall, DiesOnlyOnTrouble
<1> QED  BY <1>1, <1>2, <1>3, <1>4 DEF CheckerInv

\* WriteFactsStringToFactsFile adds one file to the directory of the call,
\* with a prefix of the facts and, unless a write went wrong, all of them.
LEMMA WritingKeepsFiles ==
  ASSUME CheckerInv, checking \in Working,
         NEW relation, relation # "",
         NEW facts, IsFacts(facts), facts = FactsOf(policy, moduleFacts, relation),
         WritesFacts(relation, facts), UNCHANGED RestOfCall
  PROVE  /\ DOMAIN directories' = DOMAIN directories
         /\ \A d \in DOMAIN Leftovers : directories'[d] = Leftovers[d]
         /\ DOMAIN Files' = DOMAIN Files \cup {relation}
         /\ \A r \in DOMAIN Files' : FileInv(r)'
<1>1. /\ directory \in DOMAIN directories \ DOMAIN Leftovers
      /\ \A d \in DOMAIN Leftovers : d \in DOMAIN directories /\ directories[d] = Leftovers[d]
      /\ \A r \in DOMAIN Files : FileInv(r)
  BY DEF CheckerInv, DirectoriesInv, FilesInv, HasDirectory
<1>2. UNCHANGED <<policy, moduleFacts, directory>>  BY DEF RestOfCall
<1>3. PICK content : /\ Puts(relation, content)
                     /\ IsPrefix(content, facts)
                     /\ troubles \subseteq troubles'
                     /\ content = facts \/ "write" \in troubles'
  BY FilePrefixes DEF WritesFacts, Trouble
<1>4. /\ DOMAIN directories' = DOMAIN directories
      /\ \A d \in DOMAIN directories : d # directory => directories'[d] = directories[d]
      /\ Files' = [r \in DOMAIN Files \cup {relation} |->
                     IF r = relation THEN content ELSE Files[r]]
  BY <1>1, <1>2, <1>3 DEF Puts, Files
<1>5. ASSUME NEW r \in DOMAIN Files'
      PROVE  FileInv(r)'
  <2>1. FactsOf(policy, moduleFacts, r)' = FactsOf(policy, moduleFacts, r)
    BY <1>2 DEF FactsOf
  <2>2. CASE r = relation  BY <1>3, <1>4, <2>1, <2>2 DEF FileInv
  <2>3. CASE r # relation
    <3>1. r \in DOMAIN Files /\ Files'[r] = Files[r]  BY <1>4, <2>3
    <3> QED  BY <1>1, <1>3, <2>1, <3>1 DEF FileInv
  <2> QED  BY <2>2, <2>3
<1> QED  BY <1>1, <1>4, <1>5

\* A file that is refused although it was not there could not be opened.
LEMMA RefusalKeepsFiles ==
  ASSUME CheckerInv, checking \in Working, NEW relation,
         RefusesFacts(relation), UNCHANGED RestOfCall
  PROVE  /\ UNCHANGED directories /\ Files' = Files
         /\ \A r \in DOMAIN Files' : FileInv(r)'
         /\ relation \notin DOMAIN Files => "open" \in troubles'
<1>1. /\ UNCHANGED <<directories, policy, moduleFacts, directory>>
      /\ troubles \subseteq troubles'
      /\ relation \notin DOMAIN Files => "open" \in troubles'
  BY DEF RefusesFacts, Trouble, RestOfCall
<1>2. Files' = Files  BY <1>1 DEF Files
<1>3. \A r : FactsOf(policy, moduleFacts, r)' = FactsOf(policy, moduleFacts, r)
  BY <1>1 DEF FactsOf
<1>4. \A r \in DOMAIN Files : FileInv(r)  BY DEF CheckerInv, FilesInv
<1> QED  BY <1>1, <1>2, <1>3, <1>4 DEF FileInv

\* Between its creation and its removal a call owns one directory.
LEMMA WithinCallKeepsDirectories ==
  ASSUME CheckerInv, checking \in Working, checking' \in Working \cup {"died", "exited"},
         UNCHANGED directory, DOMAIN directories' = DOMAIN directories,
         \A d \in DOMAIN Leftovers : directories'[d] = Leftovers[d]
  PROVE  DirectoriesInv'
BY DEF CheckerInv, DirectoriesInv, HasDirectory, Working, Over

\* No verdict is claimed while files are written.
LEMMA NoVerdictYet ==
  ASSUME checking' \in Working \cup {"exited"}, checking' # "run"
  PROVE  VerdictInv'
BY DEF VerdictInv, ReadsFactsOfThisCall, DiesOnlyOnTrouble, Working

\* The facts of the policy, of the module, and the empty relation. Only the
\* empty relation may be there already: a policy of differential privacy
\* wrote it.
LEMMA WritingKeepsInv ==
  ASSUME CheckerInv, WritePolicyFacts \/ WriteModuleFacts \/ WriteEmptyRelations
  PROVE  CheckerInv'
<1>1. UNCHANGED RestOfCall /\ UNCHANGED <<policy, moduleFacts, directory>>
  BY DEF WritePolicyFacts, WriteModuleFacts, WriteEmptyRelations, RestOfCall
<1>2. /\ IsPolicy(policy) /\ IsFacts(moduleFacts) /\ policy.relation # "isOperation"
      /\ IsFacts(policy.facts)
  BY DEF CheckerInv, IsPolicy
<1>3. UNCHANGED PolicyFile  BY <1>1 DEF PolicyFile
<1>4. CASE WritePolicyFacts
  <2>1. /\ checking = "policy facts" /\ checking' = "module facts"
        /\ checking \in Working /\ checking' \in Working /\ DOMAIN Files = {}
    BY <1>4 DEF WritePolicyFacts, Goes, Working, CheckerInv, FilesInv
  <2>2. CASE policy.relation = ""
    <3>1. UNCHANGED <<directories, troubles>>  BY <1>4, <2>2 DEF WritePolicyFacts
    <3>2. Files' = Files  BY <1>1, <3>1 DEF Files
    <3>3. DirectoriesInv'
      BY <1>1, <2>1, <3>1, WithinCallKeepsDirectories DEF CheckerInv, DirectoriesInv
    <3>4. FilesInv'  BY <1>3, <2>1, <2>2, <3>2 DEF FilesInv, PolicyFile
    <3> QED  BY <1>1, <1>2, <2>1, <3>3, <3>4, NoVerdictYet DEF CheckerInv
  <2>3. CASE policy.relation # ""
    <3>1. WritesFacts(policy.relation, policy.facts)  BY <1>4, <2>3 DEF WritePolicyFacts
    <3>2. policy.facts = FactsOf(policy, moduleFacts, policy.relation)
      BY <1>2, <2>3 DEF FactsOf
    <3>3. /\ DOMAIN directories' = DOMAIN directories
          /\ \A d \in DOMAIN Leftovers : directories'[d] = Leftovers[d]
          /\ DOMAIN Files' = {policy.relation}
          /\ \A r \in DOMAIN Files' : FileInv(r)'
      BY <1>1, <1>2, <2>1, <2>3, <3>1, <3>2, WritingKeepsFiles
    <3>4. FilesInv'  BY <1>3, <2>1, <2>3, <3>3 DEF FilesInv, PolicyFile
    <3> QED  BY <1>1, <1>2, <2>1, <3>3, <3>4, NoVerdictYet, WithinCallKeepsDirectories DEF CheckerInv
  <2> QED  BY <2>2, <2>3
<1>5. CASE WriteModuleFacts
  <2>1. /\ checking = "module facts" /\ checking' = "empty relations"
        /\ checking \in Working /\ checking' \in Working /\ DOMAIN Files = PolicyFile
        /\ WritesFacts("isOperation", moduleFacts)
    BY <1>5 DEF WriteModuleFacts, Goes, Working, CheckerInv, FilesInv
  <2>2. moduleFacts = FactsOf(policy, moduleFacts, "isOperation")  BY DEF FactsOf
  <2>3. /\ DOMAIN directories' = DOMAIN directories
        /\ \A d \in DOMAIN Leftovers : directories'[d] = Leftovers[d]
        /\ DOMAIN Files' = PolicyFile \cup {"isOperation"}
        /\ \A r \in DOMAIN Files' : FileInv(r)'
    BY <1>1, <1>2, <2>1, <2>2, WritingKeepsFiles
  <2>4. FilesInv'  BY <1>3, <2>1, <2>3 DEF FilesInv
  <2> QED  BY <1>1, <1>2, <2>1, <2>3, <2>4, NoVerdictYet, WithinCallKeepsDirectories DEF CheckerInv
<1>6. CASE WriteEmptyRelations
  <2>1. /\ checking = "empty relations" /\ checking' = "load"
        /\ checking \in Working /\ checking' \in Working
        /\ DOMAIN Files = PolicyFile \cup {"isOperation"}
        /\ EmptiesFacts("isDPParameter")
    BY <1>6 DEF WriteEmptyRelations, Goes, Working, CheckerInv, FilesInv
  <2>2. CASE WritesFacts("isDPParameter", <<>>)
    <3>1. <<>> = FactsOf(policy, moduleFacts, "isDPParameter")
      BY <2>1, <2>2 DEF WritesFacts, MayWrite, FactsOf, PolicyFile
    <3>2. /\ DOMAIN directories' = DOMAIN directories
          /\ \A d \in DOMAIN Leftovers : directories'[d] = Leftovers[d]
          /\ DOMAIN Files' = DOMAIN Files \cup {"isDPParameter"}
          /\ \A r \in DOMAIN Files' : FileInv(r)'
      BY <1>1, <2>1, <2>2, <3>1, EmptyIsFacts, WritingKeepsFiles
    <3>3. FilesInv'  BY <1>3, <2>1, <3>2 DEF FilesInv
    <3> QED  BY <1>1, <1>2, <2>1, <3>2, <3>3, NoVerdictYet, WithinCallKeepsDirectories DEF CheckerInv
  <2>3. CASE RefusesFacts("isDPParameter")
    <3>1. /\ UNCHANGED directories /\ Files' = Files
          /\ \A r \in DOMAIN Files' : FileInv(r)'
      BY <1>1, <2>1, <2>3, RefusalKeepsFiles
    <3>2. FilesInv'  BY <1>3, <2>1, <3>1 DEF FilesInv
    <3>3. DirectoriesInv'
      BY <1>1, <2>1, <3>1, WithinCallKeepsDirectories DEF CheckerInv, DirectoriesInv
    <3> QED  BY <1>1, <1>2, <2>1, <3>2, <3>3, NoVerdictYet DEF CheckerInv
  <2> QED  BY <2>1, <2>2, <2>3 DEF EmptiesFacts
<1> QED  BY <1>4, <1>5, <1>6

\* The CHECKs on the two writes fail only if a file could not be opened: the
\* directory was empty, and the relation of a policy is not isOperation.
LEMMA RefusingKeepsInv ==
  ASSUME CheckerInv, PolicyFactsRefused \/ ModuleFactsRefused
  PROVE  CheckerInv'
<1>1. UNCHANGED RestOfCall /\ UNCHANGED <<policy, moduleFacts, directory>>
  BY DEF PolicyFactsRefused, ModuleFactsRefused, RestOfCall
<1>2. PICK relation : /\ RefusesFacts(relation) /\ relation \notin DOMAIN Files
                      /\ checking \in Working /\ checking' = "died"
  <2>1. CASE PolicyFactsRefused
    BY <2>1 DEF PolicyFactsRefused, Goes, Working, CheckerInv, FilesInv
  <2>2. CASE ModuleFactsRefused
    BY <2>2 DEF ModuleFactsRefused, Goes, Working, CheckerInv, FilesInv, IsPolicy, PolicyFile
  <2> QED  BY <2>1, <2>2
<1>3. UNCHANGED directories /\ "open" \in troubles'  BY <1>1, <1>2, RefusalKeepsFiles
<1>4. DirectoriesInv'
  BY <1>1, <1>2, <1>3, WithinCallKeepsDirectories DEF CheckerInv, DirectoriesInv
<1>5. FilesInv'  BY <1>2 DEF FilesInv, Working
<1>6. VerdictInv'  BY <1>2, <1>3 DEF VerdictInv, ReadsFactsOfThisCall, DiesOnlyOnTrouble
<1> QED  BY <1>1, <1>4, <1>5, <1>6 DEF CheckerInv

\* The program reads the files of this call.
LEMMA LoadingKeepsInv ==
  ASSUME CheckerInv, LoadAll
  PROVE  CheckerInv'
<1>1. /\ checking = "load" /\ checking' = "run" /\ checking \in Working /\ checking' \in Working
      /\ UNCHANGED <<directories, policy, moduleFacts, directory, answer>>
  BY DEF LoadAll, Goes, Working
<1>2. PICK relations \in SUBSET Readable :
        /\ Load(relations) /\ troubles \subseteq troubles'
        /\ relations = Readable \/ "load" \in troubles'
  <2>1. CASE Load(Readable) /\ UNCHANGED troubles  BY <2>1
  <2>2. ASSUME NEW r \in Readable, Load(Readable \ {r}), Trouble("load")
        PROVE  \E relations \in SUBSET Readable :
                 /\ Load(relations) /\ troubles \subseteq troubles'
                 /\ relations = Readable \/ "load" \in troubles'
    BY <2>2 DEF Trouble
  <2> QED  BY <2>1, <2>2 DEF LoadAll
<1>3. /\ \A r \in DOMAIN Files : FileInv(r)
      /\ PolicyFile \cup {"isOperation"} \subseteq DOMAIN Files
      /\ IsFacts(moduleFacts) /\ IsFacts(policy.facts)
  BY <1>1 DEF CheckerInv, FilesInv, IsPolicy
<1>4. /\ \A r : IsFacts(FactsOf(policy, moduleFacts, r))
      /\ \A r : r \notin DOMAIN Files => FactsOf(policy, moduleFacts, r) = <<>>
  BY <1>3, EmptyIsFacts DEF FactsOf, PolicyFile
<1>5. /\ loaded' = [r \in Reads[policy.engine] |-> IF r \in relations THEN Files[r] ELSE <<>>]
      /\ Given = [r \in Reads[policy.engine] |-> FactsOf(policy, moduleFacts, r)]
      /\ Given' = Given
  BY <1>1, <1>2 DEF Load, Given, FactsFor, FactsOf
<1>6. DOMAIN loaded' = DOMAIN Given'  BY <1>5
<1>7. ASSUME NEW r \in Reads[policy.engine]
      PROVE  IsPrefix(loaded'[r], Given'[r])
  <2>1. CASE r \in relations  BY <1>2, <1>3, <1>5, <2>1 DEF FileInv, Readable
  <2>2. CASE r \notin relations  BY <1>4, <1>5, <2>2, FilePrefixes
  <2> QED  BY <2>1, <2>2
<1>8. ASSUME NothingLost'
      PROVE  loaded' = Given'
  <2>1. "write" \notin troubles /\ relations = Readable  BY <1>2, <1>8 DEF NothingLost
  <2>2. \A r \in Reads[policy.engine] :
          (IF r \in relations THEN Files[r] ELSE <<>>) = FactsOf(policy, moduleFacts, r)
    BY <1>3, <1>4, <2>1 DEF FileInv, Readable
  <2> QED  BY <1>5, <2>2
<1>9. ReadsFactsOfThisCall'  BY <1>5, <1>6, <1>7, <1>8 DEF ReadsFactsOfThisCall
<1>10. VerdictInv'  BY <1>1, <1>9 DEF VerdictInv, DiesOnlyOnTrouble
<1>11. DirectoriesInv'
  BY <1>1, WithinCallKeepsDirectories DEF CheckerInv, DirectoriesInv
<1>12. FilesInv'
  <2>1. Files' = Files /\ PolicyFile' = PolicyFile  BY <1>1 DEF Files, PolicyFile
  <2>2. \A r \in DOMAIN Files : FileInv(r)'
    <3>1. \A r : FactsOf(policy, moduleFacts, r)' = FactsOf(policy, moduleFacts, r)
      BY <1>1 DEF FactsOf
    <3> QED  BY <1>2, <1>3, <2>1, <3>1 DEF FileInv
  <2> QED  BY <1>1, <1>3, <2>1, <2>2 DEF FilesInv
<1> QED  BY <1>1, <1>10, <1>11, <1>12 DEF CheckerInv

\* The loader ends the process, or the engine is not linked in.
LEMMA NotLoadingKeepsInv ==
  ASSUME CheckerInv, LoadExits \/ NoSuchEngine
  PROVE  CheckerInv'
<1>1. /\ checking \in Working
      /\ \/ checking' = "exited"
         \/ checking' = "died" /\ policy.engine \notin DOMAIN Reads
      /\ UNCHANGED <<directories, policy, moduleFacts, directory, answer>>
  BY DEF LoadExits, NoSuchEngine, Goes, Working, RestOfCall
<1>2. DirectoriesInv'
  BY <1>1, WithinCallKeepsDirectories DEF CheckerInv, DirectoriesInv
<1>3. FilesInv'  BY <1>1 DEF FilesInv, Working
<1>4. VerdictInv'  BY <1>1 DEF VerdictInv, ReadsFactsOfThisCall, DiesOnlyOnTrouble
<1> QED  BY <1>1, <1>2, <1>3, <1>4 DEF CheckerInv

\* The answer is the verdict on what was loaded; the directory goes.
LEMMA RunningKeepsInv ==
  ASSUME CheckerInv, Run
  PROVE  CheckerInv'
<1>1. /\ checking = "run" /\ checking' = "answered" /\ checking \in Working
      /\ answer' = ~Violates(policy.engine, loaded)
      /\ directories' = [d \in DOMAIN directories \ {directory} |-> directories[d]]
      /\ UNCHANGED <<policy, moduleFacts, directory, loaded, troubles>>
  BY DEF Run, Goes, Working, Removed
<1>2. DirectoriesInv'
  BY <1>1 DEF CheckerInv, DirectoriesInv, HasDirectory, Working, Over
<1>3. FilesInv'  BY <1>1 DEF FilesInv, Working
<1>4. VerdictInv'
  <2>1. NothingLost => loaded = FactsFor(policy, moduleFacts)
    BY <1>1 DEF CheckerInv, VerdictInv, ReadsFactsOfThisCall, Given
  <2>2. answer' \in BOOLEAN  BY <1>1
  <2>3. NothingLost => (answer' <=> Compliant(policy, moduleFacts))
    BY <1>1, <2>1 DEF Compliant
  <2>4. NothingLost' = NothingLost
        /\ Compliant(policy, moduleFacts)' = Compliant(policy, moduleFacts)
    BY <1>1 DEF NothingLost, Compliant, FactsFor, FactsOf
  <2> QED  BY <1>1, <2>2, <2>3, <2>4 DEF VerdictInv, ReadsFactsOfThisCall, DiesOnlyOnTrouble
<1> QED  BY <1>1, <1>2, <1>3, <1>4 DEF CheckerInv

\* Every step of IsModulePolicyCompliant keeps the invariant.
LEMMA CheckerStep ==
  ASSUME CheckerInv, CheckerNext
  PROVE  CheckerInv'
BY CreatingKeepsInv, CreateFailsKeepsInv, WritingKeepsInv, RefusingKeepsInv, LoadingKeepsInv,
   NotLoadingKeepsInv, RunningKeepsInv
   DEF CheckerNext

-----------------------------------------------------------------------------
\* The decoder's part of the invariant speaks of its variables only.
LEMMA DecoderRests ==
  ASSUME DecoderInv, UNCHANGED decoderVars
  PROVE  DecoderInv'
BY DEF DecoderInv, decoderVars, WellFormedSoFar

\* So does the checker's.
LEMMA CheckerRests ==
  ASSUME CheckerInv, UNCHANGED checkerVars
  PROVE  CheckerInv'
<1>1. DirectoriesInv'  BY DEF CheckerInv, checkerVars, DirectoriesInv, HasDirectory
<1>2. FilesInv'
  BY DEF CheckerInv, checkerVars, FilesInv, FileInv, Files, PolicyFile, FactsOf
<1>3. VerdictInv'
  BY DEF CheckerInv, checkerVars, VerdictInv, ReadsFactsOfThisCall, DiesOnlyOnTrouble,
         NothingLost, Given, Compliant, FactsFor, FactsOf
<1> QED  BY <1>1, <1>2, <1>3 DEF CheckerInv, checkerVars

\* Reading a module and choosing a policy leave the checker as it is.
LEMMA CallStarts ==
  ASSUME CheckerInv, checking = "none", checking' \in {"none", "create"},
         IsPolicy(policy'), IsFacts(moduleFacts'),
         UNCHANGED <<directories, directory, loaded, answer, troubles>>
  PROVE  CheckerInv'
<1>1. DirectoriesInv'
  BY DEF CheckerInv, DirectoriesInv, HasDirectory, Working, Before
<1>2. FilesInv'  BY DEF FilesInv, Working
<1>3. VerdictInv'  BY DEF VerdictInv, ReadsFactsOfThisCall, DiesOnlyOnTrouble
<1> QED  BY <1>1, <1>2, <1>3 DEF CheckerInv

\* What follows from the flags.
FlagsMean == <<OnlyOneGraph, GraphKind, GraphPath, PoliciesGiven>>

\* What the flags of the command say does not change.
LEMMA FlagsRest ==
  ASSUME UNCHANGED flags
  PROVE  UNCHANGED FlagsMean
BY DEF FlagsMean, OnlyOneGraph, GraphKind, GraphPath, PoliciesGiven, Has, BothParameters

\* The invariant holds when either program starts.
LEMMA InitInv ==
  ASSUME Init
  PROVE  IInv
<1>1. IsArena(arena) /\ IsPolicy(policy)
  <2>1. IsArena(<<>>)  BY DEF IsArena, ToSet
  <2>2. IsPolicy(NoPolicy)  BY EmptyIsFacts DEF NoPolicy, Policy, IsPolicy
  <2> QED  BY <2>1, <2>2, QueriesAssumption DEF Init
<1>2. DecoderInv
  <2>1. 1..(1 - 1) = {}  OBVIOUS
  <2>2. Len(arena) \in Nat  BY <1>1, ArenaItems
  <2>3. next = 1 /\ DOMAIN idToValue = {} /\ operations = <<>> /\ decoding = "decode"
    BY DEF Init, DecoderInit
  <2>4. 1 \in 1..(Len(arena) + 1)  BY <2>2
  <2> QED  BY <1>1, <2>1, <2>3, <2>4, EmptyIsFacts DEF DecoderInv, WellFormedSoFar, IdsBefore
<1>3. CheckerInv
  <2>1. checking = "none" /\ directories = Leftovers /\ moduleFacts = <<>>
    BY DEF Init, CheckerInit
  <2>2. DirectoriesInv  BY <2>1 DEF DirectoriesInv, HasDirectory, Working, Before
  <2>3. FilesInv  BY <2>1 DEF FilesInv, Working
  <2>4. VerdictInv  BY <2>1 DEF VerdictInv, ReadsFactsOfThisCall, DiesOnlyOnTrouble
  <2> QED  BY <1>1, <2>1, <2>2, <2>3, <2>4, EmptyIsFacts DEF CheckerInv
<1>4. PhaseInv
  <2>1. exitStatus = -1 /\ checking = "none"  BY DEF Init, CheckerInit
  <2>2. exitStatus \in -1..2  BY <2>1
  <2>3. \/ client = "verify" /\ phase = "decode"
        \/ client = "command" /\ phase = "graph"
    BY DEF Init
  <2> QED  BY <2>1, <2>2, <2>3 DEF PhaseInv
<1>5. CommandInv  BY DEF Init, CheckerInit, CommandInv
<1> QED  BY <1>2, <1>3, <1>4, <1>5 DEF IInv

\* verify decodes a query and hands the facts of its operations over.
LEMMA VerifyStep ==
  ASSUME IInv, Decode \/ VerifyModule
  PROVE  IInv'
<1>1. client = "verify" /\ checking = "none" /\ exitStatus = -1 /\ UNCHANGED <<client, exitStatus>>
  BY DEF IInv, PhaseInv, Decode, VerifyModule
<1>2. CommandInv'  BY <1>1 DEF CommandInv
<1>3. CASE Decode
  <2>1. DecoderInv'  BY <1>3, DecoderStep DEF Decode, IInv
  <2>2. CheckerInv'  BY <1>3, CheckerRests DEF Decode, IInv
  <2>3. PhaseInv'  BY <1>1, <1>3 DEF Decode, IInv, PhaseInv, checkerVars
  <2> QED  BY <1>2, <2>1, <2>2, <2>3 DEF IInv
<1>4. CASE VerifyModule
  <2>1. DecoderInv'  BY <1>4, DecoderRests DEF VerifyModule, IInv
  <2>2. IsFacts(moduleFacts')  BY <1>4, LoweringKeepsOrder DEF VerifyModule, IInv, DecoderInv
  <2>3. CheckerInv'
    BY <1>1, <1>4, <2>2, CallStarts DEF VerifyModule, IInv, CheckerInv
  <2>4. PhaseInv'  BY <1>1, <1>4 DEF VerifyModule, IInv, PhaseInv
  <2> QED  BY <1>2, <2>1, <2>3, <2>4 DEF IInv
<1> QED  BY <1>3, <1>4

\* The ends of the command before it checks anything.
NothingChecked ==
  WrongGraphFlags \/ GraphNotOK \/ GraphDies \/ RulesNotOK \/ NoPolicyFlag

\* The command returns 2, or dies, before it has a module and a policy.
LEMMA NothingCheckedStep ==
  ASSUME IInv, NothingChecked
  PROVE  IInv'
<1>1. /\ client = "command" /\ checking = "none" /\ exitStatus = -1
      /\ phase' = "end" /\ exitStatus' \in {-1, 2}
      /\ UNCHANGED <<decoderVars, checkerVars, client, flags>>
  BY DEF IInv, PhaseInv, NothingChecked, WrongGraphFlags, GraphNotOK, GraphDies, RulesNotOK,
         NoPolicyFlag, Returns, Dies, RestOfCommand, checkerVars
<1>2. DecoderInv' /\ CheckerInv'  BY <1>1, DecoderRests, CheckerRests DEF IInv
<1>3. PhaseInv'  BY <1>1 DEF IInv, PhaseInv, checkerVars
<1>4. CommandInv'  BY <1>1 DEF IInv, CommandInv, checkerVars
<1> QED  BY <1>2, <1>3, <1>4 DEF IInv

\* The command reads a module from the one file that was given.
LEMMA ReadGraphStep ==
  ASSUME IInv, ReadGraph
  PROVE  IInv'
<1>1. /\ client = "command" /\ checking = "none" /\ exitStatus = -1 /\ phase = "graph"
      /\ phase' = "policy" /\ OnlyOneGraph /\ GraphKind = "facts"
      /\ moduleFacts' = Contents[GraphPath].facts
      /\ UNCHANGED <<decoderVars, client, flags, directories, directory, loaded, answer, troubles,
                     checking, policy, exitStatus>>
  BY DEF IInv, PhaseInv, ReadGraph, RestOfCommand
<1>2. DecoderInv'  BY <1>1, DecoderRests DEF IInv
<1>3. IsFacts(moduleFacts')
  BY <1>1, ContentsAssumption DEF GraphKind
<1>4. CheckerInv'  BY <1>1, <1>3, CallStarts DEF IInv, CheckerInv
<1>5. PhaseInv'  BY <1>1 DEF IInv, PhaseInv
<1>6. CommandInv'  BY <1>1, FlagsRest DEF IInv, CommandInv, FlagsMean
<1> QED  BY <1>2, <1>4, <1>5, <1>6 DEF IInv

\* The three kinds of policy.
PolicyChosen ==
  ChooseAuthLogicPolicy \/ ChooseCatchallPolicy \/ ChooseDpParameterPolicy

\* The policy of the command is one its flags describe.
LEMMA PolicyChosenStep ==
  ASSUME IInv, PolicyChosen
  PROVE  IInv'
<1>1. phase = "policy" /\ client = "command" /\ checking = "none" /\ exitStatus = -1
      /\ flags \in Commands
  BY DEF IInv, PhaseInv, CommandInv, PolicyChosen, ChooseAuthLogicPolicy, ChooseCatchallPolicy,
         ChooseDpParameterPolicy
<1>2. PICK chosen : Check(chosen) /\ IsPolicy(chosen) /\ chosen \in PoliciesGiven
  <2>1. CASE ChooseAuthLogicPolicy
    BY <2>1, PoliciesOfFlags DEF ChooseAuthLogicPolicy, PoliciesGiven
  <2>2. CASE ChooseCatchallPolicy
    <3>1. flags.sql_policy_rules \in DOMAIN Contents  BY <2>2 DEF ChooseCatchallPolicy
    <3>2. IsFacts(Contents[flags.sql_policy_rules].facts)  BY <1>1, <3>1, CommandsAssumption
    <3> QED  BY <2>2, <3>1, <3>2, PoliciesOfFlags DEF ChooseCatchallPolicy, PoliciesGiven
  <2>3. CASE ChooseDpParameterPolicy
    BY <2>3, PoliciesOfFlags DEF ChooseDpParameterPolicy, PoliciesGiven
  <2> QED  BY <2>1, <2>2, <2>3 DEF PolicyChosen
<1>3. /\ policy' = chosen /\ checking' = "create" /\ phase' = "check"
      /\ UNCHANGED <<decoderVars, client, flags, directories, directory, loaded, answer, troubles,
                     moduleFacts, exitStatus>>
  BY <1>2 DEF Check, RestOfCommand
<1>4. DecoderInv'  BY <1>3, DecoderRests DEF IInv
<1>5. CheckerInv'  BY <1>1, <1>2, <1>3, CallStarts DEF IInv, CheckerInv
<1>6. PhaseInv'  BY <1>1, <1>3 DEF IInv, PhaseInv
<1>7. CommandInv'
  BY <1>1, <1>2, <1>3, FlagsRest DEF IInv, CommandInv, FlagsMean
<1> QED  BY <1>4, <1>5, <1>6, <1>7 DEF IInv

\* The checker changes neither its arguments nor the flags.
LEMMA RunCheckerStep ==
  ASSUME IInv, RunChecker
  PROVE  IInv'
<1>1. /\ CheckerNext /\ phase = "check" /\ checking # "none"
      /\ UNCHANGED <<decoderVars, client, flags, phase, exitStatus>>
  BY DEF RunChecker, clientVars, IInv, PhaseInv
<1>2. UNCHANGED <<policy, moduleFacts>> /\ checking' # "none"
  BY <1>1 DEF CheckerNext, CreateTemporaryDirectory, CreateFails, WritePolicyFacts,
     PolicyFactsRefused, WriteModuleFacts, ModuleFactsRefused, WriteEmptyRelations, LoadAll,
     LoadExits, NoSuchEngine, Run, Goes, RestOfCall
<1>3. DecoderInv'  BY <1>1, DecoderRests DEF IInv
<1>4. CheckerInv'  BY <1>1, CheckerStep DEF IInv
<1>5. PhaseInv'  BY <1>1, <1>2 DEF IInv, PhaseInv
<1>6. CommandInv'  BY <1>1, <1>2, FlagsRest DEF IInv, CommandInv, FlagsMean
<1> QED  BY <1>3, <1>4, <1>5, <1>6 DEF IInv

\* The exit status of the command is made of the checker's end.
LEMMA EndStep ==
  ASSUME IInv, Answer \/ EndWithChecker
  PROVE  IInv'
<1>1. /\ phase = "check" /\ phase' = "end" /\ exitStatus = -1
      /\ UNCHANGED <<decoderVars, checkerVars, client, flags>>
      /\ UNCHANGED <<checking, policy, moduleFacts, answer>>
  BY DEF Answer, EndWithChecker, IInv, PhaseInv, checkerVars
<1>2. DecoderInv' /\ CheckerInv'  BY <1>1, DecoderRests, CheckerRests DEF IInv
<1>3. /\ exitStatus' \in -1..2
      /\ client = "command" =>
           \/ checking = "answered" /\ exitStatus' = ReturnCode
           \/ checking = "exited" /\ exitStatus' = 1
           \/ checking = "died" /\ exitStatus' = -1
  BY <1>1 DEF Answer, EndWithChecker, ReturnCode
<1>4. PhaseInv'  BY <1>1, <1>3 DEF IInv, PhaseInv
<1>5. ReturnCode' = ReturnCode  BY <1>1 DEF ReturnCode
<1>6. CommandInv'  BY <1>1, <1>3, <1>5, FlagsRest DEF IInv, CommandInv, FlagsMean
<1> QED  BY <1>2, <1>4, <1>6 DEF IInv

\* Every step keeps the invariant.
LEMMA StepInv ==
  ASSUME IInv, [Next]_vars
  PROVE  IInv'
<1>1. CASE Next
  BY <1>1, VerifyStep, NothingCheckedStep, ReadGraphStep, PolicyChosenStep, RunCheckerStep, EndStep
     DEF Next, NothingChecked, PolicyChosen
<1>2. CASE UNCHANGED vars
  <2>1. UNCHANGED <<decoderVars, checkerVars, clientVars>>  BY <1>2 DEF vars
  <2>2. DecoderInv' /\ CheckerInv'  BY <2>1, DecoderRests, CheckerRests DEF IInv
  <2>3. PhaseInv'  BY <2>1 DEF IInv, PhaseInv, checkerVars, clientVars
  <2>4. CommandInv'
    BY <2>1, FlagsRest DEF IInv, CommandInv, FlagsMean, checkerVars, clientVars, ReturnCode
  <2> QED  BY <2>2, <2>3, <2>4 DEF IInv
<1> QED  BY <1>1, <1>2

\* So it always holds.
LEMMA ComplianceInvariant == Spec => []IInv
BY InitInv, StepInv, PTL DEF Spec

-----------------------------------------------------------------------------
\* The type invariant: the ids registered are those of the expressions
\* decoded so far, and directories have names that mkdtemp makes.
THEOREM TypesOK == Spec => []TypeOK
<1>1. IInv => TypeOK
  <2>1. SUFFICES ASSUME IInv PROVE TypeOK  OBVIOUS
  <2>2. DOMAIN directories \subseteq DirectoryNames
    BY <2>1, LeftoversAssumption DEF IInv, CheckerInv, DirectoriesInv
  <2>3. DOMAIN idToValue = {arena[i].id : i \in 1..(next - 1)}
    BY <2>1 DEF IInv, DecoderInv, IdsBefore
  <2> QED  BY <2>1, <2>2, <2>3 DEF IInv, DecoderInv, PhaseInv, TypeOK
<1> QED  BY <1>1, ComplianceInvariant, PTL

\* DecodeExpressionArena refuses exactly the arenas that sql_ir.proto and
\* the operations forbid, however long they are: what it registers while it
\* goes from left to right is enough to decide.
THEOREM DecoderIsExact == Spec => []DecodesExactlyWellFormed
<1>1. IInv => DecodesExactlyWellFormed  BY DecoderInvDecides DEF IInv
<1> QED  BY <1>1, ComplianceInvariant, PTL

\* A program never works on facts of another call, and on all facts of its
\* own unless a write or a read went wrong: no file of the call can be one
\* of another call's, for mkdtemp's names are fresh.
THEOREM FactsOfThisCall == Spec => []ReadsFactsOfThisCall
<1>1. IInv => ReadsFactsOfThisCall  BY DEF IInv, CheckerInv, VerdictInv
<1> QED  BY <1>1, ComplianceInvariant, PTL

\* IsModulePolicyCompliant dies of a file it cannot open or an engine it
\* does not have, whatever other calls left behind.
THEOREM DeathNeedsTrouble == Spec => []DiesOnlyOnTrouble
<1>1. IInv => DiesOnlyOnTrouble  BY DEF IInv, CheckerInv, VerdictInv
<1> QED  BY <1>1, ComplianceInvariant, PTL

\* A directory outlives its call only if the process ended in the call, and
\* the directories of other calls are not touched.
THEOREM DirectoriesAreRemoved == Spec => []CleansUp
<1>1. IInv => CleansUp
  BY DEF IInv, CheckerInv, DirectoriesInv, HasDirectory, Working, CleansUp
<1> QED  BY <1>1, ComplianceInvariant, PTL

\* Exactly one of --ir and --proto names the module.
LEMMA GraphIsGiven ==
  ASSUME OnlyOneGraph, GraphKind = "facts"
  PROVE  FactsGiven = {Contents[GraphPath].facts}
<1>1. GraphPath \in DOMAIN Contents /\ Contents[GraphPath].kind = "facts"
  BY DEF GraphKind
<1>2. {flags.ir, flags.proto} \cap DOMAIN Contents = {GraphPath}
  BY <1>1, ContentsAssumption DEF OnlyOneGraph, GraphPath
<1> QED  BY <1>1, <1>2 DEF FactsGiven

\* The exit status of check_policy_compliance tells the verdict on the one
\* module and on one of the policies that the flags describe, for every
\* combination of flags, every file and every program.
THEOREM ExitStatusIsVerdict == Spec => []ExitStatusTellsVerdict
<1>1. ASSUME IInv, client = "command", phase = "end", NothingLost
      PROVE  /\ exitStatus = 0 => \A facts \in FactsGiven : \E p \in PoliciesGiven : Compliant(p, facts)
             /\ exitStatus = 1 => \/ "create" \in troubles \/ checking = "exited"
                                  \/ \E facts \in FactsGiven, p \in PoliciesGiven : ~Compliant(p, facts)
             /\ exitStatus = 2 => checking = "none"
             /\ exitStatus = -1 => checking \in {"none", "died"}
  <2>1. \/ checking = "none" /\ exitStatus \in {-1, 2}
        \/ checking = "answered" /\ exitStatus = ReturnCode
        \/ checking = "exited" /\ exitStatus = 1
        \/ checking = "died" /\ exitStatus = -1
    BY <1>1 DEF IInv, CommandInv
  <2>2. ASSUME checking = "answered"
        PROVE  /\ policy \in PoliciesGiven /\ FactsGiven = {moduleFacts}
               /\ answer \in BOOLEAN
               /\ \/ "create" \in troubles /\ ~answer
                  \/ answer <=> Compliant(policy, moduleFacts)
    BY <1>1, <2>2, GraphIsGiven DEF IInv, CommandInv, CheckerInv, VerdictInv
  <2>3. CASE checking = "answered"
    BY <2>1, <2>2, <2>3 DEF ReturnCode
  <2>4. CASE checking # "answered"
    BY <2>1, <2>4
  <2> QED  BY <2>3, <2>4
<1>2. IInv => ExitStatusTellsVerdict  BY <1>1 DEF ExitStatusTellsVerdict
<1> QED  BY <1>2, ComplianceInvariant, PTL

-----------------------------------------------------------------------------
\* The values there are once the block has m operations.
ValuesTill(m) == {StoredValue(s) : s \in storages} \cup {OperationResult(k) : k \in 1 .. m}

\* The operation that an expression is decoded to, over the values of ids.
DecodedTo(expr, op, values) ==
  \/ expr.variant = "literal" /\ op = LiteralOp(expr.str)
  \/ /\ expr.variant = "merge"
     /\ op = MergeOp([j \in DOMAIN expr.inputs |-> values[expr.inputs[j]]],
                     [j \in DOMAIN expr.controlInputs |-> values[expr.controlInputs[j]]])
  \/ /\ expr.variant = "transform"
     /\ \E order \in SetToSeqs(DOMAIN expr.preconditions) :
          op = TagTransformOp(expr.rule, values[expr.node], order,
                              [name \in DOMAIN expr.preconditions |->
                                 values[expr.preconditions[name]]])

\* The value of a column is its storage, that of another expression the
\* result of its operation.
ValueIsOf(expr, value) ==
  \/ expr.variant = "column" /\ expr.path \in storages /\ value = StoredValue(expr.path)
  \/ \E k \in 1 .. Len(operations) :
       value = OperationResult(k) /\ DecodedTo(expr, operations[k], idToValue)

\* What the values of ids and the operations are.  An operation has inputs
\* that were there before it.
MeaningInv ==
  /\ \A id \in DOMAIN idToValue : idToValue[id] \in ValuesTill(Len(operations))
  /\ \A k \in 1 .. Len(operations) : ToSet(operations[k].inputs) \subseteq ValuesTill(k - 1)
  /\ \A i \in 1 .. (next - 1) : ValueIsOf(arena[i].expression, idToValue[arena[i].id])
  /\ decoding = "decoded" => Last(operations) = SqlOutputOp(idToValue[Last(arena).id])

-----------------------------------------------------------------------------
\* An order of a finite set has each of its elements at one position.
LEMMA Orders ==
  ASSUME NEW S, IsFiniteSet(S), NEW order \in SetToSeqs(S)
  PROVE  /\ order \in Seq(S) /\ ToSet(order) = S
         /\ \A x \in S : Position(order, x) \in DOMAIN order /\ order[Position(order, x)] = x
<1> DEFINE n == Cardinality(S)
<1>1. n \in Nat
  BY FS_CardinalityType
<1>2. order \in [1 .. n -> S] /\ \A i, j \in 1 .. n : i # j => order[i] # order[j]
  BY DEF SetToSeqs
<1>3. order \in Injection(1 .. n, S)
  BY <1>2 DEF Injection, IsInjective
<1>4. IsFiniteSet(1 .. n) /\ Cardinality(1 .. n) = n
  BY <1>1, FS_Interval
<1>5. order \in Surjection(1 .. n, S)
  BY <1>3, <1>4, FS_Injection
<1>6. \A x \in S : \E i \in 1 .. n : order[i] = x
  BY <1>5 DEF Surjection
<1>7. order \in Seq(S) /\ DOMAIN order = 1 .. n
  BY <1>1, <1>2
<1>8. ToSet(order) = S
  BY <1>2, <1>6, <1>7 DEF ToSet
<1>9. \A x \in S : Position(order, x) \in DOMAIN order /\ order[Position(order, x)] = x
  BY <1>6, <1>7 DEF Position
<1>10. QED
  BY <1>7, <1>8, <1>9

\* What a concatenation has.
LEMMA ToSetConcat ==
  ASSUME NEW V, NEW s \in Seq(V), NEW t \in Seq(V)
  PROVE  ToSet(s \o t) = ToSet(s) \cup ToSet(t)
<1>1. /\ Len(s) \in Nat /\ Len(t) \in Nat /\ Len(s \o t) = Len(s) + Len(t) /\ s \o t \in Seq(V)
      /\ \A i \in 1 .. Len(s) + Len(t) : (s \o t)[i] = IF i <= Len(s) THEN s[i] ELSE t[i - Len(s)]
  BY ConcatProperties
<1>2. /\ DOMAIN s = 1 .. Len(s) /\ DOMAIN t = 1 .. Len(t) /\ DOMAIN (s \o t) = 1 .. Len(s) + Len(t)
  BY <1>1
<1>3. \A i \in DOMAIN s : i \in DOMAIN (s \o t) /\ (s \o t)[i] = s[i]
  BY <1>1, <1>2
<1>4. \A i \in DOMAIN t : i + Len(s) \in DOMAIN (s \o t) /\ (s \o t)[i + Len(s)] = t[i]
  BY <1>1, <1>2
<1>5. \A i \in DOMAIN (s \o t) :
        \/ i \in DOMAIN s /\ (s \o t)[i] = s[i]
        \/ i - Len(s) \in DOMAIN t /\ (s \o t)[i] = t[i - Len(s)]
  BY <1>1, <1>2
<1>6. ToSet(s) \subseteq ToSet(s \o t)
  BY <1>3 DEF ToSet
<1>7. ToSet(t) \subseteq ToSet(s \o t)
  BY <1>4 DEF ToSet
<1>8. ToSet(s \o t) \subseteq ToSet(s) \cup ToSet(t)
  BY <1>5 DEF ToSet
<1>9. QED
  BY <1>6, <1>7, <1>8

\* The readers of a merge return what it was made of.
LEMMA MergeReads ==
  ASSUME NEW V, NEW d \in Seq(V), NEW c \in Seq(V)
  PROVE  /\ MergeOp(d, c).operator = "sql.merge"
         /\ ToSet(MergeOp(d, c).inputs) = ToSet(d) \cup ToSet(c)
         /\ GetDirectInputs(MergeOp(d, c)) = d
         /\ GetControlInputs(MergeOp(d, c)) = c
<1>1. /\ MergeOp(d, c).inputs = d \o c /\ MergeOp(d, c).operator = "sql.merge"
      /\ MergeOp(d, c).attributes["control_input_start_index"] = Len(d)
  BY DEF MergeOp, Operation
<1>2. /\ Len(d) \in Nat /\ Len(c) \in Nat /\ Len(d \o c) = Len(d) + Len(c) /\ d \o c \in Seq(V)
      /\ \A i \in 1 .. Len(d) + Len(c) : (d \o c)[i] = IF i <= Len(d) THEN d[i] ELSE c[i - Len(d)]
  BY ConcatProperties
<1>3. SubSeq(d \o c, 1, Len(d)) = d
  <2> DEFINE p == SubSeq(d \o c, 1, Len(d))
  <2>1. /\ p \in Seq(V) /\ Len(p) = Len(d)
        /\ \A i \in 1 .. Len(d) : p[i] = (d \o c)[i]
    BY <1>2
  <2>2. \A i \in 1 .. Len(d) : p[i] = d[i]
    BY <1>2, <2>1
  <2>3. QED
    BY <2>1, <2>2
<1>4. SubSeq(d \o c, Len(d) + 1, Len(d \o c)) = c
  <2> DEFINE p == SubSeq(d \o c, Len(d) + 1, Len(d \o c))
  <2>1. /\ p \in Seq(V) /\ Len(p) = Len(c)
        /\ \A i \in 1 .. Len(c) : p[i] = (d \o c)[Len(d) + i]
    BY <1>2
  <2>2. \A i \in 1 .. Len(c) : p[i] = c[i]
    BY <1>2, <2>1, SMTT(30)
  <2>3. QED
    BY <2>1, <2>2
<1>5. QED
  BY <1>1, <1>3, <1>4, ToSetConcat DEF GetDirectInputs, GetControlInputs

\* The readers of a transform return what it was made of, in whatever order
\* the preconditions came.
LEMMA TransformReads ==
  ASSUME NEW S, NEW order, NEW rule, NEW value, NEW values,
         IsFiniteSet(S), order \in SetToSeqs(S), "rule_name" \notin S
  PROVE  /\ TagTransformOp(rule, value, order, values).operator = "sql.tag_transform"
         /\ TagTransformOp(rule, value, order, values).attributes["rule_name"] = rule
         /\ \A w : w \in ToSet(TagTransformOp(rule, value, order, values).inputs)
                     <=> w = value \/ \E x \in S : w = values[x]
         /\ GetTransformedValue(TagTransformOp(rule, value, order, values)) = value
         /\ GetPreconditions(TagTransformOp(rule, value, order, values)) = [x \in S |-> values[x]]
<1> DEFINE op == TagTransformOp(rule, value, order, values)
           rest == [i \in DOMAIN order |-> values[order[i]]]
           attributes == [name \in {"rule_name"} \cup ToSet(order) |->
                            IF name = "rule_name" THEN rule ELSE Position(order, name)]
           W == {value} \cup {values[x] : x \in S}
<1>1. /\ op.operator = "sql.tag_transform" /\ op.attributes = attributes
      /\ op.inputs = <<value>> \o rest
  BY DEF TagTransformOp, Operation
<1>2. /\ order \in Seq(S) /\ ToSet(order) = S /\ DOMAIN order = 1 .. Len(order) /\ Len(order) \in Nat
      /\ \A x \in S : Position(order, x) \in DOMAIN order /\ order[Position(order, x)] = x
  BY Orders
<1>3. /\ rest \in Seq(W) /\ Len(rest) = Len(order) /\ DOMAIN rest = DOMAIN order
      /\ \A i \in DOMAIN order : rest[i] = values[order[i]]
  BY <1>2
<1>4. <<value>> \in Seq(W) /\ Len(<<value>>) = 1 /\ <<value>>[1] = value /\ DOMAIN <<value>> = {1}
  OBVIOUS
<1> HIDE DEF op, rest, attributes, W
<1>5. \A i \in 1 .. 1 + Len(order) : (<<value>> \o rest)[i] = IF i <= 1 THEN <<value>>[i] ELSE rest[i - 1]
  BY <1>3, <1>4, ConcatProperties
<1>6. op.inputs[1] = value
  BY <1>1, <1>2, <1>4, <1>5
<1>7. \A i \in DOMAIN order : op.inputs[i + 1] = values[order[i]]
  <2>1. \A i \in DOMAIN order : i + 1 \in 1 .. 1 + Len(order) /\ ~(i + 1 <= 1) /\ (i + 1) - 1 = i
    BY <1>2
  <2>2. QED
    BY <1>1, <1>3, <1>5, <2>1
<1>8. \A w : w \in ToSet(op.inputs) <=> w = value \/ \E x \in S : w = values[x]
  <2>1. ToSet(op.inputs) = ToSet(<<value>>) \cup ToSet(rest)
    <3>1. <<value>> \in Seq(W) /\ rest \in Seq(W)
      BY <1>3, <1>4
    <3> DEFINE one == <<value>>
    <3> HIDE DEF one
    <3>2. ToSet(one \o rest) = ToSet(one) \cup ToSet(rest)
      <4>1. one \in Seq(W) /\ rest \in Seq(W)
        BY <3>1 DEF one
      <4>2. QED
        BY <4>1, ToSetConcat
    <3>3. QED
      BY <1>1, <3>2 DEF one
  <2>2. ToSet(<<value>>) = {value}
    BY <1>4 DEF ToSet
  <2>3. ToSet(rest) = {values[order[i]] : i \in DOMAIN order}
    BY <1>3 DEF ToSet
  <2>4. S = {order[i] : i \in DOMAIN order}
    BY <1>2 DEF ToSet
  <2>5. QED
    BY <2>1, <2>2, <2>3, <2>4
<1>9. op.attributes["rule_name"] = rule /\ DOMAIN op.attributes \ {"rule_name"} = S
      /\ \A x \in S : op.attributes[x] = Position(order, x)
  BY <1>1, <1>2 DEF attributes
<1>10. GetPreconditions(op) = [x \in S |-> values[x]]
  <2>1. GetPreconditions(op) = [x \in S |-> op.inputs[Position(order, x) + 1]]
    BY <1>9 DEF GetPreconditions
  <2>2. \A x \in S : op.inputs[Position(order, x) + 1] = values[x]
    BY <1>2, <1>7
  <2>3. QED
    BY <2>1, <2>2
<1>11. QED
  BY <1>1, <1>6, <1>8, <1>9, <1>10 DEF op, GetTransformedValue

\* An expression that is decoded is one of four kinds.
LEMMA KindsOfExpressions ==
  ASSUME NEW expr, IsExpression(expr), NEW earlier, WellFormedExpression(expr, earlier)
  PROVE  /\ expr.variant \in {"column", "literal", "merge", "transform"}
         /\ expr.variant = "merge" =>
              /\ expr.inputs \in Seq(Nat) /\ expr.controlInputs \in Seq(Nat)
              /\ Children(expr) = ToSet(expr.inputs) \cup ToSet(expr.controlInputs)
         /\ expr.variant = "transform" =>
              /\ IsFiniteSet(DOMAIN expr.preconditions) /\ "rule_name" \notin DOMAIN expr.preconditions
              /\ Children(expr) = {expr.node} \cup {expr.preconditions[x] : x \in DOMAIN expr.preconditions}
<1>1. expr.variant \in {"column", "literal", "merge", "transform"}
  BY DEF IsExpression, WellFormedExpression
<1>2. ASSUME expr.variant = "merge"
      PROVE  /\ expr.inputs \in Seq(Nat) /\ expr.controlInputs \in Seq(Nat)
             /\ Children(expr) = ToSet(expr.inputs) \cup ToSet(expr.controlInputs)
  <2>1. expr.inputs \in Seq(Nat) /\ expr.controlInputs \in Seq(Nat)
    BY <1>2 DEF IsExpression
  <2>2. Children(expr) = ToSet(expr.inputs \o expr.controlInputs)
    BY <1>2 DEF Children
  <2>3. QED
    BY <2>1, <2>2, ToSetConcat
<1>3. ASSUME expr.variant = "transform"
      PROVE  /\ IsFiniteSet(DOMAIN expr.preconditions) /\ "rule_name" \notin DOMAIN expr.preconditions
             /\ Children(expr) = {expr.node} \cup {expr.preconditions[x] : x \in DOMAIN expr.preconditions}
  <2>1. IsFiniteSet(DOMAIN expr.preconditions)
    BY <1>3 DEF IsExpression
  <2>2. "rule_name" \notin DOMAIN expr.preconditions
    BY <1>3 DEF WellFormedExpression
  <2>3. Children(expr) = {expr.node} \cup {expr.preconditions[x] : x \in DOMAIN expr.preconditions}
    BY <1>3 DEF Children, Range
  <2>4. QED
    BY <2>1, <2>2, <2>3
<1>4. QED
  BY <1>1, <1>2, <1>3

\* The inputs of an operation are the values of the expressions below, and
\* what its readers return makes its tree the one of the expression.
LEMMA DecodedReads ==
  ASSUME NEW expr, IsExpression(expr), NEW earlier, WellFormedExpression(expr, earlier),
         NEW op, NEW values, DecodedTo(expr, op, values)
  PROVE  /\ ToSet(op.inputs) = {values[id] : id \in Children(expr)}
         /\ \A tree, below :
              (\A id \in Children(expr) : tree[values[id]] = below[id]) =>
                TreeOfResult(op, [w \in ToSet(op.inputs) |-> tree[w]])
                  = TreeOver(expr, [id \in Children(expr) |-> below[id]])
<1> DEFINE V == {values[id] : id \in Children(expr)}
<1>1. CASE expr.variant = "literal" /\ op = LiteralOp(expr.str)
  <2>1. op.inputs = <<>> /\ op.operator = "sql.literal" /\ op.attributes["literal_string"] = expr.str
    BY <1>1 DEF LiteralOp, Operation
  <2>2. Children(expr) = {}
    BY <1>1 DEF Children
  <2>3. ToSet(op.inputs) = {}
    BY <2>1 DEF ToSet
  <2>4. ASSUME NEW t PROVE TreeOfResult(op, t) = [literal |-> expr.str]
    BY <2>1 DEF TreeOfResult
  <2>5. ASSUME NEW t PROVE TreeOver(expr, t) = [literal |-> expr.str]
    BY <1>1 DEF TreeOver
  <2>6. QED
    BY <2>2, <2>3, <2>4, <2>5
<1>2. CASE expr.variant = "merge"
  <2> DEFINE d == [j \in DOMAIN expr.inputs |-> values[expr.inputs[j]]]
             c == [j \in DOMAIN expr.controlInputs |-> values[expr.controlInputs[j]]]
  <2>1. op = MergeOp(d, c)
    BY <1>2 DEF DecodedTo
  <2>2. /\ expr.inputs \in Seq(Nat) /\ expr.controlInputs \in Seq(Nat)
        /\ Children(expr) = ToSet(expr.inputs) \cup ToSet(expr.controlInputs)
    BY <1>2, KindsOfExpressions
  <2>3. /\ \A j \in DOMAIN expr.inputs : expr.inputs[j] \in Children(expr)
        /\ \A j \in DOMAIN expr.controlInputs : expr.controlInputs[j] \in Children(expr)
    BY <2>2 DEF ToSet
  <2>4. d \in Seq(V) /\ c \in Seq(V)
    <3>1. /\ Len(expr.inputs) \in Nat /\ DOMAIN expr.inputs = 1 .. Len(expr.inputs)
          /\ Len(expr.controlInputs) \in Nat
          /\ DOMAIN expr.controlInputs = 1 .. Len(expr.controlInputs)
      BY <2>2
    <3>2. d \in [1 .. Len(expr.inputs) -> V] /\ c \in [1 .. Len(expr.controlInputs) -> V]
      BY <2>3, <3>1
    <3>3. QED
      BY <3>1, <3>2
  <2>5. /\ DOMAIN d = DOMAIN expr.inputs /\ \A j \in DOMAIN expr.inputs : d[j] = values[expr.inputs[j]]
        /\ DOMAIN c = DOMAIN expr.controlInputs
        /\ \A j \in DOMAIN expr.controlInputs : c[j] = values[expr.controlInputs[j]]
    OBVIOUS
  <2> HIDE DEF d, c
  <2>6. /\ op.operator = "sql.merge" /\ GetDirectInputs(op) = d /\ GetControlInputs(op) = c
        /\ ToSet(op.inputs) = ToSet(d) \cup ToSet(c)
    BY <2>1, <2>4, MergeReads
  <2>7. ToSet(op.inputs) = V
    <3>1. ToSet(d) = {values[expr.inputs[j]] : j \in DOMAIN expr.inputs}
      BY <2>5 DEF ToSet
    <3>2. ToSet(c) = {values[expr.controlInputs[j]] : j \in DOMAIN expr.controlInputs}
      BY <2>5 DEF ToSet
    <3>3. Children(expr) = {expr.inputs[j] : j \in DOMAIN expr.inputs}
                             \cup {expr.controlInputs[j] : j \in DOMAIN expr.controlInputs}
      BY <2>2 DEF ToSet
    <3>4. QED
      BY <2>6, <3>1, <3>2, <3>3
  <2>8. /\ \A j \in DOMAIN d : d[j] \in ToSet(op.inputs)
        /\ \A j \in DOMAIN c : c[j] \in ToSet(op.inputs)
    BY <2>6 DEF ToSet
  <2>9. ASSUME NEW tree, NEW below, \A id \in Children(expr) : tree[values[id]] = below[id]
        PROVE  TreeOfResult(op, [w \in ToSet(op.inputs) |-> tree[w]])
                 = TreeOver(expr, [id \in Children(expr) |-> below[id]])
    <3> DEFINE s == [w \in ToSet(op.inputs) |-> tree[w]]
               t == [id \in Children(expr) |-> below[id]]
    <3>1. TreeOfResult(op, s) = [merge |-> [j \in DOMAIN d |-> s[d[j]]], control |-> [j \in DOMAIN c |-> s[c[j]]]]
      BY <2>6 DEF TreeOfResult
    <3>2. TreeOver(expr, t) =
            [merge |-> [j \in DOMAIN expr.inputs |-> t[expr.inputs[j]]],
             control |-> [j \in DOMAIN expr.controlInputs |-> t[expr.controlInputs[j]]]]
      BY <1>2 DEF TreeOver
    <3>3. /\ \A j \in DOMAIN expr.inputs : s[d[j]] = t[expr.inputs[j]]
          /\ \A j \in DOMAIN expr.controlInputs : s[c[j]] = t[expr.controlInputs[j]]
      BY <2>3, <2>5, <2>8, <2>9
    <3> HIDE DEF s, t
    <3>4. /\ [j \in DOMAIN d |-> s[d[j]]] = [j \in DOMAIN expr.inputs |-> t[expr.inputs[j]]]
          /\ [j \in DOMAIN c |-> s[c[j]]] = [j \in DOMAIN expr.controlInputs |-> t[expr.controlInputs[j]]]
      BY <2>5, <3>3
    <3>5. TreeOfResult(op, s) = TreeOver(expr, t)
      BY <3>1, <3>2, <3>4
    <3>6. QED
      BY <3>5 DEF s, t
  <2>10. QED
    BY <2>7, <2>9
<1>3. CASE expr.variant = "transform"
  <2> DEFINE S == DOMAIN expr.preconditions
             v == [name \in S |-> values[expr.preconditions[name]]]
  <2>1. PICK order \in SetToSeqs(S) : op = TagTransformOp(expr.rule, values[expr.node], order, v)
    BY <1>3 DEF DecodedTo
  <2>2. /\ IsFiniteSet(S) /\ "rule_name" \notin S
        /\ Children(expr) = {expr.node} \cup {expr.preconditions[x] : x \in S}
    BY <1>3, KindsOfExpressions
  <2>3. DOMAIN v = S /\ \A x \in S : v[x] = values[expr.preconditions[x]]
    OBVIOUS
  <2> HIDE DEF S, v, V
  <2>4. /\ op.operator = "sql.tag_transform" /\ op.attributes["rule_name"] = expr.rule
        /\ \A w : w \in ToSet(op.inputs) <=> w = values[expr.node] \/ \E x \in S : w = v[x]
        /\ GetTransformedValue(op) = values[expr.node] /\ GetPreconditions(op) = [x \in S |-> v[x]]
    BY <2>1, <2>2, TransformReads
  <2>5. ToSet(op.inputs) = V
    BY <2>2, <2>3, <2>4 DEF V
  <2>6. values[expr.node] \in ToSet(op.inputs) /\ \A x \in S : v[x] \in ToSet(op.inputs)
    BY <2>4
  <2>7. ASSUME NEW tree, NEW below, \A id \in Children(expr) : tree[values[id]] = below[id]
        PROVE  TreeOfResult(op, [w \in ToSet(op.inputs) |-> tree[w]])
                 = TreeOver(expr, [id \in Children(expr) |-> below[id]])
    <3> DEFINE s == [w \in ToSet(op.inputs) |-> tree[w]]
               t == [id \in Children(expr) |-> below[id]]
    <3>1. TreeOfResult(op, s) =
            [transform |-> s[values[expr.node]], rule |-> expr.rule, preconditions |-> [x \in S |-> s[v[x]]]]
      <4> HIDE DEF s, t
      <4>1. DOMAIN GetPreconditions(op) = S /\ \A x \in S : GetPreconditions(op)[x] = v[x]
        BY <2>4
      <4>2. TreeOfResult(op, s) =
              [transform |-> s[GetTransformedValue(op)], rule |-> op.attributes["rule_name"],
               preconditions |-> [x \in DOMAIN GetPreconditions(op) |-> s[GetPreconditions(op)[x]]]]
        BY <2>4 DEF TreeOfResult
      <4>3. [x \in DOMAIN GetPreconditions(op) |-> s[GetPreconditions(op)[x]]] = [x \in S |-> s[v[x]]]
        BY <4>1
      <4>4. QED
        BY <2>4, <4>2, <4>3
    <3>2. TreeOver(expr, t) =
            [transform |-> t[expr.node], rule |-> expr.rule,
             preconditions |-> [x \in S |-> t[expr.preconditions[x]]]]
      BY <1>3 DEF TreeOver, S
    <3>3. s[values[expr.node]] = t[expr.node] /\ \A x \in S : s[v[x]] = t[expr.preconditions[x]]
      BY <2>2, <2>3, <2>6, <2>7
    <3> HIDE DEF s, t
    <3>4. [x \in S |-> s[v[x]]] = [x \in S |-> t[expr.preconditions[x]]]
      BY <3>3
    <3>5. TreeOfResult(op, s) = TreeOver(expr, t)
      BY <3>1, <3>2, <3>3, <3>4
    <3>6. QED
      BY <3>5 DEF s, t
  <2>8. QED
    BY <2>5, <2>7 DEF V
<1>4. QED
  BY <1>1, <1>2, <1>3 DEF DecodedTo

\* What an expression is decoded to depends on the values of those below.
LEMMA DecodedStays ==
  ASSUME NEW expr, IsExpression(expr), NEW earlier, WellFormedExpression(expr, earlier),
         NEW op, NEW values, DecodedTo(expr, op, values),
         NEW more, \A id \in Children(expr) : more[id] = values[id]
  PROVE  DecodedTo(expr, op, more)
<1>1. CASE expr.variant = "literal" /\ op = LiteralOp(expr.str)
  BY <1>1 DEF DecodedTo
<1>2. CASE expr.variant = "merge"
  <2>1. /\ \A j \in DOMAIN expr.inputs : expr.inputs[j] \in Children(expr)
        /\ \A j \in DOMAIN expr.controlInputs : expr.controlInputs[j] \in Children(expr)
    BY <1>2, KindsOfExpressions DEF ToSet
  <2>2. /\ [j \in DOMAIN expr.inputs |-> values[expr.inputs[j]]]
             = [j \in DOMAIN expr.inputs |-> more[expr.inputs[j]]]
        /\ [j \in DOMAIN expr.controlInputs |-> values[expr.controlInputs[j]]]
             = [j \in DOMAIN expr.controlInputs |-> more[expr.controlInputs[j]]]
    BY <2>1
  <2>3. QED
    BY <1>2, <2>2 DEF DecodedTo
<1>3. CASE expr.variant = "transform"
  <2>1. /\ expr.node \in Children(expr)
        /\ \A x \in DOMAIN expr.preconditions : expr.preconditions[x] \in Children(expr)
    BY <1>3, KindsOfExpressions
  <2>2. /\ values[expr.node] = more[expr.node]
        /\ [x \in DOMAIN expr.preconditions |-> values[expr.preconditions[x]]]
             = [x \in DOMAIN expr.preconditions |-> more[expr.preconditions[x]]]
    BY <2>1
  <2>3. QED
    BY <1>3, <2>2 DEF DecodedTo
<1>4. QED
  BY <1>1, <1>2, <1>3 DEF DecodedTo

-----------------------------------------------------------------------------
\* What is added to the block leaves the operations before it where they are.
LEMMA OperationsGrow ==
  ASSUME NEW s, IsFacts(s), NEW op, NEW t, t = s \/ t = Append(s, op)
  PROVE  /\ Len(s) \in Nat /\ Len(t) \in {Len(s), Len(s) + 1}
         /\ \A k \in 1 .. Len(s) : t[k] = s[k]
         /\ \A k \in 1 .. Len(t) : k \in 1 .. Len(s) \/ (k = Len(s) + 1 /\ t = Append(s, op) /\ t[k] = op)
         /\ t = Append(s, op) => Len(t) = Len(s) + 1 /\ t[Len(t)] = op /\ Last(t) = op
<1> DEFINE S == ToSet(s) \cup {op}
<1>1. s \in Seq(S) /\ Len(s) \in Nat
  BY DEF IsFacts
<1>2. CASE t = s
  <2>1. \A k \in 1 .. Len(t) : k \in 1 .. Len(s)
    BY <1>2
  <2>2. t # Append(s, op)
    <3>1. Len(Append(s, op)) = Len(s) + 1
      BY <1>1
    <3>2. QED
      BY <1>1, <1>2, <3>1
  <2>3. QED
    BY <1>1, <1>2, <2>1, <2>2
<1>3. CASE t = Append(s, op)
  <2>1. /\ t \in Seq(S) /\ Len(t) = Len(s) + 1 /\ t[Len(s) + 1] = op
        /\ \A k \in 1 .. Len(s) : t[k] = s[k]
    BY <1>1, <1>3, AppendProperties
  <2>2. \A k \in 1 .. Len(t) : k \in 1 .. Len(s) \/ k = Len(s) + 1
    BY <1>1, <2>1
  <2>3. QED
    BY <1>1, <1>3, <2>1, <2>2 DEF Last
<1>4. QED
  BY <1>2, <1>3

\* What is known of decoded expressions stays when there is more of everything.
LEMMA ValuesStay ==
  ASSUME DecoderInv, MeaningInv, storages \subseteq storages', arena' = arena,
         \A id \in DOMAIN idToValue : idToValue'[id] = idToValue[id],
         NEW op, operations' = operations \/ operations' = Append(operations, op),
         NEW i \in 1 .. (next - 1)
  PROVE  ValueIsOf(arena[i].expression, idToValue[arena[i].id])'
<1> DEFINE expr == arena[i].expression
           value == idToValue[arena[i].id]
<1>1. /\ next \in 1 .. Len(arena) + 1 /\ Len(arena) \in Nat /\ i \in 1 .. Len(arena)
      /\ IsExpression(expr)
  <2>1. Len(arena) \in Nat /\ \A j \in 1 .. Len(arena) : IsExpression(arena[j].expression)
    BY ArenaItems DEF DecoderInv
  <2>2. next \in 1 .. Len(arena) + 1
    BY DEF DecoderInv
  <2>3. i \in 1 .. Len(arena)
    BY <2>1, <2>2
  <2>4. QED
    BY <2>1, <2>2, <2>3
<1>2. WellFormedExpression(expr, IdsBefore(arena, i))
  BY DEF DecoderInv, WellFormedSoFar
<1>3. arena[i].id \in DOMAIN idToValue /\ IdsBefore(arena, i) \subseteq DOMAIN idToValue
  BY <1>1 DEF DecoderInv, IdsBefore
<1>4. Children(expr) \subseteq DOMAIN idToValue
  BY <1>2, <1>3 DEF WellFormedExpression
<1>5. ValueIsOf(expr, value)
  BY DEF MeaningInv
<1>6. idToValue'[arena[i].id] = value
  BY <1>3
<1>7. CASE expr.variant = "column" /\ expr.path \in storages /\ value = StoredValue(expr.path)
  BY <1>6, <1>7 DEF ValueIsOf
<1>8. CASE \E k \in 1 .. Len(operations) : value = OperationResult(k) /\ DecodedTo(expr, operations[k], idToValue)
  <2>1. PICK k \in 1 .. Len(operations) : value = OperationResult(k) /\ DecodedTo(expr, operations[k], idToValue)
    BY <1>8
  <2>2. IsFacts(operations)
    BY DEF DecoderInv
  <2>3. /\ Len(operations) \in Nat /\ Len(operations') \in {Len(operations), Len(operations) + 1}
        /\ operations'[k] = operations[k]
    BY <2>2, OperationsGrow
  <2>4. k \in 1 .. Len(operations')
    BY <2>3
  <2>5. \A id \in Children(expr) : idToValue'[id] = idToValue[id]
    BY <1>4
  <2>6. DecodedTo(expr, operations[k], idToValue')
    BY <1>1, <1>2, <2>1, <2>5, DecodedStays
  <2>7. QED
    BY <1>6, <2>1, <2>3, <2>4, <2>6 DEF ValueIsOf, DecodedTo
<1>9. QED
  BY <1>5, <1>7, <1>8 DEF ValueIsOf

\* RegisterValue gives the id of the next expression a value of that kind.
LEMMA RegisteringKeepsMeaning ==
  ASSUME DecoderInv, MeaningInv, MoreToDecode, Passes(Expr), MayRegister(Id),
         NEW value, RegisterValue(value), storages \subseteq storages',
         NEW op, operations' = operations \/ operations' = Append(operations, op),
         operations' # operations => ToSet(op.inputs) \subseteq ValuesTill(Len(operations)),
         \/ Expr.variant = "column" /\ Expr.path \in storages' /\ value = StoredValue(Expr.path)
         \/ /\ operations' = Append(operations, op) /\ value = OperationResult(Len(operations) + 1)
            /\ DecodedTo(Expr, op, idToValue)
  PROVE  MeaningInv'
<1>1. /\ next \in 1 .. Len(arena) /\ Len(arena) \in Nat
      /\ Id \notin IdsBefore(arena, next)
      /\ WellFormedExpression(Expr, IdsBefore(arena, next))
      /\ IsExpression(Expr)
  <2>1. Len(arena) \in Nat /\ \A i \in 1 .. Len(arena) : IsExpression(arena[i].expression)
    BY ArenaItems DEF DecoderInv
  <2>2. next \in 1 .. Len(arena)
    BY NextItem
  <2>3. IsExpression(Expr)
    BY <2>1, <2>2 DEF Expr
  <2>4. QED
    BY <2>3, NextItem
<1>2. arena' = arena /\ decoding' = "decode" /\ next' = next + 1
  BY DEF RegisterValue, MoreToDecode
<1>3. /\ DOMAIN idToValue = IdsBefore(arena, next) /\ DOMAIN idToValue' = DOMAIN idToValue \cup {Id}
      /\ idToValue'[Id] = value
      /\ \A id \in DOMAIN idToValue : idToValue'[id] = idToValue[id]
  BY <1>1 DEF RegisterValue, DecoderInv
<1>4. IsFacts(operations)
  BY DEF DecoderInv
<1>5. /\ Len(operations) \in Nat /\ Len(operations') \in {Len(operations), Len(operations) + 1}
      /\ \A k \in 1 .. Len(operations) : operations'[k] = operations[k]
      /\ \A k \in 1 .. Len(operations') :
           \/ k \in 1 .. Len(operations)
           \/ k = Len(operations) + 1 /\ operations' = Append(operations, op) /\ operations'[k] = op
      /\ operations' = Append(operations, op) =>
           Len(operations') = Len(operations) + 1 /\ operations'[Len(operations')] = op
  BY <1>4, OperationsGrow
<1>6. Len(operations') \in Nat /\ Len(operations) <= Len(operations')
  BY <1>5
<1>7. \A id \in DOMAIN idToValue' : idToValue'[id] \in ValuesTill(Len(operations))'
  <2>1. ASSUME NEW id \in DOMAIN idToValue
        PROVE  idToValue'[id] \in ValuesTill(Len(operations))'
    <3>1. idToValue'[id] \in ValuesTill(Len(operations))
      BY <1>3 DEF MeaningInv
    <3>2. QED
      BY <1>5, <1>6, <3>1 DEF ValuesTill
  <2>2. value \in ValuesTill(Len(operations))'
    BY <1>5, <1>6 DEF ValuesTill
  <2>3. QED
    BY <1>3, <2>1, <2>2
<1>8. ASSUME NEW k \in 1 .. Len(operations')
      PROVE  ToSet(operations'[k].inputs) \subseteq ValuesTill(k - 1)'
  <2>1. CASE k \in 1 .. Len(operations)
    <3>1. ToSet(operations'[k].inputs) \subseteq ValuesTill(k - 1)
      BY <1>5, <2>1 DEF MeaningInv
    <3>2. QED
      BY <1>5, <2>1, <3>1 DEF ValuesTill
  <2>2. CASE k = Len(operations) + 1 /\ operations' = Append(operations, op) /\ operations'[k] = op
    <3>1. operations' # operations /\ k - 1 = Len(operations)
      BY <1>5, <2>2
    <3>2. ToSet(operations'[k].inputs) \subseteq ValuesTill(Len(operations))
      BY <2>2, <3>1
    <3>3. ValuesTill(Len(operations)) \subseteq {StoredValue(s) : s \in storages'} \cup {OperationResult(m) : m \in 1 .. k - 1}
      BY <3>1 DEF ValuesTill
    <3>4. QED
      BY <3>2, <3>3 DEF ValuesTill
  <2>3. QED
    BY <1>5, <2>1, <2>2
<1>9. ASSUME NEW i \in 1 .. (next' - 1)
      PROVE  ValueIsOf(arena[i].expression, idToValue[arena[i].id])'
  <2>1. CASE i \in 1 .. (next - 1)
    BY <1>2, <1>3, <2>1, ValuesStay
  <2>2. CASE i = next
    <3>1. arena'[i].expression = Expr /\ arena'[i].id = Id
      BY <1>2, <2>2 DEF Expr, Id
    <3>2. CASE Expr.variant = "column" /\ Expr.path \in storages' /\ value = StoredValue(Expr.path)
      BY <1>3, <3>1, <3>2 DEF ValueIsOf
    <3>3. CASE /\ operations' = Append(operations, op) /\ value = OperationResult(Len(operations) + 1)
               /\ DecodedTo(Expr, op, idToValue)
      <4>1. /\ Len(operations) + 1 \in 1 .. Len(operations')
            /\ operations'[Len(operations) + 1] = op
        BY <1>5, <3>3
      <4>2. \A id \in Children(Expr) : idToValue'[id] = idToValue[id]
        BY <1>1, <1>3 DEF WellFormedExpression
      <4>3. DecodedTo(Expr, op, idToValue')
        BY <1>1, <3>3, <4>2, DecodedStays
      <4>4. QED
        BY <1>3, <3>1, <3>3, <4>1, <4>3 DEF ValueIsOf, DecodedTo
    <3>4. QED
      BY <3>2, <3>3
  <2>3. QED
    BY <1>1, <1>2, <2>1, <2>2
<1>10. QED
  BY <1>2, <1>7, <1>8, <1>9 DEF MeaningInv

\* An operation that is added has the values of the expressions below as
\* inputs.
LEMMA AddingKeepsMeaning ==
  ASSUME DecoderInv, MeaningInv, MoreToDecode, Passes(Expr), MayRegister(Id),
         NEW op, AddOperation(op), DecodedTo(Expr, op, idToValue)
  PROVE  MeaningInv'
<1>1. /\ operations' = Append(operations, op) /\ storages' = storages
      /\ RegisterValue(OperationResult(Len(operations) + 1))
  BY DEF AddOperation
<1>2. WellFormedExpression(Expr, DOMAIN idToValue) /\ IsExpression(Expr)
  <2>1. WellFormedExpression(Expr, DOMAIN idToValue)
    BY NextItem DEF DecoderInv
  <2>2. IsExpression(Expr)
    BY NextItem, ArenaItems DEF Expr, DecoderInv
  <2>3. QED
    BY <2>1, <2>2
<1>3. ToSet(op.inputs) = {idToValue[id] : id \in Children(Expr)}
  BY <1>2, DecodedReads
<1>4. ToSet(op.inputs) \subseteq ValuesTill(Len(operations))
  BY <1>2, <1>3 DEF WellFormedExpression, MeaningInv
<1>5. QED
  BY <1>1, <1>4, RegisteringKeepsMeaning

\* Nothing changes where nothing is decoded.
LEMMA MeaningRests ==
  ASSUME DecoderInv, MeaningInv, UNCHANGED <<arena, next, idToValue, storages, operations>>,
         decoding' = decoding \/ decoding' = "died"
  PROVE  MeaningInv'
<1>1. \A m : ValuesTill(m)' = ValuesTill(m)
  BY DEF ValuesTill
<1>2. \A id \in DOMAIN idToValue' : idToValue'[id] \in ValuesTill(Len(operations))'
  <2>1. ValuesTill(Len(operations))' = ValuesTill(Len(operations))
    BY DEF ValuesTill
  <2>2. QED
    BY <2>1 DEF MeaningInv
<1>3. \A k \in 1 .. Len(operations') : ToSet(operations'[k].inputs) \subseteq ValuesTill(k - 1)'
  BY <1>1 DEF MeaningInv
<1>4. ASSUME NEW i \in 1 .. (next' - 1)
      PROVE  ValueIsOf(arena[i].expression, idToValue[arena[i].id])'
  BY ValuesStay
<1>5. QED
  BY <1>2, <1>3, <1>4 DEF MeaningInv

\* Every step of DecodeExpressionArena keeps the meaning.
LEMMA MeaningStep ==
  ASSUME DecoderInv, MeaningInv, DecoderNext
  PROVE  MeaningInv'
<1>1. CASE DecodeSourceTableColumn
  <2>1. /\ MoreToDecode /\ Passes(Expr) /\ MayRegister(Id) /\ Expr.variant = "column"
        /\ RegisterValue(StoredValue(Expr.path)) /\ operations' = operations
        /\ storages \subseteq storages' /\ Expr.path \in storages'
    BY <1>1 DEF DecodeSourceTableColumn, At
  <2>2. QED
    BY <2>1, RegisteringKeepsMeaning
<1>2. CASE DecodeLiteral
  <2>1. /\ MoreToDecode /\ Passes(Expr) /\ MayRegister(Id) /\ AddOperation(LiteralOp(Expr.str))
        /\ DecodedTo(Expr, LiteralOp(Expr.str), idToValue)
    BY <1>2 DEF DecodeLiteral, At, DecodedTo
  <2>2. QED
    BY <2>1, AddingKeepsMeaning
<1>3. CASE DecodeMergeOperation
  <2>1. PICK op : /\ op = MergeOp([j \in DOMAIN Expr.inputs |-> idToValue[Expr.inputs[j]]],
                                  [j \in DOMAIN Expr.controlInputs |-> idToValue[Expr.controlInputs[j]]])
                  /\ AddOperation(op)
    BY <1>3 DEF DecodeMergeOperation, Merged
  <2>2. MoreToDecode /\ Passes(Expr) /\ MayRegister(Id) /\ Expr.variant = "merge"
    BY <1>3 DEF DecodeMergeOperation, At
  <2>3. DecodedTo(Expr, op, idToValue)
    BY <2>1, <2>2 DEF DecodedTo
  <2>4. QED
    BY <2>1, <2>2, <2>3, AddingKeepsMeaning
<1>4. CASE DecodeTagTransform
  <2>1. PICK order \in SetToSeqs(DOMAIN Expr.preconditions) :
          AddOperation(TagTransformOp(Expr.rule, idToValue[Expr.node], order,
                         [name \in DOMAIN Expr.preconditions |-> idToValue[Expr.preconditions[name]]]))
    BY <1>4 DEF DecodeTagTransform
  <2> DEFINE op == TagTransformOp(Expr.rule, idToValue[Expr.node], order,
                     [name \in DOMAIN Expr.preconditions |-> idToValue[Expr.preconditions[name]]])
  <2>2. MoreToDecode /\ Passes(Expr) /\ MayRegister(Id) /\ Expr.variant = "transform"
    BY <1>4 DEF DecodeTagTransform, At
  <2>3. DecodedTo(Expr, op, idToValue)
    BY <2>2 DEF DecodedTo
  <2>4. AddOperation(op)
    BY <2>1
  <2> HIDE DEF op
  <2>5. QED
    BY <2>2, <2>3, <2>4, AddingKeepsMeaning
<1>5. CASE DecodeOutput
  <2> DEFINE last == Last(arena).id
             op == SqlOutputOp(idToValue[last])
  <2>1. /\ operations' = Append(operations, op) /\ decoding' = "decoded"
        /\ arena' = arena /\ next' = next /\ idToValue' = idToValue /\ storages' = storages
        /\ decoding = "decode" /\ next > Len(arena) /\ arena # <<>>
    BY <1>5 DEF DecodeOutput
  <2>2. /\ Len(arena) \in Nat /\ next = Len(arena) + 1 /\ Len(arena) \in 1 .. Len(arena)
        /\ arena[Len(arena)].id = last
    <3>1. Len(arena) \in Nat /\ arena \in Seq(ToSet(arena))
      BY ArenaItems DEF DecoderInv, IsArena
    <3>2. next \in 1 .. Len(arena) + 1
      BY DEF DecoderInv
    <3>3. Len(arena) # 0
      BY <2>1, <3>1
    <3>4. QED
      BY <2>1, <3>1, <3>2, <3>3 DEF Last
  <2>3. idToValue[last] \in ValuesTill(Len(operations))
    <3>1. last \in IdsBefore(arena, next)
      BY <2>2 DEF IdsBefore
    <3>2. QED
      BY <3>1 DEF DecoderInv, MeaningInv
  <2>4. op.inputs = <<idToValue[last]>> /\ ToSet(op.inputs) = {idToValue[last]}
    <3>1. op.inputs = <<idToValue[last]>>
      BY DEF SqlOutputOp, Operation
    <3>2. QED
      BY <3>1 DEF ToSet
  <2> HIDE DEF op
  <2>5. IsFacts(operations)
    BY DEF DecoderInv
  <2>6. /\ Len(operations) \in Nat /\ Len(operations') \in {Len(operations), Len(operations) + 1}
        /\ \A k \in 1 .. Len(operations) : operations'[k] = operations[k]
        /\ \A k \in 1 .. Len(operations') :
             \/ k \in 1 .. Len(operations)
             \/ k = Len(operations) + 1 /\ operations' = Append(operations, op) /\ operations'[k] = op
    BY <2>1, <2>5, OperationsGrow
  <2>7. Len(operations') = Len(operations) + 1 /\ Last(operations') = op
    BY <2>1, <2>5, OperationsGrow
  <2>8. ASSUME NEW m \in Nat PROVE ValuesTill(m)' = ValuesTill(m)
    BY <2>1 DEF ValuesTill
  <2>9. \A id \in DOMAIN idToValue' : idToValue'[id] \in ValuesTill(Len(operations))'
    <3>1. \A id \in DOMAIN idToValue : idToValue[id] \in ValuesTill(Len(operations))
      BY DEF MeaningInv
    <3>2. ValuesTill(Len(operations)) \subseteq ValuesTill(Len(operations))'
      BY <2>1, <2>6, <2>7 DEF ValuesTill
    <3>3. QED
      BY <2>1, <3>1, <3>2
  <2>10. ASSUME NEW k \in 1 .. Len(operations')
        PROVE  ToSet(operations'[k].inputs) \subseteq ValuesTill(k - 1)'
    <3>1. CASE k \in 1 .. Len(operations)
      BY <2>6, <2>7, <2>8, <3>1 DEF MeaningInv
    <3>2. CASE k = Len(operations) + 1 /\ operations'[k] = op
      <4>1. k - 1 = Len(operations)
        BY <2>6, <2>7, <3>2
      <4>2. ValuesTill(k - 1)' = ValuesTill(k - 1)
        BY <2>6, <2>7, <2>8, <4>1
      <4>3. ToSet(op.inputs) \subseteq ValuesTill(k - 1)
        BY <2>3, <2>4, <4>1
      <4>4. QED
        BY <3>2, <4>2, <4>3
    <3>3. QED
      BY <2>6, <2>7, <3>1, <3>2
  <2>11. ASSUME NEW i \in 1 .. (next' - 1)
         PROVE  ValueIsOf(arena[i].expression, idToValue[arena[i].id])'
    BY <2>1, ValuesStay
  <2>12. QED
    BY <2>1, <2>6, <2>7, <2>9, <2>10, <2>11 DEF MeaningInv, op
<1>6. CASE DecodeDies
  <2>1. UNCHANGED <<arena, next, idToValue, storages, operations>> /\ decoding' = "died"
    BY <1>6 DEF DecodeDies
  <2>2. QED
    BY <2>1, MeaningRests
<1>7. QED
  BY <1>1, <1>2, <1>3, <1>4, <1>5, <1>6 DEF DecoderNext

\* The meaning is kept by every step of the two programs.
LEMMA ComplianceMeaning == Spec => [](IInv /\ MeaningInv)
<1>1. ASSUME Init PROVE MeaningInv
  <2>1. /\ next = 1 /\ idToValue = <<>> /\ operations = <<>> /\ decoding = "decode"
    BY <1>1 DEF Init, DecoderInit
  <2>2. DOMAIN idToValue = {} /\ 1 .. Len(operations) = {} /\ 1 .. (next - 1) = {}
    BY <2>1
  <2>3. QED
    BY <2>1, <2>2 DEF MeaningInv
<1>2. ASSUME IInv, MeaningInv, [Next]_vars PROVE MeaningInv'
  <2>1. CASE Decode
    BY <1>2, <2>1, MeaningStep DEF Decode, IInv
  <2>2. CASE UNCHANGED decoderVars
    BY <1>2, <2>2, MeaningRests DEF decoderVars, IInv
  <2>3. Decode \/ UNCHANGED decoderVars
    BY <1>2 DEF Next, vars, VerifyModule, WrongGraphFlags, GraphNotOK, GraphDies, RulesNotOK, NoPolicyFlag,
       ReadGraph, ChooseAuthLogicPolicy, ChooseCatchallPolicy, ChooseDpParameterPolicy, Check, RunChecker,
       Answer, EndWithChecker, RestOfCommand, Returns, Dies
  <2>4. QED
    BY <2>1, <2>2, <2>3
<1>3. QED
  BY <1>1, <1>2, InitInv, StepInv, PTL DEF Spec

-----------------------------------------------------------------------------
\* A table of the trees of the expressions at the positions D.
TreesAt(pairs, D, f) ==
  f = [i \in D |-> TreeOver(pairs[i].expression,
                            [id \in Children(pairs[i].expression) |-> f[PositionOf(pairs, id)]])]

\* A table of the trees of the values V.
TreesOf(V, f) ==
  f = [v \in V |->
         IF v \in {StoredValue(s) : s \in storages} THEN [column |-> v.storage]
         ELSE TreeOfResult(operations[v.operation],
                           [w \in ToSet(operations[v.operation].inputs) |-> f[w]])]

\* The values that have a tree.
AllValues == {OperationResult(k) : k \in DOMAIN operations} \cup {StoredValue(s) : s \in storages}

\* An entry of a table.
TreeOfEntry(f, v) ==
  IF v \in {StoredValue(s) : s \in storages} THEN [column |-> v.storage]
  ELSE TreeOfResult(operations[v.operation], [w \in ToSet(operations[v.operation].inputs) |-> f[w]])

LEMMA TreeOfThe ==
  ASSUME NEW V, NEW f, TreesOf(V, f), NEW v \in V
  PROVE  f[v] = TreeOfEntry(f, v)
BY DEF TreesOf, TreeOfEntry

\* An expression of a well-formed arena refers to expressions before it.
LEMMA ReferencesBefore ==
  ASSUME NEW pairs, IsArena(pairs), WellFormed(pairs), NEW i \in 1 .. Len(pairs),
         NEW id \in Children(pairs[i].expression)
  PROVE  PositionOf(pairs, id) \in 1 .. (i - 1) /\ pairs[PositionOf(pairs, id)].id = id
<1>1. Len(pairs) \in Nat /\ DOMAIN pairs = 1 .. Len(pairs)
  BY ArenaItems
<1>2. id \in IdsBefore(pairs, i)
  BY <1>1 DEF WellFormed, WellFormedExpression
<1>3. PICK j \in 1 .. (i - 1) : pairs[j].id = id
  BY <1>2 DEF IdsBefore
<1>4. j \in DOMAIN pairs
  BY <1>1
<1>5. PositionOf(pairs, id) \in DOMAIN pairs /\ pairs[PositionOf(pairs, id)].id = id
  BY <1>3, <1>4 DEF PositionOf
<1>6. PositionOf(pairs, id) = j
  BY <1>3, <1>4, <1>5 DEF WellFormed
<1>7. QED
  BY <1>3, <1>5, <1>6

\* So there is a table of the trees of all of them.
LEMMA ExpressionTreesExist ==
  ASSUME NEW pairs, IsArena(pairs), WellFormed(pairs)
  PROVE  \E f : TreesAt(pairs, DOMAIN pairs, f)
<1>1. Len(pairs) \in Nat /\ DOMAIN pairs = 1 .. Len(pairs)
  BY ArenaItems
<1> DEFINE T == {m \in 0 .. Len(pairs) : \E f : TreesAt(pairs, 1 .. m, f)}
<1>2. 0 \in T
  <2>1. 1 .. 0 = {}
    OBVIOUS
  <2>2. TreesAt(pairs, {}, [i \in {} |-> i])
    BY DEF TreesAt
  <2>3. QED
    BY <1>1, <2>1, <2>2
<1>3. ASSUME NEW m \in 1 .. Len(pairs), m - 1 \in T
      PROVE  m \in T
  <2>1. PICK f : TreesAt(pairs, 1 .. (m - 1), f)
    BY <1>3
  <2> DEFINE g == [i \in 1 .. m |->
                     IF i \in 1 .. (m - 1) THEN f[i]
                     ELSE TreeOver(pairs[i].expression,
                                   [id \in Children(pairs[i].expression) |-> f[PositionOf(pairs, id)]])]
  <2>2. \A i \in 1 .. m :
          g[i] = TreeOver(pairs[i].expression,
                          [id \in Children(pairs[i].expression) |-> f[PositionOf(pairs, id)]])
    <3>1. ASSUME NEW i \in 1 .. (m - 1)
          PROVE  f[i] = TreeOver(pairs[i].expression,
                          [id \in Children(pairs[i].expression) |-> f[PositionOf(pairs, id)]])
      <4>1. TreesAt(pairs, 1 .. (m - 1), f)
        BY <2>1
      <4>2. QED
        BY <4>1 DEF TreesAt
    <3>2. \A i \in 1 .. m :
            g[i] = IF i \in 1 .. (m - 1) THEN f[i]
                   ELSE TreeOver(pairs[i].expression,
                          [id \in Children(pairs[i].expression) |-> f[PositionOf(pairs, id)]])
      OBVIOUS
    <3> HIDE DEF g
    <3>3. QED
      BY <3>1, <3>2, Zenon
  <2>3. \A i \in 1 .. (m - 1) : g[i] = f[i]
    <3>1. 1 .. (m - 1) \subseteq 1 .. m
      OBVIOUS
    <3>2. QED
      BY <3>1
  <2>4. ASSUME NEW i \in 1 .. m
        PROVE  [id \in Children(pairs[i].expression) |-> f[PositionOf(pairs, id)]]
                 = [id \in Children(pairs[i].expression) |-> g[PositionOf(pairs, id)]]
    <3>1. i \in 1 .. Len(pairs) /\ 1 .. (i - 1) \subseteq 1 .. (m - 1)
      BY <1>1
    <3>2. \A id \in Children(pairs[i].expression) : PositionOf(pairs, id) \in 1 .. (m - 1)
      BY <3>1, ReferencesBefore
    <3> HIDE DEF g
    <3>3. QED
      BY <2>3, <3>2
  <2>5. g = [i \in 1 .. m |-> g[i]]
    OBVIOUS
  <2> HIDE DEF g
  <2>6. TreesAt(pairs, 1 .. m, g)
    <3>1. \A i \in 1 .. m :
            g[i] = TreeOver(pairs[i].expression,
                            [id \in Children(pairs[i].expression) |-> g[PositionOf(pairs, id)]])
      BY <2>2, <2>4
    <3>2. [i \in 1 .. m |-> g[i]] =
            [i \in 1 .. m |-> TreeOver(pairs[i].expression,
                                [id \in Children(pairs[i].expression) |-> g[PositionOf(pairs, id)]])]
      BY <3>1
    <3>3. QED
      BY <2>5, <3>2 DEF TreesAt
  <2>7. m \in 0 .. Len(pairs)
    BY <1>1
  <2>8. QED
    BY <2>6, <2>7
<1> HIDE DEF T
<1>4. 0 .. Len(pairs) \subseteq T
  BY <1>1, <1>2, <1>3, FiniteInduction
<1>5. Len(pairs) \in T
  BY <1>1, <1>4
<1>6. QED
  BY <1>1, <1>5 DEF T

\* The results of operations are told apart by their positions, and from
\* stored values.
LEMMA ResultsDiffer ==
  /\ \A k : OperationResult(k).operation = k
  /\ \A k : OperationResult(k) \notin {StoredValue(s) : s \in storages}
  /\ \A s : StoredValue(s).storage = s
BY DEF OperationResult, StoredValue

\* So there is a table of the trees of all values.
LEMMA ValueTreesExist ==
  ASSUME IsFacts(operations), MeaningInv
  PROVE  \E f : TreesOf(ValuesTill(Len(operations)), f)
<1>1. Len(operations) \in Nat
  BY DEF IsFacts
<1> DEFINE N == Len(operations)
           stored == {StoredValue(s) : s \in storages}
           Entry(f, v) == IF v \in stored THEN [column |-> v.storage]
                          ELSE TreeOfResult(operations[v.operation],
                                            [w \in ToSet(operations[v.operation].inputs) |-> f[w]])
           T == {m \in 0 .. N : \E f : TreesOf(ValuesTill(m), f)}
<1>2. 0 \in T
  <2>1. ValuesTill(0) = stored
    <3>1. 1 .. 0 = {}
      OBVIOUS
    <3>2. QED
      BY <3>1 DEF ValuesTill
  <2>2. TreesOf(stored, [v \in stored |-> [column |-> v.storage]])
    BY DEF TreesOf
  <2>3. QED
    BY <1>1, <2>1, <2>2
<1>3. ASSUME NEW m \in 1 .. N, m - 1 \in T
      PROVE  m \in T
  <2>1. PICK f : TreesOf(ValuesTill(m - 1), f)
    BY <1>3
  <2> DEFINE g == [v \in ValuesTill(m) |-> IF v \in ValuesTill(m - 1) THEN f[v] ELSE Entry(f, v)]
  <2>2. \A v \in ValuesTill(m - 1) : v \in ValuesTill(m) /\ g[v] = f[v]
    <3>1. 1 .. (m - 1) \subseteq 1 .. m
      BY <1>1
    <3>2. ValuesTill(m - 1) \subseteq ValuesTill(m)
      BY <3>1 DEF ValuesTill
    <3>3. QED
      BY <3>2
  <2>3. \A v \in ValuesTill(m) : g[v] = Entry(f, v)
    <3>1. \A v \in ValuesTill(m) : g[v] = IF v \in ValuesTill(m - 1) THEN f[v] ELSE Entry(f, v)
      BY Zenon
    <3>2. ASSUME NEW v \in ValuesTill(m - 1) PROVE f[v] = Entry(f, v)
      BY <2>1, TreeOfThe DEF TreeOfEntry
    <3> HIDE DEF g, Entry
    <3>3. QED
      BY <3>1, <3>2, Zenon
  <2>4. g = [v \in ValuesTill(m) |-> g[v]]
    OBVIOUS
  <2> HIDE DEF g
  <2>5. ASSUME NEW v \in ValuesTill(m), v \notin stored
        PROVE  [w \in ToSet(operations[v.operation].inputs) |-> f[w]]
                 = [w \in ToSet(operations[v.operation].inputs) |-> g[w]]
    <3>1. PICK k \in 1 .. m : v = OperationResult(k)
      BY <2>5 DEF ValuesTill
    <3>2. v.operation = k /\ k \in 1 .. N /\ 1 .. (k - 1) \subseteq 1 .. (m - 1)
      BY <1>1, <3>1, ResultsDiffer
    <3>3. ToSet(operations[k].inputs) \subseteq ValuesTill(k - 1)
      BY <3>2 DEF MeaningInv
    <3>4. ValuesTill(k - 1) \subseteq ValuesTill(m - 1)
      BY <3>2 DEF ValuesTill
    <3>5. \A w \in ToSet(operations[v.operation].inputs) : g[w] = f[w]
      BY <2>2, <3>2, <3>3, <3>4
    <3>6. QED
      BY <3>5
  <2>6. TreesOf(ValuesTill(m), g)
    <3>1. \A v \in ValuesTill(m) : g[v] = Entry(g, v)
      BY <2>3, <2>5
    <3>2. [v \in ValuesTill(m) |-> g[v]] = [v \in ValuesTill(m) |-> Entry(g, v)]
      BY <3>1
    <3>3. QED
      BY <2>4, <3>2 DEF TreesOf
  <2>7. m \in 0 .. N
    BY <1>1
  <2>8. QED
    BY <2>6, <2>7
<1> HIDE DEF T
<1>4. 0 .. N \subseteq T
  BY <1>1, <1>2, <1>3, FiniteInduction
<1>5. N \in T
  BY <1>1, <1>4
<1>6. QED
  BY <1>5 DEF T

\* The trees are entries of such tables.
LEMMA TreesAreEntries ==
  ASSUME NEW pairs, NEW k, NEW value
  PROVE  /\ TreeOfExpression(pairs, k) = (CHOOSE f : TreesAt(pairs, DOMAIN pairs, f))[k]
         /\ TreeOfValue(operations, value) = (CHOOSE f : TreesOf(AllValues, f))[value]
<1>1. TreeOfExpression(pairs, k) = (CHOOSE f : TreesAt(pairs, DOMAIN pairs, f))[k]
  BY DEF TreeOfExpression, TreesAt
<1>2. TreeOfValue(operations, value) = (CHOOSE f : TreesOf(AllValues, f))[value]
  BY DEF TreeOfValue, TreesOf, AllValues
<1>3. QED
  BY <1>1, <1>2

\* Each value has the tree of its expression: by induction along the arena.
LEMMA TreesAgree ==
  ASSUME IsArena(arena), WellFormed(arena), IsFacts(operations), MeaningInv, next = Len(arena) + 1,
         NEW e, TreesAt(arena, DOMAIN arena, e), NEW f, TreesOf(AllValues, f)
  PROVE  \A i \in DOMAIN arena : f[idToValue[arena[i].id]] = e[i]
<1>1. /\ Len(arena) \in Nat /\ DOMAIN arena = 1 .. Len(arena) /\ 1 .. (next - 1) = 1 .. Len(arena)
      /\ \A i \in 1 .. Len(arena) : IsExpression(arena[i].expression)
  BY ArenaItems
<1>2. Len(operations) \in Nat /\ DOMAIN operations = 1 .. Len(operations)
  BY DEF IsFacts
<1> DEFINE N == Len(arena)
           V(i) == idToValue[arena[i].id]
           stored == {StoredValue(s) : s \in storages}
           T == {m \in 0 .. N : \A i \in 1 .. m : f[V(i)] = e[i]}
<1>3. ASSUME NEW m \in 1 .. N, m - 1 \in T
      PROVE  f[V(m)] = e[m]
  <2> DEFINE expr == arena[m].expression
             below == [id \in Children(expr) |-> e[PositionOf(arena, id)]]
  <2>1. e[m] = TreeOver(expr, below)
    BY <1>1 DEF TreesAt
  <2>2. IsExpression(expr) /\ WellFormedExpression(expr, IdsBefore(arena, m)) /\ ValueIsOf(expr, V(m))
    BY <1>1 DEF WellFormed, MeaningInv
  <2>3. CASE expr.variant = "column" /\ expr.path \in storages /\ V(m) = StoredValue(expr.path)
    <3>1. e[m] = [column |-> expr.path]
      BY <2>1, <2>3 DEF TreeOver
    <3>2. V(m) \in stored /\ V(m) \in AllValues /\ V(m).storage = expr.path
      BY <2>3, ResultsDiffer DEF AllValues
    <3>3. f[V(m)] = [column |-> V(m).storage]
      BY <3>2, TreeOfThe DEF TreeOfEntry
    <3>4. QED
      BY <3>1, <3>2, <3>3
  <2>4. CASE \E k \in 1 .. Len(operations) : V(m) = OperationResult(k) /\ DecodedTo(expr, operations[k], idToValue)
    <3>1. PICK k \in 1 .. Len(operations) : V(m) = OperationResult(k) /\ DecodedTo(expr, operations[k], idToValue)
      BY <2>4
    <3>2. V(m) \notin stored /\ V(m) \in AllValues /\ V(m).operation = k
      BY <1>2, <3>1, ResultsDiffer DEF AllValues
    <3>3. f[V(m)] = TreeOfResult(operations[k], [w \in ToSet(operations[k].inputs) |-> f[w]])
      <4> DEFINE v == V(m)
      <4>1. v \in AllValues /\ v \notin stored /\ v.operation = k
        BY <3>2
      <4> HIDE DEF v
      <4>2. f[v] = TreeOfEntry(f, v)
        BY <4>1, TreeOfThe, Zenon
      <4>3. TreeOfEntry(f, v) = TreeOfResult(operations[k], [w \in ToSet(operations[k].inputs) |-> f[w]])
        BY <4>1, Zenon DEF TreeOfEntry
      <4>4. QED
        BY <4>2, <4>3 DEF v
    <3>4. ASSUME NEW id \in Children(expr)
          PROVE  f[idToValue[id]] = below[id]
      <4>1. PositionOf(arena, id) \in 1 .. (m - 1) /\ arena[PositionOf(arena, id)].id = id
        BY ReferencesBefore
      <4>2. f[V(PositionOf(arena, id))] = e[PositionOf(arena, id)]
        BY <1>3, <4>1
      <4>3. QED
        BY <4>1, <4>2
    <3>5. below = [id \in Children(expr) |-> below[id]]
      OBVIOUS
    <3> HIDE DEF below
    <3>6. TreeOfResult(operations[k], [w \in ToSet(operations[k].inputs) |-> f[w]])
            = TreeOver(expr, [id \in Children(expr) |-> below[id]])
      BY <2>2, <3>1, <3>4, DecodedReads
    <3>7. QED
      BY <2>1, <3>3, <3>5, <3>6
  <2>5. QED
    BY <2>2, <2>3, <2>4 DEF ValueIsOf
<1>4. 0 \in T
  BY <1>1
<1>5. ASSUME NEW m \in 1 .. N, m - 1 \in T
      PROVE  m \in T
  <2>1. f[V(m)] = e[m]
    BY <1>3, <1>5
  <2>2. m \in 0 .. N /\ \A i \in 1 .. m : i \in 1 .. (m - 1) \/ i = m
    BY <1>1
  <2>3. \A i \in 1 .. (m - 1) : f[V(i)] = e[i]
    BY <1>5
  <2> HIDE DEF V
  <2>4. QED
    BY <2>1, <2>2, <2>3
<1> HIDE DEF T
<1>6. 0 .. N \subseteq T
  BY <1>1, <1>4, <1>5, FiniteInduction
<1>7. N \in T
  BY <1>1, <1>6
<1>8. QED
  BY <1>1, <1>7 DEF T

\* DecodeExpressionArena loses nothing of a query: whatever its arena, the
\* values of its expressions have their trees, with the inputs of merges and
\* transforms in their places and preconditions by name, whatever the order
\* in which the hash map has them; and the output is the last expression.
THEOREM DecoderKeepsMeaning == Spec => []MeaningPreserved
<1>1. ASSUME IInv, MeaningInv, decoding = "decoded" PROVE MeaningPreserved
  <2>1. /\ IsArena(arena) /\ WellFormed(arena) /\ IsFacts(operations) /\ next = Len(arena) + 1 /\ arena # <<>>
        /\ Last(operations) = SqlOutputOp(idToValue[Last(arena).id])
    BY <1>1, DecoderInvDecides DEF IInv, DecoderInv, MeaningInv, DecodesExactlyWellFormed
  <2> DEFINE e == CHOOSE e : TreesAt(arena, DOMAIN arena, e)
             f == CHOOSE f : TreesOf(AllValues, f)
  <2>2. TreesAt(arena, DOMAIN arena, e)
    BY <2>1, ExpressionTreesExist
  <2>3. TreesOf(AllValues, f)
    <3>1. DOMAIN operations = 1 .. Len(operations)
      BY <2>1 DEF IsFacts
    <3>2. AllValues = ValuesTill(Len(operations))
      BY <3>1 DEF AllValues, ValuesTill
    <3>3. QED
      BY <1>1, <2>1, <3>2, ValueTreesExist
  <2>4. /\ \A i \in DOMAIN arena : TreeOfExpression(arena, i) = e[i]
        /\ \A v : TreeOfValue(operations, v) = f[v]
    BY TreesAreEntries
  <2> HIDE DEF e, f
  <2>5. \A i \in DOMAIN arena : f[idToValue[arena[i].id]] = e[i]
    BY <1>1, <2>1, <2>2, <2>3, TreesAgree
  <2>6. Len(arena) \in DOMAIN arena /\ Last(operations).inputs[1] = idToValue[arena[Len(arena)].id]
    <3>1. Len(arena) \in Nat /\ DOMAIN arena = 1 .. Len(arena) /\ arena \in Seq(ToSet(arena))
      BY <2>1, ArenaItems DEF IsArena
    <3>2. Len(arena) # 0
      BY <2>1, <3>1
    <3>3. Last(operations).inputs[1] = idToValue[Last(arena).id]
      BY <2>1 DEF SqlOutputOp, Operation
    <3>4. QED
      BY <3>1, <3>2, <3>3 DEF Last
  <2>7. QED
    BY <2>4, <2>5, <2>6 DEF MeaningPreserved
<1>2. IInv /\ MeaningInv => MeaningPreserved
  BY <1>1 DEF MeaningPreserved
<1>3. QED
  BY <1>2, ComplianceMeaning, PTL
=============================================================================
