# A TLA+ development of Raksha

Raksha checks data flow policies. Front ends turn a query, a recipe or a
session into Raksha IR, a module of blocks of operations on values; policy
engines decide whether the IR complies with a policy. This directory holds TLA+
modules that model parts of the code under `src/`, TLC configurations that
check them on small instances, and proofs, checked by TLAPS, of theorems about
them for every value of their constants.

`PROJECT.json` maps every definition to the source lines it models and lists
the runs, the mutated definitions that show each property can fail, the
disagreements between code and documentation, the hazards, and the theorems.

## 1. Inventory

| Component (under `src/`) | State | Operations | Interacts with | What is hard | What makes it correct |
|---|---|---|---|---|---|
| Taint domain and semantics, `analysis/taint` | none: IFC tags (secrecy, integrity) and rules are values | join, default transformer, inference rules | called by the fixpoint loop for each operation visited | bottom means both "unreached" and "waiting"; premises hold of bottom inputs | join is a least upper bound; transformers are monotone and keep bottom |
| Module graph and fixpoint iterator, `analysis/common` | map of value states, worklist | `ComputeFixpoint` | reads the IR module; instantiated with a semantics | hash set of pointers, so any order; cycles; first visits that compute bottom | the result is the least solution in every order; the loop ends |
| Generic worklist iterator, `analysis/common` | FIFO of nodes, node states | `ComputeFixpoint` | its own test only | as above | as above |
| Abstract interpretation policy checker, `backends/policy_engine/abstract_interpretation` | none between calls | `IsModulePolicyCompliant` | runs the taint analysis, then reads the states of egress inputs | unreached egress inputs fail a CHECK | accepts exactly the modules without a secret flow to an egress |
| SQL policy rules, `frontends/sql/decode_sql_policy_rules`, `analysis/taint/inference_rules*` | tag tables, actions, rules of actions | decode the operations one by one | produces the rules the taint analysis uses | one rule used with different argument positions; two tables of tags that grow together; rules of a merge given by a later operation | every operation gets the rules its policy rule demands |
| SQL query decoder, `frontends/sql` | values by id, storages, the block under construction | one operation per expression kind | builds IR through the block builder | ids used before they are decoded, or twice | decoded IR has the expressions' data flow |
| Ambient policy checker, `frontends/ambient` | edges of the context, settings of users | add or query an edge, change a setting, validate | runs the Datalog program `multimic.dl` | queries that change the context; settings changed under accepted edges; delegation and negation in the program | the verdict is what the owner allows; a compliant context stays compliant |
| Souffle policy engine, `backends/policy_engine/souffle` | a temporary directory of facts | write facts, load, run, read, remove | runs Datalog programs; lowers IR to facts | failures between steps, concurrent calls | the verdict is about this module and this policy |
| Datalog taint analysis, `analysis/souffle` | relations, to a fixpoint | rules | fed by the Souffle engine | stratified negation, predecessor numbering | same verdict as the abstract interpretation |
| Arcs rules, `analysis/souffle/arcsjs_*` | relations | rules | on top of the Datalog taint analysis | downgrades and claims | tags flow as the recipe claims |
| Differential privacy, `analysis/souffle/{sensitivity,epsilon}_analysis.dl` | relations | rules | fed by the Souffle engine | bounded arithmetic | budgets are upper bounds |
| IR module construction, `ir` | blocks, operations, context | builders | used by all front ends | pointers between operations | every value belongs to the module |
| IR text, `parser/ir`, `ir/ssa_names.h`, `ir/ir_printer.h` | tables of temporaries and names, pending references | parse, print, lower to facts | entry of the command line tools | forward references, names used twice, ids given and generated | names identify values; writing keeps the data flow |
| IR protos, `ir/*proto*` | tables of ids | convert both ways | other tools | duplicate ids, results of blocks | round trips keep the module |
| Authorization logic, `ir/auth_logic` | environments, counters of fresh names | lower, insert universes, emit | produced `multimic.dl` | fresh names, delegation depth | the Datalog program derives what the logic says |
| Reference counting, `common/utils` | a count in each object, pointers in handles | create, copy, move, reset, release | shared tag sets, types and attributes | aliases, self moves, conversions with two temporaries | deleted once, when nobody refers to it |
| Driver, command, emission, exports, types, utilities, SQLite AST, policy parser | little or none | formatting, flags, conversion | | | |

The calls run in one thread of one process (`ref_counter.h:25`: "not a
thread-safe class"); only two processes that run the Souffle engine share
anything, the file system. Nothing is persisted across runs. So the hard behaviours
are orders (of a hash set, of calls, of operations in a file), partial failure
between steps, and CHECKs that end the process.

## 2. Modules

| Module | Models |
|---|---|
| `AbstractIfcTags` | `AbstractIfcTags`: the lattice, join and updates |
| `AbstractSemantics` | `AbstractSemantics`: the default transformer and the inference rules, with their CHECKs |
| `ModuleGraph` | `ModuleGraph`: values, uses, results |
| `ModuleFixpoint` | `ModuleFixpointIterator::ComputeFixpoint`, for any semantics |
| `ChaoticIteration` | abstract specification: raise states in any order, stop only at a solution |
| `TaintAnalysis` | the iterator instantiated with the tag semantics |
| `AbstractInterpretationPolicyChecker` | `IsModulePolicyCompliant`: the analysis, then the egress checks |
| `SqlPolicyRules` | `DecodeSqlPolicyRules` and `InferenceRulesBuilder` |
| `AmbientPolicyChecker` | `ambient::PolicyChecker` and the Datalog program behind it |
| `IntrusivePtr` | `intrusive_ptr`, `RefCounted`, `RefCounter` |
| `IrText` | `IrVisitor` (the IR parser), `SsaNames`, `IRPrinter`, the names of `DatalogLoweringVisitor` |
| `IrProto` | `IRToProto` and `ProtoToIR` |
| `SqlDecoder` | `DecodeExpressionArena` and `DecoderContext` |
| `SqlPolicyVerifier` | the Datalog program of the SQL policy verifier, with the taint analysis and the tag transforms it includes, as the least model of its rules |
| `SqlPolicyBackends` | one query through `SqlPolicyRules` with the abstract interpretation, and through `SqlPolicyVerifier` |
| `DpPolicyVerifier` | the Datalog program of the differential privacy verifier: `sensitivity_analysis.dl`, `epsilon_analysis.dl` |
| `DpBudget` | abstract specification: epsilon and delta counted route by route along the data flow |
| `SoufflePolicyChecker` | `SoufflePolicyChecker::IsModulePolicyCompliant`, its files and its failures |
| `PolicyCompliance` | the two clients of the Souffle engine: `verify` of the SQL driver and the command `check_policy_compliance` |
| `DatalogProgram`, `AuthLogicAst` | the data of the authorization logic compiler: Datalog programs, syntax trees and what their visitors meet |
| `AuthLogicParser` | `BuildAuthLogicAST`: from the parse tree to the syntax tree |
| `UniverseRelations` | the declaration and type environments, and the insertion of universe relations |
| `AuthLogicLowering` | `LoweringToDatalogPass` |
| `AuthLogicCompiler` | the tool: its passes in order, what it writes, how it fails |
| `AuthLogicSemantics` | what a policy means and what a Datalog program derives |
| `ModuleFixpoint_proofs`, `PolicyChecker_proofs`, `SqlPolicyRules_proofs`, `PolicyCompliance_proofs`, `IrText_proofs`, `IrProto_proofs`, `IntrusivePtr_proofs` | theorems (section 4); `PolicyChecker_proofs`, on the domain, the taint analysis and the policy checker, instantiates `ModuleFixpoint_proofs`; `SqlPolicyRules_proofs` is also about `SqlPolicyBackends` and instantiates `PolicyChecker_proofs` |
| `FiniteRecursion` | lemmas: induction over the positions of a sequence, recursive functions over them, and one list made of many |
| `MC*` | finite instances for TLC |

**Fixpoint loop.** `valueStates` is the C++ map `value_states`: a partial
function, because the loop treats "no entry" and "bottom" alike when it reads
(`get_current_state`) but not when it decides whether a result has changed.
`worklist` is a set and `Visit(op)` takes any member, because the code takes
`begin()` of a hash set of pointers. One action is one turn of the loop with
its transformer call, joins and insertions. A CHECK that fails in the
transformer is `VisitDies`. The semantics is a group of constants
(`AbstractState`, `Bottom`, `InitialState`, `JoinOp`, `Transformer`), as it is a
template parameter in C++.

**Tag semantics.** States are `Bottom` or records of two sets. Indices of
inputs and outputs count from 1. An operator whose C++ counterpart would fail a
CHECK returns `CheckFailure`.

**Policy checker.** It runs the fixpoint actions, then `CheckEgress` once for
each egress operation. The states of two egress operations are independent
reads, so their order does not matter to the verdict but does to whether a
CHECK fails.

**Policy rules.** One action per operation of the module, in order: a special
transform gives a rule to the merge it reads, any other transform gets its own
rules, everything else is skipped. `ActionName` stands for the string
`<rule>_<count>`; the pair is a faithful abstraction because the last underscore
separates the count from the rule.

**Ambient checker.** One action per public call that changes state, and
`ValidatePolicyCompliance`. The Datalog program is evaluated by rounds of
delegation (an application speaks for itself, the settings manager repeats it,
a user repeats the manager) and a closure per tag along the edges. Principals
other than the two users are left out as owners: nothing they own is raw audio.

**Reference counting.** One action per statement of a client on a handle
(creation, creation of a convertible type, copy, move, reset), each the whole of
`operator=` up to its return, and one per destructor of the temporaries it leaves.
`ptr_` of a handle that does not exist is null. No object of the repository
has handles as members, so a release deletes one object.

**IR text.** One action per turn of the parser's loops: `VisitOperation` and
`NameTemporaries` for the first pass over a block, `ResolveInputs` and `AddBlock` for
the second; then one per operation that is written. `temporaries` is emptied with
each block, `names` (the table of `SsaNames`) is not. A program is a parse tree in
which the number `n` is the temporary `%n`, so that the ids `GetOrCreateID` makes
can meet the temporaries of the program. Block arguments and stored values, which
the parser never makes, are left out. `Meaning` says of the whole program
what the two passes compute step by step; the properties compare the two.

**IR protos.** One action per visited operation or block of each pass: `IRToProto`
writes, then `ProtoToIR` registers the operators in the context it is given,
creates the objects (`PreVisit`), resolves operands and results (`ToIR`), and
moves every operation to its block (`PostVisit`). `builders` and `operations` are its
tables of ids, `moved` the ids whose object was taken by a block. A failed CHECK
is `Dies`. The operators of the writer's context come with their number of results, which the
proto does not carry.

**SQL queries.** One action of `SqlDecoder` per expression of the arena; it adds the
value to the table of the `DecoderContext`, the storage it may need, and the operations it
makes to the block. `TreeOfExpression` says what an expression means,
`TreeOfValue` what the finished operations compute when their attributes are read as
their readers (`GetDirectInputs`, `GetPreconditions` and the others) read them.

**Souffle engine.** One action for each step of a call that touches the file system or can end:
making the directory, writing the facts of the policy, of the module, and the empty files
of the other relations, loading, the missing engine, running and removing. Each step can
succeed or meet a trouble; `troubles` remembers which, so that properties can say
that nothing else ends a call. The loader is generated by Souffle and external:
it goes on without the facts of a file it cannot open and ends the process on a
file it cannot parse. The directory of a call that died stays; `Leftovers` has such
directories. `remove_all` is taken to succeed, and so is the `CHECK` on `setenv`;
every program is taken to have the relations that are asked for with `DIE_IF_NULL` (`souffle_policy_checker.cc:74`, `:81`).

**Clients.** `PolicyCompliance` composes the decoder and the engine. `verify` is
`Decode`, then `VerifyModule`. The command is one action per phase and outcome: the graph flags,
the file and its parser, the policy flags in the order of the code, the check, the
exit status. An empty flag is an absent one.

**Datalog programs.** `SqlPolicyVerifier` and `DpPolicyVerifier` are functions of
the facts: each relation is the least set closed under its rules. Lists of
predecessors, with which the programs write "for all", are quantifiers. A relation that depends on
itself is `Derived` from a monotone step. Numbers of the privacy analysis wrap at `Width` bits.
`SqlPolicyBackends` gives one query to the Datalog program and to the
abstract interpretation. The operations of a query only read earlier ones, so `AbstractStates` has the states that
satisfy all equations, in the order of the query; `Analysis` is `TaintAnalysis` with the query as its module, and
`StatesAreReturned` says that these states are what the loop over the hash set of operations returns if the rules are
monotone. For other rules the loop has no one result and nothing is said of it.

**Authorization logic.** One action per pass of the tool: reading and parsing, the insertion of universe
relations, the lowering of assertions, of queries and of the program, printing and
writing, with the exit codes of the tool and the CHECKs of the environments. A
relation's name is the sequence of its parts (`says_`, `canSay_`, ...). The
numbers of fresh variables and delegation depths are threaded through the translation as in
the code. Policies do not use names that the passes make up (`x__1`, `says_p`). `Beliefs` in
`AuthLogicSemantics` is the meaning of the parse tree along the comment at the top of
`lowering_ast_datalog.h`; the other side is the least model of the printed program.

## 3. Runs

| Run | Instance | Shows |
|---|---|---|
| `any_semantics` | 2 operations over a four element lattice that is not a chain: one applies any function that keeps bottom, the other a monotone one that may fail, to inputs joined or met; self loops and cycles | in every order the worklist is complete, states only grow, the call returns and refines `ChaoticIteration`; the solution is the least if both functions are monotone (188,200 states) |
| `taint_least_fixpoint` | 3 operations, one entry, one tag; sources, removals with premises, unions, intersections, merges with bad indices | least solution for the real semantics; `TagSemantics`: each operation alone meets the hypotheses of the theorems about the loop (71,339) |
| `policy_verdict` | 720 programs, some cyclic | the verdict equals a path based definition; a CHECK fails only if an operation waits for what never comes; every call answers (62,909) |
| `sql_policy_rules` | 27,540 queries: a head and two transforms, policies and seeds; and queries that merge two tagged values, confirm one if it is checked, and remove a tag if others have integrity or add one | decoded rules, tag ids, the exact set of queries that are refused; `BackendsAgree`: if the decoded rules are monotone, the Datalog program and the abstract interpretation of them give a query one verdict, unless integrity passes through a special transform and a rule removes tags under a condition (123,702) |
| `ambient_context` | the whole system: all edges, users and settings | verdicts are the owner's will; refusals do not depend on the order; only a withdrawn permission breaks compliance (2,048) |
| `ambient_query_removes_edge` (violation) | the same | a query takes an edge out of the context |
| `auth_logic` | 2,445 policies of two or three assertions of every form and a query, with and without the flag that skips declarations | the program derives exactly the beliefs and the queries that hold; what is printed declares what it uses, except delegations of `canActAs`, which it never declares, and those over two principals and more if several declared relations are delegated; exactly the ill typed policies are refused (53,344) |
| `auth_logic_undeclared_delegation` (violation) | the same | two delegated relations: a deeper declaration is built from the other relation's |
| `ir_proto` | 11,772 modules and translation units of three operations in two blocks; operands from anywhere, clashing, dangling and missing ids | reading refuses exactly the malformed units; a module has the objects of its unit, once each; round trips keep the data flow unless there are stored values, block results or second results (96,338) |
| `ir_text` | 15,840 programs of three operations in one or two blocks; one or two results; operands defined above, below, in the other block, twice or nowhere | refusals are exactly the malformed programs; the module has the program's data flow; printing and lowering with new names keep it (96,480) |
| `intrusive_ptr` | three handles, four objects | counts are exact, nothing dangles, nothing leaks, in every order of destructors (1,710) |
| `policy_compliance` | every query of up to three expressions, longer ones with rules and preconditions, 480 queries with noise under two budgets, every combination of the command's flags; two directory names, leftovers of calls that died, two troubles | queries are decoded to what they mean, judged as their rules say; those with noise are accepted only if the mechanisms keep to epsilon and delta, and refused for a reason (with the exceptions of section 5); a call reads the facts it wrote, removes its directory, dies only if a step failed; the exit status is that of the verdict (824,232) |

**Bounds.** Three operations are enough for what the loop can get wrong: a
self loop, a cycle of two, a cycle that is entered or not, a value with two
users, an operation with two inputs of which one is late. Two operations suffice
once the functions are arbitrary. The four element lattice has incomparable
states, so joins are not maxima, and chains of length three, so states change
more than once. One tag suffices for the tag semantics: its operators treat tags
pointwise, and the kinds of tags (secrecy, integrity) are both there. Three operations let an operand be defined
before, after and by its own operation, and a temporary be used twice in one block and
in two blocks. Two
transforms after a head are enough for one rule to be used twice and one merge to
be transformed twice. The ambient system is checked in full. Three handles and four
objects allow a third alias besides the two of an assignment, and an object that
is free while the others are in use. Policies of three assertions have a delegation
of depth two, a fact said under it, and a rule that uses the result; `MaxInt = 6` is
large enough for the numerals of the policies and has one that does not fit.
Two directory names let a call meet a name that is in use and find a second;
`MaxTroubles = 2` lets a failure follow a failure. `Width = 5` makes sums and
products of the privacy analysis wrap, and not only those: of the 960 pairs of query and budget, 444 have
every part measured, and among these 116 are accepted and 328 refused; 28 of those that are refused have one output
and all they need but the budget, and 46 keep epsilon and exceed delta.

**Fairness.** `ModuleFixpoint!Spec` and the checker have weak fairness of
`Next`: the loop is sequential code without waits, so while a step is possible it
takes one. No fairness is assumed on *which* operation is taken from the
worklist. `AuthLogicCompiler!Spec` has the same fairness for the same reason: its
passes follow each other. The other modules have no liveness
properties and no fairness: clients need not call.

**Deadlock** checking is off where every call ends, returns or dies. It is on for
`IntrusivePtr`, whose clients always have another statement, and for
`policy_compliance`, whose instance lets a call that has ended stay so: nothing else
stops.

**Type invariants.** Every module states one (`TypeOK`, `CheckerTypeOK`). The runs check that of
the fixpoint loop; those of the policy rules and of the Souffle engine's clients are theorems, and the inductive
invariants of IR text and protos (section 4) type their states; the others hold on the same instances.

**Mutants.** For each property `PROJECT.json` names a variant of a definition (a
`Faulty:` comment in the modules: a missed reinsertion, an overwritten state, a
swapped edge, an index off by one, a missing count in a name) under which TLC finds
the property violated.

## 4. Proofs

`ModuleFixpoint_proofs` proves, for every set of modules, every semantics and
every order:

* `TypeCorrect`: `TypeOK` is an invariant of a typed semantics.
* `StatesOnlyGrow`: in a semilattice, stored states only grow.
* `WorklistIsComplete`: in a semilattice, an operation that was reached and is not
  queued has nothing to add.
* `LeastSolution`: if the transformers keep bottom, what the call returns for a
  module whose transformers are monotone is the least solution.
* `RefinesChaoticIteration`: if the transformers keep bottom, every step of the
  loop maps to a step of `ChaoticIteration` or to a stutter.

The hypotheses are operators of `ModuleFixpoint` (`SemanticsTyped`,
`JoinIsSemilattice`, `TransformerMonotone`, `TransformerStrict`), not assumptions
of the module: they do not hold of every semantics the code can be given, and
without monotonicity the result depends on the order (section 5).
`PolicyChecker_proofs` discharges them for the tags.

The argument. `TypeInv` types the state without enumerating sets. `CompleteInv`
adds that every entry value has its initial state, that stored states absorb what
settled operations compute, and that operations with nothing reached have no
stored results; it is inductive because a visit settles the visited operation, unsettles
only users of what it changed, and queues those. `BelowSolutions`
says that every stored state is at most the state any solution gives the value, and that
nothing fails that would not fail at a solution; a visit keeps it by monotonicity.
At `Return` the worklist is empty, so `CompleteInv` makes the map a solution and
`BelowSolutions` the least one. The refinement maps the partial map to the total one
that fills in bottom; a visit is a `Raise`, and `Return` is a `Stop` because of
`CompleteInv`.

`PolicyChecker_proofs` starts with the domain and its operators, for every set of
tags. Join is typed, has bottom as its unit, commutes, associates and is the least upper
bound of the order it induces (`JoinIsLeastUpperBound`). `ApplyOperationTransformer` is typed
and strict for every operation and every sequence of rules, and monotone if its rules are.
A rule is monotone if it has no premise or if its premises only condition a removal of
secrecy or an addition of integrity: a premise holds of a bottom input and turns false as the
input loses integrity, so that what was concluded under it must only have lowered the state.
A policy rule with preconditions on `ADD_CONFIDENTIALITY` is not monotone. The rules of an
output are interpreted one after the other by a recursive function; `FiniteRecursion`
says that such a function exists and what holds of all of its values.

It then puts the two together, without a hypothesis about the semantics:

* `TagsMeetHypotheses`: the tag semantics is what the loop asks for.
* `LeastTaint`: for every module with monotone rules the analysis returns the least
  solution, in whichever order the worklist is emptied.

And of the policy checker, for every module, every set of tags and every order:

* `VerdictExact`: for rules of the SQL front end (copy and modify, or merge) that are monotone, a module is
  rejected only if a tag has a path to an egress, and accepted, if every value was evaluated, only
  if none has. `TaintedBy(t)` is the least set of values along such paths. That tags only come along
  paths: if `S` is closed under the flow of `t`, the map that takes `t` from the
  states outside of `S` is a solution as well (`Without`), and the least solution is below
  it. That they come along all of them: the values that carry `t` are closed under the flow, as
  the result is a solution.
* `DiesOnlyOnStuck`: for all rules, the CHECK of the egress loop fails only if an
  operation waits for a value never reached or downstream of itself. An operation
  that has something to work on and still computes bottom awaits a bottom input (`StuckWaits`).
  So each bottom value lies downstream of a stuck operation, and that one awaits another bottom
  value; take a bottom value with the fewest operations upstream, which exists because modules are finite: if
  what is awaited were reached and not downstream of the operation, it would have fewer.
  `OnlyDownstream` is the invariant that states appear only downstream of entry values and
  of operations without inputs.

`SqlPolicyRules_proofs`, for every query, every number of seeds, rules and operations:

* `TagIdsAreCanonical`: `GetTagName` and `GetTagId` stay inverse to each other.
* `RulesAreThoseOfPolicy`: the rules of every operation are those the whole module asks for.
* `RefusalIsExact`: the process dies of exactly the queries that are not well formed.
* `EnginesAgree`: if the decoded rules are monotone, their abstract interpretation and the Datalog program give one
  verdict, with the exception of `BackendsAgree`.
* `StatesAreLeast`: the states that `EnginesAgree` is about are the least solution of the query as a module, and so what
  the fixpoint loop returns, in whichever order it visits the operations (`LeastTaint` of `PolicyChecker_proofs`).
* `TypesOK`: the type invariant.

The inductive invariant `IInv` says of the state between two operations that the tables of
tags agree (`Agree`, with as many names as ids, since a new id is `tags_.size()`), that an action is a
rule name and a number below its count (so that a new action is new, and the CHECK on
duplicate actions cannot fail), that the transforms visited have their rules and that each
special transform visited has marked its merge, as the only one so far. The look-ups of one rule
are a recursive function; the tables agree after each of them, and names keep their ids,
so that rules made earlier keep their meaning.

`EnginesAgree` relates, operation by operation, the state that the decoded rules compute (`AbstractStates`) to
the tags in the least model of the Datalog program. A relation of the program is `Derived(step, facts)`, a recursive function
that adds facts until nothing changes; for a monotone step over finitely many facts it is the least set closed under the
step (`DerivedIs`: each round that is not the last leaves fewer facts missing), so that membership is decided by the
rules of one operation given those before it. `TransformAssured`, `MergeAssured` and `OtherAssured` say which
integrity tags one operation has in the program, `OrdinaryTags`, `MergedTags` and `PlainTags` which tags it has in the
abstract interpretation. By induction along the query, what the abstract interpretation endorses the program
does too (`EndorsedIsAssured`), and the other way round for results of operations that are not special unless
integrity is lost (`AssuredIsEndorsed`); the preconditions of rules are met accordingly (`MetIsSurelyMet`), and the
secrecy of the results follows (`SecretAndSuspect`). A claim without the exception is false: where the program
lets integrity pass and the abstract interpretation does not, a rule that removes secrecy under a
condition fires in one of them only. The run has such queries. Monotone rules add no secrecy under a condition
(`NoneAddsOnCondition`).

`StatesAreLeast` ties these states to the loop. `SqlPolicyRules_proofs` instantiates `PolicyChecker_proofs` with the query
as the module, and takes the order of states and the monotonicity of transformers from there. The states satisfy
the equations of the module (`StatesAreSolution`), and by induction along the query they are
below every other solution (`StatesAreBelow`).

`PolicyCompliance_proofs` is about the two programs around the Souffle engine, for all queries,
commands, file contents, engines, directory names, leftovers and numbers of troubles:

* `DecoderIsExact`: the decoder dies of exactly the arenas that are not well formed.
* `DecoderKeepsMeaning`: the output operation of a decoded query computes what the last expression means.
* `FactsOfThisCall`: a program works on facts of its own call, on all of them unless a
  write or a read went wrong.
* `DeathNeedsTrouble`: a call dies only of a file it cannot make or a missing engine.
* `DirectoriesAreRemoved`: a directory outlives its call only if the process ended in it.
* `ExitStatusIsVerdict`: the exit status tells the verdict on the module and policy that the
  flags describe.
* `TypesOK`: the type invariant.

`IInv` has four parts. `DecoderInv`: the ids with a value are those of the expressions
so far, all of them well formed; death means that the next one is not. `CheckerInv`: besides the
leftovers there is the directory of this call between its creation and its removal; each
file in it has a prefix of its facts, all of them if no write went wrong; and which files there
are at each step. It rests on `mkdtemp` making a name that is not in use and on no policy
having the relation `isOperation`. `PhaseInv` and `CommandInv` relate the phases of the clients, what
the flags have named so far, and the exit status.

For the meaning, `MeaningInv` adds that the value of an id is the result of an operation made
before, or a storage, that operations read only what is before them, and that each operation has the
operands and attributes of its expression, in some order of its preconditions (`ValueIsOf`). `TransformReads` and
`MergeReads` show that what the readers of the attributes recover does not depend on
that order. The trees of an arena and of values exist as functions because both are well founded
(`ExpressionTreesExist`, `ValueTreesExist`), and are equal by induction along the arena (`TreesAgree`).

`IrText_proofs`, for every set of programs:

* `RefusesExactlyMalformedHolds`: the parser dies of exactly the programs that are not well formed.
* `ModuleHasMeaningHolds`: a module that is handed on has the operations and the data flow of its program.
* `PrintedTextRoundTripsHolds`: the text a printer writes, with the parser's names or with new ones, is a well formed
  program with the meaning of the module; with the parser's it is the program again, attributes in order.
* `FactsKeepDataFlowHolds`: the facts of all blocks, read as one list of operations, have the data flow of the
  module, for the Souffle engine, which lowers with names of its own.

`Inv` says at each position of the two loops what the operators, the temporaries, the operations of the block and the
module hold, in terms of the program alone. It is inductive because a name is looked up only after the first
loop has gone through the block, when `temporaries` has exactly its definitions (`ResolvesToMeaning`). `WInv`
adds `NamesInv`, that the parser's table names the results of the blocks by their temporaries, and
`OutputInv`, that what has been written is the text of the operations so far and that all values in it have ids. Names are
given by a recursive function along the operation; `NamesAfterFacts` says that it keeps old names and that ids
stay the numbers below the size of the table. `WrittenModule` says what a text means whose names separate its results;
the lists of all blocks are joined with the lemmas of `FiniteRecursion` on places in a joined list.

`IrProto_proofs`, for every module that is written and every translation unit:

* `ReadingDiesExactlyOnMalformedHolds`: `ProtoToIR` dies of exactly the malformed units.
* `ModuleIsUnitHolds`: the new module has the operations of its unit, each once, in their blocks.
* `RoundTripKeepsDataFlowHolds`: what `IRToProto` wrote is read back with the same data flow; only modules with stored
  values or block results are not written or not read.
* `ResultsNamedInOrderHolds`: results are numbered in the order of the unit.

`Inv` says at each position of the three passes over a unit which objects, builders and blocks there are and what they
hold: an operation has an object once visited, its operands once filled, and has moved once added. `SourceInv`
says how much of the module the unit has while it is written, under which ids, and that reading leaves it alone;
`StuckInv` says why writing died. `NamesInv` counts the names given: the number of a result is its position in the
list of all operations.

`IntrusivePtr_proofs` proves `ExactCounts`, `NeverDangling` and `NeverForgotten`
for any number of handles and objects. The inductive invariant `CountInv` says that
counts are exact and that the allocated objects are those with a count that is
not zero; where handles point to follows from the counts. A statement is shown to
change the number of handles to each object by what it adds to the count.

**Assumptions.** They type what a program is called with, and TLC evaluates them
in the runs. `BottomAssumption`, `CheckFailureAssumption`, `EntryValueAssumption` and
`HandlesAssumption` keep unlike things apart (bottom is no pair of tag sets, null no
object). `ModulesAssumption` and `GraphAssumption` say that a module has operations with
sequences of inputs and a number of outputs. `RulesAssumption` says that rules name inputs and outputs that the operation
has, merges excepted: those are checked by the code. `EgressAssumption`: a module has finitely many operations,
and egresses are among them. `QueriesAssumption` of `SqlPolicyRules` types operations and policy rules as the protos do;
`BackendsAssumption` says what the SQL decoder makes of a query (operations read earlier results or values from
outside, a transform has its rule's name next to its arguments), that no rule is called like a special rule, and that there is an id for each tag;
in `PolicyCompliance` `QueriesAssumption` types arenas, and `ContentsAssumption`, `CommandsAssumption` and
`LeftoversAssumption` say that files have facts in an order, that no file has the
empty path, and that directories left behind were made by `mkdtemp`. `ProgramsAssumption` types parse trees and keeps `<<ANY>>` apart
from names and values; `SourcesAssumption` and `UnitsAssumption` say what modules and protos are: a context knows the operators of its
module, an attribute of a module has a payload; a unit may be malformed otherwise.

**Model-checked only.**

* `Termination` and `Answers`: liveness under fairness is out of the prover's reach.
* `VerifyJudgesQuery` and `BudgetIsKept`: they are about the engine that the instance plugs in, with its policies, budgets and
  numerals; the theorems are about any engine, the constants `Reads` and `Violates`.
* The authorization logic compiler, whose translation and meaning are recursive over syntax trees, for the same reason.
* `AmbientPolicyChecker` has no constants: TLC checks the whole system, so a proof would add nothing.

## 5. Disagreements with the documentation

Two are shown by runs of their own:

1. `frontends/ambient/policy_checker.h:64` says `IsValidEdge` simply checks. It removes
   the edge from the context even if it was accepted before
   (`ambient_query_removes_edge`).
2. `ir/auth_logic/lowering_ast_datalog.h:240` says a relation of depth `n` gets declarations
   for 1 to `n`. `GetCanSayDeclarations` (`lowering_ast_datalog.cc:357`) takes
   the declaration one level below from the wrong place for every relation but the
   first (`auth_logic_undeclared_delegation`).

Others were met while modelling. The models have the behaviour and the properties that
hold state it as their exception:

* `module_fixpoint_iterator.h:38` promises a least fixpoint. Under a rule that
  adds secrecy if an input has integrity (the tests have one) the result depends
  on the order of the worklist: the condition holds while the input is bottom, and what was added stays.
  `LeastSolutionIfMonotone` asks for monotone functions, `BackendsAgree` and `VerdictExact` for monotone rules.
* `abstract_semantics.cc:52` says bottom on an input means not processed yet. A
  merge on a cycle through itself was processed, waits for itself, and stays
  bottom; so does a tag transform that copies its own result. `DiesOnlyOnStuckOperation` says
  that only an operation that waits, for what is never reached or for itself, ends the egress check.
* `ssa_names_test.cc:54` expects different ids for different values. The parser
  names the values of all blocks in one table, each by its temporary, so that values of
  two blocks share an id. A printed module is not affected, because its text has the
  blocks; the facts of `ir_to_operation_facts` have none, and merge the two.
* `tag_transforms.dl:100` gives the result of a special tag transform the tags of its
  operand; the abstract interpretation gives it no integrity. A rule with preconditions on
  such a value is applied by one engine only: the Datalog program accepts more queries if the rule removes a tag.
  `BackendsAgree` excepts these. (It would refuse more if the rule adds secrecy; such rules are not monotone.)
* `lowering_ast_datalog.h:240` promises declarations for each depth at which a predicate is delegated. `canActAs` has
  none: it is not among the declarations that `lowering_ast_datalog.cc:325` looks in (`:326` goes on to the next
  predicate), and is added to the result at `:413`. The program of a policy that delegates `canActAs` uses
  `says_canSay_canActAs` undeclared. `TextCompiles` says so of every such policy (`IsDeclared`), and demands
  declarations of all other relations, but for the deeper ones of the second disagreement above.
* `utils.cc:43` does not ask whether the facts were written before it reports OK. A
  check after a write cut short is about fewer facts; `ReadsFactsOfThisCall` and
  `VerifyJudgesQuery` speak of calls that lost none (`NothingLost`).
* `epsilon_analysis.dl:135` speaks of a local epsilon for each path to an output; line 149
  is satisfied by one mechanism anywhere. 27 of the 444 measured query and budget pairs are
  accepted with a path around the mechanism. `JudgedByBudget` says that mechanisms keep to the budgets, not that
  every path has one (`IsNoisy`): what passes around all of them is charged to no input.
* A literal has no sensitivity, so a mechanism that reads only literals and what is computed from
  them spends nothing, and numbers wrap around: 62 of the accepted pairs spend more than the budget for these
  reasons. `BudgetIsKept` is about queries where every part is measured and the sums fit (`IsMeasured`).
* `epsilon_analysis.dl` has a variable `initital_input2` that occurs once, so the origin of the second
  input of a join is not looked at.
* `proto_to_ir.cc:182` cannot read the results of blocks that `IRToProto` writes, and
  reading into a new context gives every operator one result. `RoundTripKeepsDataFlow` excludes both.
* `sql_ir.proto` asks the value of a tag precondition to be a transitive child of
  the transformed one; nothing checks it.

## 6. Plan

1. Done: the analysis core and its proofs; policy rules; the ambient checker;
   reference counting and its proofs; IR text and names; IR protos; the SQL decoder, the
   Souffle engine with its failures and both clients; the SQL and the differential
   privacy programs; the comparison of the two engines; the authorization logic compiler.
2. Done: proofs of the tag semantics, so that the least solution holds of `TaintAnalysis` without
   hypotheses on the semantics; of the verdict and the failures of the policy checker; of the policy
   rules; of the decoder, the Souffle engine and its clients; of the meaning of decoded queries; of the
   parser, the printers and the facts of IR text; of both passes of IR protos; of the agreement of the two engines.
3. Open: proofs that the two Datalog engines judge a query as its policy says (`VerifyJudgesQuery`, `BudgetIsKept`), for
   which `EnginesAgree` and `DecoderKeepsMeaning` have the lemmas; the authorization logic compiler, once its
   recursive operators are functions with finite domains.
4. The builders of the IR and its context on their own; access paths and the predicates of
   check facts; the generic worklist iterator, if a program comes to use it.

## 7. Not modelled

Formatting and printing where no property is about it (DOT, fact strings, reasons
of refusals), the text of flags and files, the JSON and wire formats of protos, the generated
grammars (parse trees are the inputs of the models), the runtime of Souffle (its
programs are modelled by their least models), `ClearIntegrity` and `ToString`, which the
analysis never calls. The rules for Arcs operators state facts of single operations and
add no behaviour to the taint analysis. The generic worklist iterator is a template without
a user. The components whose status in `PROJECT.json` is
`not_modelled` are listed there, each with its reason.
