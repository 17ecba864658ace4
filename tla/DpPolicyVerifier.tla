-------------------------- MODULE DpPolicyVerifier --------------------------
(***************************************************************************)
(* The Datalog program that checks differential privacy policies           *)
(* (src/analysis/souffle/dp_policy_verifier_interface.dl, with epsilon_    *)
(* analysis and sensitivity_analysis) as the least model of its rules.     *)
(*                                                                         *)
(* Its input is a set of operations, each with one result and none on a    *)
(* cycle, and global budgets.  Numbers have Width bits.  A value may have  *)
(* several sensitivities or none, as a relation may.                       *)
(***************************************************************************)
EXTENDS Integers, SequencesExt

CONSTANTS
  SqlOperators,  \* those whose names begin with "sql." or "googlesql."
  AnyOperand,    \* the access path <<ANY>>
  Width

ASSUME WidthAssumption == Width \in Nat \ {0}

Wrap(n) == ((n + 2^(Width - 1)) % 2^Width) - 2^(Width - 1)

IsSqlOperation(op) == op.operator \in SqlOperators
IsDiffPrivacyMechanism(op) == op.operator = "privacy_mechanism"
IsSqlOutput(op) == op.operator = "sql.sql_output"

IsInitialInput(ops, value) ==
  \E op \in ops : /\ op.operator \in {"core.input", "sql.input_table_column"}
                  /\ op.result = value

\* isSqlInput: what SQL operations and mechanisms read.
SqlInputs(op) ==
  IF IsSqlOperation(op) \/ IsDiffPrivacyMechanism(op) THEN ToSet(op.operands) ELSE {}

AccessPaths(ops) == {op.result : op \in ops} \cup UNION {ToSet(op.operands) : op \in ops}

\* sqlPath: where a value that SQL reads flows to, itself included.
SqlPath(ops, value) ==
  LET flow[known \in SUBSET AccessPaths(ops)] ==
        LET more == known \cup
              {op.result : op \in {o \in ops : ToSet(o.operands) \cap known # {}}}
        IN  IF more = known THEN known ELSE flow[more]
  IN  IF \E op \in ops : value \in SqlInputs(op) THEN flow[{value}] ELSE {}

ReachesOutput(ops, value) ==
  \E op \in ops : IsSqlOutput(op) /\ op.result \in SqlPath(ops, value)

-----------------------------------------------------------------------------
\* joinOperationHasKappa: bounds on the contributions that mechanisms state.
Kappas(ops, join) ==
  {m.attributes["kappa"] : m \in {o \in ops : /\ IsDiffPrivacyMechanism(o)
                                              /\ "kappa" \in DOMAIN o.attributes
                                              /\ o.result \in SqlPath(ops, join.result)}}

FunctionSensitivities(ops, op) ==
  CASE op.operator = "sql.join" -> IF Kappas(ops, op) = {} THEN {1} ELSE Kappas(ops, op)
    [] op.operator \in {"sql.group_by", "sql.select_distinct"} -> {2}
    [] OTHER -> {1}

\* Faulty: the score of the first operand counts.
FirstScore(score, input) == score

LargerScore(score, input) == IF score > input THEN score ELSE input

\* sqlValueSensitivity, for each operation the sensitivities of its result.
SqlValueSensitivities(ops) ==
  LET sensitivities[op \in ops] ==
        LET Inputs(i) ==
              (IF op.operands[i] = AnyOperand \/ IsInitialInput(ops, op.operands[i]) THEN {1} ELSE {})
              \cup UNION {sensitivities[o] : o \in {p \in ops : p.result = op.operands[i]}}
            scores[i \in DOMAIN op.operands] ==
              IF i = 1 THEN Inputs(1)
              ELSE IF op.operands[i] \notin SqlInputs(op) THEN {}
              ELSE UNION {{LargerScore(s, input) : s \in scores[i - 1]} : input \in Inputs(i)}
        IN  IF op.operands = <<>> THEN {}
            ELSE UNION {{Wrap(s * f) : s \in scores[Len(op.operands)]} :
                          f \in FunctionSensitivities(ops, op)}
  IN  sensitivities

-----------------------------------------------------------------------------
Mechanisms(ops, parameter) ==
  {op \in ops : IsDiffPrivacyMechanism(op) /\ parameter \in DOMAIN op.attributes}

MechanismsBehind(ops, parameter, value) ==
  {m \in Mechanisms(ops, parameter) : m.result \in SqlPath(ops, value)}

EpsilonDiffPrivacyIntermediate(ops, value) ==
  UNION {{<<m.result, Wrap(m.attributes["epsilon"] * s)>> : s \in SqlValueSensitivities(ops)[m]} :
           m \in MechanismsBehind(ops, "epsilon", value)}

\* What flows to two outputs is counted for each.
EpsilonDiffPrivacy(ops, value) ==
  LET Charge(charge) == charge[2][2]
      Charged(op) == {e \in EpsilonDiffPrivacyIntermediate(ops, value) :
                        op.result \in SqlPath(ops, e[1])}
  IN  Wrap(MapThenSumSet(Charge, UNION {{op} \X Charged(op) : op \in {o \in ops : IsSqlOutput(o)}}))

DeltaDiffPrivacy(ops, value) ==
  LET Charge(m) == m.attributes["delta"]
  IN  Wrap(MapThenSumSet(Charge, MechanismsBehind(ops, "delta", value)))

\* The second input need not come from anywhere: where its path should
\* start there is a variable of its own (initital_input2).
JoinOperationIsGroupingJoin(ops, join) ==
  LET IsGrouped(value) ==
        \E op \in ops : op.operator = "sql.group_by" /\ op.result = value
  IN  /\ "join_type" \in DOMAIN join.attributes /\ join.attributes["join_type"] = "INNER"
      /\ \E input1, input2 \in ToSet(join.operands) :
           /\ input1 # input2 /\ IsGrouped(input1) /\ IsGrouped(input2)
           /\ \E value \in AccessPaths(ops) : /\ IsInitialInput(ops, value)
                                              /\ input1 \in SqlPath(ops, value)

HasUnrestrictedJoin(ops) ==
  \E op \in ops : /\ op.operator = "sql.join" /\ ReachesOutput(ops, op.result)
                  /\ Kappas(ops, op) = {} /\ ~JoinOperationIsGroupingJoin(ops, op)

\* One mechanism anywhere is enough, if every mechanism has an epsilon.
HasNoEpsilon(ops) ==
  LET all == {op \in ops : IsDiffPrivacyMechanism(op)}
  IN  all = {} \/ all # Mechanisms(ops, "epsilon")

ViolatesDpPolicy(ops, epsilons, deltas) ==
  \/ \E value \in AccessPaths(ops) :
       /\ IsInitialInput(ops, value) /\ ReachesOutput(ops, value)
       /\ \E epsilon \in epsilons : HasNoEpsilon(ops) \/ epsilon < EpsilonDiffPrivacy(ops, value)
  \/ \E value \in AccessPaths(ops) :
       /\ ReachesOutput(ops, value)
       /\ \E delta \in deltas : delta < DeltaDiffPrivacy(ops, value)
  \/ HasUnrestrictedJoin(ops)
=============================================================================
