------------------------------ MODULE DpBudget ------------------------------
(***************************************************************************)
(* What the verdict of DpPolicyVerifier should mean, route by route, as in *)
(* the PINQ paper that sensitivity_analysis.dl follows: along a route from *)
(* an input to a mechanism the stabilities of the operations multiply, and *)
(* the epsilons of the mechanisms add up, each times the stability of the  *)
(* worst route to it.                                                      *)
(***************************************************************************)
EXTENDS DpPolicyVerifier

IsInput(op) == op.operator = "core.input"

\* The routes from inputs to each operation, as sequences of operations.
Routes(ops) ==
  LET routes[op \in ops] ==
        IF IsInput(op) THEN {<<op>>}
        ELSE UNION {{Append(r, op) : r \in routes[o]} :
                      o \in {p \in ops : p.result \in ToSet(op.operands)}}
  IN  routes

RoutesTo(ops, isEnd(_)) == UNION {Routes(ops)[op] : op \in {o \in ops : isEnd(o)}}

\* The bounds on a join that a mechanism states somewhere behind it.
BoundsOnJoin(ops, join) ==
  {r[Len(r)].attributes["kappa"] :
     r \in {q \in RoutesTo(ops, IsDiffPrivacyMechanism) :
              join \in ToSet(q) /\ "kappa" \in DOMAIN q[Len(q)].attributes}}

StabilityOf(ops, op) ==
  CASE op.operator = "sql.group_by" -> 2
    [] op.operator = "sql.join" /\ BoundsOnJoin(ops, op) # {} -> Max(BoundsOnJoin(ops, op))
    [] OTHER -> 1

Stability(ops, route) ==
  LET Times(op, product) == StabilityOf(ops, op) * product IN FoldRight(Times, route, 1)

\* Mechanisms that an input goes through on its way to an output.
MechanismsFor(ops, input) ==
  {m \in ops : /\ IsDiffPrivacyMechanism(m)
               /\ \E r \in RoutesTo(ops, IsSqlOutput) : input = r[1] /\ m \in ToSet(r)}

\* What the routes that begin in "starts" take from the budget of an input.
Spent(ops, input, starts) ==
  LET Charge(m) == m.attributes["epsilon"]
                   * Max({0} \cup {Stability(ops, r) : r \in {q \in Routes(ops)[m] : q[1] \in starts}})
  IN  MapThenSumSet(Charge, {m \in MechanismsFor(ops, input) : "epsilon" \in DOMAIN m.attributes})

\* The deltas of the mechanisms that an input goes through add up, on its way
\* to an output or not.
DeltaSpent(ops, input) ==
  LET Charge(m) == m.attributes["delta"]
  IN  MapThenSumSet(Charge, {m \in ops : /\ IsDiffPrivacyMechanism(m) /\ "delta" \in DOMAIN m.attributes
                                         /\ \E r \in Routes(ops)[m] : r[1] = input})

InitialInputs(ops) == {op \in ops : IsInput(op) /\ \E r \in RoutesTo(ops, IsSqlOutput) : r[1] = op}

HasUnboundedJoin(ops) ==
  \E join \in ops : /\ join.operator = "sql.join" /\ BoundsOnJoin(ops, join) = {}
                    /\ \E value \in ToSet(join.operands), op \in ops :
                         value = op.result /\ op.operator # "sql.group_by"

\* No mechanism is missing, and each has an epsilon.
HasMechanisms(ops) ==
  LET all == {m \in ops : IsDiffPrivacyMechanism(m)}
  IN  all # {} /\ \A m \in all : "epsilon" \in DOMAIN m.attributes

\* Every route from an input to an output goes through a mechanism.
IsNoisy(ops) ==
  \A r \in RoutesTo(ops, IsSqlOutput) : \E m \in ToSet(r) : IsDiffPrivacyMechanism(m)

(***************************************************************************)
(* Operations that compute from nothing, such as literals, have no         *)
(* sensitivity, nor has what reads one first: a mechanism behind them      *)
(* costs nothing.  Numbers that do not fit wrap around: a budget that is   *)
(* exceeded by 2^Width is kept for the program.  Of queries with either    *)
(* nothing is said here.                                                   *)
(***************************************************************************)
IsMeasured(ops) ==
  /\ \A op \in ops : op.operands = <<>> => IsInput(op)
  /\ \A input \in InitialInputs(ops) :
       /\ Cardinality({op \in ops : IsSqlOutput(op)}) * Spent(ops, input, InitialInputs(ops)) < 2^(Width - 1)
       /\ DeltaSpent(ops, input) < 2^(Width - 1)

(***************************************************************************)
(* An accepted query takes no more than epsilon and delta from any of its  *)
(* inputs where it goes through mechanisms, and no join lets a row of an   *)
(* input count without bound.  There are mechanisms, but not on every      *)
(* route: the program has epsilon_analysis.dl:149 where its comment (:135) *)
(* asks for one "per an output path".  What a route around them reveals is *)
(* charged to no input; only if there is none (IsNoisy) do the budgets     *)
(* bound all that the outputs reveal.                                      *)
(*   A query with one output is refused only for a mechanism that is       *)
(* missing or has no epsilon, or for what it takes.                        *)
(***************************************************************************)
WithinBudget(ops, epsilon, delta) ==
  \A input \in InitialInputs(ops) :
    Spent(ops, input, {input}) <= epsilon /\ DeltaSpent(ops, input) <= delta

JudgedByBudget(ops, epsilon, delta, accepted) ==
  IsMeasured(ops) =>
    /\ accepted => /\ WithinBudget(ops, epsilon, delta) /\ ~HasUnboundedJoin(ops)
                   /\ IsNoisy(ops) \/ HasMechanisms(ops)
    /\ ~accepted /\ Cardinality({op \in ops : IsSqlOutput(op)}) = 1 =>
         \/ ~HasMechanisms(ops) \/ HasUnboundedJoin(ops)
         \/ \E input \in InitialInputs(ops) :
              \/ Spent(ops, input, InitialInputs(ops)) > epsilon
              \/ DeltaSpent(ops, input) > delta
=============================================================================
