-------------------------- MODULE AbstractIfcTags --------------------------
(***************************************************************************)
(* The abstract domain of the taint analysis (src/analysis/taint):         *)
(* information flow control tags.  An abstract state is either Bottom (the *)
(* null tags_ pointer: the value has not been reached) or a pair of sets,  *)
(* the secrecy tags a value may carry and the integrity tags it must carry.*)
(* Two C++ states are IsEquivalentTo exactly when they are both bottom or  *)
(* have the same two sets, so the model writes the equivalence as "=".     *)
(***************************************************************************)
CONSTANTS
  Tag,      \* the tag identifiers (TagId)
  Bottom    \* the state of a value that has not been reached

IfcTags == [secrecy : SUBSET Tag, integrity : SUBSET Tag]

ASSUME BottomAssumption == Bottom \notin IfcTags

AbstractState == IfcTags \cup {Bottom}

IsBottom(a) == a = Bottom

\* The constructor AbstractIfcTags(secrecy_tags, integrity_tags).
MakeTags(secrecy, integrity) == [secrecy |-> secrecy, integrity |-> integrity]

(***************************************************************************)
(* Secrecy may be carried by either operand, integrity must be carried by  *)
(* both; bottom is the unit.                                               *)
(***************************************************************************)
Join(a, b) ==
  CASE IsBottom(a) -> b
    [] ~IsBottom(a) /\ IsBottom(b) -> a
    [] OTHER -> MakeTags(a.secrecy \cup b.secrecy, a.integrity \cap b.integrity)

\* The modifiers keep bottom and touch one tag of the rest.
SetIntegrity(a, t) ==
  IF IsBottom(a) THEN a ELSE [a EXCEPT !.integrity = @ \cup {t}]

SetSecrecy(a, t) ==
  IF IsBottom(a) THEN a ELSE [a EXCEPT !.secrecy = @ \cup {t}]

ClearSecrecy(a, t) ==
  IF IsBottom(a) THEN a ELSE [a EXCEPT !.secrecy = @ \ {t}]

\* The observers fail a CHECK on bottom; their users state that as a guard.
HasIntegrity(a, t) == t \in a.integrity
HasNoSecrecy(a) == a.secrecy = {}

\* The order of the join semilattice: a is at most b.
Leq(a, b) == Join(a, b) = b
=============================================================================
