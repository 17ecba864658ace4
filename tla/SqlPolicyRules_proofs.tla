----------------------- MODULE SqlPolicyRules_proofs ------------------------
(***************************************************************************)
(* SqlPolicyRules for all queries: the tables of tags stay inverse to each *)
(* other, the rules of every operation are those the whole module asks     *)
(* for, and DecodeSqlPolicyRules dies of exactly the queries that are not  *)
(* well formed.  And the two engines give a query one verdict: the states  *)
(* that the rules make and the least model of the Datalog program are      *)
(* related operation by operation, and if the rules are monotone these     *)
(* states are the least solution of the taint analysis of the query, which *)
(* the fixpoint loop returns whatever the order of its worklist.           *)
(***************************************************************************)
EXTENDS SqlPolicyBackends, FiniteRecursion, FiniteSetTheorems

-----------------------------------------------------------------------------
\* The two tables of the builder: each name has its position, from 0, as its id.
Agree(names, ids) ==
  /\ names \in Seq(TagName)
  /\ ids \in [ToSet(names) -> Nat]
  /\ \A i \in DOMAIN names : ids[names[i]] = i - 1
  /\ IsFiniteSet(ToSet(names)) /\ Cardinality(ToSet(names)) = Len(names)

\* The rules of a tag transform, with ids of names that the tables have.
HasItsRules(k) ==
  LET r == PolicyRule(Code(k).rule)
  IN  /\ WellFormedTransform(Code(k))
      /\ r.tag \in DOMAIN tags /\ \A p \in ToSet(r.preconditions) : p.tag \in DOMAIN tags
      /\ k \in DOMAIN actions
      /\ actionRules[actions[k]] = TagTransformRules(r, Code(k), tags)

\* A special transform has marked the merge it transforms, before others could.
HasMarked(k) ==
  /\ Len(Code(k).inputs) = 1
  /\ \E m \in Operations :
       /\ Code(k).inputs[1] = <<m, 1>> /\ Code(m).operator = "sql.merge"
       /\ m \in DOMAIN actions
       /\ actionRules[actions[m]] = MergeRules(Code(k).rule, Code(m))
       /\ \A j \in Operations :
            j < next /\ IsSpecial(j) /\ Code(j).inputs[1] = <<m, 1>> => j = k

\* What has an action: a transform that was visited, or the merge of one.
MarkedFor(op) ==
  \/ IsOrdinary(op) /\ op < next
  \/ /\ Code(op).operator = "sql.merge"
     /\ \E j \in Operations : j < next /\ IsSpecial(j) /\ Code(j).inputs[1] = <<op, 1>>

\* Actions are numbered by the uses of their rule, so that a new one is new.
Numbered(action) ==
  \E name \in RuleName \cup SpecialRules :
    \E c \in 0 .. ruleCounts[name] - 1 : action = <<name, c>>

\* A rule was used at most as often as operations were visited.
CountsInv ==
  /\ ruleCounts \in [RuleName \cup SpecialRules -> Nat]
  /\ \A name \in RuleName \cup SpecialRules : ruleCounts[name] < next

\* Every action has a number in use, every marked operation a reason to be.
ActionsInv ==
  /\ \A action \in DOMAIN actionRules : Numbered(action)
  /\ \A op \in DOMAIN actions :
       op \in Operations /\ actions[op] \in DOMAIN actionRules /\ MarkedFor(op)

\* The operations visited have their rules.
RulesInv ==
  \A k \in Operations :
    k < next => /\ IsOrdinary(k) => HasItsRules(k)
                /\ IsSpecial(k) => HasMarked(k)

\* The builder, while no CHECK has failed.
BuilderInv ==
  /\ ~DuplicateNames(query)
  /\ Agree(tagNames, tags)
  /\ ActionsInv /\ RulesInv
  /\ pc = "done" => next = Len(query.code) + 1

\* The inductive invariant of the decoding.
IInv ==
  /\ query \in Queries /\ next \in 1 .. Len(query.code) + 1 /\ CountsInv
  /\ TypeOK
  /\ pc # "died" => BuilderInv
  /\ pc = "died" => ~WellFormed

-----------------------------------------------------------------------------
\* insert on a table: the other entries stay.
LEMMA WithIs ==
  ASSUME NEW f, NEW x, NEW y
  PROVE  /\ DOMAIN With(f, x, y) = DOMAIN f \cup {x}
         /\ With(f, x, y)[x] = y
         /\ \A z \in DOMAIN f : z # x => With(f, x, y)[z] = f[z]
BY DEF With

\* The positions and items of a sequence.
LEMMA SequenceItems ==
  ASSUME NEW s, IsSequence(s)
  PROVE  /\ Len(s) \in Nat /\ DOMAIN s = 1 .. Len(s) /\ s \in Seq(ToSet(s))
         /\ \A i \in 1 .. Len(s) : s[i] \in ToSet(s)
BY DEF IsSequence, ToSet

\* A sequence has as many items as positions iff no item is at two of them.
LEMMA NoDuplicates ==
  ASSUME NEW s, NEW n \in Nat, Len(s) = n, DOMAIN s = 1 .. n, s \in [1 .. n -> ToSet(s)]
  PROVE  /\ IsFiniteSet(ToSet(s)) /\ Cardinality(ToSet(s)) \in Nat
         /\ ~HasDuplicates(s) =>
              /\ Cardinality(ToSet(s)) = n
              /\ \A i, j \in 1 .. n : s[i] = s[j] => i = j
<1>1. IsFiniteSet(1 .. n) /\ Cardinality(1 .. n) = n
  <2>1. 1 \in Int /\ n \in Int  OBVIOUS
  <2>2. IsFiniteSet(1 .. n) /\ Cardinality(1 .. n) = (IF 1 > n THEN 0 ELSE n - 1 + 1)
    BY <2>1, FS_Interval
  <2> QED  BY <2>2
<1>2. s \in Surjection(1 .. n, ToSet(s))
  BY DEF Surjection, ToSet
<1>3. /\ IsFiniteSet(ToSet(s)) /\ Cardinality(ToSet(s)) <= n
      /\ Cardinality(ToSet(s)) = n <=> s \in Injection(1 .. n, ToSet(s))
  BY <1>1, <1>2, FS_Surjection
<1>4. Cardinality(ToSet(s)) \in Nat  BY <1>3, FS_CardinalityType
<1>5. ASSUME ~HasDuplicates(s)
      PROVE  /\ Cardinality(ToSet(s)) = n
             /\ \A i, j \in 1 .. n : s[i] = s[j] => i = j
  <2>1. Cardinality(ToSet(s)) = n  BY <1>3, <1>4, <1>5 DEF HasDuplicates
  <2>2. s \in Injection(1 .. n, ToSet(s))  BY <1>3, <2>1
  <2>3. \A i, j \in 1 .. n : s[i] = s[j] => i = j
    BY <2>2 DEF Injection, IsInjective
  <2> QED  BY <2>1, <2>3
<1> QED  BY <1>3, <1>4, <1>5

-----------------------------------------------------------------------------
\* The tables that agree.
TableSet ==
  {t \in [names : Seq(TagName), ids : UNION {[N -> Nat] : N \in SUBSET TagName}] :
     Agree(t.names, t.ids)}

\* The tables that agree are a set, as FiniteRecursion asks for.
LEMMA TableSetIs ==
  /\ \A names, ids : Agree(names, ids) => [names |-> names, ids |-> ids] \in TableSet
  /\ \A t \in TableSet : Agree(t.names, t.ids)
<1>1. ASSUME NEW names, NEW ids, Agree(names, ids)
      PROVE  [names |-> names, ids |-> ids] \in TableSet
  <2>1. ToSet(names) \in SUBSET TagName  BY <1>1 DEF Agree, ToSet
  <2>2. ids \in [ToSet(names) -> Nat]  BY <1>1 DEF Agree
  <2>3. ids \in UNION {[N -> Nat] : N \in SUBSET TagName}  BY <2>1, <2>2
  <2>4. names \in Seq(TagName)  BY <1>1 DEF Agree
  <2> QED  BY <1>1, <2>3, <2>4 DEF TableSet
<1> QED  BY <1>1 DEF TableSet

\* Names keep their ids.
Extends(s, t) ==
  /\ DOMAIN s.ids \subseteq DOMAIN t.ids
  /\ \A name \in DOMAIN s.ids : t.ids[name] = s.ids[name]

\* GetOrCreateTagId: a new name gets tags_.size() as its id, which is its
\* position because the tables agree; other names keep theirs.
LEMMA GettingTagId ==
  ASSUME NEW t \in TableSet, NEW name \in TagName
  PROVE  /\ GetOrCreateTagId(t, name) \in TableSet
         /\ Extends(t, GetOrCreateTagId(t, name))
         /\ name \in DOMAIN GetOrCreateTagId(t, name).ids
<1>1. CASE name \in DOMAIN t.ids
  BY <1>1 DEF GetOrCreateTagId, Extends
<1>2. CASE name \notin DOMAIN t.ids
  <2> DEFINE names == Append(t.names, name)
  <2> DEFINE ids == With(t.ids, name, Cardinality(DOMAIN t.ids))
  <2>1. /\ t.names \in Seq(TagName) /\ t.ids \in [ToSet(t.names) -> Nat]
        /\ \A i \in DOMAIN t.names : t.ids[t.names[i]] = i - 1
        /\ IsFiniteSet(ToSet(t.names)) /\ Cardinality(ToSet(t.names)) = Len(t.names)
    BY TableSetIs DEF Agree
  <2>2. GetOrCreateTagId(t, name) = [names |-> names, ids |-> ids]
    BY <1>2 DEF GetOrCreateTagId
  <2>3. Len(t.names) \in Nat /\ DOMAIN t.names = 1 .. Len(t.names)  BY <2>1
  <2>4. /\ names \in Seq(TagName) /\ Len(names) = Len(t.names) + 1
        /\ DOMAIN names = 1 .. (Len(t.names) + 1)
        /\ names[Len(t.names) + 1] = name
        /\ \A i \in 1 .. Len(t.names) : names[i] = t.names[i]
    BY <2>1, <2>3
  <2> HIDE DEF names
  <2>5. ToSet(names) = ToSet(t.names) \cup {name}
    <3>1. 1 .. (Len(t.names) + 1) = (1 .. Len(t.names)) \cup {Len(t.names) + 1}  BY <2>3
    <3> QED  BY <2>3, <2>4, <3>1 DEF ToSet
  <2>6. name \notin ToSet(t.names)  BY <1>2, <2>1
  <2>7. IsFiniteSet(ToSet(names)) /\ Cardinality(ToSet(names)) = Len(t.names) + 1
    <3> DEFINE S == ToSet(t.names)
    <3>1. IsFiniteSet(S) /\ Cardinality(S) = Len(t.names) /\ name \notin S  BY <2>1, <2>6
    <3> HIDE DEF S
    <3>2. /\ IsFiniteSet(S \cup {name})
          /\ Cardinality(S \cup {name}) = IF name \in S THEN Cardinality(S) ELSE Cardinality(S) + 1
      BY <3>1, FS_AddElement
    <3>3. ToSet(names) = S \cup {name}  BY <2>5 DEF S
    <3> QED  BY <3>1, <3>2, <3>3
  <2>8. /\ DOMAIN ids = ToSet(names) /\ ids[name] = Len(t.names)
        /\ \A z \in ToSet(t.names) : ids[z] = t.ids[z]
    <3>1. DOMAIN t.ids = ToSet(t.names)  BY <2>1
    <3>2. Cardinality(DOMAIN t.ids) = Len(t.names)  BY <2>1, <3>1
    <3> QED  BY <2>5, <2>6, <3>1, <3>2 DEF With
  <2>9. ids \in [ToSet(names) -> Nat]
    BY <2>1, <2>3, <2>5, <2>8 DEF With
  <2> HIDE DEF ids
  <2>10. \A i \in DOMAIN names : ids[names[i]] = i - 1
    <3>1. SUFFICES ASSUME NEW i \in 1 .. (Len(t.names) + 1)
                   PROVE  ids[names[i]] = i - 1
      BY <2>4
    <3>2. CASE i = Len(t.names) + 1  BY <2>3, <2>4, <2>8, <3>2
    <3>3. CASE i # Len(t.names) + 1
      <4>1. i \in 1 .. Len(t.names)  BY <2>3, <3>1, <3>3
      <4>2. names[i] = t.names[i] /\ t.names[i] \in ToSet(t.names)
        BY <2>3, <2>4, <4>1 DEF ToSet
      <4> QED  BY <2>1, <2>3, <2>8, <4>1, <4>2
    <3> QED  BY <3>2, <3>3
  <2>11. Agree(names, ids)  BY <2>4, <2>7, <2>9, <2>10 DEF Agree
  <2>12. GetOrCreateTagId(t, name) \in TableSet  BY <2>2, <2>11, TableSetIs
  <2>13. Extends(t, [names |-> names, ids |-> ids])
    BY <2>1, <2>5, <2>8 DEF Extends
  <2> QED  BY <2>2, <2>5, <2>8, <2>12, <2>13
<1> QED  BY <1>1, <1>2

\* The constructor: seeds without duplicates are numbered by their
\* positions.
LEMMA SeedsAgree ==
  ASSUME NEW seeds \in Seq(TagName)
  PROVE  /\ SeedTables(seeds).names = seeds
         /\ SeedTables(seeds).ids \in [ToSet(seeds) -> 0 .. Len(seeds) - 1]
         /\ ~HasDuplicates(seeds) => Agree(seeds, SeedTables(seeds).ids)
<1> DEFINE ids == SeedTables(seeds).ids
<1>1. /\ Len(seeds) \in Nat /\ DOMAIN seeds = 1 .. Len(seeds)
      /\ seeds \in [1 .. Len(seeds) -> ToSet(seeds)]
  BY DEF ToSet
<1>2. ids = [name \in ToSet(seeds) |-> CHOOSE i \in 0 .. Len(seeds) - 1 : seeds[i + 1] = name]
  BY DEF SeedTables
<1>3. \A name \in ToSet(seeds) : ids[name] \in 0 .. Len(seeds) - 1 /\ seeds[ids[name] + 1] = name
  <2>1. SUFFICES ASSUME NEW name \in ToSet(seeds)
                 PROVE  \E i \in 0 .. Len(seeds) - 1 : seeds[i + 1] = name
    BY <1>2
  <2>2. PICK j \in 1 .. Len(seeds) : seeds[j] = name  BY <1>1 DEF ToSet
  <2>3. j - 1 \in 0 .. Len(seeds) - 1 /\ j - 1 + 1 = j  BY <1>1, <2>2
  <2> QED  BY <2>2, <2>3
<1>4. ids \in [ToSet(seeds) -> 0 .. Len(seeds) - 1]  BY <1>2, <1>3
<1> HIDE DEF ids
<1>5. ASSUME ~HasDuplicates(seeds)
      PROVE  Agree(seeds, ids)
  <2>1. /\ IsFiniteSet(ToSet(seeds)) /\ Cardinality(ToSet(seeds)) = Len(seeds)
        /\ \A i, j \in 1 .. Len(seeds) : seeds[i] = seeds[j] => i = j
    BY <1>1, <1>5, NoDuplicates
  <2>2. \A i \in 1 .. Len(seeds) : ids[seeds[i]] = i - 1
    <3>1. SUFFICES ASSUME NEW i \in 1 .. Len(seeds)
                   PROVE  ids[seeds[i]] = i - 1
      OBVIOUS
    <3>2. seeds[i] \in ToSet(seeds)  BY <1>1
    <3>3. ids[seeds[i]] \in 0 .. Len(seeds) - 1 /\ seeds[ids[seeds[i]] + 1] = seeds[i]
      BY <1>3, <3>2
    <3>4. ids[seeds[i]] + 1 \in 1 .. Len(seeds)  BY <1>1, <3>3
    <3>5. ids[seeds[i]] + 1 = i  BY <2>1, <3>3, <3>4
    <3> QED  BY <1>1, <3>3, <3>5
  <2>3. ids \in [ToSet(seeds) -> Nat]  BY <1>1, <1>4
  <2> QED  BY <1>1, <2>1, <2>2, <2>3 DEF Agree
<1>6. SeedTables(seeds).names = seeds  BY DEF SeedTables
<1> QED  BY <1>4, <1>5, <1>6 DEF ids

\* The names that a policy rule looks up are its tag and those of its
\* preconditions.
LEMMA RequiredTagsAre ==
  ASSUME NEW r, IsPolicyRule(r)
  PROVE  /\ Len(RequiredTags(r)) \in Nat
         /\ \A i \in 1 .. Len(RequiredTags(r)) : RequiredTags(r)[i] \in TagName
         /\ \E i \in 1 .. Len(RequiredTags(r)) : RequiredTags(r)[i] = r.tag
         /\ \A q \in ToSet(r.preconditions) :
              \E i \in 1 .. Len(RequiredTags(r)) : RequiredTags(r)[i] = q.tag
<1> DEFINE pre == r.preconditions
           s == [i \in DOMAIN pre |-> pre[i].tag]
<1>1. Len(pre) \in Nat /\ DOMAIN pre = 1 .. Len(pre) /\ \A i \in 1 .. Len(pre) : pre[i] \in ToSet(pre)
  BY SequenceItems DEF IsPolicyRule
<1>2. s \in Seq(TagName) /\ Len(s) = Len(pre) /\ \A i \in 1 .. Len(pre) : s[i] = pre[i].tag
  BY <1>1 DEF IsPolicyRule
<1> HIDE DEF s
<1>3. /\ RequiredTags(r) = Append(s, r.tag) /\ r.tag \in TagName
  BY DEF RequiredTags, IsPolicyRule, s
<1>4. /\ Len(RequiredTags(r)) = Len(pre) + 1
      /\ RequiredTags(r)[Len(pre) + 1] = r.tag
      /\ \A i \in 1 .. Len(pre) : RequiredTags(r)[i] = s[i]
      /\ RequiredTags(r) \in Seq(TagName)
  BY <1>1, <1>2, <1>3
<1>5. Len(pre) + 1 \in 1 .. Len(RequiredTags(r))  BY <1>1, <1>4
<1>6. ASSUME NEW q \in ToSet(pre)
      PROVE  \E i \in 1 .. Len(RequiredTags(r)) : RequiredTags(r)[i] = q.tag
  <2>1. PICK i \in 1 .. Len(pre) : q = pre[i]  BY <1>1 DEF ToSet
  <2>2. i \in 1 .. Len(RequiredTags(r))  BY <1>1, <1>4
  <2> QED  BY <1>2, <1>4, <2>1, <2>2
<1> HIDE DEF pre
<1>7. \A i \in 1 .. Len(RequiredTags(r)) : RequiredTags(r)[i] \in TagName  BY <1>4
<1> QED  BY <1>1, <1>4, <1>5, <1>6, <1>7 DEF pre

\* All look-ups of a policy rule keep the tables inverse, and afterwards
\* they have all names of the rule.
LEMMA TablesAfterAgree ==
  ASSUME Agree(tagNames, tags), NEW r, IsPolicyRule(r)
  PROVE  /\ TablesAfter(r) \in TableSet
         /\ Extends([names |-> tagNames, ids |-> tags], TablesAfter(r))
         /\ r.tag \in DOMAIN TablesAfter(r).ids
         /\ \A q \in ToSet(r.preconditions) : q.tag \in DOMAIN TablesAfter(r).ids
<1> DEFINE names == RequiredTags(r)
           len == Len(names)
           base == [names |-> tagNames, ids |-> tags]
           step == [it \in (1 .. len) \X TableSet |-> GetOrCreateTagId(it[2], names[it[1]])]
           Body(g) == [i \in 0 .. len |-> IF i = 0 THEN base ELSE GetOrCreateTagId(g[i - 1], names[i])]
           tables == CHOOSE g : g = Body(g)
<1>1. TablesAfter(r) = tables[len]  BY DEF TablesAfter
<1>2. /\ len \in Nat /\ \A i \in 1 .. len : names[i] \in TagName
      /\ \E i \in 1 .. len : names[i] = r.tag
      /\ \A q \in ToSet(r.preconditions) : \E i \in 1 .. len : names[i] = q.tag
  BY RequiredTagsAre
<1>3. base \in TableSet  BY TableSetIs
<1> HIDE DEF names, len, base, tables, Body
<1>4. /\ step \in [(1 .. len) \X TableSet -> TableSet]
      /\ \A i \in 1 .. len, t \in TableSet : step[<<i, t>>] = GetOrCreateTagId(t, names[i])
  BY <1>2, GettingTagId
<1> HIDE DEF step
<1>5. PICK g \in [0 .. len -> TableSet] :
        g[0] = base /\ \A i \in 1 .. len : g[i] = step[<<i, g[i - 1]>>]
  <2>1. RecursionExists(len, TableSet, base, step)  BY <1>2, <1>3, <1>4, FiniteRecursion
  <2> QED  BY <2>1 DEF RecursionExists
<1>6. g = Body(g)
  <2>1. \A i \in 1 .. len : g[i] = GetOrCreateTagId(g[i - 1], names[i])
    <3>1. SUFFICES ASSUME NEW i \in 1 .. len
                   PROVE  g[i] = GetOrCreateTagId(g[i - 1], names[i])
      OBVIOUS
    <3>2. i - 1 \in 0 .. len  BY <1>2
    <3>3. g[i - 1] \in TableSet  BY <3>2
    <3> QED  BY <1>4, <1>5, <3>3
  <2> QED  BY <1>2, <1>5, <2>1 DEF Body
<1>7. tables = Body(tables)  BY <1>6 DEF tables
<1>8. /\ tables[0] = base
      /\ \A i \in 1 .. len : tables[i] = GetOrCreateTagId(tables[i - 1], names[i])
  BY <1>2, <1>7 DEF Body
<1> DEFINE T == {i \in 0 .. len : /\ tables[i] \in TableSet /\ Extends(base, tables[i])
                                  /\ \A j \in 1 .. i : names[j] \in DOMAIN tables[i].ids}
<1>9. 0 \in T
  <2>1. 1 .. 0 = {}  OBVIOUS
  <2> QED  BY <1>2, <1>3, <1>8, <2>1 DEF Extends
<1>10. ASSUME NEW i \in 1 .. len, i - 1 \in T
       PROVE  i \in T
  <2>1. /\ tables[i - 1] \in TableSet /\ Extends(base, tables[i - 1])
        /\ \A j \in 1 .. (i - 1) : names[j] \in DOMAIN tables[i - 1].ids
    BY <1>10
  <2>2. /\ tables[i] \in TableSet /\ Extends(tables[i - 1], tables[i])
        /\ names[i] \in DOMAIN tables[i].ids
    BY <1>2, <1>8, <2>1, GettingTagId
  <2>3. Extends(base, tables[i])  BY <2>1, <2>2 DEF Extends
  <2>4. \A j \in 1 .. i : j = i \/ j \in 1 .. (i - 1)  BY <1>2
  <2>5. \A j \in 1 .. i : names[j] \in DOMAIN tables[i].ids
    BY <2>1, <2>2, <2>4 DEF Extends
  <2> QED  BY <1>2, <2>2, <2>3, <2>5
<1>11. len \in T
  <2> HIDE DEF T
  <2>1. 0 .. len \subseteq T  BY <1>2, <1>9, <1>10, FiniteInduction
  <2> QED  BY <1>2, <2>1
<1> QED  BY <1>1, <1>2, <1>11 DEF base

-----------------------------------------------------------------------------
\* What the assumption on queries says of one.
LEMMA QueryItems ==
  ASSUME query \in Queries
  PROVE  /\ Len(query.code) \in Nat /\ Operations = 1 .. Len(query.code)
         /\ \A k \in Operations : IsOperation(Code(k))
         /\ \A r \in ToSet(query.policy) : IsPolicyRule(r)
         /\ query.seeds \in Seq(TagName)
<1>1. /\ IsSequence(query.code) /\ \A op \in ToSet(query.code) : IsOperation(op)
      /\ \A r \in ToSet(query.policy) : IsPolicyRule(r)
      /\ query.seeds \in Seq(TagName)
  BY QueriesAssumption
<1>2. /\ Len(query.code) \in Nat /\ DOMAIN query.code = 1 .. Len(query.code)
      /\ \A k \in 1 .. Len(query.code) : query.code[k] \in ToSet(query.code)
  BY <1>1, SequenceItems
<1> QED  BY <1>1, <1>2 DEF Operations, Code

\* Names of policy rules are unique, so that a name finds its rule.
LEMMA PolicyRuleIs ==
  ASSUME query \in Queries, ~DuplicateNames(query), NEW r \in ToSet(query.policy)
  PROVE  PolicyRule(r.name) = r
<1> DEFINE policy == query.policy
           names == [i \in DOMAIN policy |-> policy[i].name]
<1>1. Len(policy) \in Nat /\ DOMAIN policy = 1 .. Len(policy)
  BY QueriesAssumption, SequenceItems
<1>2. /\ names \in [1 .. Len(policy) -> ToSet(names)] /\ DOMAIN names = 1 .. Len(policy)
      /\ Len(names) = Len(policy)
      /\ \A i \in 1 .. Len(policy) : names[i] = policy[i].name
  BY <1>1 DEF ToSet
<1>3. ~HasDuplicates(names)  BY DEF DuplicateNames
<1> HIDE DEF names
<1>4. \A i, j \in 1 .. Len(policy) : names[i] = names[j] => i = j
  BY <1>1, <1>2, <1>3, NoDuplicates
<1>5. ASSUME NEW q \in ToSet(policy), q.name = r.name
      PROVE  q = r
  <2>1. PICK i \in 1 .. Len(policy) : q = policy[i]  BY <1>1 DEF ToSet
  <2>2. PICK j \in 1 .. Len(policy) : r = policy[j]  BY <1>1 DEF ToSet
  <2> QED  BY <1>2, <1>4, <1>5, <2>1, <2>2
<1>6. PolicyRule(r.name) \in ToSet(policy) /\ PolicyRule(r.name).name = r.name
  BY DEF PolicyRule
<1> QED  BY <1>5, <1>6

\* TypeOK is a consequence of the invariant of the builder.
LEMMA TypesFollow ==
  ASSUME query \in Queries, next \in 1 .. Len(query.code) + 1, CountsInv, BuilderInv,
         pc \in {"decode", "done", "died"}
  PROVE  TypeOK
<1>1. Len(query.code) \in Nat  BY QueryItems
<1>2. ruleCounts \in [RuleName \cup SpecialRules -> 0 .. Len(query.code)]
  BY <1>1 DEF CountsInv
<1>3. /\ tagNames \in Seq(TagName) /\ DOMAIN tags = ToSet(tagNames)
      /\ \A i \in DOMAIN tagNames : tags[tagNames[i]] = i - 1
      /\ Len(tagNames) \in Nat /\ DOMAIN tagNames = 1 .. Len(tagNames)
  BY DEF BuilderInv, Agree
<1>4. DOMAIN tags \subseteq TagName  BY <1>3 DEF ToSet
<1>5. ToSet(tags) \subseteq 0 .. Len(tagNames) - 1  BY <1>3 DEF ToSet
<1> QED  BY <1>2, <1>3, <1>4, <1>5 DEF TypeOK, BuilderInv, ActionsInv

\* The same of the next state, where it is needed after a step.
LEMMA TypesFollowNext ==
  query' \in Queries /\ next' \in 1 .. Len(query'.code) + 1 /\ CountsInv' /\ BuilderInv'
  /\ pc' \in {"decode", "done", "died"} => TypeOK'
<1> DEFINE Typed == /\ query \in Queries /\ next \in 1 .. Len(query.code) + 1
                    /\ CountsInv /\ BuilderInv /\ pc \in {"decode", "done", "died"}
<1>1. Typed => TypeOK  BY TypesFollow
<1>2. Typed' => TypeOK'  BY <1>1, PTL
<1> QED  BY <1>2

\* The CHECK on a duplicate action never fails: an action that exists has a
\* smaller number than the uses of its rule.
LEMMA NextActionIsNew ==
  ASSUME query \in Queries, CountsInv, ActionsInv,
         NEW k \in Operations, Code(k).operator = "sql.tag_transform"
  PROVE  NextAction(k) \notin DOMAIN actionRules
<1> DEFINE rule == Code(k).rule
<1>1. rule \in RuleName \cup SpecialRules  BY QueryItems DEF IsOperation
<1>2. NextAction(k) = <<rule, ruleCounts[rule]>>  BY DEF NextAction, ActionName
<1>3. SUFFICES ASSUME Numbered(NextAction(k)) PROVE FALSE  BY DEF ActionsInv
<1>4. PICK name \in RuleName \cup SpecialRules : \E c \in 0 .. ruleCounts[name] - 1 :
        NextAction(k) = <<name, c>>
  BY <1>3 DEF Numbered
<1>5. name = rule /\ ruleCounts[rule] \in 0 .. ruleCounts[rule] - 1  BY <1>2, <1>4
<1>6. ruleCounts[rule] \in Nat  BY <1>1 DEF CountsInv
<1> QED  BY <1>5, <1>6

\* What a visit changes besides the tables: one more operation is visited
\* and its rule is used once more.
LEMMA Advancing ==
  ASSUME query \in Queries, next \in 1 .. Len(query.code) + 1, CountsInv,
         NEW k \in Operations, IsNext(k), Advance(k)
  PROVE  /\ query' = query /\ pc' = "decode" /\ next' = next + 1 /\ next = k
         /\ next' \in 1 .. Len(query.code) + 1
         /\ \A j \in Operations : j < next' <=> j < next \/ j = k
         /\ CountsInv'
         /\ \A action : Numbered(action) => Numbered(action)'
         /\ \A action : Code(k).operator = "sql.tag_transform" /\ action = NextAction(k)
                          => Numbered(action)'
<1>1. query' = query /\ pc' = "decode" /\ next' = next + 1 /\ next = k
  BY DEF Advance, IsNext
<1>2. Len(query.code) \in Nat /\ Operations = 1 .. Len(query.code) /\ IsOperation(Code(k))
  BY QueryItems
<1>3. /\ next' \in 1 .. Len(query.code) + 1
      /\ \A j \in Operations : j < next' <=> j < next \/ j = k
  BY <1>1, <1>2
<1>4. /\ CountsInv'
      /\ \A name \in RuleName \cup SpecialRules : ruleCounts[name] <= ruleCounts'[name]
      /\ Code(k).operator = "sql.tag_transform" =>
           ruleCounts'[Code(k).rule] = ruleCounts[Code(k).rule] + 1
  <2>1. CASE Code(k).operator = "sql.tag_transform"
    <3>1. ruleCounts' = [ruleCounts EXCEPT ![Code(k).rule] = ruleCounts[Code(k).rule] + 1]
      BY <2>1 DEF Advance
    <3>2. Code(k).rule \in RuleName \cup SpecialRules  BY <1>2, <2>1 DEF IsOperation
    <3> QED  BY <1>1, <1>2, <3>1, <3>2 DEF CountsInv
  <2>2. CASE Code(k).operator # "sql.tag_transform"
    BY <1>1, <1>2, <2>2 DEF Advance, CountsInv
  <2> QED  BY <2>1, <2>2
<1>5. ASSUME NEW action, Numbered(action)
      PROVE  Numbered(action)'
  <2>1. PICK name \in RuleName \cup SpecialRules :
          \E c \in 0 .. ruleCounts[name] - 1 : action = <<name, c>>
    BY <1>5 DEF Numbered
  <2>2. PICK c \in 0 .. ruleCounts[name] - 1 : action = <<name, c>>  BY <2>1
  <2>3. c \in 0 .. ruleCounts'[name] - 1  BY <1>4, <2>2 DEF CountsInv
  <2> QED  BY <2>2, <2>3 DEF Numbered
<1>6. ASSUME NEW action, Code(k).operator = "sql.tag_transform", action = NextAction(k)
      PROVE  Numbered(action)'
  <2> DEFINE rule == Code(k).rule
  <2>1. rule \in RuleName \cup SpecialRules  BY <1>2, <1>6 DEF IsOperation
  <2>2. ruleCounts[rule] \in 0 .. ruleCounts'[rule] - 1  BY <1>4, <1>6, <2>1 DEF CountsInv
  <2>3. action = <<rule, ruleCounts[rule]>>  BY <1>6 DEF NextAction, ActionName
  <2> QED  BY <2>1, <2>2, <2>3 DEF Numbered
<1> QED  BY <1>1, <1>3, <1>4, <1>5, <1>6

-----------------------------------------------------------------------------
\* A step adds an action, its rules and tags, and takes none away.
Kept ==
  /\ query' = query
  /\ \A op \in DOMAIN actions : op \in DOMAIN actions' /\ actions'[op] = actions[op]
  /\ \A a \in DOMAIN actionRules : a \in DOMAIN actionRules' /\ actionRules'[a] = actionRules[a]
  /\ DOMAIN tags \subseteq DOMAIN tags'
  /\ \A name \in DOMAIN tags : tags'[name] = tags[name]

\* A transform keeps the rules it was given.
LEMMA RulesAreKept ==
  ASSUME Kept, ActionsInv, NEW k \in Operations, HasItsRules(k)
  PROVE  HasItsRules(k)'
<1> DEFINE r == PolicyRule(Code(k).rule)
<1>1. Code(k)' = Code(k) /\ r' = r /\ WellFormedTransform(Code(k))' = WellFormedTransform(Code(k))
  BY DEF Kept, Code, PolicyRule, WellFormedTransform
<1>2. /\ WellFormedTransform(Code(k))
      /\ r.tag \in DOMAIN tags /\ \A q \in ToSet(r.preconditions) : q.tag \in DOMAIN tags
      /\ k \in DOMAIN actions
      /\ actionRules[actions[k]] = TagTransformRules(r, Code(k), tags)
  BY DEF HasItsRules
<1> HIDE DEF r
<1>3. TagTransformRules(r, Code(k), tags') = TagTransformRules(r, Code(k), tags)
  <2>1. Premises(r, Code(k), tags') = Premises(r, Code(k), tags)
    BY <1>2 DEF Kept, Premises
  <2>2. tags'[r.tag] = tags[r.tag]  BY <1>2 DEF Kept
  <2> QED  BY <2>1, <2>2 DEF TagTransformRules
<1>4. /\ k \in DOMAIN actions'
      /\ actionRules'[actions'[k]] = actionRules[actions[k]]
  BY <1>2 DEF Kept, ActionsInv
<1>5. /\ r.tag \in DOMAIN tags' /\ \A q \in ToSet(r.preconditions) : q.tag \in DOMAIN tags'
  BY <1>2 DEF Kept
<1>6. TagTransformRules(r, Code(k), tags)' = TagTransformRules(r, Code(k), tags')
  BY <1>1 DEF TagTransformRules, Premises
<1> QED  BY <1>1, <1>2, <1>3, <1>4, <1>5, <1>6 DEF HasItsRules, r

\* A merge keeps the rules it was given, unless another transform of it is
\* visited.
LEMMA MarksAreKept ==
  ASSUME Kept, ActionsInv, NEW k \in Operations, HasMarked(k),
         \A j \in Operations : /\ j < next' /\ ~(j < next) /\ IsSpecial(j)
                               /\ Code(j).inputs[1] \in {<<op, 1>> : op \in DOMAIN actions}
                               => FALSE
  PROVE  HasMarked(k)'
<1>1. /\ Operations' = Operations /\ \A j : Code(j)' = Code(j)
      /\ \A j : IsSpecial(j)' = IsSpecial(j)
  BY DEF Kept, Operations, Code, IsSpecial
<1>2. PICK m \in Operations :
        /\ Code(k).inputs[1] = <<m, 1>> /\ Code(m).operator = "sql.merge"
        /\ m \in DOMAIN actions
        /\ actionRules[actions[m]] = MergeRules(Code(k).rule, Code(m))
        /\ \A j \in Operations :
             j < next /\ IsSpecial(j) /\ Code(j).inputs[1] = <<m, 1>> => j = k
  BY DEF HasMarked
<1>3. m \in DOMAIN actions' /\ actionRules'[actions'[m]] = actionRules[actions[m]]
  BY <1>2 DEF Kept, ActionsInv
<1>4. ASSUME NEW j \in Operations, j < next', IsSpecial(j), Code(j).inputs[1] = <<m, 1>>
      PROVE  j = k
  BY <1>2, <1>4
<1>5. Len(Code(k).inputs) = 1  BY DEF HasMarked
<1>6. MergeRules(Code(k).rule, Code(m))' = MergeRules(Code(k).rule, Code(m))
  BY <1>1
<1> QED  BY <1>1, <1>2, <1>3, <1>4, <1>5, <1>6 DEF HasMarked

\* MarkOperationAsAction and AddRuleForActionOutput replace nothing.
LEMMA AddedIsKept ==
  ASSUME NEW op, op \notin DOMAIN actions, NEW action, action \notin DOMAIN actionRules,
         NEW rules, AddAction(op, action, rules)
  PROVE  /\ DOMAIN actions' = DOMAIN actions \cup {op} /\ actions'[op] = action
         /\ DOMAIN actionRules' = DOMAIN actionRules \cup {action}
         /\ actionRules'[action] = rules
         /\ \A o \in DOMAIN actions : actions'[o] = actions[o]
         /\ \A a \in DOMAIN actionRules : actionRules'[a] = actionRules[a]
BY DEF AddAction, With

\* What was marked for a reason stays marked for it.
LEMMA MarksPersist ==
  ASSUME query' = query, \A j \in Operations : j < next => j < next',
         NEW op \in Operations, MarkedFor(op)
  PROVE  MarkedFor(op)'
<1>1. /\ Operations' = Operations /\ \A j : Code(j)' = Code(j)
      /\ \A j : IsSpecial(j)' = IsSpecial(j) /\ IsOrdinary(j)' = IsOrdinary(j)
  BY DEF Operations, Code, IsSpecial, IsOrdinary
<1> QED  BY <1>1 DEF MarkedFor

-----------------------------------------------------------------------------
\* A visit that succeeds keeps the invariant if it keeps the parts on tags,
\* actions and rules.
LEMMA ProgressKeepsInv ==
  ASSUME IInv, NEW k \in Operations, IsNext(k), Advance(k),
         Agree(tagNames', tags'), ActionsInv', RulesInv'
  PROVE  IInv'
<1>1. query \in Queries /\ next \in 1 .. Len(query.code) + 1 /\ CountsInv /\ BuilderInv
  BY DEF IInv, IsNext
<1>2. /\ query' = query /\ pc' = "decode" /\ next' \in 1 .. Len(query'.code) + 1 /\ CountsInv'
  BY <1>1, Advancing
<1>3. ~DuplicateNames(query')  BY <1>1, <1>2 DEF BuilderInv, DuplicateNames
<1>4. BuilderInv'  BY <1>2, <1>3 DEF BuilderInv
<1>5. query' \in Queries  BY <1>1, <1>2
<1>6. TypeOK'  BY <1>2, <1>4, <1>5, TypesFollowNext
<1> QED  BY <1>2, <1>4, <1>5, <1>6 DEF IInv

\* A special transform marks its merge: no other special transform visited
\* before has marked it, or the CHECK would have failed.
LEMMA SpecialStep ==
  ASSUME IInv, NEW k \in Operations, DecodeSpecialTransform(k)
  PROVE  IInv'
<1>0. PICK m, action : m = Code(k).inputs[1][1] /\ action = NextAction(k)
  OBVIOUS
<1>1. /\ IsNext(k) /\ Advance(k) /\ IsSpecial(k) /\ MergeCanBeMarked(k)
      /\ AddAction(m, action, MergeRules(Code(k).rule, Code(m)))
      /\ UNCHANGED <<tagNames, tags>>
  BY <1>0 DEF DecodeSpecialTransform
<1>2. /\ query \in Queries /\ next \in 1 .. Len(query.code) + 1
      /\ CountsInv /\ ActionsInv /\ RulesInv /\ Agree(tagNames, tags)
  BY <1>1 DEF IInv, BuilderInv, IsNext
<1>3. /\ query' = query /\ next = k /\ next' = next + 1
      /\ \A j \in Operations : j < next' <=> j < next \/ j = k
      /\ \A a : Numbered(a) => Numbered(a)'
      /\ \A a : a = action => Numbered(a)'
  BY <1>0, <1>1, <1>2, Advancing DEF IsSpecial
<1>4. /\ Len(Code(k).inputs) = 1
      /\ m \in Operations /\ Code(k).inputs[1] = <<m, 1>>
      /\ m \notin DOMAIN actions /\ Code(m).operator = "sql.merge"
      /\ action \notin DOMAIN actionRules
  BY <1>0, <1>1 DEF MergeCanBeMarked, IsOperationResult
<1>5. /\ DOMAIN actions' = DOMAIN actions \cup {m} /\ actions'[m] = action
      /\ DOMAIN actionRules' = DOMAIN actionRules \cup {action}
      /\ actionRules'[action] = MergeRules(Code(k).rule, Code(m))
      /\ \A o \in DOMAIN actions : actions'[o] = actions[o]
      /\ \A a \in DOMAIN actionRules : actionRules'[a] = actionRules[a]
  BY <1>1, <1>4, AddedIsKept
<1>6. Kept  BY <1>1, <1>3, <1>5 DEF Kept
<1>7. /\ Operations' = Operations /\ \A j : Code(j)' = Code(j)
      /\ \A j : IsSpecial(j)' = IsSpecial(j) /\ IsOrdinary(j)' = IsOrdinary(j)
  BY <1>3 DEF Operations, Code, IsSpecial, IsOrdinary
<1>8. ActionsInv'
  <2>1. \A a \in DOMAIN actionRules' : Numbered(a)'  BY <1>2, <1>3, <1>5 DEF ActionsInv
  <2>2. ASSUME NEW op \in DOMAIN actions'
        PROVE  op \in Operations /\ actions'[op] \in DOMAIN actionRules' /\ MarkedFor(op)'
    <3>1. CASE op = m
      <4>1. MarkedFor(op)'  BY <1>1, <1>3, <1>4, <1>7, <3>1 DEF MarkedFor
      <4> QED  BY <1>4, <1>5, <3>1, <4>1
    <3>2. CASE op # m
      <4>1. op \in DOMAIN actions /\ op \in Operations /\ MarkedFor(op)
        BY <1>2, <1>5, <3>2 DEF ActionsInv
      <4>2. MarkedFor(op)'  BY <1>3, <4>1, MarksPersist
      <4> QED  BY <1>2, <1>5, <4>1, <4>2 DEF ActionsInv
    <3> QED  BY <3>1, <3>2
  <2> QED  BY <1>7, <2>1, <2>2 DEF ActionsInv
<1>9. RulesInv'
  <2>1. SUFFICES ASSUME NEW j \in Operations, j < next'
                 PROVE  /\ IsOrdinary(j) => HasItsRules(j)'
                        /\ IsSpecial(j) => HasMarked(j)'
    BY <1>7 DEF RulesInv
  <2>2. CASE j = k
    <3>1. ASSUME NEW i \in Operations, i < next', IsSpecial(i), Code(i).inputs[1] = <<m, 1>>
          PROVE  i = k
      <4>1. SUFFICES ASSUME i < next PROVE FALSE  BY <1>3, <3>1
      <4>2. HasMarked(i)  BY <1>2, <3>1, <4>1 DEF RulesInv
      <4>3. m \in DOMAIN actions  BY <3>1, <4>2 DEF HasMarked
      <4> QED  BY <1>4, <4>3
    <3>2. MergeRules(Code(k).rule, Code(m))' = MergeRules(Code(k).rule, Code(m))  BY <1>7
    <3>3. HasMarked(k)'  BY <1>3, <1>4, <1>5, <1>7, <3>1, <3>2 DEF HasMarked
    <3>4. ~IsOrdinary(k)  BY <1>1 DEF IsOrdinary, IsSpecial
    <3> QED  BY <2>2, <3>3, <3>4
  <2>3. CASE j < next
    <3>1. IsOrdinary(j) => HasItsRules(j)'  BY <1>2, <1>6, <2>3, RulesAreKept DEF RulesInv
    <3>2. ASSUME NEW i \in Operations, i < next', ~(i < next), IsSpecial(i),
                 Code(i).inputs[1] \in {<<op, 1>> : op \in DOMAIN actions}
          PROVE  FALSE
      <4>1. i = k  BY <1>3, <3>2
      <4>2. m \in DOMAIN actions  BY <1>4, <3>2, <4>1
      <4> QED  BY <1>4, <4>2
    <3>3. IsSpecial(j) => HasMarked(j)'  BY <1>2, <1>6, <2>3, <3>2, MarksAreKept DEF RulesInv
    <3> QED  BY <3>1, <3>3
  <2> QED  BY <1>3, <2>1, <2>2, <2>3
<1>10. Agree(tagNames', tags')  BY <1>1, <1>2
<1> QED  BY <1>1, <1>8, <1>9, <1>10, ProgressKeepsInv

\* A transform gets the rules of its policy rule.
LEMMA TransformStep ==
  ASSUME IInv, NEW k \in Operations, DecodeTransform(k)
  PROVE  IInv'
<1> DEFINE r == PolicyRule(Code(k).rule)
           action == NextAction(k)
           tables == TablesAfter(r)
<1>1. /\ IsNext(k) /\ Advance(k) /\ IsOrdinary(k) /\ RuleApplies(k)
      /\ tagNames' = tables.names /\ tags' = tables.ids
      /\ AddAction(k, action, TagTransformRules(r, Code(k), tables.ids))
  BY DEF DecodeTransform
<1>2. /\ query \in Queries /\ next \in 1 .. Len(query.code) + 1
      /\ CountsInv /\ ActionsInv /\ RulesInv /\ Agree(tagNames, tags)
  BY <1>1 DEF IInv, BuilderInv, IsNext
<1>3. /\ query' = query /\ next = k /\ next' = next + 1
      /\ \A j \in Operations : j < next' <=> j < next \/ j = k
      /\ \A a : Numbered(a) => Numbered(a)'
      /\ \A a : a = action => Numbered(a)'
  BY <1>1, <1>2, Advancing DEF IsOrdinary
<1>4. /\ k \notin DOMAIN actions /\ action \notin DOMAIN actionRules
      /\ r \in ToSet(query.policy) /\ r.name = Code(k).rule
      /\ WellFormedTransform(Code(k))
  <2>1. r \in ToSet(query.policy) /\ r.name = Code(k).rule
    BY <1>1 DEF RuleApplies, PolicyRule
  <2> QED  BY <1>1, <2>1 DEF RuleApplies, ArgumentsValid, WellFormedTransform
<1>5. IsPolicyRule(r)  BY <1>2, <1>4, QueryItems
<1> HIDE DEF r, action
<1>6. /\ tables \in TableSet
      /\ DOMAIN tags \subseteq DOMAIN tables.ids
      /\ \A name \in DOMAIN tags : tables.ids[name] = tags[name]
      /\ r.tag \in DOMAIN tables.ids
      /\ \A q \in ToSet(r.preconditions) : q.tag \in DOMAIN tables.ids
  BY <1>2, <1>5, TablesAfterAgree DEF Extends
<1> HIDE DEF tables
<1>7. Agree(tagNames', tags')  BY <1>1, <1>6, TableSetIs
<1>13. AddAction(k, action, TagTransformRules(r, Code(k), tags'))  BY <1>1
<1>8. /\ DOMAIN actions' = DOMAIN actions \cup {k} /\ actions'[k] = action
      /\ DOMAIN actionRules' = DOMAIN actionRules \cup {action}
      /\ actionRules'[action] = TagTransformRules(r, Code(k), tags')
      /\ \A o \in DOMAIN actions : actions'[o] = actions[o]
      /\ \A a \in DOMAIN actionRules : actionRules'[a] = actionRules[a]
  BY <1>13, <1>4, AddedIsKept
<1>9. Kept  BY <1>1, <1>3, <1>6, <1>8 DEF Kept
<1>10. /\ Operations' = Operations /\ \A j : Code(j)' = Code(j)
       /\ \A j : IsSpecial(j)' = IsSpecial(j) /\ IsOrdinary(j)' = IsOrdinary(j)
  BY <1>3 DEF Operations, Code, IsSpecial, IsOrdinary
<1>11. ActionsInv'
  <2>1. \A a \in DOMAIN actionRules' : Numbered(a)'  BY <1>2, <1>3, <1>8 DEF ActionsInv
  <2>2. ASSUME NEW op \in DOMAIN actions'
        PROVE  op \in Operations /\ actions'[op] \in DOMAIN actionRules' /\ MarkedFor(op)'
    <3>1. CASE op = k
      <4>1. MarkedFor(op)'  BY <1>1, <1>3, <1>10, <3>1 DEF MarkedFor
      <4> QED  BY <1>8, <3>1, <4>1
    <3>2. CASE op # k
      <4>1. op \in DOMAIN actions /\ op \in Operations /\ MarkedFor(op)
        BY <1>2, <1>8, <3>2 DEF ActionsInv
      <4>2. MarkedFor(op)'  BY <1>3, <4>1, MarksPersist
      <4> QED  BY <1>2, <1>8, <4>1, <4>2 DEF ActionsInv
    <3> QED  BY <3>1, <3>2
  <2> QED  BY <1>10, <2>1, <2>2 DEF ActionsInv
<1>12. RulesInv'
  <2>1. SUFFICES ASSUME NEW j \in Operations, j < next'
                 PROVE  /\ IsOrdinary(j) => HasItsRules(j)'
                        /\ IsSpecial(j) => HasMarked(j)'
    BY <1>10 DEF RulesInv
  <2>2. CASE j = k
    <3>1. PolicyRule(Code(k).rule)' = r /\ WellFormedTransform(Code(k))'
      BY <1>3, <1>4, <1>10 DEF PolicyRule, WellFormedTransform, r
    <3>2. TagTransformRules(PolicyRule(Code(k).rule), Code(k), tags)'
            = TagTransformRules(r, Code(k), tags')
      BY <1>10, <3>1
    <3>3. HasItsRules(k)'  BY <1>1, <1>6, <1>8, <1>10, <3>1, <3>2 DEF HasItsRules
    <3>4. ~IsSpecial(k)  BY <1>1 DEF IsOrdinary, IsSpecial
    <3> QED  BY <2>2, <3>3, <3>4
  <2>3. CASE j < next
    <3>1. IsOrdinary(j) => HasItsRules(j)'  BY <1>2, <1>9, <2>3, RulesAreKept DEF RulesInv
    <3>2. ASSUME NEW i \in Operations, i < next', ~(i < next), IsSpecial(i)
          PROVE  FALSE
      BY <1>1, <1>3, <3>2 DEF IsOrdinary, IsSpecial
    <3>3. IsSpecial(j) => HasMarked(j)'  BY <1>2, <1>9, <2>3, <3>2, MarksAreKept DEF RulesInv
    <3> QED  BY <3>1, <3>3
  <2> QED  BY <1>3, <2>1, <2>2, <2>3
<1> QED  BY <1>1, <1>7, <1>11, <1>12, ProgressKeepsInv

\* Other operations change no rules.
LEMMA SkipStep ==
  ASSUME IInv, NEW k \in Operations, SkipOperation(k)
  PROVE  IInv'
<1>1. /\ IsNext(k) /\ Advance(k) /\ Code(k).operator # "sql.tag_transform"
      /\ UNCHANGED <<tagNames, tags, actions, actionRules>>
  BY DEF SkipOperation, builder
<1>2. /\ query \in Queries /\ next \in 1 .. Len(query.code) + 1
      /\ CountsInv /\ ActionsInv /\ RulesInv /\ Agree(tagNames, tags)
  BY <1>1 DEF IInv, BuilderInv, IsNext
<1>3. /\ query' = query /\ next = k /\ next' = next + 1
      /\ \A j \in Operations : j < next' <=> j < next \/ j = k
      /\ \A a : Numbered(a) => Numbered(a)'
  BY <1>1, <1>2, Advancing
<1>4. Kept  BY <1>1, <1>3 DEF Kept
<1>5. /\ Operations' = Operations /\ \A j : Code(j)' = Code(j)
      /\ \A j : IsSpecial(j)' = IsSpecial(j) /\ IsOrdinary(j)' = IsOrdinary(j)
      /\ ~IsSpecial(k) /\ ~IsOrdinary(k)
  BY <1>1, <1>3 DEF Operations, Code, IsSpecial, IsOrdinary
<1>6. ActionsInv'
  <2>1. \A op \in DOMAIN actions : MarkedFor(op)'  BY <1>2, <1>3, MarksPersist DEF ActionsInv
  <2> QED  BY <1>1, <1>2, <1>3, <1>5, <2>1 DEF ActionsInv
<1>7. RulesInv'
  <2>1. SUFFICES ASSUME NEW j \in Operations, j < next'
                 PROVE  /\ IsOrdinary(j) => HasItsRules(j)'
                        /\ IsSpecial(j) => HasMarked(j)'
    BY <1>5 DEF RulesInv
  <2>2. CASE j = k  BY <1>5, <2>2
  <2>3. CASE j < next
    <3>1. IsOrdinary(j) => HasItsRules(j)'  BY <1>2, <1>4, <2>3, RulesAreKept DEF RulesInv
    <3>2. ASSUME NEW i \in Operations, i < next', ~(i < next), IsSpecial(i)
          PROVE  FALSE
      BY <1>3, <1>5, <3>2
    <3>3. IsSpecial(j) => HasMarked(j)'  BY <1>2, <1>4, <2>3, <3>2, MarksAreKept DEF RulesInv
    <3> QED  BY <3>1, <3>3
  <2> QED  BY <1>3, <2>1, <2>2, <2>3
<1>8. Agree(tagNames', tags')  BY <1>1, <1>2
<1> QED  BY <1>1, <1>6, <1>7, <1>8, ProgressKeepsInv

\* A CHECK fails only for what WellFormed forbids: a merge that is marked
\* already has a second special transform.
LEMMA FailStep ==
  ASSUME IInv, NEW k \in Operations, DecodeFails(k)
  PROVE  IInv'
<1>1. /\ IsNext(k) /\ next = k /\ pc' = "died"
      /\ UNCHANGED <<query, next, ruleCounts, tagNames, tags, actions, actionRules>>
      /\ \/ IsSpecial(k) /\ ~MergeCanBeMarked(k)
         \/ IsOrdinary(k) /\ ~RuleApplies(k)
  BY DEF DecodeFails, IsNext, builder
<1>2. /\ query \in Queries /\ next \in 1 .. Len(query.code) + 1 /\ ~DuplicateNames(query)
      /\ CountsInv /\ ActionsInv /\ RulesInv
  BY <1>1 DEF IInv, BuilderInv, IsNext
<1>3. NextAction(k) \notin DOMAIN actionRules
  BY <1>1, <1>2, NextActionIsNew DEF IsSpecial, IsOrdinary
<1>4. ~WellFormed
  <2>1. SUFFICES ASSUME WellFormed PROVE FALSE  OBVIOUS
  <2>2. CASE IsSpecial(k) /\ ~MergeCanBeMarked(k)
    <3>1. PICK m \in Operations :
            /\ Len(Code(k).inputs) = 1 /\ Code(k).inputs[1] = <<m, 1>>
            /\ Code(m).operator = "sql.merge" /\ Transforming(m) = {k}
      BY <2>1, <2>2 DEF WellFormed, WellFormedSpecial
    <3>2. m \in DOMAIN actions
      BY <1>3, <2>2, <3>1 DEF MergeCanBeMarked, IsOperationResult
    <3>3. PICK j \in Operations : j < next /\ IsSpecial(j) /\ Code(j).inputs[1] = <<m, 1>>
      BY <1>2, <3>1, <3>2 DEF ActionsInv, MarkedFor, IsOrdinary
    <3>4. j \in Transforming(m)  BY <3>3 DEF Transforming
    <3> QED  BY <1>1, <1>2, <3>1, <3>3, <3>4
  <2>3. CASE IsOrdinary(k) /\ ~RuleApplies(k)
    <3>1. WellFormedTransform(Code(k))  BY <2>1, <2>3 DEF WellFormed
    <3>2. PICK r \in ToSet(query.policy) :
            /\ r.name = Code(k).rule /\ r.action # "UNKNOWN"
            /\ \A q \in ToSet(r.preconditions) : q.argument \in DOMAIN Code(k).arguments
      BY <3>1 DEF WellFormedTransform
    <3>3. PolicyRule(Code(k).rule) = r
      <4>1. PolicyRule(r.name) = r  BY <1>2, PolicyRuleIs
      <4> QED  BY <3>2, <4>1
    <3>4. k \notin DOMAIN actions
      <4>1. ~(k < next)  BY <1>1, <1>2
      <4>2. Code(k).operator # "sql.merge"  BY <2>3 DEF IsOrdinary
      <4> QED  BY <1>2, <4>1, <4>2 DEF ActionsInv, MarkedFor
    <3> QED  BY <1>3, <2>3, <3>1, <3>2, <3>3, <3>4
             DEF RuleApplies, WellFormedTransform, ArgumentsValid
  <2> QED  BY <1>1, <2>2, <2>3
<1>5. WellFormed' = WellFormed
  BY <1>1 DEF WellFormed, DuplicateNames, Operations, Code, IsSpecial, IsOrdinary,
              WellFormedSpecial, WellFormedTransform, Transforming
<1>6. TypeOK'  BY <1>1 DEF IInv, TypeOK, Operations
<1>7. CountsInv'  BY <1>1, <1>2 DEF CountsInv
<1> QED  BY <1>1, <1>2, <1>4, <1>5, <1>6, <1>7 DEF IInv

\* All variables but pc.
StateWithoutPc == <<query, next, ruleCounts, tagNames, tags, actions, actionRules>>

\* The parts of the invariant do not speak of pc.
LEMMA RestKeepsInv ==
  ASSUME UNCHANGED StateWithoutPc
  PROVE  /\ CountsInv' = CountsInv /\ ActionsInv' = ActionsInv /\ RulesInv' = RulesInv
         /\ Agree(tagNames, tags)' = Agree(tagNames, tags)
         /\ DuplicateNames(query)' = DuplicateNames(query) /\ WellFormed' = WellFormed
<1>1. UNCHANGED <<query, next, ruleCounts, tagNames, tags, actions, actionRules>>
  BY DEF StateWithoutPc
<1>2. /\ Operations' = Operations /\ \A j : Code(j)' = Code(j)
      /\ \A j : IsSpecial(j)' = IsSpecial(j) /\ IsOrdinary(j)' = IsOrdinary(j)
      /\ \A name : PolicyRule(name)' = PolicyRule(name)
      /\ \A op : WellFormedTransform(op)' = WellFormedTransform(op)
  BY <1>1 DEF Operations, Code, IsSpecial, IsOrdinary, PolicyRule, WellFormedTransform
<1>3. CountsInv' = CountsInv  BY <1>1 DEF CountsInv
<1>4. ActionsInv' = ActionsInv  BY <1>1, <1>2 DEF ActionsInv, Numbered, MarkedFor
<1>5. RulesInv' = RulesInv
  <2>1. \A k : HasItsRules(k)' = HasItsRules(k)
    BY <1>1, <1>2 DEF HasItsRules, TagTransformRules, Premises
  <2>2. \A k : HasMarked(k)' = HasMarked(k)
    BY <1>1, <1>2 DEF HasMarked, MergeRules
  <2> QED  BY <1>1, <1>2, <2>1, <2>2 DEF RulesInv
<1>6. WellFormed' = WellFormed
  BY <1>1, <1>2 DEF WellFormed, WellFormedSpecial, Transforming, DuplicateNames
<1> QED  BY <1>1, <1>3, <1>4, <1>5, <1>6 DEF DuplicateNames, Agree

\* Build changes nothing but pc.
LEMMA BuildStep ==
  ASSUME IInv, Build
  PROVE  IInv'
<1>1. /\ pc = "decode" /\ pc' = "done" /\ next > Len(query.code)
      /\ UNCHANGED StateWithoutPc
      /\ UNCHANGED <<query, next, ruleCounts, tagNames, tags, actions, actionRules>>
  BY DEF Build, builder, StateWithoutPc
<1>2. next = Len(query.code) + 1
  <2>1. Len(query.code) \in Nat /\ next \in 1 .. Len(query.code) + 1  BY QueryItems DEF IInv
  <2> QED  BY <1>1, <2>1
<1>3. BuilderInv /\ CountsInv  BY <1>1 DEF IInv
<1>4. BuilderInv'  BY <1>1, <1>2, <1>3, RestKeepsInv DEF BuilderInv
<1>5. TypeOK'  BY <1>1 DEF IInv, TypeOK, Operations
<1> QED  BY <1>1, <1>3, <1>4, <1>5, RestKeepsInv DEF IInv

\* The invariant holds of the new builder.
LEMMA InitInv ==
  ASSUME Init
  PROVE  IInv
<1>1. /\ query \in Queries /\ next = 1 /\ actions = <<>> /\ actionRules = <<>>
      /\ ruleCounts = [name \in RuleName \cup SpecialRules |-> 0]
      /\ pc = IF DuplicateNames(query) THEN "died" ELSE "decode"
  BY DEF Init
<1>2. /\ Len(query.code) \in Nat /\ Operations = 1 .. Len(query.code)
      /\ query.seeds \in Seq(TagName)
  BY <1>1, QueryItems
<1>3. /\ tagNames = query.seeds /\ tags = SeedTables(query.seeds).ids
      /\ tags \in [ToSet(tagNames) -> 0 .. Len(tagNames) - 1]
      /\ ~HasDuplicates(query.seeds) => Agree(tagNames, tags)
  BY <1>2, SeedsAgree DEF Init
<1>4. next \in 1 .. Len(query.code) + 1  BY <1>1, <1>2
<1>5. CountsInv  BY <1>1 DEF CountsInv
<1>6. TypeOK
  <2>1. ruleCounts \in [RuleName \cup SpecialRules -> 0 .. Len(query.code)]  BY <1>1, <1>2
  <2>2. DOMAIN tags \subseteq TagName  BY <1>2, <1>3 DEF ToSet
  <2>3. ToSet(tags) \subseteq 0 .. Len(tagNames) - 1  BY <1>3 DEF ToSet
  <2> QED  BY <1>1, <1>2, <1>3, <1>4, <2>1, <2>2, <2>3 DEF TypeOK
<1>7. pc # "died" => BuilderInv
  <2>1. SUFFICES ASSUME ~DuplicateNames(query) PROVE BuilderInv  BY <1>1
  <2>2. Agree(tagNames, tags)  BY <1>3, <2>1 DEF DuplicateNames
  <2>3. ActionsInv  BY <1>1 DEF ActionsInv
  <2>4. RulesInv  BY <1>1, <1>2 DEF RulesInv
  <2> QED  BY <1>1, <2>1, <2>2, <2>3, <2>4 DEF BuilderInv
<1>8. pc = "died" => ~WellFormed  BY <1>1 DEF WellFormed
<1> QED  BY <1>1, <1>4, <1>5, <1>6, <1>7, <1>8 DEF IInv

\* Every step keeps it.
LEMMA StepInv ==
  ASSUME IInv, [Next]_vars
  PROVE  IInv'
<1>1. CASE Next
  BY <1>1, SpecialStep, TransformStep, SkipStep, FailStep, BuildStep DEF Next
<1>2. CASE UNCHANGED vars
  <2>1. UNCHANGED StateWithoutPc /\ pc' = pc
        /\ UNCHANGED <<query, next, ruleCounts, tagNames, tags, actions, actionRules>>
    BY <1>2 DEF vars, StateWithoutPc
  <2>2. pc # "died" => BuilderInv'  BY <2>1, RestKeepsInv DEF IInv, BuilderInv
  <2>3. TypeOK'  BY <2>1 DEF IInv, TypeOK, Operations
  <2> QED  BY <2>1, <2>2, <2>3, RestKeepsInv DEF IInv
<1> QED  BY <1>1, <1>2

\* So it always holds.
LEMMA DecodingInvariant == Spec => []IInv
BY InitInv, StepInv, PTL DEF Spec

-----------------------------------------------------------------------------
\* With the ids read as names again, the rules of a transform say what its
\* policy rule says.
LEMMA TransformRulesMeanPolicy ==
  ASSUME Agree(tagNames, tags), NEW op, NEW r, IsPolicyRule(r), r.tag \in DOMAIN tags,
         \A q \in ToSet(r.preconditions) : q.tag \in DOMAIN tags
  PROVE  NamedRules(TagTransformRules(r, op, tags)) = IntendedTransform(r, op)
<1>1. \A name \in DOMAIN tags : tagNames[tags[name] + 1] = name
  <2>1. SUFFICES ASSUME NEW name \in DOMAIN tags PROVE tagNames[tags[name] + 1] = name
    OBVIOUS
  <2>2. PICK i \in DOMAIN tagNames : name = tagNames[i] /\ tags[tagNames[i]] = i - 1
    BY DEF Agree, ToSet
  <2>3. i \in Nat  BY DEF Agree
  <2> QED  BY <2>2, <2>3
<1> DEFINE copy == InferenceRule(CopyInput(1), {})
           modify == InferenceRule(ModifyTag(ModifyTagKind(r.action), tags[r.tag]),
                                   Premises(r, op, tags))
           premises == {InputHasIntegrity(op.arguments[r.preconditions[i].argument] + 1,
                                          r.preconditions[i].tag) : i \in DOMAIN r.preconditions}
<1>2. NamedRule(copy) = copy
  BY DEF NamedRule, InferenceRule, CopyInput
<1>3. {InputHasIntegrity(p.index, tagNames[p.tag + 1]) : p \in Premises(r, op, tags)} = premises
  <2>1. Premises(r, op, tags) =
          {InputHasIntegrity(op.arguments[r.preconditions[i].argument] + 1,
                             tags[r.preconditions[i].tag]) : i \in DOMAIN r.preconditions}
    BY DEF Premises, ToSet
  <2>2. \A i \in DOMAIN r.preconditions :
          tagNames[tags[r.preconditions[i].tag] + 1] = r.preconditions[i].tag
    BY <1>1 DEF ToSet
  <2>3. \A a, b : InputHasIntegrity(a, b).index = a /\ InputHasIntegrity(a, b).tag = b
    BY DEF InputHasIntegrity
  <2> DEFINE renamed == {InputHasIntegrity(p.index, tagNames[p.tag + 1]) :
                           p \in Premises(r, op, tags)}
  <2>4. ASSUME NEW p \in Premises(r, op, tags)
        PROVE  InputHasIntegrity(p.index, tagNames[p.tag + 1]) \in premises
    <3>1. PICK i \in DOMAIN r.preconditions :
            p = InputHasIntegrity(op.arguments[r.preconditions[i].argument] + 1,
                                  tags[r.preconditions[i].tag])
      BY <2>1
    <3> DEFINE index == op.arguments[r.preconditions[i].argument] + 1
               id == tags[r.preconditions[i].tag]
    <3>2. p.index = index /\ p.tag = id
      <4> p = InputHasIntegrity(index, id)  BY <3>1
      <4> HIDE DEF index, id
      <4> QED  BY <2>3
    <3>3. tagNames[p.tag + 1] = r.preconditions[i].tag  BY <2>2, <3>2
    <3> QED  BY <3>2, <3>3
  <2>5. ASSUME NEW i \in DOMAIN r.preconditions
        PROVE  InputHasIntegrity(op.arguments[r.preconditions[i].argument] + 1,
                                 r.preconditions[i].tag) \in renamed
    <3> DEFINE p == InputHasIntegrity(op.arguments[r.preconditions[i].argument] + 1,
                                      tags[r.preconditions[i].tag])
    <3>1. p \in Premises(r, op, tags)  BY <2>1
    <3>2. /\ p.index = op.arguments[r.preconditions[i].argument] + 1
          /\ p.tag = tags[r.preconditions[i].tag]
      BY <2>3
    <3> HIDE DEF p
    <3>3. tagNames[p.tag + 1] = r.preconditions[i].tag  BY <2>2, <3>2
    <3> QED  BY <3>1, <3>2, <3>3
  <2> QED  BY <2>4, <2>5
<1>4. NamedRule(modify) = InferenceRule(ModifyTag(ModifyTagKind(r.action), r.tag), premises)
  BY <1>1, <1>3 DEF NamedRule, InferenceRule, ModifyTag
<1>5. TagTransformRules(r, op, tags) = <<copy, modify>>  BY DEF TagTransformRules
<1>6. IntendedTransform(r, op)
        = <<copy, InferenceRule(ModifyTag(ModifyTagKind(r.action), r.tag), premises)>>
  BY DEF IntendedTransform
<1> HIDE DEF copy, modify, premises
<1>7. NamedRules(<<copy, modify>>) = <<NamedRule(copy), NamedRule(modify)>>  BY DEF NamedRules
<1> QED  BY <1>2, <1>4, <1>5, <1>6, <1>7

\* The rule of a merge is the one its special transform asks for.
LEMMA MergeRulesMeanSpecial ==
  ASSUME NEW rule \in SpecialRules, NEW merge
  PROVE  NamedRules(MergeRules(rule, merge)) = IntendedMerge(rule, merge)
<1> DEFINE kind == IF rule = UnionItagRule THEN "kUnion" ELSE "kIntersect"
           only == InferenceRule(MergeIntegrityTags(kind, 1 .. merge.controlInputStart), {})
<1>1. kind = IF rule = IntersectItagRule THEN "kIntersect" ELSE "kUnion"
  BY DEF SpecialRules, UnionItagRule, IntersectItagRule
<1>2. MergeRules(rule, merge) = <<only>>  BY DEF MergeRules
<1>3. IntendedMerge(rule, merge) = <<only>>  BY <1>1 DEF IntendedMerge
<1>4. NamedRule(only) = only
  BY DEF NamedRule, InferenceRule, MergeIntegrityTags
<1> HIDE DEF only
<1>5. NamedRules(<<only>>) = <<NamedRule(only)>>  BY DEF NamedRules
<1> QED  BY <1>2, <1>3, <1>4, <1>5

\* After the last operation the rules are those of the module.
LEMMA DoneMatches ==
  ASSUME IInv, pc = "done"
  PROVE  RulesMatchModule
<1>1. /\ query \in Queries /\ Agree(tagNames, tags) /\ ActionsInv /\ ~DuplicateNames(query)
      /\ \A k \in Operations : k < next
      /\ \A k \in Operations : IsOrdinary(k) => HasItsRules(k)
      /\ \A k \in Operations : IsSpecial(k) => HasMarked(k)
  BY QueryItems DEF IInv, BuilderInv, RulesInv
<1>2. ASSUME NEW k \in Operations, IsOrdinary(k)
      PROVE  NamedRules(RulesOf(k)) = IntendedTransform(PolicyRule(Code(k).rule), Code(k))
  <2> DEFINE r == PolicyRule(Code(k).rule)
  <2>1. /\ r.tag \in DOMAIN tags /\ \A q \in ToSet(r.preconditions) : q.tag \in DOMAIN tags
        /\ RulesOf(k) = TagTransformRules(r, Code(k), tags)
        /\ WellFormedTransform(Code(k))
    BY <1>1, <1>2 DEF HasItsRules, RulesOf
  <2>2. IsPolicyRule(r)
    <3>1. r \in ToSet(query.policy)  BY <2>1 DEF WellFormedTransform, PolicyRule
    <3> QED  BY <1>1, <3>1, QueryItems
  <2> HIDE DEF r
  <2>3. NamedRules(RulesOf(k)) = IntendedTransform(r, Code(k))
    BY <1>1, <2>1, <2>2, TransformRulesMeanPolicy
  <2> QED  BY <2>3 DEF r
<1>3. ASSUME NEW k \in Operations, NEW j \in Transforming(k)
      PROVE  NamedRules(RulesOf(k)) = IntendedMerge(Code(j).rule, Code(k))
  <2>1. j \in Operations /\ IsSpecial(j) /\ Code(j).inputs[1] = <<k, 1>>  BY DEF Transforming
  <2>2. k \in DOMAIN actions /\ actionRules[actions[k]] = MergeRules(Code(j).rule, Code(k))
    BY <1>1, <2>1 DEF HasMarked
  <2>3. RulesOf(k) = MergeRules(Code(j).rule, Code(k))  BY <2>2 DEF RulesOf
  <2> QED  BY <2>1, <2>3, MergeRulesMeanSpecial DEF IsSpecial
<1>4. ASSUME NEW k \in Operations, ~IsOrdinary(k), Code(k).operator # "sql.merge" \/ Transforming(k) = {}
      PROVE  NamedRules(RulesOf(k)) = <<>>
  <2>1. k \notin DOMAIN actions  BY <1>1, <1>4 DEF ActionsInv, MarkedFor, Transforming
  <2>2. RulesOf(k) = <<>>  BY <2>1 DEF RulesOf
  <2>3. NamedRules(<<>>) = <<>>  BY DEF NamedRules
  <2> QED  BY <2>2, <2>3
<1>5. \A k \in Operations : Code(k).operator = "sql.merge" => ~IsOrdinary(k)  BY DEF IsOrdinary
<1> HIDE DEF IInv
<1> QED  BY <1>2, <1>3, <1>4, <1>5 DEF RulesMatchModule

\* A query that was decoded is well formed.
LEMMA DoneIsWellFormed ==
  ASSUME IInv, pc = "done"
  PROVE  WellFormed
<1>1. /\ query \in Queries /\ ~DuplicateNames(query)
      /\ \A k \in Operations : k < next
      /\ \A k \in Operations : IsOrdinary(k) => HasItsRules(k)
      /\ \A k \in Operations : IsSpecial(k) => HasMarked(k)
  BY QueryItems DEF IInv, BuilderInv, RulesInv
<1>2. ASSUME NEW k \in Operations, IsSpecial(k)
      PROVE  WellFormedSpecial(k)
  <2>1. PICK m \in Operations :
          /\ Code(k).inputs[1] = <<m, 1>> /\ Code(m).operator = "sql.merge"
          /\ \A j \in Operations :
               j < next /\ IsSpecial(j) /\ Code(j).inputs[1] = <<m, 1>> => j = k
    BY <1>1, <1>2 DEF HasMarked
  <2>2. Transforming(m) = {k}  BY <1>1, <1>2, <2>1 DEF Transforming
  <2> QED  BY <1>1, <1>2, <2>1, <2>2 DEF HasMarked, WellFormedSpecial
<1> QED  BY <1>1, <1>2 DEF HasItsRules, WellFormed

-----------------------------------------------------------------------------
\* The type invariant: ids are below tags_.size() and every marked operation
\* has rules.
THEOREM TypesOK == Spec => []TypeOK
<1>1. IInv => TypeOK  BY DEF IInv
<1> QED  BY <1>1, DecodingInvariant, PTL

\* GetTagName and GetTagId of the InferenceRulesBuilder are inverse to each
\* other, for any number of names, seeds and look-ups.
THEOREM TagIdsAreCanonical == Spec => []TagTablesAgree
<1>1. IInv => TagTablesAgree  BY DEF IInv, BuilderInv, Agree, TagTablesAgree
<1> QED  BY <1>1, DecodingInvariant, PTL

\* A decoded query has, for each operation, exactly the rules that the whole
\* module asks for, however often and in which order rules and tags are
\* used.
THEOREM RulesAreThoseOfPolicy == Spec => []RulesMatchModule
<1>1. IInv => RulesMatchModule  BY DoneMatches DEF RulesMatchModule
<1> QED  BY <1>1, DecodingInvariant, PTL

\* DecodeSqlPolicyRules dies of exactly the queries that are not well
\* formed: a CHECK that fails on the way from left to right is always one
\* about the whole query.
THEOREM RefusalIsExact == Spec => []DiesOnlyOnMalformed
<1>1. IInv => DiesOnlyOnMalformed  BY DoneIsWellFormed DEF IInv, DiesOnlyOnMalformed
<1> QED  BY <1>1, DecodingInvariant, PTL

-----------------------------------------------------------------------------
\* Facts from facts of a finite set, more from more.
IsDerivation(step, facts) ==
  /\ IsFiniteSet(facts) /\ step \in [SUBSET facts -> SUBSET facts]
  /\ \A K \in SUBSET facts : \A L \in SUBSET facts : K \subseteq L => step[K] \subseteq step[L]

\* What is known after a step; the sets that few facts are missing from.
More(step, known) == known \cup step[known]
Missing(facts, m) == {K \in SUBSET facts : Cardinality(facts \ K) <= m}

\* From what is known to what f makes of what is known next.
Onward(f, step, known) ==
  IF More(step, known) = known THEN known ELSE f[More(step, known)]

Recurses(f, step, facts) == f = [known \in SUBSET facts |-> Onward(f, step, known)]

\* A step that adds something leaves fewer facts to be added.
LEMMA FewerAreMissing ==
  ASSUME NEW facts, NEW step, IsDerivation(step, facts), NEW m \in Nat, NEW K \in Missing(facts, m)
  PROVE  /\ More(step, K) \in Missing(facts, m)
         /\ More(step, K) # K => m # 0 /\ More(step, K) \in Missing(facts, m - 1)
<1>1. K \in SUBSET facts /\ Cardinality(facts \ K) <= m
  BY DEF Missing
<1>2. More(step, K) \in SUBSET facts
  BY <1>1 DEF IsDerivation, More
<1>3. /\ facts \ More(step, K) \in SUBSET (facts \ K)
      /\ More(step, K) # K => facts \ More(step, K) # facts \ K
  BY <1>1, <1>2 DEF More
<1>4. IsFiniteSet(facts \ K)
  BY <1>1, FS_Difference DEF IsDerivation
<1>5. /\ IsFiniteSet(facts \ More(step, K))
      /\ Cardinality(facts \ More(step, K)) <= Cardinality(facts \ K)
      /\ Cardinality(facts \ K) = Cardinality(facts \ More(step, K)) =>
           facts \ K = facts \ More(step, K)
  BY <1>3, <1>4, FS_Subset
<1>6. Cardinality(facts \ K) \in Nat /\ Cardinality(facts \ More(step, K)) \in Nat
  BY <1>4, <1>5, FS_CardinalityType
<1>7. ASSUME More(step, K) # K
      PROVE  m # 0 /\ Cardinality(facts \ More(step, K)) <= m - 1
  BY <1>1, <1>3, <1>5, <1>6, <1>7
<1>8. QED
  BY <1>1, <1>2, <1>5, <1>6, <1>7 DEF Missing

\* The recursive function of Derived exists: the facts are finitely many.
LEMMA DerivationExists ==
  ASSUME NEW facts, NEW step, IsDerivation(step, facts)
  PROVE  \E f : Recurses(f, step, facts)
<1> DEFINE n == Cardinality(facts)
           T == {m \in 0 .. n : \E f : \A K \in Missing(facts, m) : f[K] = Onward(f, step, K)}
<1>1. n \in Nat
  BY FS_CardinalityType DEF IsDerivation
<1>2. 0 \in T
  <2> DEFINE f == [K \in Missing(facts, 0) |-> K]
  <2>1. \A K \in Missing(facts, 0) : f[K] = Onward(f, step, K)
    BY FewerAreMissing DEF Onward
  <2> HIDE DEF f
  <2>2. QED
    BY <1>1, <2>1
<1>3. ASSUME NEW m \in 1 .. n, m - 1 \in T
      PROVE  m \in T
  <2>1. PICK f : \A K \in Missing(facts, m - 1) : f[K] = Onward(f, step, K)
    BY <1>3
  <2> DEFINE g == [K \in Missing(facts, m) |->
                     IF K \in Missing(facts, m - 1) THEN f[K] ELSE Onward(f, step, K)]
  <2>2. \A K \in Missing(facts, m) : g[K] = Onward(f, step, K)
    BY <2>1
  <2>3. \A K \in Missing(facts, m - 1) : K \in Missing(facts, m) /\ g[K] = f[K]
    <3>1. \A K \in SUBSET facts : Cardinality(facts \ K) \in Nat
      BY FS_Difference, FS_CardinalityType DEF IsDerivation
    <3>2. \A K \in Missing(facts, m - 1) : K \in Missing(facts, m)
      BY <1>1, <3>1 DEF Missing
    <3>3. QED
      BY <3>2
  <2> HIDE DEF g
  <2>4. ASSUME NEW K \in Missing(facts, m)
        PROVE  g[K] = Onward(g, step, K)
    <3>1. More(step, K) # K => g[More(step, K)] = f[More(step, K)]
      BY <1>1, <2>3, FewerAreMissing
    <3>2. QED
      BY <2>2, <3>1 DEF Onward
  <2>5. QED
    BY <2>4
<1>4. n \in T
  <2> HIDE DEF T
  <2>1. 0 .. n \subseteq T
    BY <1>1, <1>2, <1>3, FiniteInduction
  <2>2. QED
    BY <1>1, <2>1
<1>5. PICK f : \A K \in Missing(facts, n) : f[K] = Onward(f, step, K)
  BY <1>4
<1> DEFINE g == [K \in SUBSET facts |-> f[K]]
<1>6. \A K \in SUBSET facts : K \in Missing(facts, n) /\ More(step, K) \in SUBSET facts
  <2>1. ASSUME NEW K \in SUBSET facts PROVE Cardinality(facts \ K) <= n
    BY FS_Subset DEF IsDerivation
  <2>2. QED
    BY <2>1 DEF Missing, More, IsDerivation
<1>7. \A K \in SUBSET facts : f[K] = Onward(g, step, K)
  BY <1>5, <1>6 DEF Onward
<1>8. g = [K \in SUBSET facts |-> Onward(g, step, K)]
  BY <1>7
<1>9. QED
  BY <1>8 DEF Recurses

\* What is derived is what was given and what a step makes of it, no more.
LEMMA DerivedIs ==
  ASSUME NEW facts, NEW step, IsDerivation(step, facts), NEW F \in SUBSET facts
  PROVE  /\ Derived(step, F) \in SUBSET facts
         /\ Derived(step, F) = F \cup step[Derived(step, F)]
<1> DEFINE Body(f) == [known \in SUBSET facts |-> Onward(f, step, known)]
           derive == CHOOSE f : f = Body(f)
           n == Cardinality(facts)
           Given(K) == F \subseteq K /\ K \subseteq F \cup step[K]
           T == {m \in 0 .. n : \A K \in Missing(facts, m) : Given(K) =>
                   derive[K] \in SUBSET facts /\ derive[K] = F \cup step[derive[K]]}
<1>1. Derived(step, F) = derive[F]
  <2>1. DOMAIN step = SUBSET facts
    BY DEF IsDerivation
  <2>2. QED
    BY <2>1 DEF Derived, Onward, More
<1>2. derive = Body(derive)
  <2>1. \E f : f = Body(f)
    <3>1. PICK f : Recurses(f, step, facts)
      BY DerivationExists
    <3>2. f = Body(f)
      BY <3>1 DEF Recurses
    <3> HIDE DEF Body
    <3>3. QED
      BY <3>2
  <2> HIDE DEF Body
  <2>2. QED
    BY <2>1
<1>3. \A K \in SUBSET facts : derive[K] = Onward(derive, step, K)
  <2> HIDE DEF derive
  <2>1. QED
    BY <1>2
<1> HIDE DEF derive
<1>4. n \in Nat
  BY FS_CardinalityType DEF IsDerivation
<1>5. \A K \in SUBSET facts : /\ Cardinality(facts \ K) \in Nat /\ Cardinality(facts \ K) <= n
                              /\ More(step, K) \in SUBSET facts
  BY FS_Subset, FS_CardinalityType DEF IsDerivation, More
<1>6. ASSUME NEW K \in SUBSET facts, Given(K), More(step, K) = K
      PROVE  derive[K] \in SUBSET facts /\ derive[K] = F \cup step[derive[K]]
  BY <1>3, <1>6 DEF Onward, More
<1>7. ASSUME NEW K \in SUBSET facts, Given(K)
      PROVE  Given(More(step, K))
  <2>1. step[K] \subseteq step[More(step, K)]
    BY <1>5 DEF IsDerivation, More
  <2>2. QED
    BY <1>7, <2>1 DEF More
<1>8. 0 \in T
  <2>1. \A K \in Missing(facts, 0) : K \in SUBSET facts /\ More(step, K) = K
    BY FewerAreMissing DEF Missing
  <2>2. QED
    BY <1>4, <1>6, <2>1
<1>9. ASSUME NEW m \in 1 .. n, m - 1 \in T
      PROVE  m \in T
  <2>1. ASSUME NEW K \in Missing(facts, m), Given(K)
        PROVE  derive[K] \in SUBSET facts /\ derive[K] = F \cup step[derive[K]]
    <3>1. K \in SUBSET facts
      BY DEF Missing
    <3>2. CASE More(step, K) = K
      BY <1>6, <2>1, <3>1, <3>2
    <3>3. CASE More(step, K) # K
      <4>1. More(step, K) \in Missing(facts, m - 1)
        BY <3>3, FewerAreMissing
      <4>2. derive[K] = derive[More(step, K)]
        BY <1>3, <3>1, <3>3 DEF Onward
      <4>3. Given(More(step, K))
        BY <1>7, <2>1, <3>1
      <4>4. QED
        BY <1>9, <4>1, <4>2, <4>3
    <3>4. QED
      BY <3>2, <3>3
  <2>2. QED
    BY <2>1
<1>10. n \in T
  <2> HIDE DEF T
  <2>1. 0 .. n \subseteq T
    BY <1>4, <1>8, <1>9, FiniteInduction
  <2>2. QED
    BY <1>4, <2>1
<1>11. F \in Missing(facts, n) /\ Given(F)
  BY <1>5 DEF Missing
<1>12. QED
  BY <1>1, <1>10, <1>11

-----------------------------------------------------------------------------
\* A query whose decoding has ended well; its operations, inputs and rules.
Decoded == IInv /\ pc = "done"
Inputs(k) == Code(k).inputs
Rule(k) == PolicyRule(Code(k).rule)
Argument(k, p) == Inputs(k)[Code(k).arguments[p.argument] + 1]

\* Its operations read what was there before them.
LEMMA DecodedIs ==
  ASSUME Decoded
  PROVE  /\ query \in Queries /\ ~DuplicateNames(query) /\ WellFormed
         /\ Len(query.code) \in Nat \ {0} /\ Operations = 1 .. Len(query.code)
         /\ Agree(tagNames, tags)
         /\ \A k \in Operations :
              /\ Len(Inputs(k)) \in Nat /\ DOMAIN Inputs(k) = 1 .. Len(Inputs(k))
              /\ \A i \in DOMAIN Inputs(k) : ReadsEarlier(k, Inputs(k)[i])
              /\ Code(k).operator # "sql.sql_output"
              /\ Code(k).operator = "sql.merge" => Code(k).controlInputStart \in Nat
<1>1. /\ query \in Queries /\ ~DuplicateNames(query) /\ Agree(tagNames, tags)
      /\ WellFormed
  BY DoneIsWellFormed DEF Decoded, IInv, BuilderInv
<1>2. /\ Len(query.code) \in Nat /\ Operations = 1 .. Len(query.code)
      /\ \A k \in Operations : IsOperation(Code(k))
  BY <1>1, QueryItems
<1>3. IsSequence(query.code) /\ query.code # <<>>
  BY <1>1, QueriesAssumption, BackendsAssumption
<1>4. Len(query.code) # 0
  BY <1>3 DEF IsSequence
<1>5. ASSUME NEW k \in Operations
      PROVE  /\ Len(Inputs(k)) \in Nat /\ DOMAIN Inputs(k) = 1 .. Len(Inputs(k))
             /\ \A i \in DOMAIN Inputs(k) : ReadsEarlier(k, Inputs(k)[i])
             /\ Code(k).operator # "sql.sql_output"
             /\ Code(k).operator = "sql.merge" => Code(k).controlInputStart \in Nat
  <2>1. IsSequence(Inputs(k)) /\ (Code(k).operator = "sql.merge" => Code(k).controlInputStart \in Nat)
    BY <1>2 DEF IsOperation, Inputs
  <2>2. /\ \A v \in ToSet(Inputs(k)) : ReadsEarlier(k, v)
        /\ Code(k).operator # "sql.sql_output"
    BY <1>1, BackendsAssumption DEF Inputs, Code, Operations
  <2>3. QED
    BY <2>1, <2>2, SequenceItems
<1>6. QED
  BY <1>1, <1>2, <1>4, <1>5

\* A transform has the rule of its name, with arguments among its inputs.
LEMMA OrdinaryIs ==
  ASSUME Decoded, NEW k \in Operations, IsOrdinary(k)
  PROVE  /\ Rule(k) \in ToSet(query.policy) /\ Rule(k).name = Code(k).rule
         /\ \A r \in ToSet(query.policy) : r.name = Code(k).rule => r = Rule(k)
         /\ Rule(k).action \in {"ADD_CONFIDENTIALITY", "REMOVE_CONFIDENTIALITY", "ADD_INTEGRITY"}
         /\ Rule(k).tag \in DOMAIN tags
         /\ Len(Rule(k).preconditions) \in Nat
         /\ DOMAIN Rule(k).preconditions = 1 .. Len(Rule(k).preconditions)
         /\ \A p \in ToSet(Rule(k).preconditions) :
              /\ p.tag \in DOMAIN tags /\ p.argument \in DOMAIN Code(k).arguments
              /\ Code(k).arguments[p.argument] \in Nat
              /\ Code(k).arguments[p.argument] + 1 \in DOMAIN Inputs(k)
         /\ 1 \in DOMAIN Inputs(k)
         /\ "rule_name" \notin DOMAIN Code(k).arguments
         /\ RulesOf(k) = TagTransformRules(Rule(k), Code(k), tags)
<1>1. HasItsRules(k) /\ query \in Queries /\ ~DuplicateNames(query)
  BY QueryItems DEF Decoded, IInv, BuilderInv, RulesInv
<1>2. WellFormedTransform(Code(k))
  BY <1>1 DEF HasItsRules
<1>3. PICK r \in ToSet(query.policy) :
        /\ r.name = Code(k).rule /\ r.action # "UNKNOWN"
        /\ \A p \in ToSet(r.preconditions) : p.argument \in DOMAIN Code(k).arguments
  BY <1>2 DEF WellFormedTransform
<1>4. /\ Rule(k) = r
      /\ \A q \in ToSet(query.policy) : q.name = Code(k).rule => q = r
  BY <1>1, <1>3, PolicyRuleIs DEF Rule
<1>5. IsPolicyRule(r)
  BY <1>1, QueryItems
<1>6. /\ Len(r.preconditions) \in Nat /\ DOMAIN r.preconditions = 1 .. Len(r.preconditions)
  BY <1>5, SequenceItems DEF IsPolicyRule
<1>7. /\ r.tag \in DOMAIN tags /\ \A p \in ToSet(r.preconditions) : p.tag \in DOMAIN tags
      /\ RulesOf(k) = TagTransformRules(r, Code(k), tags)
  BY <1>1, <1>4 DEF HasItsRules, Rule, RulesOf
<1>8. /\ Len(Inputs(k)) \in Nat /\ DOMAIN Inputs(k) = 1 .. Len(Inputs(k))
  BY DecodedIs
<1>9. Inputs(k) # <<>> /\ \A a \in DOMAIN Code(k).arguments : Code(k).arguments[a] \in 1 .. Len(Inputs(k)) - 1
  BY <1>2 DEF WellFormedTransform, Inputs
<1>10. 1 \in DOMAIN Inputs(k)
  <2>1. IsSequence(Inputs(k))
    BY <1>1, QueryItems DEF IsOperation, Inputs
  <2>2. QED
    BY <1>8, <1>9, <2>1 DEF IsSequence
<1>11. "rule_name" \notin DOMAIN Code(k).arguments
  BY <1>1, BackendsAssumption DEF IsOrdinary, Code, Operations
<1>12. ASSUME NEW p \in ToSet(r.preconditions)
       PROVE  /\ Code(k).arguments[p.argument] \in Nat
              /\ Code(k).arguments[p.argument] + 1 \in DOMAIN Inputs(k)
  BY <1>3, <1>8, <1>9
<1>13. r.action \in {"ADD_CONFIDENTIALITY", "REMOVE_CONFIDENTIALITY", "ADD_INTEGRITY"}
  BY <1>3, <1>5 DEF IsPolicyRule
<1>14. QED
  BY <1>3, <1>4, <1>6, <1>7, <1>10, <1>11, <1>12, <1>13

\* A special transform has one input and no rules, of either kind.
LEMMA SpecialIs ==
  ASSUME Decoded, NEW k \in Operations, IsSpecial(k)
  PROVE  /\ DOMAIN Inputs(k) = {1} /\ RulesOf(k) = <<>>
         /\ \A r \in ToSet(query.policy) : r.name # Code(k).rule
<1>1. Len(Inputs(k)) = 1 /\ DOMAIN Inputs(k) = 1 .. Len(Inputs(k))
  BY DecodedIs DEF WellFormed, WellFormedSpecial, Inputs
<1>2. ActionsInv
  BY DEF Decoded, IInv, BuilderInv
<1>3. k \notin DOMAIN actions
  BY <1>2 DEF ActionsInv, MarkedFor, IsSpecial, IsOrdinary
<1>4. \A r \in ToSet(query.policy) : r.name # Code(k).rule
  BY DecodedIs, BackendsAssumption DEF IsSpecial
<1>5. QED
  BY <1>1, <1>3, <1>4 DEF RulesOf

\* A merge has the rules of the transform that is special to it, if there is one.
LEMMA MergeIs ==
  ASSUME Decoded, NEW k \in Operations, Code(k).operator = "sql.merge"
  PROVE  /\ Transforming(k) = {} => RulesOf(k) = <<>>
         /\ \A j \in Transforming(k) :
              /\ j \in Operations /\ IsSpecial(j) /\ Code(j).rule \in SpecialRules
              /\ Transforming(k) = {j}
              /\ RulesOf(k) = MergeRules(Code(j).rule, Code(k))
<1>1. /\ ActionsInv /\ \A j \in Operations : IsSpecial(j) => HasMarked(j)
      /\ \A j \in Operations : j < next
  BY QueryItems DEF Decoded, IInv, BuilderInv, RulesInv
<1>2. ASSUME Transforming(k) = {} PROVE RulesOf(k) = <<>>
  <2>1. k \notin DOMAIN actions
    BY <1>1, <1>2 DEF ActionsInv, MarkedFor, Transforming, IsOrdinary
  <2>2. QED
    BY <2>1 DEF RulesOf
<1>3. ASSUME NEW j \in Transforming(k)
      PROVE  /\ j \in Operations /\ IsSpecial(j) /\ Code(j).rule \in SpecialRules
             /\ Transforming(k) = {j} /\ RulesOf(k) = MergeRules(Code(j).rule, Code(k))
  <2>1. j \in Operations /\ IsSpecial(j) /\ Code(j).inputs[1] = <<k, 1>>
    BY DEF Transforming
  <2>2. /\ k \in DOMAIN actions /\ actionRules[actions[k]] = MergeRules(Code(j).rule, Code(k))
        /\ \A i \in Operations : i < next /\ IsSpecial(i) /\ Code(i).inputs[1] = <<k, 1>> => i = j
    BY <1>1, <2>1 DEF HasMarked
  <2>3. QED
    BY <1>1, <2>1, <2>2 DEF RulesOf, Transforming, IsSpecial
<1>4. QED
  BY <1>2, <1>3

\* Nothing else has rules.
LEMMA OtherIs ==
  ASSUME Decoded, NEW k \in Operations, Code(k).operator \notin {"sql.tag_transform", "sql.merge"}
  PROVE  RulesOf(k) = <<>>
<1>1. k \notin DOMAIN actions
  BY DEF Decoded, IInv, BuilderInv, ActionsInv, MarkedFor, IsOrdinary
<1>2. QED
  BY <1>1 DEF RulesOf

\* What an operation is.
LEMMA OperationKinds ==
  ASSUME NEW k
  PROVE  \/ IsOrdinary(k) \/ IsSpecial(k) \/ Code(k).operator = "sql.merge"
         \/ Code(k).operator \notin {"sql.tag_transform", "sql.merge"}
BY DEF IsOrdinary, IsSpecial

-----------------------------------------------------------------------------
\* The states that the decoded rules make: of tags that have an id.
Ids == {tags[name] : name \in DOMAIN tags}
States == [secrecy : SUBSET Ids, integrity : SUBSET Ids]

LEMMA StatesAreIfcTags ==
  ASSUME Decoded
  PROVE  Ids \subseteq Tag /\ Bottom \notin States /\ CheckFailure \notin States
<1>1. Agree(tagNames, tags)
  BY DecodedIs
<1>2. /\ ToSet(tagNames) \subseteq TagName /\ Cardinality(ToSet(tagNames)) = Len(tagNames)
      /\ Len(tagNames) \in Nat /\ DOMAIN tagNames = 1 .. Len(tagNames)
      /\ DOMAIN tags = ToSet(tagNames)
  BY <1>1 DEF Agree, ToSet
<1>3. Len(tagNames) <= Cardinality(TagName) /\ Cardinality(TagName) \in Nat
  BY <1>2, BackendsAssumption, FS_Subset, FS_CardinalityType
<1>4. ASSUME NEW name \in DOMAIN tags PROVE tags[name] \in Tag
  <2>1. PICK i \in 1 .. Len(tagNames) : name = tagNames[i]
    BY <1>2 DEF ToSet
  <2>2. tags[name] = i - 1
    BY <1>1, <1>2, <2>1 DEF Agree
  <2>3. QED
    BY <1>2, <1>3, <2>2, BackendsAssumption
<1>5. Ids \subseteq Tag
  BY <1>4 DEF Ids
<1>6. States \subseteq IfcTags
  BY <1>5 DEF States, IfcTags
<1>7. QED
  BY <1>5, <1>6, BottomAssumption, CheckFailureAssumption DEF AbstractState

-----------------------------------------------------------------------------
\* The states that f says results have, as far as operation m.
Follows(f, m) == \A k \in 1 .. m : f[k] = StateFrom(k, [j \in 1 .. k - 1 |-> f[j]])

LEMMA StatesAre ==
  ASSUME Decoded
  PROVE  /\ AbstractStates = [k \in Operations |-> AbstractStates[k]]
         /\ Follows(AbstractStates, Len(query.code))
<1> DEFINE n == Len(query.code)
           T == {m \in 0 .. n : \E f : Follows(f, m)}
           Body(f) == [k \in Operations |-> StateFrom(k, [j \in 1 .. k - 1 |-> f[j]])]
           state == CHOOSE f : f = Body(f)
<1>1. n \in Nat /\ Operations = 1 .. n
  BY DecodedIs
<1>2. 0 \in T
  BY <1>1 DEF Follows
<1>3. ASSUME NEW m \in 1 .. n, m - 1 \in T
      PROVE  m \in T
  <2>1. PICK f : Follows(f, m - 1)
    BY <1>3
  <2> DEFINE new == StateFrom(m, [j \in 1 .. m - 1 |-> f[j]])
             g == [k \in 1 .. m |-> IF k = m THEN new ELSE f[k]]
  <2>2. \A k \in 1 .. m : g[k] = IF k = m THEN new ELSE f[k]
    OBVIOUS
  <2> HIDE DEF g, new
  <2>3. ASSUME NEW k \in 1 .. m
        PROVE  g[k] = StateFrom(k, [j \in 1 .. k - 1 |-> g[j]])
    <3>1. \A j \in 1 .. k - 1 : j \in 1 .. m /\ g[j] = f[j]
      BY <2>2
    <3>2. [j \in 1 .. k - 1 |-> g[j]] = [j \in 1 .. k - 1 |-> f[j]]
      BY <3>1
    <3>3. CASE k = m
      BY <2>2, <3>2, <3>3 DEF new
    <3>4. CASE k # m
      <4>1. k \in 1 .. m - 1
        BY <3>4
      <4>2. f[k] = StateFrom(k, [j \in 1 .. k - 1 |-> f[j]])
        BY <2>1, <4>1 DEF Follows
      <4>3. QED
        BY <2>2, <3>2, <3>4, <4>2
    <3>5. QED
      BY <3>3, <3>4
  <2>4. Follows(g, m)
    BY <2>3 DEF Follows
  <2>5. QED
    BY <2>4
<1>4. PICK f : Follows(f, n)
  <2> HIDE DEF T
  <2>1. 0 .. n \subseteq T
    BY <1>1, <1>2, <1>3, FiniteInduction
  <2>2. n \in T
    BY <1>1, <2>1
  <2>3. QED
    BY <2>2 DEF T
<1> DEFINE g == [k \in Operations |-> f[k]]
<1>5. g = Body(g)
  <2>1. ASSUME NEW k \in Operations
        PROVE  f[k] = StateFrom(k, [j \in 1 .. k - 1 |-> g[j]])
    <3>1. [j \in 1 .. k - 1 |-> g[j]] = [j \in 1 .. k - 1 |-> f[j]]
      BY <1>1
    <3>2. f[k] = StateFrom(k, [j \in 1 .. k - 1 |-> f[j]])
      BY <1>1, <1>4 DEF Follows
    <3>3. QED
      BY <3>1, <3>2
  <2>2. QED
    BY <2>1
<1>6. state = Body(state)
  <2> HIDE DEF Body, g
  <2>1. QED
    BY <1>5
<1>7. AbstractStates = state
  BY DEF AbstractStates
<1> HIDE DEF state
<1>8. QED
  BY <1>1, <1>6, <1>7 DEF Follows

\* The state of a value; what it says of a tag by its name.
StateOf(v) == IF IsOperationResult(v) THEN AbstractStates[v[1]] ELSE GetInitialState(v)
InputStates(k) == [i \in DOMAIN Inputs(k) |-> StateOf(Inputs(k)[i])]
Secret(v, name) == name \in DOMAIN tags /\ tags[name] \in StateOf(v).secrecy
Endorsed(v, name) == name \in DOMAIN tags /\ tags[name] \in StateOf(v).integrity

\* No CHECK fails in the abstract interpretation.
Evaluated == Decoded /\ NoCheckFails

\* A result of an earlier operation is one; other inputs have the initial state.
LEMMA EarlierResults ==
  ASSUME Decoded, NEW k \in Operations, NEW i \in DOMAIN Inputs(k), IsOperationResult(Inputs(k)[i])
  PROVE  Inputs(k)[i][1] \in 1 .. k - 1 /\ Inputs(k)[i] = <<Inputs(k)[i][1], 1>>
<1>1. ReadsEarlier(k, Inputs(k)[i])
  BY DecodedIs
<1>2. PICK j \in Operations : Inputs(k)[i] = <<j, 1>>
  BY DEF IsOperationResult
<1>3. j \in Nat
  BY DecodedIs
<1>4. QED
  BY <1>1, <1>2, <1>3 DEF ReadsEarlier

\* The default state, if all inputs have been reached.
LEMMA DefaultIs ==
  ASSUME NEW n \in Nat, NEW states \in [1 .. n -> States], Bottom \notin States
  PROVE  ApplyDefaultOperationTransformer(states) = MakeTags(UNION {states[i].secrecy : i \in 1 .. n}, {})
<1>1. {a \in ToSet(states) : ~IsBottom(a)} = {states[i] : i \in 1 .. n}
  BY DEF ToSet, IsBottom
<1>2. UNION {a.secrecy : a \in {states[i] : i \in 1 .. n}} = UNION {states[i].secrecy : i \in 1 .. n}
  OBVIOUS
<1>3. CASE n = 0
  <2>1. states = <<>> /\ {states[i].secrecy : i \in 1 .. n} = {}
    BY <1>3
  <2>2. QED
    BY <2>1 DEF ApplyDefaultOperationTransformer, GetInitialState
<1>4. CASE n # 0
  <2>1. 1 \in 1 .. n /\ states # <<>>
    BY <1>4
  <2>2. {states[i] : i \in 1 .. n} # {}
    BY <2>1
  <2>3. QED
    BY <1>1, <1>2, <2>1, <2>2 DEF ApplyDefaultOperationTransformer
<1>5. QED
  BY <1>3, <1>4

\* One rule and two rules, one after the other.
LEMMA FewRules ==
  \A a, b, states, default :
    /\ ApplyOutputRules(<<a>>, states, default) = InterpretInferenceRule(a, states, default)
    /\ ApplyOutputRules(<<a, b>>, states, default) =
         InterpretInferenceRule(b, states, InterpretInferenceRule(a, states, default))
<1> TAKE a, b, states, default
<1> DEFINE first == InterpretInferenceRule(a, states, default)
           second == InterpretInferenceRule(b, states, first)
<1>1. ApplyOutputRules(<<a>>, states, default) = first
  <2> DEFINE Body(f) == [n \in 0 .. 1 |-> IF n = 0 THEN default
                                         ELSE InterpretInferenceRule(<<a>>[n], states, f[n - 1])]
             refined == CHOOSE f : f = Body(f)
             g == [n \in 0 .. 1 |-> IF n = 0 THEN default ELSE first]
  <2>1. ApplyOutputRules(<<a>>, states, default) = refined[1]
    BY DEF ApplyOutputRules
  <2>2. g = Body(g)
    <3>1. \A n \in 0 .. 1 : n = 0 \/ n = 1
      OBVIOUS
    <3>2. QED
      BY <3>1
  <2>3. refined = Body(refined)
    <3> HIDE DEF Body, g
    <3>1. QED
      BY <2>2
  <2> HIDE DEF refined
  <2>4. refined[0] = default /\ refined[1] = InterpretInferenceRule(<<a>>[1], states, refined[0])
    BY <2>3
  <2>5. QED
    BY <2>1, <2>4
<1>2. ApplyOutputRules(<<a, b>>, states, default) = second
  <2> DEFINE Body(f) == [n \in 0 .. 2 |-> IF n = 0 THEN default
                                         ELSE InterpretInferenceRule(<<a, b>>[n], states, f[n - 1])]
             refined == CHOOSE f : f = Body(f)
             g == [n \in 0 .. 2 |-> IF n = 0 THEN default ELSE IF n = 1 THEN first ELSE second]
  <2>1. ApplyOutputRules(<<a, b>>, states, default) = refined[2]
    BY DEF ApplyOutputRules
  <2>2. g = Body(g)
    <3> HIDE DEF first, second
    <3>1. \A n \in 0 .. 2 : n = 0 \/ n = 1 \/ n = 2
      OBVIOUS
    <3>2. g[0] = default /\ g[1] = first /\ g[2] = second
      OBVIOUS
    <3> HIDE DEF g
    <3>3. /\ first = InterpretInferenceRule(<<a, b>>[1], states, g[0])
          /\ second = InterpretInferenceRule(<<a, b>>[2], states, g[1])
      BY <3>2 DEF first, second
    <3>4. g = [n \in 0 .. 2 |-> g[n]]
      BY DEF g
    <3>5. \A n \in 0 .. 2 : g[n] = IF n = 0 THEN default
                                   ELSE InterpretInferenceRule(<<a, b>>[n], states, g[n - 1])
      BY <3>1, <3>2, <3>3
    <3>6. QED
      BY <3>4, <3>5
  <2>3. refined = Body(refined)
    <3> HIDE DEF Body, g
    <3>1. QED
      BY <2>2
  <2> HIDE DEF refined
  <2>4. /\ refined[0] = default
        /\ refined[1] = InterpretInferenceRule(<<a, b>>[1], states, refined[0])
        /\ refined[2] = InterpretInferenceRule(<<a, b>>[2], states, refined[1])
    BY <2>3
  <2>5. QED
    BY <2>1, <2>4
<1>3. QED
  BY <1>1, <1>2

\* The state of a result is what the transformer makes of those of the inputs.
LEMMA TransformedStateIs ==
  ASSUME Evaluated, NEW k \in Operations
  PROVE  LET results == ApplyOperationTransformer(OutputRules(k), 1, InputStates(k))
         IN  /\ CheckFailure \notin ToSet(InputStates(k)) /\ AbstractStates[k] # CheckFailure
             /\ results # CheckFailure /\ AbstractStates[k] = results[1]
<1> DEFINE before == [j \in 1 .. k - 1 |-> AbstractStates[j]]
           inputs == [i \in DOMAIN Code(k).inputs |->
                        IF IsOperationResult(Code(k).inputs[i]) THEN before[Code(k).inputs[i][1]]
                        ELSE GetInitialState(Code(k).inputs[i])]
           results == ApplyOperationTransformer(OutputRules(k), 1, inputs)
<1>1. AbstractStates[k] = StateFrom(k, before)
  BY StatesAre, DecodedIs DEF Follows, Evaluated
<1>2. AbstractStates[k] # CheckFailure
  BY StatesAre DEF Evaluated, NoCheckFails, Range
<1>3. inputs = InputStates(k)
  <2>1. \A i \in DOMAIN Inputs(k) : IsOperationResult(Inputs(k)[i]) =>
          before[Inputs(k)[i][1]] = AbstractStates[Inputs(k)[i][1]]
    BY EarlierResults DEF Evaluated
  <2>2. QED
    BY <2>1 DEF InputStates, StateOf, Inputs
<1>4. AbstractStates[k] = IF CheckFailure \in ToSet(inputs) \/ results = CheckFailure
                          THEN CheckFailure ELSE results[1]
  BY <1>1, Zenon DEF StateFrom
<1> HIDE DEF inputs
<1>5. QED
  BY <1>2, <1>3, <1>4

\* An operation without rules has the default state, another what they make of it.
LEMMA StateIs ==
  ASSUME Evaluated, NEW k \in Operations
  PROVE  LET default == ApplyDefaultOperationTransformer(InputStates(k))
         IN  /\ CheckFailure \notin ToSet(InputStates(k)) /\ AbstractStates[k] # CheckFailure
             /\ RulesOf(k) = <<>> => AbstractStates[k] = default
             /\ RulesOf(k) # <<>> =>
                  AbstractStates[k] = ApplyOutputRules(RulesOf(k), InputStates(k), default)
<1> DEFINE inputs == InputStates(k)
           rules == OutputRules(k)
           default == ApplyDefaultOperationTransformer(inputs)
           result == IF 1 \in DOMAIN rules THEN ApplyOutputRules(rules[1], inputs, default) ELSE default
           results == ApplyOperationTransformer(rules, 1, inputs)
<1>1. /\ CheckFailure \notin ToSet(inputs) /\ AbstractStates[k] # CheckFailure
      /\ results # CheckFailure /\ AbstractStates[k] = results[1]
  BY TransformedStateIs, Zenon
<1>2. results # CheckFailure => results[1] = result
  <2> HIDE DEF rules, inputs
  <2>1. results # CheckFailure => results = [i \in 1 .. 1 |-> IF i \in DOMAIN rules
                                              THEN ApplyOutputRules(rules[i], inputs, default) ELSE default]
    BY DEF ApplyOperationTransformer
  <2> HIDE DEF results
  <2>2. QED
    BY <2>1
<1>3. RulesOf(k) = <<>> => DOMAIN rules = {}
  BY DEF OutputRules
<1>4. RulesOf(k) # <<>> => 1 \in DOMAIN rules /\ rules[1] = RulesOf(k)
  BY DEF OutputRules
<1> HIDE DEF results, rules
<1>5. QED
  BY <1>1, <1>2, <1>3, <1>4

-----------------------------------------------------------------------------
\* The preconditions of a transform's rule, as the abstract interpretation
\* finds them; what the rule then does to a tag.
Met(k) == \A p \in ToSet(Rule(k).preconditions) : Endorsed(Argument(k, p), p.tag)
Does(k, action, name) == Rule(k).action = action /\ Rule(k).tag = name
Reached(k) == InputStates(k) \in [DOMAIN Inputs(k) -> States]

\* The last of the two rules modifies a tag if the premises hold.
LEMMA OrdinaryState ==
  ASSUME Evaluated, NEW k \in Operations, IsOrdinary(k), Reached(k)
  PROVE  LET state == StateOf(Inputs(k)[1])
         IN  /\ state \in States
             /\ Met(k) => AbstractStates[k] = InterpretModifyTag(
                            ModifyTag(ModifyTagKind(Rule(k).action), tags[Rule(k).tag]), state)
             /\ ~Met(k) => AbstractStates[k] = state
<1> DEFINE state == StateOf(Inputs(k)[1])
           conclusion == ModifyTag(ModifyTagKind(Rule(k).action), tags[Rule(k).tag])
           copy == InferenceRule(CopyInput(1), {})
           modify == InferenceRule(conclusion, Premises(Rule(k), Code(k), tags))
           states == InputStates(k)
           default == ApplyDefaultOperationTransformer(states)
<1>1. /\ Decoded /\ 1 \in DOMAIN Inputs(k) /\ RulesOf(k) = <<copy, modify>>
      /\ \A p \in ToSet(Rule(k).preconditions) :
           /\ p.tag \in DOMAIN tags /\ Code(k).arguments[p.argument] + 1 \in DOMAIN Inputs(k)
  BY OrdinaryIs, Zenon DEF Evaluated, TagTransformRules
<1>2. Bottom \notin States /\ CheckFailure \notin States
  BY <1>1, StatesAreIfcTags
<1>3. \A i \in DOMAIN Inputs(k) : states[i] \in States /\ states[i] = StateOf(Inputs(k)[i])
  BY DEF Reached, InputStates
<1>4. state \in States
  BY <1>1, <1>3
<1>5. Len(Inputs(k)) \in Nat /\ DOMAIN Inputs(k) = 1 .. Len(Inputs(k))
  BY <1>1, DecodedIs
<1>6. default # CheckFailure
  <2>1. states \in [1 .. Len(Inputs(k)) -> States]
    BY <1>5 DEF Reached
  <2>2. default = MakeTags(UNION {states[i].secrecy : i \in 1 .. Len(Inputs(k))}, {})
    BY <1>2, <1>5, <2>1, DefaultIs
  <2>3. default \in States
    BY <2>1, <2>2 DEF MakeTags, States
  <2>4. QED
    BY <1>2, <2>3
<1>7. InterpretInferenceRule(copy, states, default) = state
  <2>1. copy.conclusion = CopyInput(1) /\ copy.premises = {}
    BY DEF InferenceRule
  <2>2. PremisesHold(copy, states)
    BY <2>1 DEF PremisesHold
  <2>3. CopyInput(1).type = "CopyInput" /\ CopyInput(1).index = 1
    BY DEF CopyInput
  <2> HIDE DEF copy, default
  <2>4. InterpretInferenceRule(copy, states, default) = states[1]
    BY <1>6, <2>1, <2>2, <2>3 DEF InterpretInferenceRule
  <2>5. QED
    BY <1>1, <1>3, <2>4
<1>8. PremisesHold(modify, states) <=> Met(k)
  <2>1. modify.premises = {InputHasIntegrity(Code(k).arguments[p.argument] + 1, tags[p.tag]) :
                             p \in ToSet(Rule(k).preconditions)}
    BY DEF InferenceRule, Premises
  <2>2. ASSUME NEW p \in ToSet(Rule(k).preconditions)
        PROVE  LET premise == InputHasIntegrity(Code(k).arguments[p.argument] + 1, tags[p.tag])
               IN  (IsBottom(states[premise.index]) \/ HasIntegrity(states[premise.index], premise.tag))
                     <=> Endorsed(Argument(k, p), p.tag)
    <3> DEFINE i == Code(k).arguments[p.argument] + 1
    <3>1. /\ i \in DOMAIN Inputs(k) /\ p.tag \in DOMAIN tags
          /\ states[i] \in States /\ states[i] = StateOf(Argument(k, p))
      BY <1>1, <1>3 DEF Argument
    <3>2. ~IsBottom(states[i])
      BY <1>2, <3>1 DEF IsBottom
    <3> HIDE DEF i
    <3>3. /\ InputHasIntegrity(i, tags[p.tag]).index = i
          /\ InputHasIntegrity(i, tags[p.tag]).tag = tags[p.tag]
      BY DEF InputHasIntegrity
    <3>4. (IsBottom(states[i]) \/ HasIntegrity(states[i], tags[p.tag])) <=> Endorsed(Argument(k, p), p.tag)
      BY <3>1, <3>2 DEF HasIntegrity, Endorsed
    <3>5. QED
      BY <3>3, <3>4 DEF i
  <2> HIDE DEF modify, states
  <2>3. QED
    BY <2>1, <2>2 DEF PremisesHold, Met
<1>9. InterpretInferenceRule(modify, states, state) =
        IF Met(k) THEN InterpretModifyTag(conclusion, state) ELSE state
  <2>1. modify.conclusion = conclusion /\ conclusion.type = "ModifyTag"
    BY DEF InferenceRule, ModifyTag
  <2>2. state # CheckFailure
    BY <1>2, <1>4
  <2> HIDE DEF modify, conclusion, state, states
  <2>3. QED
    BY <1>8, <2>1, <2>2 DEF InterpretInferenceRule
<1>10. AbstractStates[k] = ApplyOutputRules(<<copy, modify>>, states, default)
  <2>1. RulesOf(k) # <<>>
    <3> HIDE DEF copy, modify
    <3>1. <<copy, modify>> # <<>>
      OBVIOUS
    <3>2. QED
      BY <1>1, <3>1
  <2>2. QED
    BY <1>1, <2>1, StateIs, Zenon
<1> HIDE DEF copy, modify, state, states, default, conclusion
<1>11. AbstractStates[k] = IF Met(k) THEN InterpretModifyTag(conclusion, state) ELSE state
  <2>1. ApplyOutputRules(<<copy, modify>>, states, default) =
          InterpretInferenceRule(modify, states, InterpretInferenceRule(copy, states, default))
    BY FewRules
  <2>2. QED
    BY <1>7, <1>9, <1>10, <2>1
<1>12. QED
  BY <1>4, <1>11 DEF state, conclusion

\* Without rules the secrecy of all inputs comes together, and no integrity.
LEMMA PlainState ==
  ASSUME Evaluated, NEW k \in Operations, RulesOf(k) = <<>>, Reached(k)
  PROVE  AbstractStates[k] =
           MakeTags(UNION {StateOf(Inputs(k)[i]).secrecy : i \in DOMAIN Inputs(k)}, {})
<1>1. /\ Len(Inputs(k)) \in Nat /\ DOMAIN Inputs(k) = 1 .. Len(Inputs(k)) /\ Bottom \notin States
  BY DecodedIs, StatesAreIfcTags DEF Evaluated
<1>2. InputStates(k) \in [1 .. Len(Inputs(k)) -> States]
  BY <1>1 DEF Reached
<1>3. ApplyDefaultOperationTransformer(InputStates(k)) =
        MakeTags(UNION {InputStates(k)[i].secrecy : i \in 1 .. Len(Inputs(k))}, {})
  BY <1>1, <1>2, DefaultIs
<1>4. AbstractStates[k] = ApplyDefaultOperationTransformer(InputStates(k))
  BY StateIs, Zenon
<1>5. {InputStates(k)[i].secrecy : i \in 1 .. Len(Inputs(k))} =
        {StateOf(Inputs(k)[i]).secrecy : i \in DOMAIN Inputs(k)}
  BY <1>1 DEF InputStates
<1>6. QED
  BY <1>3, <1>4, <1>5

\* The integrity a special transform gives to a merge, from the direct inputs.
MergedIntegrity(rule, sets) ==
  IF rule = UnionItagRule THEN UNION sets ELSE {t \in UNION sets : \A I \in sets : t \in I}

DirectIntegrity(k) ==
  {StateOf(Inputs(k)[i]).integrity : i \in 1 .. Code(k).controlInputStart}

LEMMA MergedState ==
  ASSUME Evaluated, NEW k \in Operations, Code(k).operator = "sql.merge", Reached(k),
         NEW j \in Transforming(k)
  PROVE  /\ 1 .. Code(k).controlInputStart \subseteq DOMAIN Inputs(k)
         /\ AbstractStates[k] =
              MakeTags(UNION {StateOf(Inputs(k)[i]).secrecy : i \in DOMAIN Inputs(k)},
                       MergedIntegrity(Code(j).rule, DirectIntegrity(k)))
<1> DEFINE states == InputStates(k)
           default == ApplyDefaultOperationTransformer(states)
           kind == IF Code(j).rule = UnionItagRule THEN "kUnion" ELSE "kIntersect"
           direct == 1 .. Code(k).controlInputStart
           conclusion == MergeIntegrityTags(kind, direct)
           rule == InferenceRule(conclusion, {})
           sets == {states[i].integrity : i \in direct}
<1>1. /\ Len(Inputs(k)) \in Nat /\ DOMAIN Inputs(k) = 1 .. Len(Inputs(k))
      /\ Bottom \notin States /\ CheckFailure \notin States /\ Decoded
  BY DecodedIs, StatesAreIfcTags DEF Evaluated
<1>2. states \in [1 .. Len(Inputs(k)) -> States]
  BY <1>1 DEF Reached
<1>3. default = MakeTags(UNION {states[i].secrecy : i \in 1 .. Len(Inputs(k))}, {})
  BY <1>1, <1>2, DefaultIs
<1>4. default \in States
  BY <1>2, <1>3 DEF MakeTags, States
<1>5. RulesOf(k) = <<rule>>
  BY <1>1, MergeIs, Zenon DEF MergeRules
<1>6. AbstractStates[k] = ApplyOutputRules(<<rule>>, states, default)
  <2>1. RulesOf(k) # <<>>
    <3> HIDE DEF rule
    <3>1. <<rule>> # <<>>
      OBVIOUS
    <3>2. QED
      BY <1>5, <3>1
  <2>2. QED
    BY <1>5, <2>1, StateIs, Zenon
<1>7. AbstractStates[k] = InterpretInferenceRule(rule, states, default)
  <2> HIDE DEF rule, states, default
  <2>1. ApplyOutputRules(<<rule>>, states, default) = InterpretInferenceRule(rule, states, default)
    BY FewRules
  <2>2. QED
    BY <1>6, <2>1
<1>8. InterpretInferenceRule(rule, states, default) = InterpretMergeIntegrityTags(conclusion, states, default)
  <2>1. rule.conclusion = conclusion /\ rule.premises = {} /\ conclusion.type = "MergeIntegrityTags"
    BY DEF InferenceRule, MergeIntegrityTags
  <2>2. PremisesHold(rule, states)
    BY <2>1 DEF PremisesHold
  <2>3. default # CheckFailure
    BY <1>1, <1>4
  <2> HIDE DEF rule, conclusion, default, states
  <2>4. QED
    BY <2>1, <2>2, <2>3 DEF InterpretInferenceRule
<1>9. AbstractStates[k] # CheckFailure
  BY StateIs, Zenon
<1>10. ~IsBottom(default) /\ Bottom \notin ToSet(states)
  BY <1>1, <1>2, <1>4 DEF IsBottom, ToSet
<1>11. conclusion.kind = kind /\ conclusion.indices = direct
  BY DEF MergeIntegrityTags
<1>12. DOMAIN states = DOMAIN Inputs(k)
  BY DEF InputStates
<1>13. /\ direct \subseteq DOMAIN Inputs(k)
       /\ AbstractStates[k] = MakeTags(default.secrecy,
            IF kind = "kUnion" THEN UNION sets
            ELSE {t \in UNION sets : \A I \in sets : t \in I})
  <2> HIDE DEF states, default, conclusion, direct, kind, rule
  <2>1. AbstractStates[k] = InterpretMergeIntegrityTags(conclusion, states, default)
    BY <1>7, <1>8
  <2>2. direct \subseteq DOMAIN states
    BY <1>9, <1>10, <1>11, <2>1 DEF InterpretMergeIntegrityTags
  <2>3. QED
    BY <1>10, <1>11, <1>12, <2>1, <2>2 DEF InterpretMergeIntegrityTags
<1>14. sets = DirectIntegrity(k)
  <2>1. \A i \in direct : states[i] = StateOf(Inputs(k)[i])
    BY <1>13 DEF InputStates
  <2>2. QED
    BY <2>1 DEF DirectIntegrity
<1>15. default.secrecy = UNION {StateOf(Inputs(k)[i]).secrecy : i \in DOMAIN Inputs(k)}
  <2>1. \A i \in 1 .. Len(Inputs(k)) : states[i] = StateOf(Inputs(k)[i])
    BY <1>1 DEF InputStates
  <2>2. {states[i].secrecy : i \in 1 .. Len(Inputs(k))} = {StateOf(Inputs(k)[i]).secrecy : i \in DOMAIN Inputs(k)}
    BY <1>1, <2>1
  <2>3. default.secrecy = UNION {states[i].secrecy : i \in 1 .. Len(Inputs(k))}
    <3> HIDE DEF default, states
    <3>1. QED
      BY <1>3 DEF MakeTags
  <2>4. QED
    BY <2>2, <2>3
<1>16. kind = "kUnion" <=> Code(j).rule = UnionItagRule
  OBVIOUS
<1> HIDE DEF states, default, kind, sets
<1>17. QED
  BY <1>13, <1>14, <1>15, <1>16 DEF MergedIntegrity

-----------------------------------------------------------------------------
\* What a rule does to a state of tags with ids is one.
LEMMA ModifiedState ==
  ASSUME Decoded, NEW state \in States, NEW name \in DOMAIN tags,
         NEW action \in {"ADD_CONFIDENTIALITY", "REMOVE_CONFIDENTIALITY", "ADD_INTEGRITY"}
  PROVE  LET after == InterpretModifyTag(ModifyTag(ModifyTagKind(action), tags[name]), state)
         IN  /\ after \in States
             /\ action = "ADD_CONFIDENTIALITY" =>
                  after.secrecy = state.secrecy \cup {tags[name]} /\ after.integrity = state.integrity
             /\ action = "REMOVE_CONFIDENTIALITY" =>
                  after.secrecy = state.secrecy \ {tags[name]} /\ after.integrity = state.integrity
             /\ action = "ADD_INTEGRITY" =>
                  after.secrecy = state.secrecy /\ after.integrity = state.integrity \cup {tags[name]}
<1> DEFINE id == tags[name]
           conclusion == ModifyTag(ModifyTagKind(action), id)
           after == InterpretModifyTag(conclusion, state)
<1>1. id \in Ids
  BY DEF Ids
<1>2. ~IsBottom(state)
  BY StatesAreIfcTags DEF IsBottom
<1>3. conclusion.kind = ModifyTagKind(action) /\ conclusion.tag = id
  BY DEF ModifyTag
<1>4. /\ state.secrecy \in SUBSET Ids /\ state.integrity \in SUBSET Ids
      /\ state = [secrecy |-> state.secrecy, integrity |-> state.integrity]
  BY DEF States
<1> HIDE DEF id, conclusion
<1>5. CASE action = "ADD_CONFIDENTIALITY"
  <2>1. after = [secrecy |-> state.secrecy \cup {id}, integrity |-> state.integrity]
    BY <1>2, <1>3, <1>4, <1>5 DEF InterpretModifyTag, ModifyTagKind, SetSecrecy
  <2>2. after \in States
    BY <1>1, <1>4, <2>1 DEF States
  <2>3. QED
    BY <1>5, <2>1, <2>2 DEF id, conclusion
<1>6. CASE action = "REMOVE_CONFIDENTIALITY"
  <2>1. after = [secrecy |-> state.secrecy \ {id}, integrity |-> state.integrity]
    BY <1>2, <1>3, <1>4, <1>6 DEF InterpretModifyTag, ModifyTagKind, ClearSecrecy
  <2>2. after \in States
    BY <1>1, <1>4, <2>1 DEF States
  <2>3. QED
    BY <1>6, <2>1, <2>2 DEF id, conclusion
<1>7. CASE action = "ADD_INTEGRITY"
  <2>1. after = [secrecy |-> state.secrecy, integrity |-> state.integrity \cup {id}]
    BY <1>2, <1>3, <1>4, <1>7 DEF InterpretModifyTag, ModifyTagKind, SetIntegrity
  <2>2. after \in States
    BY <1>1, <1>4, <2>1 DEF States
  <2>3. QED
    BY <1>7, <2>1, <2>2 DEF id, conclusion
<1>8. QED
  BY <1>5, <1>6, <1>7

\* Every state is of tags that have an id, that of every input as well.
LEMMA AllReached ==
  ASSUME Evaluated
  PROVE  /\ \A k \in Operations : AbstractStates[k] \in States /\ Reached(k)
         /\ \A v : StateOf(v) \in States
<1> DEFINE n == Len(query.code)
           T == {m \in 0 .. n : \A k \in 1 .. m : AbstractStates[k] \in States}
<1>1. Decoded /\ n \in Nat /\ Operations = 1 .. n
  BY DecodedIs DEF Evaluated
<1>2. ASSUME NEW v, ~IsOperationResult(v) PROVE StateOf(v) \in States
  BY <1>2 DEF StateOf, GetInitialState, MakeTags, States
<1>3. ASSUME NEW k \in Operations, \A j \in 1 .. k - 1 : AbstractStates[j] \in States
      PROVE  Reached(k)
  <2>1. ASSUME NEW i \in DOMAIN Inputs(k) PROVE StateOf(Inputs(k)[i]) \in States
    BY <1>1, <1>2, <1>3, EarlierResults DEF StateOf
  <2>2. QED
    BY <2>1 DEF Reached, InputStates
<1>4. ASSUME NEW k \in Operations, Reached(k)
      PROVE  AbstractStates[k] \in States
  <2>1. \A i \in DOMAIN Inputs(k) : StateOf(Inputs(k)[i]) \in States
    BY <1>4 DEF Reached, InputStates
  <2> DEFINE secrecies == {StateOf(Inputs(k)[i]).secrecy : i \in DOMAIN Inputs(k)}
  <2>2. UNION secrecies \in SUBSET Ids
    BY <2>1 DEF States
  <2> HIDE DEF secrecies
  <2>3. CASE RulesOf(k) = <<>>
    <3>1. AbstractStates[k] = MakeTags(UNION secrecies, {})
      BY <1>4, <2>3, PlainState DEF secrecies
    <3>2. QED
      BY <2>2, <3>1 DEF MakeTags, States
  <2>4. CASE IsOrdinary(k)
    <3>1. Rule(k).tag \in DOMAIN tags
          /\ Rule(k).action \in {"ADD_CONFIDENTIALITY", "REMOVE_CONFIDENTIALITY", "ADD_INTEGRITY"}
      BY <1>1, <2>4, OrdinaryIs
    <3>2. StateOf(Inputs(k)[1]) \in States
      BY <1>1, <2>1, <2>4, OrdinaryIs
    <3>3. InterpretModifyTag(ModifyTag(ModifyTagKind(Rule(k).action), tags[Rule(k).tag]),
                             StateOf(Inputs(k)[1])) \in States
      BY <1>1, <3>1, <3>2, ModifiedState, Zenon
    <3>4. QED
      BY <1>4, <2>4, <3>2, <3>3, OrdinaryState
  <2>5. CASE Code(k).operator = "sql.merge" /\ Transforming(k) # {}
    <3>1. PICK j \in Transforming(k) : TRUE
      BY <2>5
    <3>2. /\ 1 .. Code(k).controlInputStart \subseteq DOMAIN Inputs(k)
          /\ AbstractStates[k] =
               MakeTags(UNION secrecies, MergedIntegrity(Code(j).rule, DirectIntegrity(k)))
      BY <1>4, <2>5, <3>1, MergedState DEF secrecies
    <3>3. UNION DirectIntegrity(k) \in SUBSET Ids
      BY <2>1, <3>2 DEF DirectIntegrity, States
    <3>4. MergedIntegrity(Code(j).rule, DirectIntegrity(k)) \in SUBSET Ids
      BY <3>3 DEF MergedIntegrity
    <3>5. QED
      BY <2>2, <3>2, <3>4 DEF MakeTags, States
  <2>6. QED
    BY <1>1, <2>3, <2>4, <2>5, OperationKinds, SpecialIs, MergeIs, OtherIs
<1>5. 0 \in T
  BY <1>1
<1>6. ASSUME NEW m \in 1 .. n, m - 1 \in T PROVE m \in T
  <2>1. \A k \in 1 .. m - 1 : AbstractStates[k] \in States
    BY <1>6
  <2>2. AbstractStates[m] \in States
    BY <1>1, <1>3, <1>4, <2>1
  <2>3. QED
    BY <1>1, <2>1, <2>2
<1>7. n \in T
  <2> HIDE DEF T
  <2>1. 0 .. n \subseteq T
    BY <1>1, <1>5, <1>6, FiniteInduction
  <2>2. QED
    BY <1>1, <2>1
<1>8. \A k \in Operations : AbstractStates[k] \in States
  BY <1>1, <1>7
<1>9. ASSUME NEW v PROVE StateOf(v) \in States
  <2>1. CASE IsOperationResult(v)
    BY <1>8, <2>1 DEF StateOf, IsOperationResult
  <2>2. QED
    BY <1>2, <2>1
<1>10. QED
  BY <1>1, <1>3, <1>8, <1>9

-----------------------------------------------------------------------------
\* Two tags have two ids, and an id is of a tag.
LEMMA IdsDiffer ==
  ASSUME Decoded, NEW a \in DOMAIN tags, NEW b \in DOMAIN tags, tags[a] = tags[b]
  PROVE  a = b
<1>1. Agree(tagNames, tags) /\ DOMAIN tags = ToSet(tagNames) /\ DOMAIN tagNames = 1 .. Len(tagNames)
      /\ Len(tagNames) \in Nat
  BY DecodedIs DEF Agree
<1>2. PICK i \in DOMAIN tagNames, j \in DOMAIN tagNames : a = tagNames[i] /\ b = tagNames[j]
  BY <1>1 DEF ToSet
<1>3. tags[a] = i - 1 /\ tags[b] = j - 1
  BY <1>1, <1>2 DEF Agree
<1>4. QED
  BY <1>1, <1>2, <1>3

\* The value that a transform transforms.
Transformed(k) == Inputs(k)[1]

LEMMA ResultState ==
  ASSUME NEW k \in Operations
  PROVE  StateOf(<<k, 1>>) = AbstractStates[k]
<1>1. IsOperationResult(<<k, 1>>) /\ <<k, 1>>[1] = k
  BY DEF IsOperationResult
<1>2. QED
  BY <1>1 DEF StateOf

\* A transform passes tags on, except for what its rule does to one.
LEMMA OrdinaryTags ==
  ASSUME Evaluated, NEW k \in Operations, IsOrdinary(k), NEW name
  PROVE  /\ Secret(<<k, 1>>, name) <=>
              \/ /\ Secret(Transformed(k), name)
                 /\ ~(Does(k, "REMOVE_CONFIDENTIALITY", name) /\ Met(k))
              \/ Does(k, "ADD_CONFIDENTIALITY", name) /\ Met(k)
         /\ Endorsed(<<k, 1>>, name) <=>
              \/ Endorsed(Transformed(k), name)
              \/ Does(k, "ADD_INTEGRITY", name) /\ Met(k)
<1> DEFINE state == StateOf(Transformed(k))
           after == InterpretModifyTag(ModifyTag(ModifyTagKind(Rule(k).action), tags[Rule(k).tag]), state)
           action == Rule(k).action
           id == tags[Rule(k).tag]
<1>1. /\ Decoded /\ Rule(k).tag \in DOMAIN tags
      /\ action \in {"ADD_CONFIDENTIALITY", "REMOVE_CONFIDENTIALITY", "ADD_INTEGRITY"}
  BY OrdinaryIs DEF Evaluated
<1>2. /\ state \in States
      /\ Met(k) => AbstractStates[k] = after
      /\ ~Met(k) => AbstractStates[k] = state
  BY AllReached, OrdinaryState DEF Transformed
<1>3. /\ action = "ADD_CONFIDENTIALITY" =>
           after.secrecy = state.secrecy \cup {id} /\ after.integrity = state.integrity
      /\ action = "REMOVE_CONFIDENTIALITY" =>
           after.secrecy = state.secrecy \ {id} /\ after.integrity = state.integrity
      /\ action = "ADD_INTEGRITY" =>
           after.secrecy = state.secrecy /\ after.integrity = state.integrity \cup {id}
  <2>1. state \in States
    BY <1>2
  <2>2. QED
    BY <1>1, <2>1, ModifiedState
<1>4. StateOf(<<k, 1>>) = AbstractStates[k]
  BY ResultState
<1>5. name \in DOMAIN tags => (tags[name] = id <=> Rule(k).tag = name)
  BY <1>1, IdsDiffer
<1>6. \A a : Does(k, a, name) <=> action = a /\ Rule(k).tag = name
  BY DEF Does
<1>7. /\ Secret(Transformed(k), name) <=> name \in DOMAIN tags /\ tags[name] \in state.secrecy
      /\ Endorsed(Transformed(k), name) <=> name \in DOMAIN tags /\ tags[name] \in state.integrity
      /\ Secret(<<k, 1>>, name) <=> name \in DOMAIN tags /\ tags[name] \in AbstractStates[k].secrecy
      /\ Endorsed(<<k, 1>>, name) <=> name \in DOMAIN tags /\ tags[name] \in AbstractStates[k].integrity
  BY <1>4 DEF Secret, Endorsed
<1> HIDE DEF state, after, action, id
<1>8. CASE ~Met(k)
  BY <1>2, <1>7, <1>8
<1>9. CASE Met(k) /\ action = "ADD_CONFIDENTIALITY"
  <2>1. AbstractStates[k].secrecy = state.secrecy \cup {id} /\ AbstractStates[k].integrity = state.integrity
    BY <1>2, <1>3, <1>9
  <2>2. QED
    BY <1>1, <1>5, <1>6, <1>7, <1>9, <2>1
<1>10. CASE Met(k) /\ action = "REMOVE_CONFIDENTIALITY"
  <2>1. AbstractStates[k].secrecy = state.secrecy \ {id} /\ AbstractStates[k].integrity = state.integrity
    BY <1>2, <1>3, <1>10
  <2>2. QED
    BY <1>1, <1>5, <1>6, <1>7, <1>10, <2>1
<1>11. CASE Met(k) /\ action = "ADD_INTEGRITY"
  <2>1. AbstractStates[k].secrecy = state.secrecy /\ AbstractStates[k].integrity = state.integrity \cup {id}
    BY <1>2, <1>3, <1>11
  <2>2. QED
    BY <1>1, <1>5, <1>6, <1>7, <1>11, <2>1
<1>12. QED
  BY <1>1, <1>8, <1>9, <1>10, <1>11

\* Whatever else reads a secret makes one; integrity ends, except at a merge
\* that a special transform is for.
LEMMA PlainTags ==
  ASSUME Evaluated, NEW k \in Operations, RulesOf(k) = <<>>, NEW name
  PROVE  /\ Secret(<<k, 1>>, name) <=> \E i \in DOMAIN Inputs(k) : Secret(Inputs(k)[i], name)
         /\ ~Endorsed(<<k, 1>>, name)
<1>1. StateOf(<<k, 1>>) = MakeTags(UNION {StateOf(Inputs(k)[i]).secrecy : i \in DOMAIN Inputs(k)}, {})
  BY AllReached, PlainState, ResultState
<1>2. /\ StateOf(<<k, 1>>).secrecy = UNION {StateOf(Inputs(k)[i]).secrecy : i \in DOMAIN Inputs(k)}
      /\ StateOf(<<k, 1>>).integrity = {}
  BY <1>1 DEF MakeTags
<1>3. QED
  BY <1>2 DEF Secret, Endorsed

LEMMA MergedTags ==
  ASSUME Evaluated, NEW k \in Operations, Code(k).operator = "sql.merge",
         NEW j \in Transforming(k), NEW name
  PROVE  LET direct == 1 .. Code(k).controlInputStart
         IN  /\ direct \subseteq DOMAIN Inputs(k)
             /\ Secret(<<k, 1>>, name) <=> \E i \in DOMAIN Inputs(k) : Secret(Inputs(k)[i], name)
             /\ Endorsed(<<k, 1>>, name) <=>
                  /\ \E i \in direct : Endorsed(Inputs(k)[i], name)
                  /\ Code(j).rule = UnionItagRule \/ \A i \in direct : Endorsed(Inputs(k)[i], name)
<1> DEFINE direct == 1 .. Code(k).controlInputStart
           sets == DirectIntegrity(k)
           secrecies == {StateOf(Inputs(k)[i]).secrecy : i \in DOMAIN Inputs(k)}
           merged == MergedIntegrity(Code(j).rule, sets)
<1>1. /\ direct \subseteq DOMAIN Inputs(k)
      /\ StateOf(<<k, 1>>) = MakeTags(UNION secrecies, merged)
  BY AllReached, MergedState, ResultState
<1>2. StateOf(<<k, 1>>).secrecy = UNION secrecies /\ StateOf(<<k, 1>>).integrity = merged
  BY <1>1 DEF MakeTags
<1>3. Secret(<<k, 1>>, name) <=> \E i \in DOMAIN Inputs(k) : Secret(Inputs(k)[i], name)
  BY <1>2 DEF Secret
<1>4. \A t : /\ t \in UNION sets <=> \E i \in direct : t \in StateOf(Inputs(k)[i]).integrity
             /\ (\A I \in sets : t \in I) <=> \A i \in direct : t \in StateOf(Inputs(k)[i]).integrity
  BY DEF DirectIntegrity
<1>5. \A t : t \in merged <=> t \in UNION sets /\ (Code(j).rule = UnionItagRule \/ \A I \in sets : t \in I)
  <2> HIDE DEF sets
  <2>1. QED
    BY DEF MergedIntegrity
<1>6. Endorsed(<<k, 1>>, name) <=> name \in DOMAIN tags /\ tags[name] \in merged
  BY <1>2 DEF Endorsed
<1>7. \A i \in direct : Endorsed(Inputs(k)[i], name) <=>
                          name \in DOMAIN tags /\ tags[name] \in StateOf(Inputs(k)[i]).integrity
  BY DEF Endorsed
<1> HIDE DEF sets, merged, secrecies
<1>8. Endorsed(<<k, 1>>, name) <=>
        /\ \E i \in direct : Endorsed(Inputs(k)[i], name)
        /\ Code(j).rule = UnionItagRule \/ \A i \in direct : Endorsed(Inputs(k)[i], name)
  BY <1>4, <1>5, <1>6, <1>7
<1>9. QED
  BY <1>1, <1>3, <1>8

\* A value that is no result has no tags.
LEMMA OutsideTags ==
  ASSUME NEW v, ~IsOperationResult(v), NEW name
  PROVE  ~Secret(v, name) /\ ~Endorsed(v, name)
BY DEF Secret, Endorsed, StateOf, GetInitialState, MakeTags

-----------------------------------------------------------------------------
\* The Datalog program's facts are finitely many, and more of them give more.
LEMMA TagFactsFinite ==
  ASSUME NEW ops, NEW rules, IsFiniteSet(ops), IsFiniteSet(rules)
  PROVE  IsFiniteSet(TagFacts(ops, rules))
<1>1. [op \in ops |-> op.result] \in Surjection(ops, {op.result : op \in ops})
  BY DEF Surjection
<1>2. [r \in rules |-> r.result.tag] \in Surjection(rules, {r.result.tag : r \in rules})
  BY DEF Surjection
<1>3. QED
  BY <1>1, <1>2, FS_Surjection, FS_Product DEF TagFacts

LEMMA IntegrityDerivation ==
  ASSUME NEW ops, NEW rules, IsFiniteSet(ops), IsFiniteSet(rules)
  PROVE  IsDerivation(IntegrityStep(ops, rules), TagFacts(ops, rules))
<1> DEFINE facts == TagFacts(ops, rules)
           step == IntegrityStep(ops, rules)
           derived(op, K) == DerivedIntegrity(ops, rules, op, K)
<1>1. ASSUME NEW K \in SUBSET facts, NEW op \in ops
      PROVE  derived(op, K) \subseteq {r.result.tag : r \in rules}
  <2>1. {h[2] : h \in K} \subseteq {r.result.tag : r \in rules}
    BY DEF TagFacts
  <2>2. PropagatedTags(ops, op.result, K) \subseteq {h[2] : h \in K}
    BY DEF PropagatedTags
  <2>3. UnionedTags(op, K) \subseteq {h[2] : h \in K}
    BY DEF UnionedTags
  <2>4. IntersectedTags(op, K) \subseteq UnionedTags(op, K)
    BY DEF IntersectedTags
  <2>5. TagsByRule(op, "AddIntegrityTag", rules, K) \subseteq {r.result.tag : r \in rules}
    BY DEF TagsByRule, RulesNamed
  <2>6. QED
    BY <2>1, <2>2, <2>3, <2>4, <2>5 DEF DerivedIntegrity
<1>2. ASSUME NEW K \in SUBSET facts, NEW L \in SUBSET facts, K \subseteq L, NEW op \in ops
      PROVE  derived(op, K) \subseteq derived(op, L)
  <2>1. PropagatedTags(ops, op.result, K) \subseteq PropagatedTags(ops, op.result, L)
    BY <1>2 DEF PropagatedTags
  <2>2. UnionedTags(op, K) \subseteq UnionedTags(op, L)
    BY <1>2 DEF UnionedTags
  <2>3. IntersectedTags(op, K) \subseteq IntersectedTags(op, L)
    BY <1>2, <2>2 DEF IntersectedTags
  <2>4. AllPreconditionsMet(op, rules, K) => AllPreconditionsMet(op, rules, L)
    BY <1>2 DEF AllPreconditionsMet, IsMet
  <2>5. TagsByRule(op, "AddIntegrityTag", rules, K) \subseteq TagsByRule(op, "AddIntegrityTag", rules, L)
    BY <2>4 DEF TagsByRule
  <2>6. QED
    BY <2>1, <2>2, <2>3, <2>5 DEF DerivedIntegrity
<1>3. step = [K \in SUBSET facts |-> UNION {{op.result} \X derived(op, K) : op \in ops}]
  BY DEF IntegrityStep
<1> HIDE DEF step, derived
<1>4. \A K \in SUBSET facts : step[K] \in SUBSET facts
  BY <1>1, <1>3 DEF TagFacts
<1>5. ASSUME NEW K \in SUBSET facts, NEW L \in SUBSET facts, K \subseteq L
      PROVE  step[K] \subseteq step[L]
  BY <1>2, <1>3, <1>5
<1>6. IsFiniteSet(facts)
  BY TagFactsFinite
<1> HIDE DEF facts
<1>7. step \in [SUBSET facts -> SUBSET facts]
  BY <1>3, <1>4
<1>8. QED
  BY <1>5, <1>6, <1>7 DEF IsDerivation, step, facts

LEMMA FlowDerivation ==
  ASSUME NEW ops, NEW rules, IsFiniteSet(ops), IsFiniteSet(rules)
  PROVE  IsDerivation(FlowStep(ops, rules), TagFacts(ops, rules))
<1> DEFINE facts == TagFacts(ops, rules)
           step == FlowStep(ops, rules)
           removed == TagsOf("RemoveConfidentialityTag", ops, rules)
           flowing(op, K) == FlowingTags(ops, op.result, K)
<1>1. ASSUME NEW K \in SUBSET facts, NEW op \in ops
      PROVE  flowing(op, K) \subseteq {r.result.tag : r \in rules}
  <2>1. {h[2] : h \in K} \subseteq {r.result.tag : r \in rules}
    BY DEF TagFacts
  <2>2. QED
    BY <2>1 DEF FlowingTags
<1>2. ASSUME NEW K \in SUBSET facts, NEW L \in SUBSET facts, K \subseteq L, NEW op \in ops
      PROVE  flowing(op, K) \subseteq flowing(op, L)
  BY <1>2 DEF FlowingTags
<1>3. step = [K \in SUBSET facts |-> (UNION {{op.result} \X flowing(op, K) : op \in ops}) \ removed]
  BY DEF FlowStep
<1> HIDE DEF step, flowing, removed
<1>4. \A K \in SUBSET facts : step[K] \in SUBSET facts
  BY <1>1, <1>3 DEF TagFacts
<1>5. ASSUME NEW K \in SUBSET facts, NEW L \in SUBSET facts, K \subseteq L
      PROVE  step[K] \subseteq step[L]
  <2>1. /\ step[K] = (UNION {{op.result} \X flowing(op, K) : op \in ops}) \ removed
        /\ step[L] = (UNION {{op.result} \X flowing(op, L) : op \in ops}) \ removed
    BY <1>3
  <2>2. UNION {{op.result} \X flowing(op, K) : op \in ops} \subseteq
          UNION {{op.result} \X flowing(op, L) : op \in ops}
    BY <1>2, <1>5
  <2>3. QED
    BY <2>1, <2>2
<1>6. IsFiniteSet(facts)
  BY TagFactsFinite
<1> HIDE DEF facts
<1>7. step \in [SUBSET facts -> SUBSET facts]
  BY <1>3, <1>4
<1>8. QED
  BY <1>5, <1>6, <1>7 DEF IsDerivation, step, facts

\* What has integrity has it by a rule from what has.
LEMMA MustHaveIs ==
  ASSUME NEW ops, NEW rules, IsFiniteSet(ops), IsFiniteSet(rules), NEW v, NEW tag
  PROVE  LET known == MustHaveIntegrityTag(ops, rules)
         IN  <<v, tag>> \in known <=>
               \E op \in ops : op.result = v /\ tag \in DerivedIntegrity(ops, rules, op, known)
<1> DEFINE known == MustHaveIntegrityTag(ops, rules)
           step == IntegrityStep(ops, rules)
<1>1. known \in SUBSET TagFacts(ops, rules) /\ known = {} \cup step[known]
  BY IntegrityDerivation, DerivedIs DEF MustHaveIntegrityTag
<1>2. step = [K \in SUBSET TagFacts(ops, rules) |->
                UNION {{op.result} \X DerivedIntegrity(ops, rules, op, K) : op \in ops}]
  BY DEF IntegrityStep
<1> HIDE DEF step, known
<1>3. known = UNION {{op.result} \X DerivedIntegrity(ops, rules, op, known) : op \in ops}
  BY <1>1, <1>2
<1>4. <<v, tag>> \in known <=>
        \E op \in ops : op.result = v /\ tag \in DerivedIntegrity(ops, rules, op, known)
  BY <1>3
<1>5. QED
  BY <1>4 DEF known

\* What may have a tag has been given it, or it flows there and stays.
LEMMA MayHaveIs ==
  ASSUME NEW ops, NEW rules, IsFiniteSet(ops), IsFiniteSet(rules), NEW v, NEW tag
  PROVE  LET may == MayHaveTag(ops, rules)
         IN  <<v, tag>> \in may <=>
               \/ <<v, tag>> \in TagsOf("AddConfidentialityTag", ops, rules)
               \/ /\ \E op \in ops : op.result = v /\ tag \in FlowingTags(ops, v, may)
                  /\ <<v, tag>> \notin TagsOf("RemoveConfidentialityTag", ops, rules)
<1> DEFINE may == MayHaveTag(ops, rules)
           step == FlowStep(ops, rules)
           added == TagsOf("AddConfidentialityTag", ops, rules)
           removed == TagsOf("RemoveConfidentialityTag", ops, rules)
<1>1. added \in SUBSET TagFacts(ops, rules)
  BY DEF TagsOf, TagsByRule, RulesNamed, TagFacts
<1>2. may \in SUBSET TagFacts(ops, rules) /\ may = added \cup step[may]
  BY <1>1, FlowDerivation, DerivedIs DEF MayHaveTag
<1>3. step = [K \in SUBSET TagFacts(ops, rules) |->
                (UNION {{op.result} \X FlowingTags(ops, op.result, K) : op \in ops}) \ removed]
  BY DEF FlowStep
<1> HIDE DEF step, may, added, removed
<1>4. may = added \cup ((UNION {{op.result} \X FlowingTags(ops, op.result, may) : op \in ops}) \ removed)
  BY <1>2, <1>3
<1>5. <<v, tag>> \in may <=>
        \/ <<v, tag>> \in added
        \/ /\ \E op \in ops : op.result = v /\ tag \in FlowingTags(ops, v, may)
           /\ <<v, tag>> \notin removed
  <2>1. <<v, tag>> \in UNION {{op.result} \X FlowingTags(ops, op.result, may) : op \in ops} <=>
          \E op \in ops : op.result = v /\ tag \in FlowingTags(ops, op.result, may)
    OBVIOUS
  <2> DEFINE flowing == UNION {{op.result} \X FlowingTags(ops, op.result, may) : op \in ops}
  <2>2. <<v, tag>> \in may <=>
          <<v, tag>> \in added \/ (<<v, tag>> \in flowing /\ <<v, tag>> \notin removed)
    <3> HIDE DEF flowing
    <3>1. may = added \cup (flowing \ removed)
      BY <1>4 DEF flowing
    <3>2. QED
      BY <3>1
  <2>3. QED
    BY <2>1, <2>2
<1>6. QED
  BY <1>5 DEF may, added, removed

-----------------------------------------------------------------------------
\* The facts of an operation, of the output and of a rule.
FactOf(k) == Fact(Code(k).operator, k, Inputs(k), Attributes(Code(k)))
OutputFact == Fact("sql.sql_output", Len(query.code) + 1, <<<<Len(query.code), 1>>>>, <<>>)
RuleFact(r) ==
  SqlPolicyRule(r.name, SqlPolicyRuleResult(ResultKind(r.action), r.tag),
                [i \in DOMAIN r.preconditions |->
                   SqlPolicyRulePrecondition(r.preconditions[i].argument, r.preconditions[i].tag)])

LEMMA FactIs ==
  /\ \A k : /\ FactOf(k).operator = Code(k).operator /\ FactOf(k).result = <<k, 1>>
            /\ FactOf(k).operands = Inputs(k) /\ FactOf(k).attributes = Attributes(Code(k))
  /\ OutputFact.operator = "sql.sql_output" /\ OutputFact.result = <<Len(query.code) + 1, 1>>
  /\ OutputFact.operands = <<<<Len(query.code), 1>>>>
BY DEF FactOf, OutputFact, Fact

\* One fact for each result, and one for the output.
LEMMA FactsAre ==
  ASSUME Decoded
  PROVE  /\ IsFiniteSet(OperationFacts) /\ IsFiniteSet(RuleFacts)
         /\ OutputFact \in OperationFacts /\ \A k \in Operations : FactOf(k) \in OperationFacts
         /\ \A op \in OperationFacts : op = OutputFact \/ \E k \in Operations : op = FactOf(k)
         /\ \A op \in OperationFacts : \A k \in Operations : op.result = <<k, 1>> => op = FactOf(k)
         /\ \A op \in OperationFacts : op.result = <<Len(query.code) + 1, 1>> => op = OutputFact
<1> DEFINE n == Len(query.code)
           known == {q \in ToSet(query.policy) : q.action # "UNKNOWN"}
<1>1. n \in Nat /\ Operations = 1 .. n /\ query \in Queries
  BY DecodedIs
<1>2. OperationFacts = {FactOf(k) : k \in Operations} \cup {OutputFact}
  BY DEF OperationFacts, FactOf, OutputFact, Inputs
<1>3. RuleFacts = {RuleFact(r) : r \in known}
  BY DEF RuleFacts, RuleFact
<1>4. IsFiniteSet(OperationFacts)
  <2>1. IsFiniteSet(1 .. n)
    BY <1>1, FS_Interval
  <2>2. [k \in 1 .. n |-> FactOf(k)] \in Surjection(1 .. n, {FactOf(k) : k \in 1 .. n})
    BY DEF Surjection
  <2>3. IsFiniteSet({FactOf(k) : k \in 1 .. n})
    BY <2>1, <2>2, FS_Surjection
  <2>4. QED
    BY <1>1, <1>2, <2>3, FS_AddElement
<1>5. IsFiniteSet(RuleFacts)
  <2>1. IsSequence(query.policy)
    BY <1>1, QueriesAssumption
  <2>2. IsFiniteSet(ToSet(query.policy))
    BY <2>1, SequenceItems, NoDuplicates
  <2>3. IsFiniteSet(known)
    BY <2>2, FS_Subset
  <2>4. [r \in known |-> RuleFact(r)] \in Surjection(known, {RuleFact(r) : r \in known})
    BY DEF Surjection
  <2> HIDE DEF known
  <2>5. QED
    BY <1>3, <2>3, <2>4, FS_Surjection
<1>6. n + 1 \notin Operations
  BY <1>1
<1>7. QED
  BY <1>2, <1>4, <1>5, <1>6, FactIs

\* The attributes of a transform and of a merge.
LEMMA AttributesAre ==
  ASSUME NEW k
  PROVE  /\ Code(k).operator = "sql.tag_transform" =>
              /\ "rule_name" \in DOMAIN Attributes(Code(k))
              /\ Attributes(Code(k))["rule_name"] = Code(k).rule
              /\ \A a \in DOMAIN Code(k).arguments : a # "rule_name" =>
                   a \in DOMAIN Attributes(Code(k)) /\ Attributes(Code(k))[a] = Code(k).arguments[a]
         /\ Code(k).operator = "sql.merge" =>
              /\ "control_input_start_index" \in DOMAIN Attributes(Code(k))
              /\ Attributes(Code(k))["control_input_start_index"] = Code(k).controlInputStart
BY DEF Attributes

\* The rule of a transform is the one it names; nothing else names a rule.
LEMMA NamesRule ==
  /\ \A k, name : HasRuleName(FactOf(k), name) <=>
                    Code(k).operator = "sql.tag_transform" /\ Code(k).rule = name
  /\ \A name : ~HasRuleName(OutputFact, name)
BY AttributesAre, FactIs DEF HasRuleName, IsTagTransform

LEMMA RulesNamedAre ==
  ASSUME Decoded
  PROVE  /\ \A k \in Operations : IsOrdinary(k) => RulesNamed(FactOf(k), RuleFacts) = {RuleFact(Rule(k))}
         /\ \A k \in Operations : ~IsOrdinary(k) => RulesNamed(FactOf(k), RuleFacts) = {}
         /\ RulesNamed(OutputFact, RuleFacts) = {}
<1>1. /\ \A f \in RuleFacts : \E r \in ToSet(query.policy) : f = RuleFact(r) /\ f.name = r.name
      /\ \A r \in ToSet(query.policy) : r.action # "UNKNOWN" => RuleFact(r) \in RuleFacts
      /\ \A r : RuleFact(r).name = r.name
  <2>1. RuleFacts = {RuleFact(r) : r \in {q \in ToSet(query.policy) : q.action # "UNKNOWN"}}
    BY DEF RuleFacts, RuleFact
  <2>2. \A r : RuleFact(r).name = r.name
    BY DEF RuleFact, SqlPolicyRule
  <2>3. QED
    BY <2>1, <2>2
<1>2. ASSUME NEW k \in Operations, IsOrdinary(k)
      PROVE  RulesNamed(FactOf(k), RuleFacts) = {RuleFact(Rule(k))}
  <2>1. /\ Rule(k) \in ToSet(query.policy) /\ Rule(k).name = Code(k).rule
        /\ \A r \in ToSet(query.policy) : r.name = Code(k).rule => r = Rule(k)
        /\ Rule(k).action # "UNKNOWN"
    BY <1>2, OrdinaryIs
  <2>2. Code(k).operator = "sql.tag_transform"
    BY <1>2 DEF IsOrdinary
  <2>3. QED
    BY <1>1, <2>1, <2>2, NamesRule DEF RulesNamed
<1>3. ASSUME NEW k \in Operations, ~IsOrdinary(k)
      PROVE  RulesNamed(FactOf(k), RuleFacts) = {}
  <2>1. IsSpecial(k) => \A r \in ToSet(query.policy) : r.name # Code(k).rule
    BY SpecialIs
  <2>2. Code(k).operator = "sql.tag_transform" => IsSpecial(k)
    BY <1>3 DEF IsSpecial, IsOrdinary
  <2>3. QED
    BY <1>1, <2>1, <2>2, NamesRule DEF RulesNamed
<1>4. QED
  BY <1>2, <1>3, NamesRule DEF RulesNamed

\* A rule's preconditions, counted from either end, are those of the policy.
LEMMA MetByFacts ==
  ASSUME Decoded, NEW k \in Operations, IsOrdinary(k), NEW known
  PROVE  AllPreconditionsMet(FactOf(k), RuleFacts, known) <=>
           \A p \in ToSet(Rule(k).preconditions) : <<Argument(k, p), p.tag>> \in known
<1> DEFINE pre == Rule(k).preconditions
           rule == RuleFact(Rule(k))
           Holds(p) == <<Argument(k, p), p.tag>> \in known
           op == FactOf(k)
<1>1. /\ Len(pre) \in Nat /\ DOMAIN pre = 1 .. Len(pre)
      /\ \A p \in ToSet(pre) : /\ p.argument \in DOMAIN Code(k).arguments
                               /\ Code(k).arguments[p.argument] + 1 \in DOMAIN Inputs(k)
      /\ "rule_name" \notin DOMAIN Code(k).arguments
  BY OrdinaryIs
<1>2. RulesNamed(op, RuleFacts) = {rule}
  BY RulesNamedAre
<1>3. rule.preconditions = [i \in 1 .. Len(pre) |-> SqlPolicyRulePrecondition(pre[i].argument, pre[i].tag)]
  BY <1>1 DEF RuleFact, SqlPolicyRule
<1>4. Len(rule.preconditions) = Len(pre)
  <2> HIDE DEF rule, pre
  <2>1. QED
    BY <1>1, <1>3
<1>5. \A i \in 1 .. Len(pre) : rule.preconditions[i].name = pre[i].argument /\ rule.preconditions[i].tag = pre[i].tag
  BY <1>3 DEF SqlPolicyRulePrecondition
<1>6. ASSUME NEW index \in 0 .. Len(pre) - 1
      PROVE  PreconditionsAtIndex(op, RuleFacts, index) = {rule.preconditions[Len(pre) - index]}
  <2> HIDE DEF rule, pre, op
  <2>1. QED
    BY <1>1, <1>2, <1>4 DEF PreconditionsAtIndex
<1>7. ASSUME NEW i \in 1 .. Len(pre)
      PROVE  IsMet(op, rule.preconditions[i], known) <=> Holds(pre[i])
  <2> DEFINE a == pre[i].argument
  <2>1. pre[i] \in ToSet(pre)
    BY <1>1 DEF ToSet
  <2>2. /\ a \in DOMAIN Code(k).arguments /\ a # "rule_name"
        /\ Code(k).arguments[a] + 1 \in DOMAIN Inputs(k)
    BY <1>1, <2>1
  <2>3. Code(k).operator = "sql.tag_transform"
    BY DEF IsOrdinary
  <2>4. a \in DOMAIN op.attributes /\ op.attributes[a] = Code(k).arguments[a] /\ op.operands = Inputs(k)
    BY <2>2, <2>3, AttributesAre, FactIs
  <2> HIDE DEF op, a
  <2>5. QED
    BY <1>5, <2>2, <2>4 DEF IsMet, Argument, a
<1>8. AllPreconditionsMet(op, RuleFacts, known) <=>
        \A index \in 0 .. Len(pre) - 1 : IsMet(op, rule.preconditions[Len(pre) - index], known)
  <2> HIDE DEF op, rule, pre
  <2>1. QED
    BY <1>2, <1>4, <1>6 DEF AllPreconditionsMet
<1>9. (\A index \in 0 .. Len(pre) - 1 : IsMet(op, rule.preconditions[Len(pre) - index], known)) <=>
        \A i \in 1 .. Len(pre) : IsMet(op, rule.preconditions[i], known)
  <2> HIDE DEF op, rule, pre
  <2>1. \A i \in 1 .. Len(pre) : Len(pre) - i \in 0 .. Len(pre) - 1 /\ Len(pre) - (Len(pre) - i) = i
    BY <1>1
  <2>2. \A index \in 0 .. Len(pre) - 1 : Len(pre) - index \in 1 .. Len(pre)
    BY <1>1
  <2>3. QED
    BY <2>1, <2>2
<1>10. (\A p \in ToSet(pre) : Holds(p)) <=> \A i \in 1 .. Len(pre) : Holds(pre[i])
  <2> HIDE DEF Holds, pre
  <2>1. QED
    BY <1>1 DEF ToSet
<1>11. QED
  BY <1>7, <1>8, <1>9, <1>10

-----------------------------------------------------------------------------
\* What the Datalog program says of a value and a tag, and of preconditions.
Known == MustHaveIntegrityTag(OperationFacts, RuleFacts)
May == MayHaveTag(OperationFacts, RuleFacts)
Assured(v, name) == <<v, name>> \in Known
Suspect(v, name) == <<v, name>> \in May
SurelyMet(k) == \A p \in ToSet(Rule(k).preconditions) : Assured(Argument(k, p), p.tag)

\* It says so in pairs.
LEMMA PairsOnly ==
  ASSUME Decoded
  PROVE  /\ \A h \in Known : h = <<h[1], h[2]>>
         /\ \A h \in May : h = <<h[1], h[2]>>
<1> DEFINE facts == TagFacts(OperationFacts, RuleFacts)
           added == TagsOf("AddConfidentialityTag", OperationFacts, RuleFacts)
<1>1. IsFiniteSet(OperationFacts) /\ IsFiniteSet(RuleFacts)
  BY FactsAre
<1>2. added \in SUBSET facts
  BY DEF TagsOf, TagsByRule, RulesNamed, TagFacts
<1>3. Known \in SUBSET facts
  BY <1>1, IntegrityDerivation, DerivedIs DEF Known, MustHaveIntegrityTag
<1>4. May \in SUBSET facts
  <2> HIDE DEF added
  <2>1. Derived(FlowStep(OperationFacts, RuleFacts), added) \in SUBSET facts
    BY <1>1, <1>2, FlowDerivation, DerivedIs
  <2>2. QED
    BY <2>1 DEF May, MayHaveTag, added
<1>5. \A h \in facts : h = <<h[1], h[2]>>
  BY DEF TagFacts
<1>6. QED
  BY <1>3, <1>4, <1>5

\* The one operation that has the result says what has tags.
LEMMA ResultFacts ==
  ASSUME Decoded, NEW k \in Operations, NEW name
  PROVE  /\ Assured(<<k, 1>>, name) <=>
              name \in DerivedIntegrity(OperationFacts, RuleFacts, FactOf(k), Known)
         /\ \A kind : <<<<k, 1>>, name>> \in TagsOf(kind, OperationFacts, RuleFacts) <=>
                        name \in TagsByRule(FactOf(k), kind, RuleFacts, Known)
         /\ Suspect(<<k, 1>>, name) <=>
              \/ name \in TagsByRule(FactOf(k), "AddConfidentialityTag", RuleFacts, Known)
              \/ /\ name \in FlowingTags(OperationFacts, <<k, 1>>, May)
                 /\ name \notin TagsByRule(FactOf(k), "RemoveConfidentialityTag", RuleFacts, Known)
<1>1. /\ IsFiniteSet(OperationFacts) /\ IsFiniteSet(RuleFacts)
      /\ FactOf(k) \in OperationFacts /\ FactOf(k).result = <<k, 1>>
      /\ \A op \in OperationFacts : op.result = <<k, 1>> => op = FactOf(k)
  BY FactsAre, FactIs
<1>2. Assured(<<k, 1>>, name) <=>
        \E op \in OperationFacts : /\ op.result = <<k, 1>>
                                   /\ name \in DerivedIntegrity(OperationFacts, RuleFacts, op, Known)
  BY <1>1, MustHaveIs DEF Assured, Known
<1>3. ASSUME NEW kind
      PROVE  <<<<k, 1>>, name>> \in TagsOf(kind, OperationFacts, RuleFacts) <=>
               \E op \in OperationFacts : op.result = <<k, 1>> /\ name \in TagsByRule(op, kind, RuleFacts, Known)
  BY DEF TagsOf, Known
<1>4. Suspect(<<k, 1>>, name) <=>
        \/ <<<<k, 1>>, name>> \in TagsOf("AddConfidentialityTag", OperationFacts, RuleFacts)
        \/ /\ \E op \in OperationFacts :
                op.result = <<k, 1>> /\ name \in FlowingTags(OperationFacts, <<k, 1>>, May)
           /\ <<<<k, 1>>, name>> \notin TagsOf("RemoveConfidentialityTag", OperationFacts, RuleFacts)
  BY <1>1, MayHaveIs DEF Suspect, May
<1>5. QED
  BY <1>1, <1>2, <1>3, <1>4

\* Where edges lead to a result from.
LEMMA PredecessorsAre ==
  ASSUME Decoded, NEW k \in Operations
  PROVE  /\ Code(k).operator = "sql.tag_transform" /\ 1 \in DOMAIN Inputs(k) =>
              Predecessors(OperationFacts, <<k, 1>>) = {Inputs(k)[1]}
         /\ Code(k).operator # "sql.tag_transform" =>
              Predecessors(OperationFacts, <<k, 1>>) = ToSet(Inputs(k)) \cup {ArbitraryComputation}
<1>1. Predecessors(OperationFacts, <<k, 1>>) = Sources(FactOf(k))
  <2>1. {o \in OperationFacts : o.result = <<k, 1>>} = {FactOf(k)}
    BY FactsAre, FactIs
  <2>2. QED
    BY <2>1 DEF Predecessors
<1>2. /\ FactOf(k).operands = Inputs(k)
      /\ IsTagTransform(FactOf(k)) <=> Code(k).operator = "sql.tag_transform"
  BY FactIs DEF IsTagTransform
<1>3. QED
  BY <1>1, <1>2 DEF Sources

\* What is no result has no tags in the Datalog program either.
LEMMA OutsideFacts ==
  ASSUME Decoded, NEW name, NEW v, v \notin Nat \X Nat
  PROVE  ~Assured(v, name) /\ ~Suspect(v, name)
<1>1. IsFiniteSet(OperationFacts) /\ IsFiniteSet(RuleFacts)
  BY FactsAre
<1>2. \A op \in OperationFacts : op.result # v
  BY FactsAre, FactIs, DecodedIs
<1>3. ~Assured(v, name)
  BY <1>1, <1>2, MustHaveIs DEF Assured, Known
<1>4. <<v, name>> \notin TagsOf("AddConfidentialityTag", OperationFacts, RuleFacts)
  BY <1>2 DEF TagsOf
<1>5. ~Suspect(v, name)
  BY <1>1, <1>2, <1>4, MayHaveIs DEF Suspect, May
<1>6. QED
  BY <1>3, <1>5

\* What the rule of a transform does if its preconditions are met.
LEMMA RuledTags ==
  ASSUME Decoded, NEW k \in Operations, NEW name,
         NEW action \in {"ADD_CONFIDENTIALITY", "REMOVE_CONFIDENTIALITY", "ADD_INTEGRITY"}
  PROVE  name \in TagsByRule(FactOf(k), ResultKind(action), RuleFacts, Known) <=>
           IsOrdinary(k) /\ SurelyMet(k) /\ Does(k, action, name)
<1>1. CASE ~IsOrdinary(k)
  BY <1>1, RulesNamedAre DEF TagsByRule
<1>2. CASE IsOrdinary(k)
  <2>1. RulesNamed(FactOf(k), RuleFacts) = {RuleFact(Rule(k))}
    BY <1>2, RulesNamedAre
  <2>2. AllPreconditionsMet(FactOf(k), RuleFacts, Known) <=> SurelyMet(k)
    BY <1>2, MetByFacts DEF SurelyMet, Assured
  <2>3. RuleFact(Rule(k)).result.kind = ResultKind(Rule(k).action) /\ RuleFact(Rule(k)).result.tag = Rule(k).tag
    BY DEF RuleFact, SqlPolicyRule, SqlPolicyRuleResult
  <2>4. ResultKind(Rule(k).action) = ResultKind(action) <=> Rule(k).action = action
    BY <1>2, OrdinaryIs DEF ResultKind
  <2>5. name \in TagsByRule(FactOf(k), ResultKind(action), RuleFacts, Known) <=>
          /\ SurelyMet(k)
          /\ RuleFact(Rule(k)).result.kind = ResultKind(action)
          /\ RuleFact(Rule(k)).result.tag = name
    BY <2>1, <2>2 DEF TagsByRule
  <2>6. QED
    BY <1>2, <2>3, <2>4, <2>5 DEF Does
<1>3. QED
  BY <1>1, <1>2

\* Integrity is propagated to where all there is has it, or what is direct.
LEMMA PropagatedAre ==
  ASSUME Decoded, NEW k \in Operations, NEW name
  PROVE  /\ Code(k).operator = "sql.tag_transform" /\ 1 \in DOMAIN Inputs(k) =>
              (name \in PropagatedTags(OperationFacts, <<k, 1>>, Known) <=> Assured(Inputs(k)[1], name))
         /\ Code(k).operator # "sql.tag_transform" =>
              name \notin PropagatedTags(OperationFacts, <<k, 1>>, Known)
<1>1. \A v : Assured(v, name) => name \in {h[2] : h \in Known}
  BY DEF Assured
<1>2. ~Assured(ArbitraryComputation, name)
  BY OutsideFacts, BackendsAssumption
<1>3. name \in PropagatedTags(OperationFacts, <<k, 1>>, Known) <=>
        /\ name \in {h[2] : h \in Known} /\ Predecessors(OperationFacts, <<k, 1>>) # {}
        /\ \A source \in Predecessors(OperationFacts, <<k, 1>>) : Assured(source, name)
  BY DEF PropagatedTags, Assured
<1>4. QED
  BY <1>1, <1>2, <1>3, PredecessorsAre

LEMMA FlowingAre ==
  ASSUME Decoded, NEW k \in Operations, NEW name
  PROVE  name \in FlowingTags(OperationFacts, <<k, 1>>, May) <=>
           \E source \in Predecessors(OperationFacts, <<k, 1>>) : Suspect(source, name)
BY PairsOnly DEF FlowingTags, Suspect

-----------------------------------------------------------------------------
\* An input is a result from before, or nothing has tags of it.
LEMMA InputIs ==
  ASSUME Decoded, NEW k \in Operations, NEW i \in DOMAIN Inputs(k)
  PROVE  \/ \E j \in 1 .. k - 1 : Inputs(k)[i] = <<j, 1>>
         \/ Inputs(k)[i] \notin Nat \X Nat /\ ~IsOperationResult(Inputs(k)[i])
<1>1. ReadsEarlier(k, Inputs(k)[i]) /\ Operations \subseteq Nat
  BY DecodedIs
<1>2. QED
  BY <1>1 DEF ReadsEarlier, IsOperationResult

\* A merge is modified by the special transform of it.
LEMMA ModifiedMergeIs ==
  ASSUME Decoded, NEW k \in Operations, NEW name \in SpecialRules
  PROVE  IsModifiedMerge(OperationFacts, FactOf(k), name) <=>
           Code(k).operator = "sql.merge" /\ \E j \in Transforming(k) : Code(j).rule = name
<1>1. ASSUME NEW op \in OperationFacts, HasRuleName(op, name), op.operands[1] = <<k, 1>>
      PROVE  \E j \in Transforming(k) : Code(j).rule = name
  <2>1. PICK j \in Operations : op = FactOf(j)
    BY <1>1, FactsAre, NamesRule
  <2>2. IsSpecial(j) /\ Code(j).rule = name /\ Inputs(j)[1] = <<k, 1>>
    BY <1>1, <2>1, NamesRule, FactIs DEF IsSpecial
  <2>3. QED
    BY <2>2 DEF Transforming, Inputs
<1>2. ASSUME NEW j \in Transforming(k), Code(j).rule = name
      PROVE  \E op \in OperationFacts : HasRuleName(op, name) /\ op.operands # <<>> /\ op.operands[1] = <<k, 1>>
  <2>1. j \in Operations /\ IsSpecial(j) /\ Inputs(j)[1] = <<k, 1>>
    BY DEF Transforming, Inputs
  <2>2. HasRuleName(FactOf(j), name) /\ FactOf(j) \in OperationFacts /\ FactOf(j).operands = Inputs(j)
    BY <1>2, <2>1, NamesRule, FactsAre, FactIs DEF IsSpecial
  <2>3. Inputs(j) # <<>>
    BY <2>1, SpecialIs
  <2>4. QED
    BY <2>1, <2>2, <2>3
<1>3. FactOf(k).operator = Code(k).operator /\ FactOf(k).result = <<k, 1>>
  BY FactIs
<1>4. QED
  BY <1>1, <1>2, <1>3 DEF IsModifiedMerge

\* Integrity in the Datalog program: of transforms, of merges, of others.
LEMMA TransformAssured ==
  ASSUME Decoded, NEW k \in Operations, Code(k).operator = "sql.tag_transform", NEW name
  PROVE  Assured(<<k, 1>>, name) <=>
           \/ Assured(Transformed(k), name)
           \/ IsOrdinary(k) /\ Does(k, "ADD_INTEGRITY", name) /\ SurelyMet(k)
<1>1. 1 \in DOMAIN Inputs(k)
  BY OrdinaryIs, SpecialIs DEF IsOrdinary, IsSpecial
<1>2. /\ ~IsModifiedMerge(OperationFacts, FactOf(k), UnionItagRuleName)
      /\ ~IsModifiedMerge(OperationFacts, FactOf(k), IntersectItagRuleName)
  BY FactIs DEF IsModifiedMerge
<1>3. name \in PropagatedTags(OperationFacts, <<k, 1>>, Known) <=> Assured(Transformed(k), name)
  BY <1>1, PropagatedAre DEF Transformed
<1>4. name \in TagsByRule(FactOf(k), "AddIntegrityTag", RuleFacts, Known) <=>
        IsOrdinary(k) /\ SurelyMet(k) /\ Does(k, "ADD_INTEGRITY", name)
  BY RuledTags DEF ResultKind
<1>5. Assured(<<k, 1>>, name) <=>
        name \in DerivedIntegrity(OperationFacts, RuleFacts, FactOf(k), Known)
  BY ResultFacts
<1>6. FactOf(k).result = <<k, 1>>
  BY FactIs
<1>7. QED
  BY <1>2, <1>3, <1>4, <1>5, <1>6 DEF DerivedIntegrity

LEMMA MergeAssured ==
  ASSUME Decoded, NEW k \in Operations, Code(k).operator = "sql.merge", NEW j \in Transforming(k),
         1 .. Code(k).controlInputStart \subseteq DOMAIN Inputs(k), NEW name
  PROVE  LET direct == 1 .. Code(k).controlInputStart
         IN  Assured(<<k, 1>>, name) <=>
               /\ \E i \in direct : Assured(Inputs(k)[i], name)
               /\ Code(j).rule = UnionItagRule \/ \A i \in direct : Assured(Inputs(k)[i], name)
<1> DEFINE direct == 1 .. Code(k).controlInputStart
           start == Code(k).controlInputStart
           merge == FactOf(k)
<1>1. /\ start \in Nat /\ Len(Inputs(k)) \in Nat /\ DOMAIN Inputs(k) = 1 .. Len(Inputs(k))
  BY DecodedIs
<1>2. merge.operands = Inputs(k) /\ merge.result = <<k, 1>> /\ ControlStart(merge) = start
  BY FactIs, AttributesAre DEF ControlStart
<1>3. DirectInputs(merge) = {Inputs(k)[i] : i \in direct}
  <2>1. {i \in DOMAIN merge.operands : i <= ControlStart(merge)} = direct
    BY <1>1, <1>2
  <2>2. QED
    BY <1>2, <2>1 DEF DirectInputs
<1>4. name \in UnionedTags(merge, Known) <=> \E i \in direct : Assured(Inputs(k)[i], name)
  <2>1. name \in UnionedTags(merge, Known) <=> \E v \in DirectInputs(merge) : <<v, name>> \in Known
    BY PairsOnly DEF UnionedTags
  <2> HIDE DEF merge
  <2>2. QED
    BY <1>3, <2>1 DEF Assured
<1>5. name \in IntersectedTags(merge, Known) <=>
        /\ \E i \in direct : Assured(Inputs(k)[i], name)
        /\ \A i \in direct : Assured(Inputs(k)[i], name)
  <2>1. (\E i \in direct : Assured(Inputs(k)[i], name)) => start \in DOMAIN Inputs(k)
    BY <1>1
  <2>2. (\A v \in DirectInputs(merge) : <<v, name>> \in Known) <=>
          \A i \in direct : Assured(Inputs(k)[i], name)
    BY <1>3 DEF Assured
  <2>3. name \in IntersectedTags(merge, Known) <=>
          /\ name \in UnionedTags(merge, Known) /\ start \in DOMAIN Inputs(k)
          /\ \A v \in DirectInputs(merge) : <<v, name>> \in Known
    BY <1>2 DEF IntersectedTags
  <2>4. QED
    BY <1>4, <2>1, <2>2, <2>3
<1>6. /\ IsModifiedMerge(OperationFacts, merge, UnionItagRuleName) <=> Code(j).rule = UnionItagRule
      /\ IsModifiedMerge(OperationFacts, merge, IntersectItagRuleName) <=> Code(j).rule = IntersectItagRule
  BY ModifiedMergeIs, MergeIs DEF SpecialRules, UnionItagRule, IntersectItagRule, UnionItagRuleName,
     IntersectItagRuleName
<1>7. Code(j).rule \in {UnionItagRule, IntersectItagRule} /\ UnionItagRule # IntersectItagRule
  BY MergeIs DEF SpecialRules, UnionItagRule, IntersectItagRule
<1>8. /\ name \notin PropagatedTags(OperationFacts, <<k, 1>>, Known)
      /\ name \notin TagsByRule(merge, "AddIntegrityTag", RuleFacts, Known)
  <2>1. ~IsOrdinary(k)
    BY DEF IsOrdinary
  <2>2. QED
    BY <2>1, PropagatedAre, RuledTags DEF ResultKind
<1>9. Assured(<<k, 1>>, name) <=> name \in DerivedIntegrity(OperationFacts, RuleFacts, merge, Known)
  BY ResultFacts
<1> HIDE DEF merge, direct
<1>10. Assured(<<k, 1>>, name) <=>
         \/ Code(j).rule = UnionItagRule /\ name \in UnionedTags(merge, Known)
         \/ Code(j).rule = IntersectItagRule /\ name \in IntersectedTags(merge, Known)
  BY <1>2, <1>6, <1>8, <1>9 DEF DerivedIntegrity
<1>11. Assured(<<k, 1>>, name) <=>
         /\ \E i \in direct : Assured(Inputs(k)[i], name)
         /\ Code(j).rule = UnionItagRule \/ \A i \in direct : Assured(Inputs(k)[i], name)
  BY <1>4, <1>5, <1>7, <1>10
<1>12. QED
  BY <1>11 DEF direct

LEMMA OtherAssured ==
  ASSUME Decoded, NEW k \in Operations, Code(k).operator # "sql.tag_transform",
         Code(k).operator = "sql.merge" => Transforming(k) = {}, NEW name
  PROVE  ~Assured(<<k, 1>>, name)
<1>1. /\ ~IsModifiedMerge(OperationFacts, FactOf(k), UnionItagRuleName)
      /\ ~IsModifiedMerge(OperationFacts, FactOf(k), IntersectItagRuleName)
  BY ModifiedMergeIs DEF SpecialRules, UnionItagRule, IntersectItagRule, UnionItagRuleName,
     IntersectItagRuleName
<1>2. /\ name \notin PropagatedTags(OperationFacts, <<k, 1>>, Known)
      /\ name \notin TagsByRule(FactOf(k), "AddIntegrityTag", RuleFacts, Known)
  <2>1. ~IsOrdinary(k)
    BY DEF IsOrdinary
  <2>2. QED
    BY <2>1, PropagatedAre, RuledTags DEF ResultKind
<1>3. FactOf(k).result = <<k, 1>>
  BY FactIs
<1>4. QED
  BY <1>1, <1>2, <1>3, ResultFacts DEF DerivedIntegrity

-----------------------------------------------------------------------------
\* Secrecy in the Datalog program: of transforms with rules, of all others.
LEMMA OrdinarySuspect ==
  ASSUME Decoded, NEW k \in Operations, IsOrdinary(k), NEW name
  PROVE  Suspect(<<k, 1>>, name) <=>
           \/ /\ Suspect(Transformed(k), name)
              /\ ~(Does(k, "REMOVE_CONFIDENTIALITY", name) /\ SurelyMet(k))
           \/ Does(k, "ADD_CONFIDENTIALITY", name) /\ SurelyMet(k)
<1>1. Predecessors(OperationFacts, <<k, 1>>) = {Transformed(k)}
  BY PredecessorsAre, OrdinaryIs DEF IsOrdinary, Transformed
<1>2. name \in FlowingTags(OperationFacts, <<k, 1>>, May) <=> Suspect(Transformed(k), name)
  BY <1>1, FlowingAre
<1>3. /\ name \in TagsByRule(FactOf(k), "AddConfidentialityTag", RuleFacts, Known) <=>
           SurelyMet(k) /\ Does(k, "ADD_CONFIDENTIALITY", name)
      /\ name \in TagsByRule(FactOf(k), "RemoveConfidentialityTag", RuleFacts, Known) <=>
           SurelyMet(k) /\ Does(k, "REMOVE_CONFIDENTIALITY", name)
  BY RuledTags DEF ResultKind
<1>4. QED
  BY <1>2, <1>3, ResultFacts

LEMMA PlainSuspect ==
  ASSUME Decoded, NEW k \in Operations, ~IsOrdinary(k), NEW name
  PROVE  Suspect(<<k, 1>>, name) <=> \E i \in DOMAIN Inputs(k) : Suspect(Inputs(k)[i], name)
<1>1. ~Suspect(ArbitraryComputation, name)
  BY OutsideFacts, BackendsAssumption
<1>2. (\E v \in Predecessors(OperationFacts, <<k, 1>>) : Suspect(v, name)) <=>
        \E i \in DOMAIN Inputs(k) : Suspect(Inputs(k)[i], name)
  <2>1. CASE Code(k).operator = "sql.tag_transform"
    <3>1. DOMAIN Inputs(k) = {1}
      BY <2>1, SpecialIs DEF IsSpecial, IsOrdinary
    <3>2. QED
      BY <2>1, <3>1, PredecessorsAre
  <2>2. CASE Code(k).operator # "sql.tag_transform"
    BY <1>1, <2>2, PredecessorsAre DEF ToSet
  <2>3. QED
    BY <2>1, <2>2
<1>3. /\ name \notin TagsByRule(FactOf(k), "AddConfidentialityTag", RuleFacts, Known)
      /\ name \notin TagsByRule(FactOf(k), "RemoveConfidentialityTag", RuleFacts, Known)
  BY RuledTags DEF ResultKind
<1>4. QED
  BY <1>2, <1>3, FlowingAre, ResultFacts

\* The policy is violated if the last result has a tag.
LEMMA ViolatedIs ==
  ASSUME Decoded
  PROVE  ViolatesPolicy(OperationFacts, RuleFacts) <=> \E name : Suspect(<<Len(query.code), 1>>, name)
<1> DEFINE n == Len(query.code)
<1>1. /\ IsFiniteSet(OperationFacts) /\ IsFiniteSet(RuleFacts) /\ OutputFact \in OperationFacts
      /\ \A op \in OperationFacts : op.result = <<n + 1, 1>> => op = OutputFact
      /\ OutputFact.operator = "sql.sql_output" /\ OutputFact.result = <<n + 1, 1>>
      /\ OutputFact.operands = <<<<n, 1>>>>
  BY FactsAre, FactIs
<1>2. ViolatesPolicy(OperationFacts, RuleFacts) <=> \E h \in May : h[1] = <<n + 1, 1>>
  <2>1. \A op \in OperationFacts : op.operator = "sql.sql_output" <=> op = OutputFact
    BY <1>1, FactsAre, FactIs, DecodedIs
  <2>2. QED
    BY <1>1, <2>1 DEF ViolatesPolicy, May
<1>3. (\E h \in May : h[1] = <<n + 1, 1>>) <=> \E name : Suspect(<<n + 1, 1>>, name)
  BY PairsOnly DEF Suspect
<1>4. Predecessors(OperationFacts, <<n + 1, 1>>) = {<<n, 1>>, ArbitraryComputation}
  <2>1. {o \in OperationFacts : o.result = <<n + 1, 1>>} = {OutputFact}
    BY <1>1
  <2>2. Sources(OutputFact) = {<<n, 1>>, ArbitraryComputation}
    BY <1>1 DEF Sources, IsTagTransform, ToSet
  <2>3. QED
    BY <2>1, <2>2 DEF Predecessors
<1>5. ASSUME NEW name
      PROVE  Suspect(<<n + 1, 1>>, name) <=> Suspect(<<n, 1>>, name)
  <2>1. ~Suspect(ArbitraryComputation, name)
    BY OutsideFacts, BackendsAssumption
  <2>2. name \in FlowingTags(OperationFacts, <<n + 1, 1>>, May) <=> Suspect(<<n, 1>>, name)
    <3>1. name \in FlowingTags(OperationFacts, <<n + 1, 1>>, May) <=>
            \E source \in Predecessors(OperationFacts, <<n + 1, 1>>) : Suspect(source, name)
      BY PairsOnly DEF FlowingTags, Suspect
    <3>2. QED
      BY <1>4, <2>1, <3>1
  <2>3. \A kind : <<<<n + 1, 1>>, name>> \notin TagsOf(kind, OperationFacts, RuleFacts)
    <3>1. \A kind : TagsByRule(OutputFact, kind, RuleFacts, Known) = {}
      BY RulesNamedAre DEF TagsByRule
    <3>2. QED
      BY <1>1, <3>1 DEF TagsOf, Known
  <2>4. Suspect(<<n + 1, 1>>, name) <=>
          \/ <<<<n + 1, 1>>, name>> \in TagsOf("AddConfidentialityTag", OperationFacts, RuleFacts)
          \/ /\ \E op \in OperationFacts : /\ op.result = <<n + 1, 1>>
                                           /\ name \in FlowingTags(OperationFacts, <<n + 1, 1>>, May)
             /\ <<<<n + 1, 1>>, name>> \notin TagsOf("RemoveConfidentialityTag", OperationFacts, RuleFacts)
    BY <1>1, MayHaveIs DEF Suspect, May
  <2>5. QED
    BY <1>1, <2>2, <2>3, <2>4
<1>6. QED
  BY <1>2, <1>3, <1>5

-----------------------------------------------------------------------------
\* What holds of the earlier results holds of an operation's inputs.
LEMMA OfInputs ==
  ASSUME Evaluated, NEW k \in Operations, NEW i \in DOMAIN Inputs(k), NEW name
  PROVE  \/ \E j \in 1 .. k - 1 : Inputs(k)[i] = <<j, 1>>
         \/ /\ ~Endorsed(Inputs(k)[i], name) /\ ~Assured(Inputs(k)[i], name)
            /\ ~Secret(Inputs(k)[i], name) /\ ~Suspect(Inputs(k)[i], name)
BY InputIs, OutsideTags, OutsideFacts DEF Evaluated

\* The states and the facts by induction over the operations.
LEMMA ByOperations ==
  ASSUME Decoded, NEW P,
         \A k \in Operations : (\A j \in 1 .. k - 1 : j \in P) => k \in P
  PROVE  Operations \subseteq P
<1> DEFINE n == Len(query.code)
           T == {m \in 0 .. n : 1 .. m \subseteq P}
<1>1. n \in Nat /\ Operations = 1 .. n
  BY DecodedIs
<1>2. 0 \in T
  BY <1>1
<1>3. ASSUME NEW m \in 1 .. n, m - 1 \in T PROVE m \in T
  <2>1. \A j \in 1 .. m - 1 : j \in P
    BY <1>3
  <2>2. m \in P
    BY <1>1, <2>1
  <2>3. \A j \in 1 .. m : j \in 1 .. m - 1 \/ j = m
    BY <1>1
  <2>4. QED
    BY <1>1, <2>1, <2>2, <2>3
<1> HIDE DEF T
<1>4. 0 .. n \subseteq T
  BY <1>1, <1>2, <1>3, FiniteInduction
<1>5. QED
  BY <1>1, <1>4 DEF T

\* The Datalog program knows of all the integrity that the states have.
LEMMA EndorsedIsAssured ==
  ASSUME Evaluated
  PROVE  \A k \in Operations : \A name : Endorsed(<<k, 1>>, name) => Assured(<<k, 1>>, name)
<1> DEFINE P == {k \in Operations : \A name : Endorsed(<<k, 1>>, name) => Assured(<<k, 1>>, name)}
<1>1. Decoded
  BY DEF Evaluated
<1>2. ASSUME NEW k \in Operations, \A j \in 1 .. k - 1 : j \in P, NEW name, Endorsed(<<k, 1>>, name)
      PROVE  Assured(<<k, 1>>, name)
  <2>1. \A i \in DOMAIN Inputs(k) : \A tag : Endorsed(Inputs(k)[i], tag) => Assured(Inputs(k)[i], tag)
    BY <1>2, OfInputs
  <2>2. CASE IsOrdinary(k)
    <3>1. Transformed(k) = Inputs(k)[1] /\ 1 \in DOMAIN Inputs(k)
          /\ \A p \in ToSet(Rule(k).preconditions) : Code(k).arguments[p.argument] + 1 \in DOMAIN Inputs(k)
      BY <1>1, <2>2, OrdinaryIs DEF Transformed
    <3>2. Met(k) => SurelyMet(k)
      BY <2>1, <3>1 DEF Met, SurelyMet, Argument
    <3>3. QED
      BY <1>1, <1>2, <2>1, <2>2, <3>1, <3>2, OrdinaryTags, TransformAssured DEF IsOrdinary
  <2>3. CASE Code(k).operator = "sql.merge" /\ Transforming(k) # {}
    <3>1. PICK j \in Transforming(k) : TRUE
      BY <2>3
    <3> DEFINE direct == 1 .. Code(k).controlInputStart
    <3>2. /\ direct \subseteq DOMAIN Inputs(k)
          /\ \E i \in direct : Endorsed(Inputs(k)[i], name)
          /\ Code(j).rule = UnionItagRule \/ \A i \in direct : Endorsed(Inputs(k)[i], name)
      BY <1>2, <2>3, MergedTags, Zenon
    <3>3. Assured(<<k, 1>>, name) <=>
            /\ \E i \in direct : Assured(Inputs(k)[i], name)
            /\ Code(j).rule = UnionItagRule \/ \A i \in direct : Assured(Inputs(k)[i], name)
      BY <1>1, <2>3, <3>2, MergeAssured, Zenon
    <3>4. QED
      BY <2>1, <3>2, <3>3
  <2>4. RulesOf(k) # <<>>
    BY <1>2, PlainTags
  <2>5. QED
    BY <1>1, <2>2, <2>3, <2>4, OperationKinds, SpecialIs, MergeIs, OtherIs
<1>3. \A k \in Operations : (\A j \in 1 .. k - 1 : j \in P) => k \in P
  BY <1>2
<1> HIDE DEF P
<1>4. Operations \subseteq P
  BY <1>1, <1>3, ByOperations
<1>5. QED
  BY <1>4 DEF P

\* And of no more, as long as none of it is lost.
LEMMA AssuredIsEndorsed ==
  ASSUME Evaluated, ~IntegrityIsLost
  PROVE  \A k \in Operations : ~IsSpecial(k) =>
           \A name : Assured(<<k, 1>>, name) => Endorsed(<<k, 1>>, name)
<1> DEFINE P == {k \in Operations : ~IsSpecial(k) =>
                   \A name : Assured(<<k, 1>>, name) => Endorsed(<<k, 1>>, name)}
<1>1. Decoded
  BY DEF Evaluated
<1>2. ASSUME NEW k \in Operations, \A j \in 1 .. k - 1 : j \in P, ~IsSpecial(k),
             NEW name, Assured(<<k, 1>>, name)
      PROVE  Endorsed(<<k, 1>>, name)
  <2>1. Code(k).operator \in {"sql.tag_transform", "sql.merge"}
    BY <1>1, <1>2, OtherAssured
  <2>2. ASSUME NEW i \in DOMAIN Inputs(k), NEW tag, Assured(Inputs(k)[i], tag)
        PROVE  Endorsed(Inputs(k)[i], tag)
    <3>1. PICK j \in 1 .. k - 1 : Inputs(k)[i] = <<j, 1>>
      BY <2>2, OfInputs
    <3>2. ~IsSpecial(j)
      <4>1. Inputs(k)[i] \in ToSet(Code(k).inputs)
        BY DEF ToSet, Inputs
      <4>2. IsOperationResult(<<j, 1>>) /\ <<j, 1>>[1] = j
        BY <1>1, <3>1, DecodedIs DEF IsOperationResult
      <4>3. QED
        BY <2>1, <3>1, <4>1, <4>2 DEF IntegrityIsLost, ReadsSpecialTransform
    <3>3. QED
      BY <1>2, <2>2, <3>1, <3>2
  <2>3. CASE Code(k).operator = "sql.tag_transform"
    <3>1. IsOrdinary(k)
      BY <1>2, <2>3 DEF IsOrdinary, IsSpecial
    <3>2. Transformed(k) = Inputs(k)[1] /\ 1 \in DOMAIN Inputs(k)
          /\ \A p \in ToSet(Rule(k).preconditions) : Code(k).arguments[p.argument] + 1 \in DOMAIN Inputs(k)
      BY <1>1, <3>1, OrdinaryIs DEF Transformed
    <3>3. SurelyMet(k) => Met(k)
      BY <2>2, <3>2 DEF Met, SurelyMet, Argument
    <3>4. QED
      BY <1>1, <1>2, <2>2, <2>3, <3>1, <3>2, <3>3, OrdinaryTags, TransformAssured
  <2>4. CASE Code(k).operator = "sql.merge"
    <3>1. PICK j \in Transforming(k) : TRUE
      BY <1>1, <1>2, <2>4, OtherAssured
    <3> DEFINE direct == 1 .. Code(k).controlInputStart
    <3>2. /\ direct \subseteq DOMAIN Inputs(k)
          /\ Endorsed(<<k, 1>>, name) <=>
               /\ \E i \in direct : Endorsed(Inputs(k)[i], name)
               /\ Code(j).rule = UnionItagRule \/ \A i \in direct : Endorsed(Inputs(k)[i], name)
      BY <2>4, MergedTags, Zenon
    <3>3. /\ \E i \in direct : Assured(Inputs(k)[i], name)
          /\ Code(j).rule = UnionItagRule \/ \A i \in direct : Assured(Inputs(k)[i], name)
      BY <1>1, <1>2, <2>4, <3>2, MergeAssured, Zenon
    <3>4. QED
      BY <2>2, <3>2, <3>3
  <2>5. QED
    BY <2>1, <2>3, <2>4
<1>3. \A k \in Operations : (\A j \in 1 .. k - 1 : j \in P) => k \in P
  BY <1>2
<1> HIDE DEF P
<1>4. Operations \subseteq P
  BY <1>1, <1>3, ByOperations
<1>5. QED
  BY <1>4 DEF P

\* Preconditions that are met are met for the Datalog program, and not only there.
LEMMA MetIsSurelyMet ==
  ASSUME Evaluated, NEW k \in Operations, IsOrdinary(k)
  PROVE  /\ Met(k) => SurelyMet(k)
         /\ ~IntegrityIsLost => (SurelyMet(k) => Met(k))
         /\ ~IsConditional(Rule(k).action) => Met(k) /\ SurelyMet(k)
<1>1. /\ Decoded /\ Rule(k) \in ToSet(query.policy)
      /\ \A p \in ToSet(Rule(k).preconditions) : Code(k).arguments[p.argument] + 1 \in DOMAIN Inputs(k)
  BY OrdinaryIs DEF Evaluated
<1>2. ASSUME NEW i \in DOMAIN Inputs(k), NEW tag
      PROVE  /\ Endorsed(Inputs(k)[i], tag) => Assured(Inputs(k)[i], tag)
             /\ ~IntegrityIsLost => (Assured(Inputs(k)[i], tag) => Endorsed(Inputs(k)[i], tag))
  <2>1. CASE \E j \in 1 .. k - 1 : Inputs(k)[i] = <<j, 1>>
    <3>1. PICK j \in 1 .. k - 1 : Inputs(k)[i] = <<j, 1>>
      BY <2>1
    <3>2. j \in Operations /\ IsOperationResult(<<j, 1>>) /\ <<j, 1>>[1] = j
      BY <1>1, DecodedIs DEF IsOperationResult
    <3>3. ~IntegrityIsLost => ~IsSpecial(j)
      <4>1. Inputs(k)[i] \in ToSet(Code(k).inputs)
        BY DEF ToSet, Inputs
      <4>2. QED
        BY <3>1, <3>2, <4>1 DEF IntegrityIsLost, ReadsSpecialTransform, IsOrdinary
    <3>4. QED
      BY <3>1, <3>2, <3>3, EndorsedIsAssured, AssuredIsEndorsed
  <2>2. QED
    BY <2>1, OfInputs
<1>3. ~IsConditional(Rule(k).action) => ToSet(Rule(k).preconditions) = {}
  BY <1>1 DEF IsConditional, Rule, ToSet
<1>4. QED
  BY <1>1, <1>2, <1>3 DEF Met, SurelyMet, Argument

-----------------------------------------------------------------------------
\* Tags that the states have and those the Datalog program finds.
LEMMA SecretAndSuspect ==
  ASSUME Evaluated
  PROVE  \A k \in Operations : \A name :
           /\ Suspect(<<k, 1>>, name) =>
                Secret(<<k, 1>>, name) \/ (IntegrityIsLost /\ IsConditional("ADD_CONFIDENTIALITY"))
           /\ Secret(<<k, 1>>, name) =>
                Suspect(<<k, 1>>, name) \/ (IntegrityIsLost /\ IsConditional("REMOVE_CONFIDENTIALITY"))
<1> DEFINE gains == IntegrityIsLost /\ IsConditional("ADD_CONFIDENTIALITY")
           loses == IntegrityIsLost /\ IsConditional("REMOVE_CONFIDENTIALITY")
           Same(v, name) == /\ Suspect(v, name) => Secret(v, name) \/ gains
                            /\ Secret(v, name) => Suspect(v, name) \/ loses
           P == {k \in Operations : \A name : Same(<<k, 1>>, name)}
<1>1. Decoded
  BY DEF Evaluated
<1>2. ASSUME NEW k \in Operations, \A j \in 1 .. k - 1 : j \in P, NEW name
      PROVE  Same(<<k, 1>>, name)
  <2>1. \A i \in DOMAIN Inputs(k) : Same(Inputs(k)[i], name)
    BY <1>2, OfInputs
  <2>2. CASE IsOrdinary(k)
    <3>1. Same(Transformed(k), name)
      BY <1>1, <2>1, <2>2, OrdinaryIs DEF Transformed
    <3>2. /\ Does(k, "ADD_CONFIDENTIALITY", name) => Rule(k).action = "ADD_CONFIDENTIALITY"
          /\ Does(k, "REMOVE_CONFIDENTIALITY", name) => Rule(k).action = "REMOVE_CONFIDENTIALITY"
      BY DEF Does
    <3>3. /\ Does(k, "ADD_CONFIDENTIALITY", name) /\ SurelyMet(k) => Met(k) \/ gains
          /\ Does(k, "REMOVE_CONFIDENTIALITY", name) /\ SurelyMet(k) => Met(k) \/ loses
          /\ Met(k) => SurelyMet(k)
      BY <2>2, <3>2, MetIsSurelyMet
    <3>4. QED
      BY <1>1, <2>2, <3>1, <3>3, OrdinaryTags, OrdinarySuspect
  <2>3. CASE ~IsOrdinary(k)
    <3>1. Suspect(<<k, 1>>, name) <=> \E i \in DOMAIN Inputs(k) : Suspect(Inputs(k)[i], name)
      BY <1>1, <2>3, PlainSuspect
    <3>2. Secret(<<k, 1>>, name) <=> \E i \in DOMAIN Inputs(k) : Secret(Inputs(k)[i], name)
      <4>1. CASE RulesOf(k) = <<>>
        BY <4>1, PlainTags
      <4>2. CASE RulesOf(k) # <<>>
        <5>1. Code(k).operator = "sql.merge" /\ \E j \in Transforming(k) : TRUE
          BY <1>1, <2>3, <4>2, OperationKinds, SpecialIs, MergeIs, OtherIs
        <5>2. QED
          BY <5>1, MergedTags
      <4>3. QED
        BY <4>1, <4>2
    <3>3. QED
      BY <2>1, <3>1, <3>2
  <2>4. QED
    BY <2>2, <2>3
<1>3. \A k \in Operations : (\A j \in 1 .. k - 1 : j \in P) => k \in P
  BY <1>2
<1> HIDE DEF P
<1>4. Operations \subseteq P
  BY <1>1, <1>3, ByOperations
<1>5. QED
  BY <1>4 DEF P

\* The state of the last result says the same by having secrecy.
LEMMA SecretIs ==
  ASSUME Evaluated
  PROVE  /\ Len(query.code) \in Operations
         /\ HasNoSecrecy(AbstractStates[Len(query.code)]) <=>
              \A name : ~Secret(<<Len(query.code), 1>>, name)
<1> DEFINE n == Len(query.code)
<1>1. n \in Operations
  BY DecodedIs DEF Evaluated
<1>2. AbstractStates[n] \in States /\ StateOf(<<n, 1>>) = AbstractStates[n]
  BY <1>1, AllReached, ResultState
<1>3. AbstractStates[n].secrecy \subseteq {tags[name] : name \in DOMAIN tags}
  BY <1>2 DEF States, Ids
<1>4. QED
  BY <1>1, <1>2, <1>3 DEF HasNoSecrecy, Secret

\* A rule of the policy that adds secrecy on a condition makes a rule that is
\* not monotone.
LEMMA NoneAddsOnCondition ==
  ASSUME Decoded, RulesAreMonotone
  PROVE  ~IsConditional("ADD_CONFIDENTIALITY")
<1> SUFFICES ASSUME NEW k \in Operations, IsOrdinary(k),
                    Rule(k).action = "ADD_CONFIDENTIALITY", Rule(k).preconditions # <<>>
             PROVE  FALSE
  BY DEF IsConditional, Rule
<1> DEFINE copy == InferenceRule(CopyInput(1), {})
           conclusion == ModifyTag("kAddSecrecy", tags[Rule(k).tag])
           modify == InferenceRule(conclusion, Premises(Rule(k), Code(k), tags))
<1>1. /\ RulesOf(k) = TagTransformRules(Rule(k), Code(k), tags)
      /\ Len(Rule(k).preconditions) \in Nat
      /\ DOMAIN Rule(k).preconditions = 1 .. Len(Rule(k).preconditions)
      /\ Rule(k) \in ToSet(query.policy)
  BY OrdinaryIs
<1>2. RulesOf(k) = <<copy, modify>>
  BY <1>1 DEF TagTransformRules, ModifyTagKind
<1>3. modify.premises # {}
  <2>1. ToSet(Rule(k).preconditions) # {}
    <3>1. IsPolicyRule(Rule(k))
      BY <1>1, DecodedIs, QueriesAssumption
    <3> DEFINE preconditions == Rule(k).preconditions
    <3>2. preconditions \in Seq(ToSet(preconditions))
      BY <3>1 DEF IsPolicyRule, IsSequence
    <3>3. preconditions # <<>>
      OBVIOUS
    <3> HIDE DEF preconditions
    <3>4. 1 \in DOMAIN preconditions
      BY <3>2, <3>3
    <3>5. preconditions[1] \in ToSet(preconditions)
      BY <3>4 DEF ToSet
    <3>6. QED
      BY <3>5 DEF preconditions
  <2>2. modify.premises = Premises(Rule(k), Code(k), tags)
    BY DEF InferenceRule
  <2>3. QED
    BY <2>1, <2>2 DEF Premises
<1>4. modify.conclusion.kind = "kAddSecrecy"
  BY DEF InferenceRule, ModifyTag
<1> HIDE DEF copy, modify
<1>5. OutputRules(k) = <<<<copy, modify>>>>
  BY <1>2 DEF OutputRules
<1>6. Analysis!IsMonotoneRule(modify)
  <2>1. /\ AnalysedModule.ops = Operations
        /\ AnalysedModule.rules[k] = <<<<copy, modify>>>>
    BY <1>5 DEF AnalysedModule
  <2>2. 1 \in DOMAIN <<<<copy, modify>>>> /\ 2 \in 1 .. Len(<<copy, modify>>)
    OBVIOUS
  <2>3. \A i \in DOMAIN <<<<copy, modify>>>> : \A j \in 1 .. Len(<<<<copy, modify>>>>[i]) :
          Analysis!IsMonotoneRule(<<<<copy, modify>>>>[i][j])
    BY <2>1 DEF RulesAreMonotone, Analysis!MonotoneRules
  <2>4. QED
    BY <2>2, <2>3
<1>7. QED
  BY <1>3, <1>4, <1>6 DEF Analysis!IsMonotoneRule, Analysis!OnlyLowers

\* The verdict on a query with monotone rules is that of either engine, where
\* no integrity is lost or no rule with preconditions removes tags: the
\* interpreter of the decoded rules and the Datalog program, with different
\* encodings of rules, tags and preconditions, judge alike.
THEOREM EnginesAgree == Spec => []BackendsAgree
<1>1. IInv => BackendsAgree
  <2> SUFFICES ASSUME Evaluated, RulesAreMonotone
               PROVE  LET secret == ~HasNoSecrecy(AbstractStates[Len(query.code)])
                          violation == ViolatesPolicy(OperationFacts, RuleFacts)
                      IN  /\ violation => secret
                          /\ secret => violation \/ (IntegrityIsLost /\ IsConditional("REMOVE_CONFIDENTIALITY"))
    BY DEF BackendsAgree, Evaluated, Decoded
  <2>1. ViolatesPolicy(OperationFacts, RuleFacts) <=> \E name : Suspect(<<Len(query.code), 1>>, name)
    BY ViolatedIs DEF Evaluated
  <2>2. ~IsConditional("ADD_CONFIDENTIALITY")
    BY NoneAddsOnCondition DEF Evaluated
  <2>3. QED
    BY <2>1, <2>2, SecretIs, SecretAndSuspect
<1>2. QED
  BY <1>1, DecodingInvariant, PTL

-----------------------------------------------------------------------------
(* The states are what the taint analysis returns: its least solution. *)

Checker == INSTANCE PolicyChecker_proofs WITH
  Operation <- Nat, EntryValue <- OutsideValues, Modules <- {},
  module <- AnalysedModule, valueStates <- ReturnedStates, worklist <- {}, verdict <- "none"

\* What the proofs about the semantics ask for, of no module.
LEMMA OutsideIsNoResult ==
  /\ OutsideValues \cap Checker!OperationResult = {}
  /\ OutsideValues \cap Analysis!OperationResult = {}
BY DEF OutsideValues, Checker!OperationResult, Analysis!OperationResult

\* The semantics of the analysis is the one the rules were decoded for.
LEMMA SemanticsIsTheSame ==
  /\ Checker!AbstractState = AbstractState /\ Analysis!AbstractState = AbstractState
  /\ \A a, b : Checker!Leq(a, b) <=> Leq(a, b)
  /\ \A a, b : Analysis!LeqOp(a, b) <=> Leq(a, b)
  /\ \A r : Checker!IsMonotoneRule(r) <=> Analysis!IsMonotoneRule(r)
  /\ \A v : Analysis!GetInitialState(v) = GetInitialState(v)
  /\ \A rules, n : Checker!AreRules(rules, n) <=> AreRules(rules, n)
<1>1. Checker!AbstractState = AbstractState /\ Analysis!AbstractState = AbstractState
  BY DEF AbstractState, IfcTags, Checker!AbstractState, Checker!IfcTags, Analysis!AbstractState, Analysis!IfcTags
<1>2. \A a, b : Join(a, b) = Checker!Join(a, b) /\ Join(a, b) = Analysis!Join(a, b)
  BY DEF Join, IsBottom, MakeTags, Checker!Join, Checker!IsBottom, Checker!MakeTags, Checker!ToSet,
     Analysis!Join, Analysis!IsBottom, Analysis!MakeTags
<1>3. \A a, b : Checker!Leq(a, b) <=> Leq(a, b)
  BY <1>2 DEF Leq, Checker!Leq
<1>4. \A a, b : Analysis!LeqOp(a, b) <=> Leq(a, b)
  BY <1>2 DEF Leq, Analysis!LeqOp
<1>5. \A r : Checker!IsMonotoneRule(r) <=> Analysis!IsMonotoneRule(r)
  BY DEF Checker!IsMonotoneRule, Checker!OnlyLowers, Analysis!IsMonotoneRule, Analysis!OnlyLowers
<1>6. \A v : Analysis!GetInitialState(v) = GetInitialState(v)
  BY DEF Analysis!GetInitialState, Analysis!MakeTags, GetInitialState, MakeTags
<1>7. \A rules, n : Checker!AreRules(rules, n) <=> AreRules(rules, n)
  BY DEF Checker!AreRules, Checker!IsRule, Checker!IsConclusion, Checker!InferenceRule, Checker!CopyInput, Checker!ModifyTag,
     Checker!MergeIntegrityTags, Checker!InputHasIntegrity,
     AreRules, IsRule, IsConclusion, InferenceRule, CopyInput, ModifyTag, MergeIntegrityTags, InputHasIntegrity
<1>8. QED
  BY <1>1, <1>3, <1>4, <1>5, <1>6, <1>7

\* So is its transformer.
LEMMA TransformerIsTheSame ==
  \A rules, outputs, inputs :
    /\ Checker!ApplyOperationTransformer(rules, outputs, inputs) = ApplyOperationTransformer(rules, outputs, inputs)
    /\ Analysis!ApplyOperationTransformer(rules, outputs, inputs) =
         ApplyOperationTransformer(rules, outputs, inputs)
<1> TAKE rules, outputs, inputs
<1>1. Checker!ApplyOperationTransformer(rules, outputs, inputs) = ApplyOperationTransformer(rules, outputs, inputs)
  BY Zenon DEF
    Checker!ApplyOperationTransformer, Checker!ApplyOutputRules, Checker!InterpretInferenceRule,
    Checker!PremisesHold, Checker!HasIntegrity, Checker!IsBottom, Checker!InterpretModifyTag,
    Checker!SetIntegrity, Checker!SetSecrecy, Checker!ClearSecrecy, Checker!InterpretMergeIntegrityTags,
    Checker!ApplyDefaultOperationTransformer, Checker!GetInitialState, Checker!MakeTags, Checker!ToSet,
    ApplyOperationTransformer, ApplyOutputRules, InterpretInferenceRule, PremisesHold,
    HasIntegrity, IsBottom, InterpretModifyTag, SetIntegrity, SetSecrecy, ClearSecrecy,
    InterpretMergeIntegrityTags, ApplyDefaultOperationTransformer, GetInitialState, MakeTags, ToSet
<1>2. Analysis!ApplyOperationTransformer(rules, outputs, inputs) =
        ApplyOperationTransformer(rules, outputs, inputs)
  BY Zenon DEF
    Analysis!ApplyOperationTransformer, Analysis!ApplyOutputRules,
    Analysis!InterpretInferenceRule, Analysis!PremisesHold, Analysis!HasIntegrity,
    Analysis!IsBottom, Analysis!InterpretModifyTag, Analysis!SetIntegrity, Analysis!SetSecrecy,
    Analysis!ClearSecrecy, Analysis!InterpretMergeIntegrityTags,
    Analysis!ApplyDefaultOperationTransformer, Analysis!GetInitialState, Analysis!MakeTags, Analysis!ToSet,
    ApplyOperationTransformer, ApplyOutputRules, InterpretInferenceRule, PremisesHold,
    HasIntegrity, IsBottom, InterpretModifyTag, SetIntegrity, SetSecrecy, ClearSecrecy,
    InterpretMergeIntegrityTags, ApplyDefaultOperationTransformer, GetInitialState, MakeTags, ToSet
<1>3. QED
  BY <1>1, <1>2

\* An operation that gets more computes no less, if its rules are monotone.
LEMMA MoreFromMore ==
  ASSUME NEW n \in Nat, NEW rules, DOMAIN rules \subseteq {1}, \A i \in DOMAIN rules : AreRules(rules[i], n),
         \A i \in DOMAIN rules : \A j \in 1 .. Len(rules[i]) : Analysis!IsMonotoneRule(rules[i][j]),
         NEW x \in [1 .. n -> AbstractState], NEW y \in [1 .. n -> AbstractState],
         \A i \in 1 .. n : Leq(x[i], y[i]),
         ApplyOperationTransformer(rules, 1, y) # CheckFailure
  PROVE  LET low == ApplyOperationTransformer(rules, 1, x)[1]
             high == ApplyOperationTransformer(rules, 1, y)[1]
         IN  high \in AbstractState /\ Leq(low, high)
<1>1. Checker!OperationRules(rules, 1, n)
  BY SemanticsIsTheSame DEF Checker!OperationRules
<1>2. x \in Checker!Inputs(n) /\ y \in Checker!Inputs(n) /\ Checker!LeqInputs(n, x, y)
  BY SemanticsIsTheSame DEF Checker!Inputs, Checker!LeqInputs
<1>3. \A i \in DOMAIN rules : \A j \in 1 .. Len(rules[i]) : Checker!IsMonotoneRule(rules[i][j])
  BY SemanticsIsTheSame
<1>4. Checker!ApplyOperationTransformer(rules, 1, y) # CheckFailure
  BY TransformerIsTheSame
<1>5. Bottom \notin Checker!IfcTags /\ CheckFailure \notin Checker!AbstractState \cup Seq(Checker!AbstractState)
  BY BottomAssumption, CheckFailureAssumption, SemanticsIsTheSame DEF IfcTags, Checker!IfcTags
<1>6. 1 \in Nat /\ 1 \in 1 .. 1
  OBVIOUS
<1>7. Checker!Leq(Checker!ApplyOperationTransformer(rules, 1, x)[1], Checker!ApplyOperationTransformer(rules, 1, y)[1])
  BY <1>1, <1>2, <1>3, <1>4, <1>5, <1>6, Checker!TransformerIsMonotone, OutsideIsNoResult
<1>8. Checker!ApplyOperationTransformer(rules, 1, y)[1] \in Checker!AbstractState
  BY <1>1, <1>2, <1>4, <1>5, <1>6, Checker!TransformerIs, OutsideIsNoResult
<1>9. QED
  BY <1>7, <1>8, SemanticsIsTheSame, TransformerIsTheSame

\* The order of states is one.
LEMMA LeqIsOrder ==
  ASSUME NEW a \in AbstractState, NEW b \in AbstractState, NEW c \in AbstractState
  PROVE  Leq(a, a) /\ (Leq(a, b) /\ Leq(b, c) => Leq(a, c))
BY DEF Leq, Join, IsBottom, MakeTags, AbstractState, IfcTags

-----------------------------------------------------------------------------
\* The module that is analysed; its values and their states.
LEMMA ModuleIs ==
  /\ AnalysedModule.ops = Operations
  /\ \A k \in Operations :
       /\ AnalysedModule.inputs[k] = Inputs(k) /\ AnalysedModule.outputs[k] = 1
       /\ AnalysedModule.rules[k] = OutputRules(k)
       /\ Analysis!Results(AnalysedModule, k) = {<<k, 1>>}
       /\ <<k, 1>> \in Analysis!ValueNodes(AnalysedModule)
       /\ \A i \in DOMAIN Inputs(k) : Inputs(k)[i] \in Analysis!ValueNodes(AnalysedModule)
  /\ \A v \in Analysis!ValueNodes(AnalysedModule) : Analysis!CurrentState(v) = StateOf(v)
<1>1. /\ AnalysedModule.ops = Operations
      /\ \A k \in Operations :
           /\ AnalysedModule.inputs[k] = Inputs(k) /\ AnalysedModule.outputs[k] = 1
           /\ AnalysedModule.rules[k] = OutputRules(k)
  BY DEF AnalysedModule, Inputs
<1>2. \A k \in Operations : /\ Analysis!Results(AnalysedModule, k) = {<<k, 1>>}
                            /\ Analysis!InputValues(AnalysedModule, k) = {Inputs(k)[i] : i \in DOMAIN Inputs(k)}
  BY <1>1 DEF Analysis!Results, Analysis!InputValues
<1>3. Analysis!ValueNodes(AnalysedModule) = DOMAIN ReturnedStates
  BY <1>1, <1>2 DEF Analysis!ValueNodes, ReturnedStates, Inputs, ToSet
<1>4. \A v \in DOMAIN ReturnedStates : ReturnedStates[v] = StateOf(v)
  BY DEF ReturnedStates, StateOf
<1>5. \A v \in Analysis!ValueNodes(AnalysedModule) : Analysis!CurrentState(v) = StateOf(v)
  BY <1>3, <1>4 DEF Analysis!CurrentState, Analysis!FirstVisit
<1>6. QED
  BY <1>1, <1>2, <1>5 DEF Analysis!ValueNodes

\* States of tags with ids are states of tags.
LEMMA StatesAreTags ==
  ASSUME Decoded
  PROVE  States \subseteq AbstractState
<1>1. Ids \subseteq Tag
  BY StatesAreIfcTags
<1>2. QED
  BY <1>1 DEF States, AbstractState, IfcTags

\* What an operation reads is an earlier result or from outside.
LEMMA InputKinds ==
  ASSUME Decoded, NEW k \in Operations, NEW i \in DOMAIN Inputs(k)
  PROVE  \/ \E j \in 1 .. k - 1 : j \in Operations /\ Inputs(k)[i] = <<j, 1>> /\ IsOperationResult(<<j, 1>>)
         \/ Inputs(k)[i] \in OutsideValues /\ ~IsOperationResult(Inputs(k)[i])
<1>1. query \in Queries /\ Operations = 1 .. Len(query.code) /\ Len(query.code) \in Nat
      /\ ReadsEarlier(k, Inputs(k)[i])
  BY DecodedIs
<1>2. CASE Inputs(k)[i] \in {<<j, 1>> : j \in 1 .. k - 1}
  BY <1>1, <1>2 DEF IsOperationResult
<1>3. CASE Inputs(k)[i] \notin Nat \X Nat
  <2>1. Code(k) \in ToSet(query.code) /\ Inputs(k)[i] \in ToSet(Code(k).inputs)
    BY DEF ToSet, Inputs, Code, Operations
  <2>2. Inputs(k)[i] \in OutsideValues
    BY <1>1, <1>3, <2>1 DEF OutsideValues
  <2>3. ~IsOperationResult(Inputs(k)[i])
    BY <1>1, <1>3 DEF IsOperationResult
  <2>4. QED
    BY <2>2, <2>3
<1>4. QED
  BY <1>1, <1>2, <1>3 DEF ReadsEarlier

\* The rules that the query was decoded into name inputs and tags there are.
LEMMA DecodedRulesFit ==
  ASSUME Decoded, NEW k \in Operations
  PROVE  /\ DOMAIN OutputRules(k) \subseteq {1}
         /\ \A i \in DOMAIN OutputRules(k) : AreRules(OutputRules(k)[i], Len(Inputs(k)))
<1> DEFINE n == Len(Inputs(k))
<1>1. n \in Nat /\ DOMAIN Inputs(k) = 1 .. n /\ Ids \subseteq Tag
  BY DecodedIs, StatesAreIfcTags
<1>2. OutputRules(k) = IF RulesOf(k) = <<>> THEN <<>> ELSE <<RulesOf(k)>>
  BY DEF OutputRules
<1>3. SUFFICES AreRules(RulesOf(k), n)
  BY <1>2
<1>4. CASE RulesOf(k) = <<>>
  BY <1>4 DEF AreRules
<1>5. CASE IsOrdinary(k)
  <2> DEFINE conclusion == ModifyTag(ModifyTagKind(Rule(k).action), tags[Rule(k).tag])
             copy == InferenceRule(CopyInput(1), {})
             modify == InferenceRule(conclusion, Premises(Rule(k), Code(k), tags))
  <2>1. /\ RulesOf(k) = <<copy, modify>> /\ 1 \in 1 .. n /\ tags[Rule(k).tag] \in Tag
        /\ Rule(k).action \in {"ADD_CONFIDENTIALITY", "REMOVE_CONFIDENTIALITY", "ADD_INTEGRITY"}
        /\ \A p \in ToSet(Rule(k).preconditions) :
             tags[p.tag] \in Tag /\ Code(k).arguments[p.argument] + 1 \in 1 .. n
    BY <1>1, <1>5, OrdinaryIs DEF TagTransformRules, Ids
  <2>2. IsRule(copy, n)
    BY <2>1 DEF IsRule, InferenceRule, IsConclusion
  <2>3. IsConclusion(conclusion, n)
    BY <2>1 DEF IsConclusion, ModifyTagKind
  <2>4. \A p \in Premises(Rule(k), Code(k), tags) : \E i \in 1 .. n, tag \in Tag : p = InputHasIntegrity(i, tag)
    BY <2>1 DEF Premises
  <2>5. IsRule(modify, n)
    <3> HIDE DEF conclusion
    <3>1. modify.conclusion = conclusion /\ modify.premises = Premises(Rule(k), Code(k), tags)
          /\ modify = InferenceRule(modify.conclusion, modify.premises)
      BY DEF InferenceRule
    <3>2. QED
      BY <2>3, <2>4, <3>1 DEF IsRule
  <2> HIDE DEF copy, modify
  <2>6. QED
    BY <2>1, <2>2, <2>5 DEF AreRules
<1>6. CASE Code(k).operator = "sql.merge" /\ Transforming(k) # {}
  <2>1. PICK j \in Transforming(k) : RulesOf(k) = MergeRules(Code(j).rule, Code(k))
    BY <1>6, MergeIs
  <2> DEFINE kind == IF Code(j).rule = UnionItagRule THEN "kUnion" ELSE "kIntersect"
             rule == InferenceRule(MergeIntegrityTags(kind, 1 .. Code(k).controlInputStart), {})
  <2>2. RulesOf(k) = <<rule>>
    BY <2>1 DEF MergeRules
  <2>3. IsRule(rule, n)
    BY DEF IsRule, InferenceRule, IsConclusion, MergeIntegrityTags
  <2> HIDE DEF rule
  <2>4. QED
    BY <2>2, <2>3 DEF AreRules
<1>7. QED
  BY <1>4, <1>5, <1>6, OperationKinds, SpecialIs, MergeIs, OtherIs

\* The transformer of the analysis, at states of the values.
LEMMA TransformerAtIs ==
  ASSUME NEW states, NEW k \in Operations
  PROVE  Analysis!TransformerAt(states, k) =
           ApplyOperationTransformer(OutputRules(k), 1, [i \in DOMAIN Inputs(k) |-> states[Inputs(k)[i]]])
BY ModuleIs, TransformerIsTheSame DEF Analysis!TransformerAt, Analysis!TransformerOf

\* The states are a solution.
LEMMA StatesAreSolution ==
  ASSUME Evaluated
  PROVE  Analysis!IsSolution(Analysis!TotalStates)
<1>1. ASSUME NEW k \in Operations
      PROVE  /\ Analysis!TransformerAt(Analysis!TotalStates, k) # CheckFailure
             /\ \A v \in Analysis!Results(AnalysedModule, k) :
                  Analysis!LeqOp(Analysis!TransformerAt(Analysis!TotalStates, k)[v[2]], Analysis!TotalStates[v])
  <2> DEFINE states == Analysis!TotalStates
             results == ApplyOperationTransformer(OutputRules(k), 1, InputStates(k))
  <2>1. /\ \A i \in DOMAIN Inputs(k) : states[Inputs(k)[i]] = StateOf(Inputs(k)[i])
        /\ states[<<k, 1>>] = StateOf(<<k, 1>>)
    BY ModuleIs DEF Analysis!TotalStates
  <2> HIDE DEF states
  <2>2. [i \in DOMAIN Inputs(k) |-> states[Inputs(k)[i]]] = InputStates(k)
    BY <2>1 DEF InputStates
  <2>3. Analysis!TransformerAt(states, k) = results
    BY <2>2, TransformerAtIs
  <2>4. results # CheckFailure /\ AbstractStates[k] = results[1]
    BY TransformedStateIs, Zenon
  <2> HIDE DEF results
  <2>5. StateOf(<<k, 1>>) = AbstractStates[k] /\ AbstractStates[k] \in AbstractState
    BY ResultState, AllReached, StatesAreTags DEF Evaluated
  <2>6. Leq(results[1], states[<<k, 1>>])
    BY <2>1, <2>4, <2>5, LeqIsOrder
  <2>7. QED
    BY <2>3, <2>4, <2>6, ModuleIs, SemanticsIsTheSame DEF states
<1>2. QED
  BY <1>1, ModuleIs DEF Analysis!IsSolution

\* They are below every other.
LEMMA StatesAreBelow ==
  ASSUME Evaluated, RulesAreMonotone, NEW states \in Analysis!Assignments, Analysis!IsSolution(states)
  PROVE  \A v \in Analysis!ValueNodes(AnalysedModule) : Leq(StateOf(v), states[v])
<1> DEFINE P == {k \in Operations : Leq(AbstractStates[k], states[<<k, 1>>])}
           nodes == Analysis!ValueNodes(AnalysedModule)
<1>1. Decoded
  BY DEF Evaluated
<1>2. \A v \in nodes : /\ states[v] \in AbstractState
                       /\ v \in OutsideValues => states[v] = GetInitialState(v)
  <2>1. PICK r \in [nodes \ OutsideValues -> AbstractState] :
          states = [v \in nodes |-> IF v \in OutsideValues THEN Analysis!GetInitialState(v) ELSE r[v]]
    BY SemanticsIsTheSame DEF Analysis!Assignments
  <2>2. \A v : GetInitialState(v) \in AbstractState /\ Analysis!GetInitialState(v) = GetInitialState(v)
    BY SemanticsIsTheSame DEF GetInitialState, MakeTags, AbstractState, IfcTags
  <2> HIDE DEF nodes
  <2>3. QED
    BY <2>1, <2>2
<1>3. \A v : StateOf(v) \in AbstractState
  BY <1>1, AllReached, StatesAreTags
<1>4. ASSUME NEW k \in Operations, \A j \in 1 .. k - 1 : j \in P,
             NEW i \in DOMAIN Inputs(k)
      PROVE  Leq(StateOf(Inputs(k)[i]), states[Inputs(k)[i]])
  <2>1. Inputs(k)[i] \in nodes
    BY ModuleIs
  <2>2. CASE Inputs(k)[i] \in OutsideValues /\ ~IsOperationResult(Inputs(k)[i])
    <3>1. StateOf(Inputs(k)[i]) = states[Inputs(k)[i]]
      BY <1>2, <2>1, <2>2 DEF StateOf, GetInitialState
    <3>2. QED
      BY <1>3, <3>1, LeqIsOrder
  <2>3. CASE \E j \in 1 .. k - 1 : j \in Operations /\ Inputs(k)[i] = <<j, 1>> /\ IsOperationResult(<<j, 1>>)
    <3>1. PICK j \in 1 .. k - 1 : j \in Operations /\ Inputs(k)[i] = <<j, 1>>
      BY <2>3
    <3>2. StateOf(<<j, 1>>) = AbstractStates[j]
      BY <1>1, <3>1, ResultState
    <3>3. QED
      BY <1>4, <3>1, <3>2
  <2>4. QED
    BY <1>1, <2>2, <2>3, InputKinds
<1>5. ASSUME NEW k \in Operations, \A j \in 1 .. k - 1 : j \in P
      PROVE  k \in P
  <2> DEFINE n == Len(Inputs(k))
             x == InputStates(k)
             y == [i \in DOMAIN Inputs(k) |-> states[Inputs(k)[i]]]
             low == ApplyOperationTransformer(OutputRules(k), 1, x)
             high == ApplyOperationTransformer(OutputRules(k), 1, y)
  <2>1. n \in Nat /\ DOMAIN Inputs(k) = 1 .. n
    BY <1>1, DecodedIs
  <2>2. x \in [1 .. n -> AbstractState] /\ y \in [1 .. n -> AbstractState]
    BY <1>2, <1>3, <2>1, ModuleIs DEF InputStates
  <2>3. \A i \in 1 .. n : Leq(x[i], y[i])
    BY <1>4, <1>5, <2>1 DEF InputStates
  <2>4. Analysis!TransformerAt(states, k) = high
    BY TransformerAtIs
  <2> HIDE DEF high
  <2>5. high # CheckFailure /\ Leq(high[1], states[<<k, 1>>])
    <3>1. /\ Analysis!TransformerAt(states, k) # CheckFailure
          /\ \A v \in Analysis!Results(AnalysedModule, k) :
               Analysis!LeqOp(Analysis!TransformerAt(states, k)[v[2]], states[v])
      BY ModuleIs DEF Analysis!IsSolution
    <3>2. QED
      BY <2>4, <3>1, ModuleIs, SemanticsIsTheSame
  <2>6. \A i \in DOMAIN OutputRules(k) : \A j \in 1 .. Len(OutputRules(k)[i]) :
          Analysis!IsMonotoneRule(OutputRules(k)[i][j])
    BY ModuleIs DEF RulesAreMonotone, Analysis!MonotoneRules
  <2>7. high[1] \in AbstractState /\ Leq(low[1], high[1])
    <3> HIDE DEF x, y
    <3>1. QED
      BY <1>1, <2>1, <2>2, <2>3, <2>5, <2>6, DecodedRulesFit, MoreFromMore DEF high
  <2>8. AbstractStates[k] = low[1]
    BY TransformedStateIs, Zenon
  <2>9. AbstractStates[k] \in AbstractState /\ states[<<k, 1>>] \in AbstractState
    BY <1>1, <1>2, ModuleIs, AllReached, StatesAreTags
  <2> HIDE DEF low
  <2>10. QED
    BY <2>5, <2>7, <2>8, <2>9, LeqIsOrder
<1> HIDE DEF P
<1>6. Operations \subseteq P
  BY <1>1, <1>5, ByOperations
<1>7. ASSUME NEW v \in nodes
      PROVE  Leq(StateOf(v), states[v])
  <2>1. CASE \E k \in Operations : v \in Analysis!Results(AnalysedModule, k)
    <3>1. PICK k \in Operations : v = <<k, 1>>
      BY <2>1, ModuleIs
    <3>2. QED
      BY <1>1, <1>6, <3>1, ResultState DEF P
  <2>2. CASE \E k \in Operations : v \in Analysis!InputValues(AnalysedModule, k)
    <3>1. PICK k \in Operations : v \in Analysis!InputValues(AnalysedModule, k)
      BY <2>2
    <3>2. PICK i \in DOMAIN Inputs(k) : v = Inputs(k)[i]
      BY <3>1, ModuleIs DEF Analysis!InputValues
    <3>3. \A j \in 1 .. k - 1 : j \in P
      BY <1>1, <1>6, DecodedIs
    <3>4. QED
      BY <1>4, <3>2, <3>3 DEF P
  <2>3. QED
    BY <2>1, <2>2, ModuleIs DEF Analysis!ValueNodes
<1>8. QED
  BY <1>7

\* What the order of the operations computes is the least solution of the
\* analysis of the query's module, if no CHECK fails and the rules are
\* monotone: what ComputeFixpoint returns from a hash set, in any order.
THEOREM StatesAreLeast == Spec => []StatesAreReturned
<1>1. IInv => StatesAreReturned
  <2> SUFFICES ASSUME Evaluated, RulesAreMonotone
               PROVE  Analysis!ReturnsLeastSolution
    BY DEF StatesAreReturned, Evaluated, Decoded
  <2>1. Analysis!IsSolution(Analysis!TotalStates)
    BY StatesAreSolution
  <2>2. ASSUME NEW states \in Analysis!Assignments, Analysis!IsSolution(states),
               NEW v \in Analysis!ValueNodes(AnalysedModule)
        PROVE  Analysis!LeqOp(Analysis!CurrentState(v), states[v])
    BY <2>2, StatesAreBelow, ModuleIs, SemanticsIsTheSame
  <2>3. QED
    BY <2>1, <2>2 DEF Analysis!ReturnsLeastSolution
<1>2. QED
  BY <1>1, DecodingInvariant, PTL
=============================================================================
