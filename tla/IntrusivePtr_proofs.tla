------------------------ MODULE IntrusivePtr_proofs ------------------------
(***************************************************************************)
(* Proofs about intrusive_ptr for any number of handles and objects.       *)
(***************************************************************************)
EXTENDS IntrusivePtr, FiniteSetTheorems, TLAPS

\* An object is allocated as long as its count is not zero.
LiveAreCounted == live = {o \in Object : count[o] # 0}

\* The inductive invariant: where handles point to follows from the counts.
CountInv == TypeOK /\ CountsAreExact /\ LiveAreCounted

-----------------------------------------------------------------------------
LEMMA RefsFinite ==
  ASSUME NEW o
  PROVE  IsFiniteSet(Refs(o)) /\ Cardinality(Refs(o)) \in Nat
<1>1. IsFiniteSet({Other, Result})
  <2>1. IsFiniteSet({Other}) /\ {Other, Result} = {Other} \cup {Result}
    BY FS_Singleton
  <2>2. QED
    BY <2>1, FS_AddElement
<1>2. IsFiniteSet(Handle)
  BY <1>1, HandlesAssumption, FS_Union DEF Handle
<1>3. IsFiniteSet(Refs(o))
  BY <1>2, FS_Subset DEF Refs
<1>4. QED
  BY <1>3, FS_CardinalityType

\* A handle takes the place of another: the number of handles is the same.
LEMMA Replaced ==
  ASSUME NEW S, IsFiniteSet(S), NEW x \in S, NEW y, y \notin S
  PROVE  Cardinality((S \ {x}) \cup {y}) = Cardinality(S)
<1>1. IsFiniteSet(S \ {x}) /\ Cardinality(S \ {x}) = Cardinality(S) - 1
  BY FS_RemoveElement
<1>2. Cardinality((S \ {x}) \cup {y}) = Cardinality(S \ {x}) + 1
  BY <1>1, FS_AddElement
<1>3. Cardinality(S) \in Nat
  BY FS_CardinalityType
<1>4. QED
  BY <1>1, <1>2, <1>3

\* Swapping p into h, with the parameter null before, adds a handle to p
\* and keeps the number of handles of every other object.
LEMMA SwapCounts ==
  ASSUME TypeOK, ptr[Other] = Null, NEW h \in Variable, NEW p \in Object \cup {Null},
         SwapInto(h, p), NEW o \in Object
  PROVE  Cardinality(Refs(o)') = Cardinality(Refs(o)) + (IF p = o THEN 1 ELSE 0)
<1> DEFINE R == Refs(o)
<1>1. IsFiniteSet(R) /\ Cardinality(R) \in Nat
  BY RefsFinite
<1>2. Other \notin R /\ (h \in R <=> ptr[h] = o) /\ h # Other
  BY HandlesAssumption DEF Refs, Handle
<1>3. \A g \in Handle : ptr'[g] = IF g = Other THEN ptr[h] ELSE IF g = h THEN p ELSE ptr[g]
  BY <1>2 DEF SwapInto, TypeOK, Handle
<1>4. CASE ptr[h] = o /\ p = o
  <2>1. Refs(o)' = R \cup {Other}
    BY <1>2, <1>3, <1>4 DEF Refs, Handle
  <2>2. Cardinality(R \cup {Other}) = Cardinality(R) + 1
    BY <1>1, <1>2, FS_AddElement
  <2>3. QED
    BY <1>4, <2>1, <2>2
<1>5. CASE ptr[h] = o /\ p # o
  <2>1. Refs(o)' = (R \ {h}) \cup {Other}
    BY <1>2, <1>3, <1>5 DEF Refs, Handle
  <2>2. QED
    BY <1>1, <1>2, <1>5, <2>1, Replaced
<1>6. CASE ptr[h] # o /\ p = o
  <2>1. Refs(o)' = R \cup {h}
    BY <1>2, <1>3, <1>6 DEF Refs, Handle
  <2>2. QED
    BY <1>1, <1>2, <1>6, <2>1, FS_AddElement
<1>7. CASE ptr[h] # o /\ p # o
  <2>1. Refs(o)' = R
    BY <1>2, <1>3, <1>7 DEF Refs, Handle
  <2>2. QED
    BY <1>1, <1>7, <2>1
<1>8. QED
  BY <1>4, <1>5, <1>6, <1>7

\* A move keeps the number of handles of every object, also of h to h.
LEMMA MoveCounts ==
  ASSUME TypeOK, Statement, NEW h \in Variable, NEW g \in Variable,
         MoveAssign(h, g), NEW o \in Object
  PROVE  Cardinality(Refs(o)') = Cardinality(Refs(o))
<1> DEFINE R == Refs(o)
<1>1. IsFiniteSet(R) /\ Cardinality(R) \in Nat
  BY RefsFinite
<1>2. /\ Other \notin R /\ ptr[Other] = Null /\ h # Other /\ g # Other
      /\ (h \in R <=> ptr[h] = o) /\ (g \in R <=> ptr[g] = o)
  BY HandlesAssumption DEF Refs, Handle, TypeOK, Statement
<1>3. CASE h = g
  <2>1. \A k \in Handle : ptr'[k] = ptr[k]
    BY <1>2, <1>3 DEF MoveAssign, TypeOK, Handle
  <2>2. QED
    BY <2>1 DEF Refs
<1>4. CASE h # g
  <2>1. \A k \in Handle :
          ptr'[k] = IF k = Other THEN ptr[h] ELSE IF k = h THEN ptr[g]
                    ELSE IF k = g THEN Null ELSE ptr[k]
    BY <1>2, <1>4 DEF MoveAssign, TypeOK, Handle
  <2>2. CASE ptr[g] = o /\ ptr[h] = o
    <3>1. Refs(o)' = (R \ {g}) \cup {Other}
      BY <1>2, <1>4, <2>1, <2>2, HandlesAssumption DEF Refs, Handle
    <3>2. QED
      BY <1>1, <1>2, <2>2, <3>1, Replaced
  <2>3. CASE ptr[g] = o /\ ptr[h] # o
    <3>1. Refs(o)' = (R \ {g}) \cup {h}
      BY <1>2, <1>4, <2>1, <2>3, HandlesAssumption DEF Refs, Handle
    <3>2. QED
      BY <1>1, <1>2, <2>3, <3>1, Replaced
  <2>4. CASE ptr[g] # o /\ ptr[h] = o
    <3>1. Refs(o)' = (R \ {h}) \cup {Other}
      BY <1>2, <1>4, <2>1, <2>4, HandlesAssumption DEF Refs, Handle
    <3>2. QED
      BY <1>1, <1>2, <2>4, <3>1, Replaced
  <2>5. CASE ptr[g] # o /\ ptr[h] # o
    <3>1. Refs(o)' = R
      BY <1>2, <1>4, <2>1, <2>5, HandlesAssumption DEF Refs, Handle
    <3>2. QED
      BY <3>1
  <2>6. QED
    BY <2>2, <2>3, <2>4, <2>5
<1>5. QED
  BY <1>3, <1>4

-----------------------------------------------------------------------------
\* Counts that follow the handles, and an allocation that follows the counts.
LEMMA CountsFollow ==
  ASSUME CountInv, TypeOK', failed' = FALSE, NEW d \in [Object -> {0, 1, 2}],
         \A o \in Object : Cardinality(Refs(o)') = Cardinality(Refs(o)) + d[o],
         \A o \in Object : count'[o] = count[o] + d[o],
         live' = live \cup {o \in Object : d[o] # 0}
  PROVE  CountInv'
<1>1. CountsAreExact'
  BY DEF CountInv, CountsAreExact
<1>2. LiveAreCounted'
  BY DEF CountInv, TypeOK, LiveAreCounted
<1>3. QED
  BY <1>1, <1>2 DEF CountInv

\* An address that is not in use has no handles.
LEMMA FreshHasNoHandles ==
  ASSUME CountInv, NEW o \in Object \ live
  PROVE  count[o] = 0 /\ Refs(o) = {} /\ Cardinality(Refs(o)) = 0
<1>1. count[o] = 0 /\ Cardinality(Refs(o)) = 0
  BY DEF CountInv, TypeOK, CountsAreExact, LiveAreCounted
<1>2. QED
  BY <1>1, RefsFinite, FS_EmptySet

LEMMA CreateStep ==
  ASSUME CountInv, NEW h \in Variable, Create(h)
  PROVE  CountInv'
<1>1. PICK o \in Object \ live :
        live' = live \cup {o} /\ count' = [count EXCEPT ![o] = 1] /\ SwapInto(h, o)
  BY DEF Create
<1>2. ptr[Other] = Null /\ TypeOK
  BY DEF Create, Statement, CountInv, TypeOK
<1> DEFINE d == [p \in Object |-> IF p = o THEN 1 ELSE 0]
<1>3. \A p \in Object : Cardinality(Refs(p)') = Cardinality(Refs(p)) + d[p]
  BY <1>1, <1>2, SwapCounts
<1>4. count[o] = 0
  BY <1>1, FreshHasNoHandles
<1>5. \A p \in Object : count'[p] = count[p] + d[p]
  BY <1>1, <1>2, <1>4 DEF TypeOK
<1>6. TypeOK'
  BY <1>1, <1>2, HandlesAssumption DEF TypeOK, Create, Statement, SwapInto, Handle
<1>7. failed' = FALSE /\ live' = live \cup {p \in Object : d[p] # 0}
  BY <1>1 DEF Create, Statement, CountInv, TypeOK
<1>8. d \in [Object -> {0, 1, 2}]
  OBVIOUS
<1> HIDE DEF d
<1>9. QED
  BY <1>3, <1>5, <1>6, <1>7, <1>8, CountsFollow

LEMMA CreateConvertedStep ==
  ASSUME CountInv, NEW h \in Variable, CreateConverted(h)
  PROVE  CountInv'
<1>1. PICK o \in Object \ live :
        /\ live' = live \cup {o} /\ count' = [count EXCEPT ![o] = 2]
        /\ ptr' = [ptr EXCEPT ![h] = o, ![Other] = ptr[h], ![Result] = o]
  BY DEF CreateConverted
<1>2. ptr[Other] = Null /\ ptr[Result] = Null /\ TypeOK
  BY DEF CreateConverted, Statement, CountInv, TypeOK
<1>3. count[o] = 0 /\ Refs(o) = {} /\ Cardinality(Refs(o)) = 0
  BY <1>1, FreshHasNoHandles
<1>4. h # Other /\ h # Result /\ Other # Result
  BY HandlesAssumption
<1>5. \A k \in Handle : ptr'[k] = IF k = Other THEN ptr[h]
                                  ELSE IF k \in {h, Result} THEN o ELSE ptr[k]
  BY <1>1, <1>2, <1>4 DEF TypeOK, Handle
<1> DEFINE d == [p \in Object |-> IF p = o THEN 2 ELSE 0]
<1>6. \A p \in Object : Cardinality(Refs(p)') = Cardinality(Refs(p)) + d[p]
  <2> TAKE p \in Object
  <2>1. CASE p = o
    <3>1. ptr[h] # o
      BY <1>3 DEF Refs, Handle
    <3>2. Refs(o)' = {h} \cup {Result}
      BY <1>3, <1>4, <1>5, <3>1 DEF Refs, Handle
    <3>3. IsFiniteSet({h}) /\ Cardinality({h}) = 1
      BY FS_Singleton
    <3>4. Cardinality({h} \cup {Result}) = Cardinality({h}) + 1
      BY <1>4, <3>3, FS_AddElement
    <3>5. Cardinality(Refs(o)') = 2
      BY <3>2, <3>3, <3>4
    <3>6. QED
      BY <1>3, <2>1, <3>5
  <2>2. CASE p # o /\ ptr[h] = p
    <3>1. Refs(p)' = (Refs(p) \ {h}) \cup {Other}
      BY <1>2, <1>4, <1>5, <2>2, HandlesAssumption DEF Refs, Handle
    <3>2. IsFiniteSet(Refs(p)) /\ Cardinality(Refs(p)) \in Nat
      BY RefsFinite
    <3>3. h \in Refs(p) /\ Other \notin Refs(p)
      BY <1>2, <2>2, HandlesAssumption DEF Refs, Handle
    <3>4. QED
      BY <2>2, <3>1, <3>2, <3>3, Replaced
  <2>3. CASE p # o /\ ptr[h] # p
    <3>1. Refs(p)' = Refs(p)
      BY <1>2, <1>4, <1>5, <2>3, HandlesAssumption DEF Refs, Handle
    <3>2. QED
      BY <2>3, <3>1, RefsFinite
  <2>4. QED
    BY <2>1, <2>2, <2>3
<1>7. \A p \in Object : count'[p] = count[p] + d[p]
  BY <1>1, <1>2, <1>3 DEF TypeOK
<1>8. TypeOK'
  BY <1>1, <1>2, HandlesAssumption DEF TypeOK, CreateConverted, Statement, Handle
<1>9. failed' = FALSE /\ live' = live \cup {p \in Object : d[p] # 0}
  BY <1>1 DEF CreateConverted, Statement, CountInv, TypeOK
<1>10. d \in [Object -> {0, 1, 2}]
  OBVIOUS
<1> HIDE DEF d
<1>11. QED
  BY <1>6, <1>7, <1>8, <1>9, <1>10, CountsFollow

LEMMA CopyAssignStep ==
  ASSUME CountInv, NEW h \in Variable, NEW g \in Variable, CopyAssign(h, g)
  PROVE  CountInv'
<1>1. ptr[Other] = Null /\ TypeOK /\ ptr[g] \in Object \cup {Null}
  BY DEF CopyAssign, Statement, CountInv, TypeOK, Handle
<1> DEFINE d == [p \in Object |-> IF ptr[g] = p THEN 1 ELSE 0]
<1>2. \A p \in Object : Cardinality(Refs(p)') = Cardinality(Refs(p)) + d[p]
  BY <1>1, SwapCounts DEF CopyAssign
<1>3. \A p \in Object : count'[p] = count[p] + d[p]
  BY <1>1 DEF CopyAssign, Retain, TypeOK
<1>4. TypeOK'
  BY <1>1, HandlesAssumption
  DEF TypeOK, CopyAssign, Statement, SwapInto, Retain, Handle
<1>5. \A p \in Object : d[p] # 0 => p \in live
  <2> SUFFICES ASSUME NEW p \in Object, ptr[g] = p
               PROVE  p \in live
    OBVIOUS
  <2>1. Refs(p) # {}
    BY DEF Refs, Handle
  <2>2. QED
    BY <2>1, FreshHasNoHandles
<1>6. failed' = FALSE /\ live' = live \cup {p \in Object : d[p] # 0}
  BY <1>5 DEF CopyAssign, Statement, CountInv, TypeOK
<1>7. d \in [Object -> {0, 1, 2}]
  OBVIOUS
<1> HIDE DEF d
<1>8. QED
  BY <1>2, <1>3, <1>4, <1>6, <1>7, CountsFollow

LEMMA MoveAssignStep ==
  ASSUME CountInv, NEW h \in Variable, NEW g \in Variable, MoveAssign(h, g)
  PROVE  CountInv'
<1>1. TypeOK /\ Statement
  BY DEF CountInv, MoveAssign
<1> DEFINE d == [p \in Object |-> 0]
<1>2. \A p \in Object : Cardinality(Refs(p)') = Cardinality(Refs(p)) + d[p]
  BY <1>1, MoveCounts, RefsFinite
<1>3. \A p \in Object : count'[p] = count[p] + d[p]
  BY <1>1 DEF MoveAssign, TypeOK
<1>4. TypeOK'
  <2>1. ptr[g] \in Object \cup {Null} /\ ptr[h] \in Object \cup {Null}
    BY <1>1 DEF TypeOK, Handle
  <2>2. ptr' \in [Handle -> Object \cup {Null}] /\ ptr'[Result] = ptr[Result]
    BY <1>1, <2>1, HandlesAssumption DEF TypeOK, MoveAssign, Handle
  <2>3. QED
    BY <1>1, <2>2 DEF TypeOK, MoveAssign, Statement
<1>5. failed' = FALSE /\ live' = live \cup {p \in Object : d[p] # 0}
  BY <1>1 DEF MoveAssign, Statement, TypeOK
<1>6. d \in [Object -> {0, 1, 2}]
  OBVIOUS
<1> HIDE DEF d
<1>7. QED
  BY <1>2, <1>3, <1>4, <1>5, <1>6, CountsFollow

LEMMA ResetStep ==
  ASSUME CountInv, NEW h \in Variable, Reset(h)
  PROVE  CountInv'
<1>1. ptr[Other] = Null /\ TypeOK
  BY DEF Reset, Statement, CountInv, TypeOK
<1> DEFINE d == [p \in Object |-> 0]
<1>2. \A p \in Object : Cardinality(Refs(p)') = Cardinality(Refs(p)) + d[p]
  BY <1>1, SwapCounts, HandlesAssumption DEF Reset
<1>3. \A p \in Object : count'[p] = count[p] + d[p]
  BY <1>1 DEF Reset, TypeOK
<1>4. TypeOK'
  BY <1>1, HandlesAssumption DEF TypeOK, Reset, Statement, SwapInto, Handle
<1>5. failed' = FALSE /\ live' = live \cup {p \in Object : d[p] # 0}
  BY <1>1 DEF Reset, Statement, TypeOK
<1>6. d \in [Object -> {0, 1, 2}]
  OBVIOUS
<1> HIDE DEF d
<1>7. QED
  BY <1>2, <1>3, <1>4, <1>5, <1>6, CountsFollow

-----------------------------------------------------------------------------
\* The handle that dies is counted, so that the CHECK holds; the object is
\* deleted with its last handle.
LEMMA DestroyStep ==
  ASSUME CountInv, NEW h \in Handle, Destroy(h)
  PROVE  CountInv'
<1> DEFINE o == ptr[h]
<1>1. TypeOK /\ o \in Object /\ ptr[h] # Null
  BY DEF CountInv, TypeOK, Destroy
<1>2. IsFiniteSet(Refs(o)) /\ h \in Refs(o)
  BY RefsFinite DEF Refs
<1>3. count[o] = Cardinality(Refs(o)) /\ count[o] \in Nat /\ count[o] # 0
  BY <1>1, <1>2, FS_EmptySet DEF CountInv, CountsAreExact, TypeOK
<1>4. failed' = FALSE /\ count' = [count EXCEPT ![o] = count[o] - 1]
  BY <1>1, <1>3 DEF Destroy, FetchSub, TypeOK
<1>5. \A p \in Object : Refs(p)' = Refs(p) \ {h}
  BY <1>1, HandlesAssumption DEF Destroy, Refs, TypeOK
<1>6. \A p \in Object : count'[p] = Cardinality(Refs(p)')
  <2> TAKE p \in Object
  <2>1. CASE p = o
    BY <1>1, <1>2, <1>3, <1>4, <1>5, <2>1, FS_RemoveElement DEF TypeOK
  <2>2. CASE p # o
    <3>1. Refs(p)' = Refs(p)
      BY <1>5, <2>2 DEF Refs
    <3>2. QED
      BY <1>1, <1>4, <2>2, <3>1 DEF CountInv, CountsAreExact, TypeOK
  <2>3. QED
    BY <2>1, <2>2
<1>7. live' = {p \in Object : count'[p] # 0}
  BY <1>1, <1>3, <1>4 DEF Destroy, CountInv, LiveAreCounted, TypeOK
<1>8. TypeOK'
  <2>1. count' \in [Object -> Nat] /\ live' \subseteq Object
    BY <1>1, <1>3, <1>4, <1>7 DEF TypeOK
  <2>2. /\ ptr' = [ptr EXCEPT ![h] = Null] /\ dying' = dying \ {h}
        /\ ptr \in [Handle -> Object \cup {Null}]
    BY <1>1 DEF Destroy, TypeOK
  <2>3. ptr' \in [Handle -> Object \cup {Null}] /\ dying' \subseteq {Other, Result}
    BY <1>1, <2>2 DEF TypeOK
  <2>4. \A k \in {Other, Result} \ dying' : ptr'[k] = Null
    <3> SUFFICES ASSUME NEW k \in {Other, Result}, k \notin dying'
                 PROVE  ptr'[k] = Null
      OBVIOUS
    <3>1. k \in Handle
      BY DEF Handle
    <3>2. k = h \/ k \notin dying
      BY <2>2
    <3>3. QED
      BY <1>1, <2>2, <3>1, <3>2 DEF TypeOK
  <2>5. QED
    BY <1>4, <2>1, <2>3, <2>4 DEF TypeOK
<1>9. QED
  BY <1>4, <1>6, <1>7, <1>8 DEF CountInv, CountsAreExact, LiveAreCounted

LEMMA DestroyNullStep ==
  ASSUME CountInv, NEW h \in Handle, DestroyNull(h)
  PROVE  CountInv'
<1>1. UNCHANGED <<live, count, ptr, failed>>
  BY DEF DestroyNull
<1>2. TypeOK'
  BY <1>1 DEF CountInv, TypeOK, DestroyNull
<1>3. CountsAreExact' /\ LiveAreCounted'
  BY <1>1 DEF CountInv, CountsAreExact, LiveAreCounted, Refs
<1>4. QED
  BY <1>2, <1>3 DEF CountInv

LEMMA InitCounts == Init => CountInv
<1> SUFFICES ASSUME Init
             PROVE  CountInv
  OBVIOUS
<1>1. TypeOK
  BY DEF Init, TypeOK, Handle
<1>2. LiveAreCounted
  BY DEF Init, LiveAreCounted
<1>3. \A o \in Object : Refs(o) = {}
  BY HandlesAssumption DEF Init, Refs
<1>4. CountsAreExact
  BY <1>3, FS_EmptySet DEF Init, CountsAreExact
<1>5. QED
  BY <1>1, <1>2, <1>4 DEF CountInv

LEMMA NextCounts == CountInv /\ [Next]_vars => CountInv'
<1> SUFFICES ASSUME CountInv, [Next]_vars
             PROVE  CountInv'
  OBVIOUS
<1>1. ASSUME NEW h \in Variable, Create(h) \/ CreateConverted(h) \/ Reset(h)
      PROVE  CountInv'
  BY <1>1, CreateStep, CreateConvertedStep, ResetStep
<1>2. ASSUME NEW h \in Variable, NEW g \in Variable, CopyAssign(h, g) \/ MoveAssign(h, g)
      PROVE  CountInv'
  BY <1>2, CopyAssignStep, MoveAssignStep
<1>3. ASSUME NEW h \in Handle, Destroy(h) \/ DestroyNull(h)
      PROVE  CountInv'
  BY <1>3, DestroyStep, DestroyNullStep
<1>4. CASE UNCHANGED vars
  BY <1>4 DEF vars, CountInv, TypeOK, CountsAreExact, LiveAreCounted, Refs
<1>5. QED
  BY <1>1, <1>2, <1>3, <1>4 DEF Next

(***************************************************************************)
(* Counts are exact, and the CHECK in FetchSub never fails, for any number *)
(* of handles and objects.                                                 *)
(***************************************************************************)
THEOREM ExactCounts == Spec => []CountsAreExact
<1>1. CountInv => CountsAreExact
  BY DEF CountInv
<1>2. QED
  BY InitCounts, NextCounts, <1>1, PTL DEF Spec

(***************************************************************************)
(* No handle refers to a deleted object: what is referred to is counted,   *)
(* and what is counted is allocated.                                       *)
(***************************************************************************)
THEOREM NeverDangling == Spec => []NoDangling
<1>1. CountInv => NoDangling
  <2> SUFFICES ASSUME CountInv, NEW h \in Handle, ptr[h] # Null
               PROVE  ptr[h] \in live
    BY DEF NoDangling
  <2>1. ptr[h] \in Object /\ Refs(ptr[h]) # {}
    BY DEF CountInv, TypeOK, Refs
  <2>2. QED
    BY <2>1, FreshHasNoHandles
<1>2. QED
  BY InitCounts, NextCounts, <1>1, PTL DEF Spec

(***************************************************************************)
(* No object leaks: an allocated object is counted, and what is counted is *)
(* referred to.                                                            *)
(***************************************************************************)
THEOREM NeverForgotten == Spec => []NothingForgotten
<1>1. CountInv => NothingForgotten
  <2> SUFFICES ASSUME CountInv, NEW o \in live
               PROVE  Refs(o) # {}
    BY DEF NothingForgotten
  <2>1. Cardinality(Refs(o)) # 0
    BY DEF CountInv, CountsAreExact, LiveAreCounted
  <2>2. QED
    BY <2>1, FS_EmptySet
<1>2. QED
  BY InitCounts, NextCounts, <1>1, PTL DEF Spec
=============================================================================
