---------------------------- MODULE IntrusivePtr ----------------------------
(***************************************************************************)
(* intrusive_ptr, RefCounted and RefCounter (src/common/utils): shared     *)
(* objects (tag sets, types, attributes) that count the handles to them.   *)
(* A statement assigns to one handle and leaves temporaries behind; their  *)
(* destructors run before the next statement, in any order.  The counter   *)
(* is not atomic: the handles of an object belong to one thread.           *)
(***************************************************************************)
EXTENDS Naturals, FiniteSets

CONSTANTS
  Object,    \* the addresses objects may be allocated at
  Variable,  \* the handles that the client declares
  Other,     \* the parameter of operator=
  Result,    \* the temporary that make_intrusive_ptr returns
  Null       \* the null pointer

Handle == Variable \cup {Other, Result}

ASSUME HandlesAssumption ==
  /\ IsFiniteSet(Variable) /\ Null \notin Object
  /\ Other \notin Variable /\ Result \notin Variable /\ Other # Result

VARIABLES
  live,    \* the objects that are allocated
  count,   \* count_ of every object
  ptr,     \* ptr_ of every handle; Null for a handle that does not exist
  dying,   \* the handles whose destructors have to run
  failed   \* the CHECK of FetchSub failed

vars == <<live, count, ptr, dying, failed>>

\* The handles that refer to an object.
Refs(o) == {h \in Handle : ptr[h] = o}

Init ==
  /\ live = {}
  /\ count = [o \in Object |-> 0]
  /\ ptr = [h \in Handle |-> Null]
  /\ dying = {}
  /\ failed = FALSE

\* No destructor is running: the client's next statement.
Statement == dying = {} /\ ~failed

Retain(p) == [o \in Object |-> IF o = p THEN count[o] + 1 ELSE count[o]]

\* operator=: swap with the parameter, which is destroyed then.
SwapInto(h, p) ==
  /\ ptr' = [ptr EXCEPT ![h] = p, ![Other] = ptr[h]]
  /\ dying' = {Other}

\* h = make_intrusive_ptr<T>(): the parameter is the result.
Create(h) ==
  /\ Statement
  /\ \E o \in Object \ live :
       /\ live' = live \cup {o}
       /\ count' = [count EXCEPT ![o] = 1]
       /\ SwapInto(h, o)
  /\ UNCHANGED failed

\* h = make_intrusive_ptr<X>(), X convertible to T: there is no converting
\* move, so the parameter is a copy and the result is destroyed as well.
CreateConverted(h) ==
  /\ Statement
  /\ \E o \in Object \ live :
       /\ live' = live \cup {o}
       /\ count' = [count EXCEPT ![o] = 2]
       /\ ptr' = [ptr EXCEPT ![h] = o, ![Other] = ptr[h], ![Result] = o]
  /\ dying' = {Other, Result}
  /\ UNCHANGED failed

\* Faulty: the parameter is bound by reference, so nothing is retained.
AssignWithoutRetain(h, g) ==
  /\ Statement
  /\ SwapInto(h, ptr[g])
  /\ UNCHANGED <<live, count, failed>>

\* h = g, or h = g.get(): the parameter retains before anything is released.
CopyAssign(h, g) ==
  /\ Statement
  /\ count' = Retain(ptr[g])
  /\ SwapInto(h, ptr[g])
  /\ UNCHANGED <<live, failed>>

\* Faulty: the source of the move keeps its pointer.
MoveWithoutReset(h, g) ==
  /\ Statement
  /\ SwapInto(h, ptr[g])
  /\ UNCHANGED <<live, count, failed>>

\* h = std::move(g): g is null before the swap, and h may be g.
MoveAssign(h, g) ==
  /\ Statement
  /\ ptr' = [ptr EXCEPT ![g] = Null, ![Other] = IF h = g THEN Null ELSE ptr[h],
                        ![h] = ptr[g]]
  /\ dying' = {Other}
  /\ UNCHANGED <<live, count, failed>>

\* h = nullptr, or h goes out of scope.
Reset(h) ==
  /\ Statement
  /\ SwapInto(h, Null)
  /\ UNCHANGED <<live, count, failed>>

\* The count before may not be zero; the CHECK comes before the decrement.
FetchSub(o) ==
  /\ failed' = (count[o] = 0)
  /\ count' = [count EXCEPT ![o] = IF @ = 0 THEN 0 ELSE @ - 1]

\* Faulty: the object is deleted when the count was zero before.
DestroyAtZero(h) ==
  /\ ~failed /\ h \in dying /\ ptr[h] # Null
  /\ LET o == ptr[h]
     IN FetchSub(o) /\ live' = IF count[o] = 0 THEN live \ {o} ELSE live
  /\ ptr' = [ptr EXCEPT ![h] = Null]
  /\ dying' = dying \ {h}

\* ~intrusive_ptr of a handle that is not null: Release by the last handle
\* deletes the object.
Destroy(h) ==
  /\ ~failed /\ h \in dying /\ ptr[h] # Null
  /\ LET o == ptr[h]
     IN FetchSub(o) /\ live' = IF count[o] = 1 THEN live \ {o} ELSE live
  /\ ptr' = [ptr EXCEPT ![h] = Null]
  /\ dying' = dying \ {h}

DestroyNull(h) ==
  /\ ~failed /\ h \in dying /\ ptr[h] = Null
  /\ dying' = dying \ {h}
  /\ UNCHANGED <<live, count, ptr, failed>>

Next ==
  \/ \E h \in Variable : Create(h) \/ CreateConverted(h) \/ Reset(h)
  \/ \E h, g \in Variable : CopyAssign(h, g) \/ MoveAssign(h, g)
  \/ \E h \in Handle : Destroy(h) \/ DestroyNull(h)

Spec == Init /\ [][Next]_vars

-----------------------------------------------------------------------------
(***************************************************************************)
(* Types; the handles that wait for their destructors are temporaries, and *)
(* a temporary that does not exist is null.                                *)
(***************************************************************************)
TypeOK ==
  /\ live \subseteq Object
  /\ count \in [Object -> Nat]
  /\ ptr \in [Handle -> Object \cup {Null}]
  /\ dying \subseteq {Other, Result}
  /\ failed \in BOOLEAN
  /\ \A h \in {Other, Result} \ dying : ptr[h] = Null

(***************************************************************************)
(* The count of an object is the number of handles to it, and the CHECK in *)
(* FetchSub cannot fail: whatever the aliases, self assignments, moves and *)
(* conversions, and in whatever order the temporaries are destroyed.       *)
(***************************************************************************)
CountsAreExact ==
  /\ ~failed
  /\ \A o \in Object : count[o] = Cardinality(Refs(o))

(***************************************************************************)
(* No handle refers to an object that was deleted, not even a handle whose *)
(* destructor is still to run: no use after free, no double delete.        *)
(***************************************************************************)
NoDangling == \A h \in Handle : ptr[h] \in live \cup {Null}

(***************************************************************************)
(* No object leaks: Release deletes it when it drops the last handle.      *)
(***************************************************************************)
NothingForgotten == \A o \in live : Refs(o) # {}
=============================================================================
