-------------------------- MODULE FiniteRecursion ---------------------------
(***************************************************************************)
(* Induction and recursion over the positions of a finite sequence, stated *)
(* without operator parameters: a property is the set T of the numbers     *)
(* that have it, a recursive step is a function.  The loops of the code    *)
(* that refine a state rule by rule, or a table command by command, are    *)
(* recursive functions over 0 .. Len(s) in the model; these lemmas say     *)
(* that such a function exists and what holds of all its values.  The last *)
(* section is about a sequence that is appended list by list: where in it  *)
(* each element of each list is.                                           *)
(***************************************************************************)
EXTENDS Integers, SequencesExt, SequenceTheorems, WellFoundedInduction, TLAPS

\* What holds of 0 and passes from i - 1 to i holds up to n.
LEMMA FiniteInduction ==
  ASSUME NEW n \in Nat, NEW T, 0 \in T, \A i \in 1 .. n : i - 1 \in T => i \in T
  PROVE  0 .. n \subseteq T
<1> DEFINE U == {i \in 0 .. n : i \notin T}
<1>1. ASSUME U # {} PROVE FALSE
  <2>1. U \subseteq Nat
    OBVIOUS
  <2>2. PICK i \in U : \A j \in U : ~(<<j, i>> \in OpToRel(<, Nat))
    BY <1>1, <2>1, WFMin, NatLessThanWellFounded
  <2>3. i \in 1 .. n /\ i \notin T
    <3>1. i \in 0 .. n /\ i # 0 /\ i \notin T
      BY Zenon
    <3>2. QED
      BY <3>1
  <2>4. i - 1 \in U
    <3>1. i - 1 \in 0 .. n
      BY <2>3
    <3>2. i - 1 \notin T
      BY <2>3
    <3>3. QED
      BY <3>1, <3>2
  <2>5. <<i - 1, i>> \in OpToRel(<, Nat)
    BY <2>3 DEF OpToRel
  <2>6. QED
    BY <2>2, <2>4, <2>5
<1>2. QED
  BY <1>1

\* A set of naturals has a least element.
LEMMA LeastNatural ==
  ASSUME NEW N, N \subseteq Nat, N # {}
  PROVE  \E m \in N : \A k \in N : m <= k
<1>1. PICK m \in N : \A k \in N : ~(<<k, m>> \in OpToRel(<, Nat))
  BY WFMin, NatLessThanWellFounded
<1>2. \A k \in N : ~(k < m)
  BY <1>1 DEF OpToRel
<1>3. QED
  BY <1>2

\* A function over 0 .. n that starts with base and continues with step.
RecursionExists(n, S, base, step) ==
  \E g \in [0 .. n -> S] : /\ g[0] = base
                           /\ \A i \in 1 .. n : g[i] = step[<<i, g[i - 1]>>]

\* Some function has the value base at 0 and gets from i - 1 to i by step.
LEMMA FiniteRecursion ==
  ASSUME NEW n \in Nat, NEW S, NEW base \in S, NEW step \in [(1 .. n) \X S -> S]
  PROVE  RecursionExists(n, S, base, step)
<1> DEFINE Starts(g, m) == g[0] = base /\ \A i \in 1 .. m : g[i] = step[<<i, g[i - 1]>>]
           T == {m \in 0 .. n : \E g \in [0 .. m -> S] : Starts(g, m)}
<1>1. 0 \in T
  <2> DEFINE h == [i \in 0 .. 0 |-> base]
  <2>1. h \in [0 .. 0 -> S] /\ h[0] = base
    OBVIOUS
  <2>2. \A i \in 1 .. 0 : h[i] = step[<<i, h[i - 1]>>]
    OBVIOUS
  <2>3. Starts(h, 0)
    BY <2>1, <2>2
  <2> HIDE DEF h, Starts
  <2>4. QED
    BY <2>1, <2>3
<1>2. ASSUME NEW m \in 1 .. n, m - 1 \in T PROVE m \in T
  <2>1. PICK g \in [0 .. (m - 1) -> S] : Starts(g, m - 1)
    BY <1>2
  <2> DEFINE last == step[<<m, g[m - 1]>>]
             h == [i \in 0 .. m |-> IF i = m THEN last ELSE g[i]]
  <2>2. last \in S
    OBVIOUS
  <2> HIDE DEF last
  <2>3. h \in [0 .. m -> S] /\ h[m] = last /\ \A i \in 0 .. (m - 1) : h[i] = g[i]
    BY <2>2
  <2> HIDE DEF h
  <2>4. h[0] = base
    BY <2>1, <2>3
  <2>5. ASSUME NEW i \in 1 .. m PROVE h[i] = step[<<i, h[i - 1]>>]
    <3>1. i - 1 \in 0 .. (m - 1)
      OBVIOUS
    <3>2. h[i - 1] = g[i - 1]
      BY <2>3, <3>1
    <3>3. CASE i = m
      BY <2>3, <3>2, <3>3 DEF last
    <3>4. CASE i # m
      <4>1. i \in 1 .. (m - 1) /\ i \in 0 .. (m - 1)
        BY <3>4
      <4>2. h[i] = g[i] /\ g[i] = step[<<i, g[i - 1]>>]
        BY <2>1, <2>3, <4>1
      <4>3. QED
        BY <3>2, <4>2
    <3>5. QED
      BY <3>3, <3>4
  <2>6. Starts(h, m)
    BY <2>4, <2>5
  <2>7. m \in 0 .. n
    OBVIOUS
  <2> HIDE DEF Starts
  <2>8. QED
    BY <2>3, <2>6, <2>7
<1> HIDE DEF Starts, T
<1>3. 0 .. n \subseteq T
  BY <1>1, <1>2, FiniteInduction
<1>4. n \in T
  BY <1>3
<1>5. QED
  BY <1>4 DEF T, Starts, RecursionExists

-----------------------------------------------------------------------------
(* One list made of many. *)

\* A sequence of n sequences.
Lists(lists, n) ==
  /\ n \in Nat /\ Len(lists) = n /\ lists = [b \in 1 .. n |-> lists[b]]
  /\ \A b \in 1 .. n : /\ Len(lists[b]) \in Nat
                       /\ lists[b] = [s \in 1 .. Len(lists[b]) |-> lists[b][s]]

\* The first m of them in one list, and where the b-th of them starts in it.
Prefix(lists, m) == FlattenSeq(SubSeq(lists, 1, m))
Offset(lists, b) == Len(Prefix(lists, b - 1))

\* The first m lists in one are the first m - 1 in one, and the m-th.
LEMMA PrefixStep ==
  ASSUME NEW lists, NEW n, Lists(lists, n)
  PROVE  /\ Prefix(lists, 0) = <<>>
         /\ \A m \in 1 .. n : Prefix(lists, m) = Prefix(lists, m - 1) \o lists[m]
         /\ Prefix(lists, n) = FlattenSeq(lists)
         /\ \E S : \A m \in 0 .. n :
              Prefix(lists, m) \in Seq(S) /\ (m # 0 => lists[m] \in Seq(S))
<1> DEFINE S == UNION {ToSet(lists[b]) : b \in 1 .. n}
           step == [x \in (1 .. n) \X Seq(S) |-> x[2] \o lists[x[1]]]
<1>1. n \in Nat /\ Len(lists) = n /\ lists = [b \in 1 .. n |-> lists[b]]
  BY DEF Lists
<1>2. \A b \in 1 .. n : lists[b] \in Seq(S)
  <2>1. ASSUME NEW b \in 1 .. n PROVE lists[b] \in Seq(S)
    <3>1. Len(lists[b]) \in Nat /\ lists[b] = [s \in 1 .. Len(lists[b]) |-> lists[b][s]]
      BY DEF Lists
    <3>2. DOMAIN lists[b] = 1 .. Len(lists[b])
      BY <3>1
    <3>3. \A s \in 1 .. Len(lists[b]) : lists[b][s] \in S
      BY <3>2 DEF ToSet
    <3> HIDE DEF S
    <3>4. lists[b] \in [1 .. Len(lists[b]) -> S]
      BY <3>1, <3>3
    <3>5. QED
      BY <3>1, <3>4
  <2>2. QED
    BY <2>1
<1> HIDE DEF S
<1>3. <<>> \in Seq(S)
  OBVIOUS
<1>4. step \in [(1 .. n) \X Seq(S) -> Seq(S)]
  <2>1. \A m \in 1 .. n : \A t \in Seq(S) : t \o lists[m] \in Seq(S)
    BY <1>2, ConcatProperties
  <2>2. QED
    BY <2>1
<1>5. \A m \in 1 .. n : \A t \in Seq(S) : step[<<m, t>>] = t \o lists[m]
  OBVIOUS
<1> HIDE DEF step
<1>6. RecursionExists(n, Seq(S), <<>>, step)
  BY <1>1, <1>3, <1>4, FiniteRecursion
<1>7. PICK g \in [0 .. n -> Seq(S)] : g[0] = <<>> /\ \A i \in 1 .. n : g[i] = step[<<i, g[i - 1]>>]
  BY <1>6 DEF RecursionExists
<1>8. \A i \in 1 .. n : g[i] = g[i - 1] \o lists[i]
  <2>1. \A i \in 1 .. n : i - 1 \in 0 .. n
    BY <1>1
  <2>2. ASSUME NEW i \in 1 .. n PROVE g[i] = g[i - 1] \o lists[i]
    <3>1. g[i - 1] \in Seq(S)
      <4>1. i - 1 \in 0 .. n
        BY <2>1
      <4>2. QED
        BY <1>7, <4>1, Zenon
    <3>2. step[<<i, g[i - 1]>>] = g[i - 1] \o lists[i]
      BY <1>5, <3>1
    <3>3. QED
      BY <1>7, <3>2
  <2>3. QED
    BY <2>2
<1>9. ASSUME NEW m \in 0 .. n PROVE FlattenSeq(SubSeq(lists, 1, m)) = g[m]
  <2> DEFINE q == SubSeq(lists, 1, m)
  <2>1. q = [i \in 1 .. m |-> lists[i]] /\ Len(q) = m
    <3>1. q = [i \in 1 .. m |-> lists[i]]
      BY <1>1
    <3>2. QED
      BY <3>1
  <2> HIDE DEF q
  <2>0. m \in Nat
    BY <1>1
  <2>2. CASE m = 0
    <3>1. FlattenSeq(q) = q /\ q = <<>>
      BY <2>1, <2>2 DEF FlattenSeq
    <3>2. QED
      BY <1>7, <2>2, <3>1 DEF q
  <2>3. CASE m # 0
    <3> DEFINE Flattens(f) == f = [i \in 1 .. m |-> IF i = 1 THEN q[i] ELSE f[i - 1] \o q[i]]
               h == [i \in 1 .. m |-> g[i]]
               flat == CHOOSE f : Flattens(f)
    <3>1. FlattenSeq(q) = flat[m]
      BY <2>1, <2>3 DEF FlattenSeq
    <3>2. \A i \in 1 .. m : q[i] = lists[i] /\ i \in 1 .. n
      <4>1. \A i \in 1 .. m : q[i] = lists[i]
        BY <2>1, Zenon
      <4>2. \A i \in 1 .. m : i \in 1 .. n
        BY <1>1
      <4>3. QED
        BY <4>1, <4>2
    <3>3. ASSUME NEW i \in 1 .. m PROVE g[i] = IF i = 1 THEN q[i] ELSE h[i - 1] \o q[i]
      <4>1. g[i] = g[i - 1] \o q[i] /\ q[i] \in Seq(S)
        BY <1>2, <1>8, <3>2
      <4>2. CASE i = 1
        <5>1. g[1] = <<>> \o q[1] /\ q[1] \in Seq(S)
          <6>1. i - 1 = 0
            BY <4>2
          <6>2. g[i - 1] = <<>>
            BY <1>7, <6>1
          <6>3. QED
            BY <4>1, <4>2, <6>2
        <5>2. <<>> \o q[1] = q[1]
          BY <5>1, ConcatEmptySeq
        <5>3. QED
          BY <4>2, <5>1, <5>2
      <4>3. CASE i # 1
        <5>1. i - 1 \in 1 .. m
          BY <2>0, <4>3
        <5>2. h[i - 1] = g[i - 1]
          BY <5>1
        <5>3. QED
          BY <4>1, <4>3, <5>2
      <4>4. QED
        BY <4>2, <4>3
    <3>4. Flattens(h)
      BY <3>3
    <3>5. Flattens(flat)
      BY <3>4, Zenon
    <3> HIDE DEF flat, h
    <3>6. \A i \in 1 .. m : flat[i] = IF i = 1 THEN q[i] ELSE flat[i - 1] \o q[i]
      BY <3>5
    <3> HIDE DEF Flattens
    <3> DEFINE T == {i \in 0 .. m : i = 0 \/ flat[i] = g[i]}
    <3>7. 0 \in T
      BY <2>0
    <3>8. ASSUME NEW i \in 1 .. m, i - 1 \in T PROVE i \in T
      <4>1. g[i] = g[i - 1] \o q[i] /\ q[i] \in Seq(S)
        BY <1>2, <1>8, <3>2
      <4>2. CASE i = 1
        <5>1. g[1] = q[1]
          <6>1. g[1] = <<>> \o q[1] /\ q[1] \in Seq(S)
            <7>1. i - 1 = 0
              BY <4>2
            <7>2. g[i - 1] = <<>>
              BY <1>7, <7>1
            <7>3. QED
              BY <4>1, <4>2, <7>2
          <6>2. <<>> \o q[1] = q[1]
            BY <6>1, ConcatEmptySeq
          <6>3. QED
            BY <6>1, <6>2
        <5>2. i \in 0 .. m /\ flat[i] = q[i]
          BY <2>0, <3>6, <4>2
        <5>3. QED
          BY <4>2, <5>1, <5>2
      <4>3. CASE i # 1
        <5>1. flat[i - 1] = g[i - 1]
          BY <3>8, <4>3
        <5>2. flat[i] = flat[i - 1] \o q[i]
          BY <3>6, <4>3
        <5>3. i \in 0 .. m
          BY <2>0
        <5>4. QED
          BY <4>1, <5>1, <5>2, <5>3
      <4>4. QED
        BY <4>2, <4>3
    <3> HIDE DEF T
    <3>9. 0 .. m \subseteq T
      BY <2>0, <3>7, <3>8, FiniteInduction
    <3>10. m \in T
      BY <3>9
    <3>11. flat[m] = g[m]
      BY <2>3, <3>10 DEF T
    <3>12. QED
      BY <3>1, <3>11 DEF q
  <2>4. QED
    BY <2>2, <2>3
<1>10. \A m \in 0 .. n : Prefix(lists, m) = g[m]
  BY <1>9 DEF Prefix
<1>11. SubSeq(lists, 1, n) = lists
  BY <1>1
<1>12. Prefix(lists, n) = FlattenSeq(lists)
  BY <1>11 DEF Prefix
<1>13. \A m \in 1 .. n : m \in 0 .. n /\ m - 1 \in 0 .. n
  BY <1>1
<1>14. \A m \in 1 .. n : Prefix(lists, m) = Prefix(lists, m - 1) \o lists[m]
  BY <1>8, <1>10, <1>13
<1>15. \A m \in 0 .. n : Prefix(lists, m) \in Seq(S) /\ (m # 0 => lists[m] \in Seq(S))
  BY <1>2, <1>7, <1>10
<1>16. Prefix(lists, 0) = <<>>
  BY <1>1, <1>7, <1>10
<1>17. QED
  BY <1>12, <1>14, <1>15, <1>16

\* Every element has its place, and every place its element.
Placed(lists, n) ==
         /\ Len(FlattenSeq(lists)) \in Nat
         /\ FlattenSeq(lists) = [k \in 1 .. Len(FlattenSeq(lists)) |-> FlattenSeq(lists)[k]]
         /\ \A b \in 1 .. n : Offset(lists, b) \in Nat
         /\ \A b \in 1 .. n : \A s \in 1 .. Len(lists[b]) :
              /\ Offset(lists, b) + s \in 1 .. Len(FlattenSeq(lists))
              /\ FlattenSeq(lists)[Offset(lists, b) + s] = lists[b][s]
         /\ \A k \in 1 .. Len(FlattenSeq(lists)) : \E b \in 1 .. n : \E s \in 1 .. Len(lists[b]) :
              k = Offset(lists, b) + s
         /\ \A b, c \in 1 .. n : \A s \in 1 .. Len(lists[b]) : \A t \in 1 .. Len(lists[c]) :
              Offset(lists, b) + s = Offset(lists, c) + t => b = c /\ s = t

\* The s-th element of the b-th list is found s places after its offset.
LEMMA Places ==
  ASSUME NEW lists, NEW n, Lists(lists, n)
  PROVE  Placed(lists, n)
<1> DEFINE P(m) == Prefix(lists, m)
           Good(m) == /\ \A j \in 0 .. m : Len(P(j)) <= Len(P(m))
                      /\ \A b \in 1 .. m : \A s \in 1 .. Len(lists[b]) :
                           /\ Len(P(b - 1)) + s \in 1 .. Len(P(m))
                           /\ P(m)[Len(P(b - 1)) + s] = lists[b][s]
                      /\ \A k \in 1 .. Len(P(m)) : \E b \in 1 .. m : \E s \in 1 .. Len(lists[b]) :
                           k = Len(P(b - 1)) + s
           T == {m \in 0 .. n : Good(m)}
<1>1. n \in Nat /\ \A b \in 1 .. n : Len(lists[b]) \in Nat
  BY DEF Lists
<1>2. PICK S : \A m \in 0 .. n : P(m) \in Seq(S) /\ (m # 0 => lists[m] \in Seq(S))
  BY PrefixStep
<1>3. P(0) = <<>> /\ P(n) = FlattenSeq(lists) /\ \A m \in 1 .. n : P(m) = P(m - 1) \o lists[m]
  BY PrefixStep
<1> HIDE DEF P
<1>4. \A m \in 0 .. n : Len(P(m)) \in Nat
  BY <1>2, LenProperties
<1>5. \A m \in 1 .. n :
        /\ Len(P(m)) = Len(P(m - 1)) + Len(lists[m])
        /\ \A k \in 1 .. Len(P(m)) :
             P(m)[k] = IF k <= Len(P(m - 1)) THEN P(m - 1)[k] ELSE lists[m][k - Len(P(m - 1))]
  <2>1. ASSUME NEW m \in 1 .. n
        PROVE  /\ Len(P(m)) = Len(P(m - 1)) + Len(lists[m])
               /\ \A k \in 1 .. Len(P(m)) :
                    P(m)[k] = IF k <= Len(P(m - 1)) THEN P(m - 1)[k] ELSE lists[m][k - Len(P(m - 1))]
    <3>1. m - 1 \in 0 .. n /\ m \in 0 .. n /\ m # 0
      BY <1>1
    <3>2. P(m - 1) \in Seq(S) /\ lists[m] \in Seq(S)
      BY <1>2, <3>1
    <3>3. P(m) = P(m - 1) \o lists[m]
      BY <1>3
    <3> DEFINE p == P(m - 1)
               q == lists[m]
    <3>4. p \in Seq(S) /\ q \in Seq(S) /\ P(m) = p \o q
      BY <3>2, <3>3
    <3> HIDE DEF p, q
    <3>5. /\ Len(p \o q) = Len(p) + Len(q)
          /\ \A k \in 1 .. Len(p) + Len(q) : (p \o q)[k] = IF k <= Len(p) THEN p[k] ELSE q[k - Len(p)]
      BY <3>4, ConcatProperties
    <3>6. QED
      BY <3>4, <3>5 DEF p, q
  <2>2. QED
    BY <2>1
<1>6. 0 \in T
  <2>1. Len(P(0)) = 0
    BY <1>3
  <2>2. QED
    BY <1>1, <2>1
<1>7. ASSUME NEW m \in 1 .. n, m - 1 \in T PROVE m \in T
  <2>1. m \in 0 .. n /\ m - 1 \in 0 .. n /\ m \in Nat /\ Good(m - 1)
    BY <1>1, <1>7
  <2> DEFINE old == Len(P(m - 1))
             more == Len(lists[m])
  <2>2. old \in Nat /\ more \in Nat /\ Len(P(m)) = old + more
    BY <1>1, <1>4, <1>5, <2>1
  <2>0. /\ \A j \in 0 .. m - 1 : Len(P(j)) <= old
        /\ \A b \in 1 .. m - 1 : \A s \in 1 .. Len(lists[b]) :
             /\ Len(P(b - 1)) + s \in 1 .. old
             /\ P(m - 1)[Len(P(b - 1)) + s] = lists[b][s]
        /\ \A k \in 1 .. old : \E b \in 1 .. m - 1 : \E s \in 1 .. Len(lists[b]) :
             k = Len(P(b - 1)) + s
    BY <2>1
  <2> HIDE DEF old, more
  <2>3. \A k \in 1 .. old + more :
          P(m)[k] = IF k <= old THEN P(m - 1)[k] ELSE lists[m][k - old]
    BY <1>5, <2>2 DEF old
  <2>4. \A j \in 0 .. m : Len(P(j)) <= Len(P(m))
    <3>1. ASSUME NEW j \in 0 .. m PROVE Len(P(j)) <= Len(P(m))
      <4>1. CASE j = m
        BY <2>2, <4>1
      <4>2. CASE j # m
        <5>1. j \in 0 .. m - 1
          BY <2>1, <4>2
        <5>2. Len(P(j)) <= old
          BY <2>0, <5>1
        <5>3. Len(P(j)) \in Nat
          BY <1>4, <2>1, <5>1
        <5>4. QED
          BY <2>2, <5>2, <5>3
      <4>3. QED
        BY <4>1, <4>2
    <3>2. QED
      BY <3>1
  <2>5. ASSUME NEW b \in 1 .. m, NEW s \in 1 .. Len(lists[b])
        PROVE  /\ Len(P(b - 1)) + s \in 1 .. Len(P(m))
               /\ P(m)[Len(P(b - 1)) + s] = lists[b][s]
    <3>1. CASE b = m
      <4>1. s \in 1 .. more /\ Len(P(b - 1)) = old
        BY <3>1 DEF old, more
      <4>2. old + s \in 1 .. old + more /\ ~(old + s <= old) /\ old + s - old = s
        BY <2>2, <4>1
      <4>3. QED
        BY <2>2, <2>3, <3>1, <4>1, <4>2
    <3>2. CASE b # m
      <4>1. b \in 1 .. m - 1
        BY <2>1, <3>2
      <4> DEFINE k == Len(P(b - 1)) + s
      <4>2. k \in 1 .. old /\ P(m - 1)[k] = lists[b][s]
        BY <2>0, <4>1
      <4> HIDE DEF k
      <4>3. k \in 1 .. old + more /\ k <= old
        BY <2>2, <4>2
      <4>4. P(m)[k] = lists[b][s]
        BY <2>3, <4>2, <4>3
      <4>5. QED
        BY <2>2, <4>3, <4>4 DEF k
    <3>3. QED
      BY <3>1, <3>2
  <2>6. ASSUME NEW k \in 1 .. Len(P(m))
        PROVE  \E b \in 1 .. m : \E s \in 1 .. Len(lists[b]) : k = Len(P(b - 1)) + s
    <3>1. CASE k <= old
      <4>1. k \in 1 .. old
        BY <2>2, <3>1
      <4>2. PICK b \in 1 .. m - 1 : \E s \in 1 .. Len(lists[b]) : k = Len(P(b - 1)) + s
        BY <2>0, <4>1
      <4>3. b \in 1 .. m
        BY <2>1
      <4>4. QED
        BY <4>2, <4>3
    <3>2. CASE ~(k <= old)
      <4>1. k - old \in 1 .. more /\ k = old + (k - old)
        BY <2>2, <3>2
      <4>2. m \in 1 .. m /\ k - old \in 1 .. Len(lists[m]) /\ k = Len(P(m - 1)) + (k - old)
        <5>1. m \in 1 .. m
          BY <2>1
        <5>2. more = Len(lists[m]) /\ old = Len(P(m - 1))
          BY DEF old, more
        <5>3. QED
          BY <4>1, <5>1, <5>2
      <4>3. QED
        BY <4>2
    <3>3. QED
      BY <3>1, <3>2
  <2>7. Good(m)
    BY <2>4, <2>5, <2>6
  <2> HIDE DEF Good
  <2>8. QED
    BY <2>1, <2>7
<1> HIDE DEF T
<1>8. 0 .. n \subseteq T
  BY <1>1, <1>6, <1>7, FiniteInduction
<1> HIDE DEF Good
<1>9. \A m \in 0 .. n : Good(m)
  BY <1>8 DEF T
<1>10. Good(n) /\ n \in 0 .. n
  BY <1>1, <1>9
<1>11. \A b \in 1 .. n : b - 1 \in 0 .. n /\ Offset(lists, b) = Len(P(b - 1)) /\ Len(P(b - 1)) \in Nat
  BY <1>1, <1>4 DEF Offset, P
<1>12. ASSUME NEW b \in 1 .. n, NEW c \in 1 .. n,
              NEW s \in 1 .. Len(lists[b]), NEW t \in 1 .. Len(lists[c]), b < c
       PROVE  Len(P(b - 1)) + s < Len(P(c - 1)) + t
  <2>1. b \in 0 .. c - 1 /\ c - 1 \in 0 .. n /\ b \in 0 .. n
    BY <1>1, <1>12
  <2>2. Len(P(b)) <= Len(P(c - 1)) /\ Len(P(b)) \in Nat /\ Len(P(c - 1)) \in Nat
    <3>1. Good(c - 1) /\ \A j \in 0 .. n : Len(P(j)) \in Nat
      BY <1>4, <1>9, <2>1
    <3>2. Len(P(b)) <= Len(P(c - 1))
      BY <2>1, <3>1 DEF Good
    <3>3. QED
      BY <2>1, <3>1, <3>2
  <2>3. Len(P(b - 1)) + s \in 1 .. Len(P(b))
    <3>1. Good(b) /\ b \in 1 .. b
      BY <1>1, <1>9, <2>1
    <3>2. QED
      BY <3>1 DEF Good
  <2>4. QED
    BY <1>1, <2>2, <2>3
<1>13. \A b, c \in 1 .. n : \A s \in 1 .. Len(lists[b]) : \A t \in 1 .. Len(lists[c]) :
         Offset(lists, b) + s = Offset(lists, c) + t => b = c /\ s = t
  <2>1. ASSUME NEW b \in 1 .. n, NEW c \in 1 .. n,
               NEW s \in 1 .. Len(lists[b]), NEW t \in 1 .. Len(lists[c]),
               Offset(lists, b) + s = Offset(lists, c) + t
        PROVE  b = c /\ s = t
    <3>1. Len(P(b - 1)) + s = Len(P(c - 1)) + t /\ Len(P(b - 1)) \in Nat /\ Len(P(c - 1)) \in Nat
      BY <1>11, <2>1
    <3>2. s \in Nat /\ t \in Nat
      BY <1>1
    <3>3. ~(b < c)
      BY <1>12, <3>1, <3>2
    <3>4. ~(c < b)
      BY <1>12, <3>1, <3>2
    <3>5. b = c
      BY <1>1, <3>3, <3>4
    <3>6. QED
      BY <3>1, <3>2, <3>5
  <2>2. QED
    BY <2>1
<1>14. P(n) = [k \in 1 .. Len(P(n)) |-> P(n)[k]] /\ Len(P(n)) \in Nat
  <2>1. P(n) \in Seq(S)
    BY <1>2, <1>10
  <2>2. QED
    BY <2>1
<1>15. \A b \in 1 .. n : \A s \in 1 .. Len(lists[b]) :
         /\ Offset(lists, b) + s \in 1 .. Len(P(n))
         /\ P(n)[Offset(lists, b) + s] = lists[b][s]
  BY <1>10, <1>11 DEF Good
<1>16. \A k \in 1 .. Len(P(n)) : \E b \in 1 .. n : \E s \in 1 .. Len(lists[b]) : k = Offset(lists, b) + s
  BY <1>10, <1>11, ZenonT(60) DEF Good
<1>17. QED
  BY <1>3, <1>11, <1>13, <1>14, <1>15, <1>16 DEF Placed

\* Lists of the same lengths have the same offsets.
LEMMA SameOffsets ==
  ASSUME NEW lists, NEW others, NEW n, Lists(lists, n), Lists(others, n),
         \A b \in 1 .. n : Len(lists[b]) = Len(others[b])
  PROVE  /\ \A b \in 1 .. n : Offset(lists, b) = Offset(others, b)
         /\ Len(FlattenSeq(lists)) = Len(FlattenSeq(others))
<1> DEFINE T == {m \in 0 .. n : Len(Prefix(lists, m)) = Len(Prefix(others, m))}
<1>1. n \in Nat
  BY DEF Lists
<1>2. PICK S : \A m \in 0 .. n : Prefix(lists, m) \in Seq(S) /\ (m # 0 => lists[m] \in Seq(S))
  BY PrefixStep
<1>3. PICK R : \A m \in 0 .. n : Prefix(others, m) \in Seq(R) /\ (m # 0 => others[m] \in Seq(R))
  BY PrefixStep
<1>4. 0 \in T
  <2>1. Prefix(lists, 0) = <<>> /\ Prefix(others, 0) = <<>>
    BY PrefixStep
  <2>2. QED
    BY <1>1, <2>1
<1>5. ASSUME NEW m \in 1 .. n, m - 1 \in T PROVE m \in T
  <2>1. m \in 0 .. n /\ m - 1 \in 0 .. n /\ m # 0
    BY <1>1
  <2>2. Prefix(lists, m) = Prefix(lists, m - 1) \o lists[m]
        /\ Prefix(others, m) = Prefix(others, m - 1) \o others[m]
    BY PrefixStep
  <2>3. Len(Prefix(lists, m)) = Len(Prefix(lists, m - 1)) + Len(lists[m])
    BY <1>2, <2>1, <2>2, ConcatProperties
  <2>4. Len(Prefix(others, m)) = Len(Prefix(others, m - 1)) + Len(others[m])
    BY <1>3, <2>1, <2>2, ConcatProperties
  <2>5. QED
    BY <1>5, <2>1, <2>3, <2>4
<1> HIDE DEF T
<1>6. 0 .. n \subseteq T
  BY <1>1, <1>4, <1>5, FiniteInduction
<1>7. \A m \in 0 .. n : Len(Prefix(lists, m)) = Len(Prefix(others, m))
  BY <1>6 DEF T
<1>8. \A b \in 1 .. n : b - 1 \in 0 .. n
  BY <1>1
<1>9. Prefix(lists, n) = FlattenSeq(lists) /\ Prefix(others, n) = FlattenSeq(others) /\ n \in 0 .. n
  <2>1. Prefix(lists, n) = FlattenSeq(lists)
    BY PrefixStep, Zenon
  <2>2. Prefix(others, n) = FlattenSeq(others)
    BY PrefixStep, Zenon
  <2>3. QED
    BY <1>1, <2>1, <2>2
<1>10. QED
  BY <1>7, <1>8, <1>9 DEF Offset
=============================================================================
