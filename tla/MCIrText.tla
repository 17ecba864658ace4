------------------------------ MODULE MCIrText ------------------------------
(***************************************************************************)
(* Programs of two or three statements, in one block or in two: operators  *)
(* with one and two results, operands that are defined above, below, in    *)
(* the other block, by the statement itself, twice or nowhere.             *)
(***************************************************************************)
EXTENDS IrText

CONSTANTS A, B, custom

One == {<<0>>, <<1>>}
Results == One \cup {<<0, 1>>, <<1, custom>>, <<0, 0>>}
Inputs == {<<>>, <<AnyValue>>, <<0>>, <<1>>}
Attributes == {<<>>, <<2, 1>>, <<1, 1>>}

First == {Statement(r, A, <<>>, i) : r \in Results, i \in Inputs}
Second == {Statement(r, o, <<>>, i) : r \in One \cup {<<1, custom>>}, o \in {A, B}, i \in Inputs}
WithAttributes ==
  {Statement(<<custom>>, B, a, <<0, 1>>) : a \in Attributes}
OtherBlock ==
  {Statement(r, o, <<>>, i) : r \in One \cup {<<1, custom>>}, o \in {A, B}, i \in Inputs \cup {<<custom>>}}

MCPrograms ==
  {<< <<s, t, u>> >> : s \in First, t \in Second, u \in WithAttributes}
  \cup {<< <<s, t>>, <<u>> >> : s \in First, t \in Second, u \in OtherBlock}
=============================================================================
