---------------------------- MODULE MCVariables ------------------------------
(***************************************************************************)
(* Two targets, two variables outside of them and one in each: X and Y are *)
(* global, V is declared in target A only, and both targets use X and V.   *)
(* In other documents A declares V twice, or an X of its own.              *)
(***************************************************************************)
EXTENDS Variables, TLC

CONSTANTS A, B,                  (* targets                                *)
          dX, dY, dV, useA, useB (* bodies                                 *)

Item(name, d) == [name |-> name, body |-> d]

BlockX == [scope |-> Global, items |-> <<Item("X", dX)>>]
BlockY == [scope |-> Global, items |-> <<Item("Y", dY)>>]
BlockA == [scope |-> A, items |-> <<Item(NoName, useA), Item("V", dV)>>]
BlockTwice == [scope |-> A, items |-> <<Item("V", dV), Item("V", useA)>>]
BlockShadow == [scope |-> A, items |-> <<Item(NoName, useA), Item("X", dV)>>]
BlockB == [scope |-> B, items |-> <<Item(NoName, useB)>>]

Orders(blocks) ==
  {[i \in 1..Cardinality(blocks) |-> p[i]] : p \in Bijection(1..Cardinality(blocks), blocks)}

AllDocuments ==
  Orders({BlockX, BlockY, BlockA, BlockB}) \union {<<BlockTwice, BlockX>>}
    \union Orders({BlockX, BlockY, BlockShadow})

\* Every mix of these, circular ones included.
AllBodies ==
  {[d \in Symbol |-> CASE d = dX -> x [] d = dY -> y [] d = dV -> v
                       [] OTHER -> <<"X", "V">>] :
     x \in {<<"x">>, <<"x", "Y">>, <<"Y", "V">>},
     y \in {<<"y">>, <<"X">>, <<"V", "Z">>},
     v \in {<<"v">>, <<"X", "v">>, <<"V">>}}

TextValue == {"x", "y", "v"}
NameValue == {"X", "Y", "V", "Z"}
=============================================================================
