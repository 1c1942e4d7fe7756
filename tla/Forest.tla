------------------------------- MODULE Forest --------------------------------
(***************************************************************************)
(* What the node lists of the syntax tree promise (node.h): every list is  *)
(* a row of slots, a node sits in one slot at most, and a node that is put *)
(* somewhere is taken away from where it was.  There are no parent         *)
(* pointers here: taking a node out means looking for it.                  *)
(***************************************************************************)
EXTENDS Naturals, Sequences, FiniteSets

CONSTANTS Node, Empty   (* Empty is not a node                               *)

VARIABLES kids   (* kids[p]: the slots of list p                           *)

\* The lists with every node of C taken out, an empty slot left behind.
Without(C) ==
  [p \in Node |->
    [i \in DOMAIN kids[p] |-> IF kids[p][i] \in C THEN Empty ELSE kids[p][i]]]

\* row gives each of the nodes it holds one slot.
Distinct(row) ==
  \A i, j \in DOMAIN row : row[i] = row[j] /\ row[i] # Empty => i = j

Contents(row) == {row[i] : i \in DOMAIN row} \ {Empty}

Init == kids = [p \in Node |-> << >>]

\* A node is taken out of the tree.
Detach(c) == kids' = Without({c})

\* The list p gets a new row of slots; what is in it leaves the place it had
\* before, and what p held and the new row does not is out of the tree.
Arrange(p) ==
  /\ kids'[p] \in Seq(Node \union {Empty})
  /\ Distinct(kids'[p])
  /\ kids' = [Without(Contents(kids'[p])) EXCEPT ![p] = kids'[p]]

Next ==
  \/ \E c \in Node : Detach(c)
  \/ \E p \in Node : Arrange(p)

ForestSpec == Init /\ [][Next]_kids
=============================================================================
