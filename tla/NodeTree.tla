------------------------------ MODULE NodeTree -------------------------------
(***************************************************************************)
(* The lists of the syntax tree (node.cpp, node.h, util/unlink.h): every   *)
(* phase edits the tree through them.  A node knows its parent and its     *)
(* position there; the parent holds a counted reference to it.  Each       *)
(* operation has to keep the two in step, and checks with assertions that  *)
(* the ones before did.                                                    *)
(*                                                                         *)
(* Positions count from 1 here, so that NoIndex, the code's -1, is 0.      *)
(***************************************************************************)
EXTENDS Reachability, Sequences, SequencesExt

CONSTANTS
  Node,      (* all the nodes a run may create, none of them twice         *)
  Empty,     (* the NULL pointer, in a slot or as a parent                 *)
  MaxSlots   (* no list grows longer than this                             *)

ASSUME NodeAssumption == Empty \notin Node /\ MaxSlots \in Nat

\* A run creates finitely many nodes.
ASSUME FiniteAssumption == IsFiniteSet(Node)

NoIndex == 0

VARIABLES
  life,    (* "unborn", "alive" or "dead"                                  *)
  held,    (* nodes the program has a node_ptr to outside of any list      *)
  list,    (* node_list::list                                              *)
  parent,  (* m.parent                                                     *)
  pindex,  (* m.parent_index                                               *)
  status   (* "ok", or the assertion that ended the program                *)

vars == <<life, held, list, parent, pindex, status>>

Alive == {n \in Node : life[n] = "alive"}

Slots(p) == DOMAIN list[p]

Kids(p) == {list[p][i] : i \in Slots(p)} \ {Empty}

\* Mutant of Garbage: only a node without a parent is deleted.
GarbageIfOrphan ==
  {n \in Alive \ held : parent[n] = Empty /\ \A p \in Alive : n \notin Kids(p)}

\* Nodes whose reference count has come to zero: they are being deleted.
Garbage == {n \in Alive \ held : \A p \in Alive : n \notin Kids(p)}

\* The program goes on when the deletions an operation set off are done.
Running == status = "ok" /\ Garbage = {}

\* c is p, or holds p somewhere below it.
Above(c, p) == c \in Reach(Node, {p}, [x \in Node |-> {q \in Alive : x \in Kids(q)}])

Init ==
  /\ life = [n \in Node |-> "unborn"]
  /\ held = {}
  /\ list = [n \in Node |-> << >>]
  /\ parent = [n \in Node |-> Empty]
  /\ pindex = [n \in Node |-> NoIndex]
  /\ status = "ok"

New(n) ==
  /\ Running
  /\ life[n] = "unborn"
  /\ life' = [life EXCEPT ![n] = "alive"]
  /\ held' = held \union {n}
  /\ UNCHANGED <<list, parent, pindex, status>>

\* A visitor or a local variable takes a reference to a node.
Hold(n) ==
  /\ Running
  /\ n \in Alive \ held
  /\ held' = held \union {n}
  /\ UNCHANGED <<life, list, parent, pindex, status>>

Drop(n) ==
  /\ Running
  /\ n \in held
  /\ held' = held \ {n}
  /\ UNCHANGED <<life, list, parent, pindex, status>>

(***************************************************************************)
(* node::unlink may drop the last reference to the node it is called on    *)
(* (exclude and node_list::clear do) and then still writes to it; the      *)
(* freed memory is there for that long.                                    *)
(*                                                                         *)
(* node::unlink looks the node up where its parent and its index say it    *)
(* is.  In place is a node for which that works; for one that is not, one  *)
(* of the three checks of unlink ends the program.                         *)
(***************************************************************************)
InPlace(c) ==
  IF parent[c] = Empty THEN pindex[c] = NoIndex
  ELSE /\ life[parent[c]] = "alive"
       /\ pindex[c] \in Slots(parent[c])
       /\ list[parent[c]][pindex[c]] = c

\* Mutant of TakenOut: the slot keeps its reference.
TakenOutNot(rows, C) == rows

\* The rows after the nodes of C have been unlinked.
TakenOut(rows, C) ==
  [p \in Node |->
    [i \in DOMAIN rows[p] |->
      IF \E c \in C : parent[c] = p /\ pindex[c] = i THEN Empty ELSE rows[p][i]]]

Crash(why) ==
  /\ status' = why
  /\ UNCHANGED <<life, held, list, parent, pindex>>

Unlink(c) ==
  /\ Running
  /\ c \in Alive
  /\ IF InPlace(c)
     THEN /\ list' = TakenOut(list, {c})
          /\ parent' = [parent EXCEPT ![c] = Empty]
          /\ pindex' = [pindex EXCEPT ![c] = NoIndex]
          /\ UNCHANGED <<life, held, status>>
     ELSE Crash("unlink")

\* Mutant of Place: the index of a node that has a parent is left alone.
PlaceKeepsIndex(p, row, C) ==
  /\ list' = [TakenOut(list, C) EXCEPT ![p] = row]
  /\ parent' = [n \in Node |-> IF n \in Range(row) THEN p
                               ELSE IF n \in C THEN Empty ELSE parent[n]]
  /\ pindex' = [n \in Node |->
       IF n \in Range(row) /\ parent[n] = Empty
       THEN CHOOSE i \in DOMAIN row : row[i] = n
       ELSE IF n \in C /\ n \notin Range(row) THEN NoIndex ELSE pindex[n]]

\* The nodes of C are unlinked, and those in row become the children of p.
Place(p, row, C) ==
  /\ list' = [TakenOut(list, C) EXCEPT ![p] = row]
  /\ parent' = [n \in Node |-> IF n \in Range(row) THEN p
                               ELSE IF n \in C THEN Empty ELSE parent[n]]
  /\ pindex' = [n \in Node |->
       IF n \in Range(row) THEN CHOOSE i \in DOMAIN row : row[i] = n
       ELSE IF n \in C THEN NoIndex ELSE pindex[n]]

\* move: a node that is not where it says it is cannot be moved.
Move(p, row, C) ==
  IF \A c \in C : InPlace(c)
  THEN Place(p, row, C) /\ UNCHANGED <<life, held, status>>
  ELSE Crash("unlink")

\* node_list::add, for a node that is not above p.
Add(p, c) ==
  /\ Running
  /\ p \in Alive /\ c \in Alive /\ ~Above(c, p)
  /\ Len(list[p]) < MaxSlots
  /\ Move(p, Append(TakenOut(list, {c})[p], c), {c})

\* node_list::add of a NULL pointer, an optional child that is not there.
AddNothing(p) ==
  /\ Running
  /\ p \in Alive
  /\ Len(list[p]) < MaxSlots
  /\ list' = [list EXCEPT ![p] = Append(@, Empty)]
  /\ UNCHANGED <<life, held, parent, pindex, status>>

\* node_list::set and replace with one node.  The node that was in the slot
\* before is not told that it has lost its place.
Set(p, i, c) ==
  /\ Running
  /\ p \in Alive /\ c \in Alive /\ ~Above(c, p)
  /\ i \in Slots(p)
  /\ Move(p, [TakenOut(list, {c})[p] EXCEPT ![i] = c], {c})

\* node_list::replace with the children of q, in the place of child c of p.
\* All children of p are unlinked and added again; unlink_all skips empty
\* slots, so a list that has one comes out too short, if replace does not
\* run past its end looking for position i.
Replace(p, i, q) ==
  LET new == Len(list[p]) - 1 + Len(list[q])
      row == SubSeq(list[p], 1, i - 1) \o list[q]
               \o SubSeq(list[p], i + 1, Len(list[p]))
  IN  /\ Running
      /\ p \in Alive /\ q \in held /\ p # q
      /\ i \in Slots(p) /\ list[p][i] # Empty
      /\ \A c \in Kids(q) : ~Above(c, p)
      /\ new <= MaxSlots
      /\ IF Len(list[q]) = 0 THEN Crash("no elements")
         ELSE IF Empty \in Range(list[p]) THEN Crash("size")
         ELSE Move(p, row, Kids(p) \union Kids(q))

\* node_list::clear, and util/unlink.h unlink_all when nothing is added again.
Clear(p) ==
  /\ Running
  /\ p \in Alive
  /\ Move(p, << >>, Kids(p))

\* Mutant of Deletable: a list is deleted only when it has no children.
DeletableLeaf(n) == n \in Garbage /\ Kids(n) = {}

Deletable(n) == n \in Garbage

\* ~node_list: the children lose their parent and keep their index.
Orphan(n) == parent' = [c \in Node |-> IF c \in Kids(n) THEN Empty ELSE parent[c]]

\* intrusive_ptr_release, ~node_list and the end of its member list.
Delete(n) ==
  /\ status = "ok"
  /\ Deletable(n)
  /\ IF \A i \in Slots(n) : list[n][i] # Empty =>
          parent[list[n][i]] = n /\ pindex[list[n][i]] = i
     THEN /\ life' = [life EXCEPT ![n] = "dead"]
          /\ list' = [list EXCEPT ![n] = << >>]
          /\ Orphan(n)
          /\ UNCHANGED <<held, pindex, status>>
     ELSE Crash("destructor")

Next ==
  \/ \E n \in Node : New(n) \/ Hold(n) \/ Drop(n) \/ Unlink(n) \/ Clear(n)
                     \/ AddNothing(n) \/ Delete(n)
  \/ \E p, c \in Node : Add(p, c)
  \/ \E p, c \in Node, i \in 1..MaxSlots : Set(p, i, c) \/ Replace(p, i, c)

Spec == Init /\ [][Next]_vars

\* Deletions are not put off: they are part of releasing a reference.
FairSpec == Spec /\ WF_vars(\E n \in Node : Delete(n))
-----------------------------------------------------------------------------
\* A child knows its parent and its place there, whatever the phases have
\* done to the tree (what audit checks, and ~node_list asserts).  So no list
\* shares a child with another, and no node is deleted twice.
ChildrenKnowTheirPlace ==
  \A p \in Node : \A i \in Slots(p) :
    list[p][i] # Empty =>
      /\ parent[list[p][i]] = p
      /\ pindex[list[p][i]] = i

\* Releasing the last reference to a tree deletes all of it and nothing else:
\* what is alive is held, or below what is held, and a list has no dead child.
NothingLeaks ==
  /\ \A p \in Node : Kids(p) \subseteq Alive
  /\ Garbage = {} => \A n \in Alive : \E h \in held : Above(h, n)

\* Unlinking, adding and replacing find a node by its parent pointer, and
\* never take another node's place by mistake: the tree changes as a forest
\* without parent pointers would.
Abstract == INSTANCE Forest WITH kids <- list
ImplementsForest == Abstract!ForestSpec

\* When the program lets go of its last reference the whole tree goes, child
\* by child, whatever stale parent pointers there are in it.
ReleasedTreeGoes == held = {} ~> (Alive = {} \/ status # "ok")
=============================================================================
