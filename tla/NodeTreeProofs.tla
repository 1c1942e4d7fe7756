--------------------------- MODULE NodeTreeProofs ----------------------------
(***************************************************************************)
(* Theorems of the syntax tree, for any number of nodes and lists of any   *)
(* length: first the places in lists, then that the reference counts free  *)
(* what is let go of and nothing else.                                     *)
(***************************************************************************)
EXTENDS NodeTree, SetInduction

USE NodeAssumption

Slot == Node \union {Empty}

\* The lists hold nodes and empty slots; an index is a position or NoIndex.
Shape ==
  /\ list \in [Node -> Seq(Slot)]
  /\ parent \in [Node -> Slot]
  /\ pindex \in [Node -> Nat]

\* The invariant is inductive together with the types of what it is about:
\* what it does not say, that the parent and the index of a node outside of
\* the lists are right, is not so.
IInv == Shape /\ ChildrenKnowTheirPlace

\* A row in which no node comes twice.
Single(row) ==
  \A i, j \in DOMAIN row : row[i] = row[j] /\ row[i] # Empty => i = j

-----------------------------------------------------------------------------
LEMMA FunctionIsSeq ==
  ASSUME NEW S, NEW n \in Nat, NEW f \in [1..n -> S]
  PROVE  f \in Seq(S) /\ Len(f) = n /\ DOMAIN f = 1..n
<1>1. f \in Seq(S)
  BY SeqDef
<1>2. QED
  BY <1>1, LenProperties

\* A list of the tree, slot by slot.
LEMMA Rows ==
  ASSUME Shape, NEW p \in Node
  PROVE  /\ list[p] \in Seq(Slot)
         /\ Slots(p) = 1..Len(list[p])
         /\ Len(list[p]) \in Nat
         /\ \A i \in Slots(p) : list[p][i] \in Slot
BY DEF Shape, Slots

\* No child is in two slots, of one list or of two.
LEMMA OneSlot ==
  ASSUME IInv, NEW p \in Node, NEW q \in Node, NEW i \in Slots(p), NEW j \in Slots(q),
         list[p][i] = list[q][j], list[p][i] # Empty
  PROVE  p = q /\ i = j
BY DEF IInv, ChildrenKnowTheirPlace

\* Taking nodes out that are in place empties their slots and no other.
LEMMA TakenOutSlots ==
  ASSUME IInv, NEW C \in SUBSET Node, \A c \in C : InPlace(c), NEW p \in Node
  PROVE  /\ TakenOut(list, C)[p] \in Seq(Slot)
         /\ Len(TakenOut(list, C)[p]) = Len(list[p])
         /\ DOMAIN TakenOut(list, C)[p] = Slots(p)
         /\ \A i \in Slots(p) : TakenOut(list, C)[p][i] =
              IF list[p][i] \in C THEN Empty ELSE list[p][i]
<1> DEFINE row == TakenOut(list, C)[p]
<1>1. /\ row = [i \in 1..Len(list[p]) |->
                  IF \E c \in C : parent[c] = p /\ pindex[c] = i THEN Empty ELSE list[p][i]]
      /\ Len(list[p]) \in Nat /\ Slots(p) = 1..Len(list[p])
  BY Rows DEF TakenOut, IInv, Slots
<1> HIDE DEF row
<1>2. \A i \in Slots(p) : row[i] = IF list[p][i] \in C THEN Empty ELSE list[p][i]
  <2>1. TAKE i \in Slots(p)
  <2>2. list[p][i] \in Slot
    BY Rows DEF IInv
  <2>3. ASSUME NEW c \in C, parent[c] = p, pindex[c] = i PROVE list[p][i] = c
    BY <2>3 DEF InPlace
  <2>4. list[p][i] \in C => parent[list[p][i]] = p /\ pindex[list[p][i]] = i
    BY DEF IInv, ChildrenKnowTheirPlace
  <2>5. QED
    BY <1>1, <2>2, <2>3, <2>4
<1>3. \A i \in Slots(p) : row[i] \in Slot
  BY <1>2, Rows DEF IInv, Slot
<1>4. row \in [1..Len(list[p]) -> Slot]
  <2>1. row = [i \in 1..Len(list[p]) |-> row[i]]
    BY <1>1, Zenon
  <2>2. QED
    BY <1>1, <1>3, <2>1, Zenon
<1>5. row \in Seq(Slot) /\ Len(row) = Len(list[p]) /\ DOMAIN row = Slots(p)
  BY <1>1, <1>4, FunctionIsSeq
<1>6. QED
  BY <1>2, <1>5 DEF row

-----------------------------------------------------------------------------
\* The new row of p takes from the other lists what is unlinked, and nothing
\* else: then p is arranged as the forest allows, and every child knows its
\* place again.
LEMMA Arranging ==
  ASSUME IInv, NEW p \in Node, NEW row \in Seq(Slot), Single(row),
         NEW C \in SUBSET Node, \A c \in C : InPlace(c),
         \A q \in Node \ {p} : \A n \in Kids(q) : n \in C <=> n \in Range(row),
         Place(p, row, C)
  PROVE  IInv' /\ Abstract!Arrange(p)
<1> DEFINE T == TakenOut(list, C)
<1>1. /\ Len(row) \in Nat /\ DOMAIN row = 1..Len(row)
      /\ \A i \in DOMAIN row : row[i] \in Slot
      /\ Range(row) \subseteq Slot
  BY LenProperties, ElementOfSeq DEF Range
<1>2. T = [q \in Node |-> T[q]]
  BY DEF TakenOut
<1>3. \A q \in Node : /\ T[q] \in Seq(Slot)
                      /\ DOMAIN T[q] = Slots(q)
                      /\ \A i \in Slots(q) : T[q][i] = IF list[q][i] \in C THEN Empty ELSE list[q][i]
  BY TakenOutSlots
<1> HIDE DEF T
<1>4. /\ list' = [q \in Node |-> IF q = p THEN row ELSE T[q]]
      /\ list'[p] = row
      /\ \A q \in Node \ {p} : list'[q] = T[q]
  BY <1>2 DEF Place, T
<1>5. Shape'
  <2>1. list' \in [Node -> Seq(Slot)]
    BY <1>3, <1>4
  <2>2. parent' \in [Node -> Slot]
    BY DEF Place, IInv, Shape, Slot
  <2>3. \A n \in Range(row) : (CHOOSE i \in DOMAIN row : row[i] = n) \in Nat
    BY <1>1 DEF Range
  <2>4. pindex' \in [Node -> Nat]
    BY <2>3 DEF Place, IInv, Shape, NoIndex
  <2>5. QED
    BY <2>1, <2>2, <2>4 DEF Shape, Slot
<1>6. ChildrenKnowTheirPlace'
  <2> SUFFICES ASSUME NEW q \in Node, NEW i \in DOMAIN list'[q], list'[q][i] # Empty
               PROVE  parent'[list'[q][i]] = q /\ pindex'[list'[q][i]] = i
    BY DEF ChildrenKnowTheirPlace, Slots
  <2> DEFINE n == list'[q][i]
  <2>1. CASE q = p
    <3>1. i \in DOMAIN row /\ n = row[i] /\ n \in Node /\ n \in Range(row)
      BY <2>1, <1>1, <1>4 DEF Range, Slot
    <3>2. (CHOOSE j \in DOMAIN row : row[j] = n) = i
      BY <3>1 DEF Single
    <3>3. QED
      BY <2>1, <3>1, <3>2 DEF Place
  <2>2. CASE q # p
    <3>1. i \in Slots(q) /\ n = list[q][i] /\ n \notin C
      BY <2>2, <1>3, <1>4
    <3>2. n \in Kids(q) /\ n \in Node
      BY <3>1, Rows DEF Kids, Slot, IInv
    <3>3. n \notin Range(row)
      BY <2>2, <3>1, <3>2
    <3>4. parent[n] = q /\ pindex[n] = i
      BY <3>1 DEF IInv, ChildrenKnowTheirPlace
    <3>5. QED
      BY <3>1, <3>2, <3>3, <3>4 DEF Place
  <2>3. QED
    BY <2>1, <2>2
<1>7. Abstract!Arrange(p)
  <2> DEFINE K == Abstract!Contents(row)
             W == Abstract!Without(K)
  <2>1. K = Range(row) \ {Empty}
    BY DEF Abstract!Contents, Range
  <2>2. W = [q \in Node |-> W[q]]
    BY DEF Abstract!Without
  <2>3. ASSUME NEW q \in Node \ {p} PROVE W[q] = T[q]
    <3>1. W[q] = [i \in Slots(q) |-> IF list[q][i] \in K THEN Empty ELSE list[q][i]]
      BY DEF Abstract!Without, Slots
    <3>2. T[q] = [i \in Slots(q) |-> T[q][i]]
      BY <1>3, LenProperties
    <3>3. ASSUME NEW i \in Slots(q)
          PROVE  T[q][i] = IF list[q][i] \in K THEN Empty ELSE list[q][i]
      <4>1. list[q][i] \in Kids(q) \/ list[q][i] = Empty
        BY DEF Kids
      <4>2. QED
        BY <1>3, <2>1, <4>1
    <3>4. QED
      BY <3>1, <3>2, <3>3
  <2> HIDE DEF W
  <2>4. list' = [W EXCEPT ![p] = row]
    BY <1>4, <2>2, <2>3
  <2>5. Abstract!Distinct(row)
    BY DEF Abstract!Distinct, Single
  <2>6. QED
    BY <1>4, <2>4, <2>5 DEF Abstract!Arrange, W, Slot
<1>8. QED
  BY <1>5, <1>6, <1>7 DEF IInv

-----------------------------------------------------------------------------
\* What is said below of each operation.
Preserved == IInv' /\ [Abstract!Next]_list

LEMMA ArrangeIsNext ==
  ASSUME NEW p \in Node, Abstract!Arrange(p)
  PROVE  Abstract!Next
BY DEF Abstract!Next

\* A step that leaves the lists and the pointers alone.
LEMMA Aside ==
  ASSUME IInv, UNCHANGED <<list, parent, pindex>>
  PROVE  Preserved
BY DEF IInv, Shape, ChildrenKnowTheirPlace, Slots, Preserved

LEMMA KidsAreNodes ==
  ASSUME Shape, NEW p \in Node
  PROVE  Kids(p) \subseteq Node
BY Rows DEF Kids, Slot

\* move, when all it unlinks is in place, and when it ends the program.
LEMMA Moving ==
  ASSUME IInv, NEW p \in Node, NEW row \in Seq(Slot), Single(row),
         NEW C \in SUBSET Node,
         \A q \in Node \ {p} : \A n \in Kids(q) : n \in C <=> n \in Range(row),
         Move(p, row, C)
  PROVE  Preserved
<1>1. CASE \A c \in C : InPlace(c)
  <2>1. Place(p, row, C)
    BY <1>1 DEF Move
  <2>2. QED
    BY <1>1, <2>1, Arranging, ArrangeIsNext DEF Preserved
<1>2. CASE ~(\A c \in C : InPlace(c))
  BY <1>2, Aside DEF Move, Crash
<1>3. QED
  BY <1>1, <1>2

\* A list from which a node in place has been taken has its other nodes once,
\* and the node itself not at all.
LEMMA WithoutOne ==
  ASSUME IInv, NEW c \in Node, InPlace(c), NEW p \in Node
  PROVE  LET row == TakenOut(list, {c})[p]
         IN  /\ row \in Seq(Slot) /\ Single(row) /\ Len(row) = Len(list[p])
             /\ DOMAIN row = 1..Len(list[p])
             /\ c \notin Range(row)
             /\ \A q \in Node \ {p} : Kids(q) \intersect Range(row) = {}
<1> DEFINE row == TakenOut(list, {c})[p]
<1>1. /\ row \in Seq(Slot) /\ Len(row) = Len(list[p]) /\ DOMAIN row = Slots(p)
      /\ \A i \in Slots(p) : row[i] = IF list[p][i] = c THEN Empty ELSE list[p][i]
  BY TakenOutSlots
<1> HIDE DEF row
<1>2. Single(row)
  BY <1>1, OneSlot DEF Single
<1>3. c \notin Range(row)
  BY <1>1 DEF Range
<1>4. ASSUME NEW q \in Node \ {p}, NEW n \in Kids(q) PROVE n \notin Range(row)
  <2>1. PICK j \in Slots(q) : list[q][j] = n /\ n # Empty
    BY DEF Kids
  <2>2. ASSUME NEW i \in Slots(p), row[i] = n PROVE FALSE
    BY <1>1, <2>1, <2>2, OneSlot
  <2>3. QED
    BY <1>1, <2>2 DEF Range
<1>5. QED
  BY <1>1, <1>2, <1>3, <1>4, Rows DEF row, IInv

LEMMA AddStep ==
  ASSUME IInv, NEW p \in Node, NEW c \in Node, Add(p, c)
  PROVE  Preserved
<1> DEFINE rest == TakenOut(list, {c})[p]
           row  == Append(rest, c)
<1>1. CASE InPlace(c)
  <2>1. /\ rest \in Seq(Slot) /\ Single(rest) /\ Len(rest) \in Nat
        /\ DOMAIN rest = 1..Len(rest) /\ c \notin Range(rest)
        /\ \A q \in Node \ {p} : Kids(q) \intersect Range(rest) = {}
    BY <1>1, WithoutOne, LenProperties
  <2> HIDE DEF rest
  <2>2. /\ row \in Seq(Slot) /\ DOMAIN row = 1..(Len(rest) + 1)
        /\ \A i \in 1..Len(rest) : row[i] = rest[i]
        /\ row[Len(rest) + 1] = c
    BY <2>1 DEF Slot
  <2> HIDE DEF row
  <2>3. Single(row)
    BY <2>1, <2>2 DEF Single, Range
  <2>4. Range(row) = Range(rest) \union {c}
    BY <2>1, <2>2 DEF Range
  <2>5. Move(p, row, {c})
    BY DEF Add, row, rest
  <2>6. \A q \in Node \ {p} : \A n \in Kids(q) : n \in {c} <=> n \in Range(row)
    BY <2>1, <2>4
  <2>7. QED
    BY <2>2, <2>3, <2>5, <2>6, Moving
<1>2. CASE ~InPlace(c)
  BY <1>2, Aside DEF Add, Move, Crash
<1>3. QED
  BY <1>1, <1>2

LEMMA SetStep ==
  ASSUME IInv, NEW p \in Node, NEW c \in Node, NEW i \in 1..MaxSlots, Set(p, i, c)
  PROVE  Preserved
<1> DEFINE rest == TakenOut(list, {c})[p]
           row  == [rest EXCEPT ![i] = c]
<1>1. CASE InPlace(c)
  <2>1. /\ rest \in Seq(Slot) /\ Single(rest) /\ Len(rest) \in Nat
        /\ DOMAIN rest = 1..Len(rest) /\ c \notin Range(rest)
        /\ \A q \in Node \ {p} : Kids(q) \intersect Range(rest) = {}
        /\ i \in 1..Len(rest)
    BY <1>1, WithoutOne, LenProperties, Rows DEF Set, IInv
  <2>2. Move(p, row, {c})
    BY DEF Set
  <2> HIDE DEF rest
  <2>3. /\ row \in Seq(Slot) /\ DOMAIN row = 1..Len(rest)
        /\ \A j \in 1..Len(rest) : row[j] = IF j = i THEN c ELSE rest[j]
    BY <2>1, ExceptSeq, LenProperties DEF Slot
  <2> HIDE DEF row
  <2>4. Single(row)
    BY <2>1, <2>3 DEF Single, Range
  <2>5. Range(row) \subseteq Range(rest) \union {c} /\ c \in Range(row)
    BY <2>1, <2>3 DEF Range
  <2>6. \A q \in Node \ {p} : \A n \in Kids(q) : n \in {c} <=> n \in Range(row)
    BY <2>1, <2>5
  <2>7. QED
    BY <2>2, <2>3, <2>4, <2>6, Moving
<1>2. CASE ~InPlace(c)
  BY <1>2, Aside DEF Set, Move, Crash
<1>3. QED
  BY <1>1, <1>2

LEMMA ClearStep ==
  ASSUME IInv, NEW p \in Node, Clear(p)
  PROVE  Preserved
<1>1. << >> \in Seq(Slot) /\ Single(<< >>) /\ Range(<< >>) = {}
  BY EmptySeq DEF Single, Range
<1>2. \A q \in Node \ {p} : \A n \in Kids(q) : n \notin Kids(p)
  BY OneSlot DEF Kids
<1>3. Kids(p) \in SUBSET Node
  BY KidsAreNodes DEF IInv
<1>4. Move(p, << >>, Kids(p))
  BY DEF Clear
<1>5. QED
  BY <1>1, <1>2, <1>3, <1>4, Moving

LEMMA AddNothingStep ==
  ASSUME IInv, NEW p \in Node, AddNothing(p)
  PROVE  Preserved
<1> DEFINE row == Append(list[p], Empty)
<1>1. /\ list[p] \in Seq(Slot) /\ Len(list[p]) \in Nat /\ Slots(p) = 1..Len(list[p])
      /\ DOMAIN list[p] = 1..Len(list[p])
  BY Rows DEF IInv, Slots
<1>2. /\ row \in Seq(Slot) /\ DOMAIN row = 1..(Len(list[p]) + 1)
      /\ \A i \in 1..Len(list[p]) : row[i] = list[p][i]
      /\ row[Len(list[p]) + 1] = Empty
  BY <1>1 DEF Slot
<1>3. list' = [list EXCEPT ![p] = row] /\ UNCHANGED <<parent, pindex>>
  BY DEF AddNothing
<1> HIDE DEF row
<1>4. /\ list' \in [Node -> Seq(Slot)] /\ list'[p] = row
      /\ \A q \in Node \ {p} : list'[q] = list[q]
  BY <1>2, <1>3 DEF IInv, Shape
<1>5. Shape'
  BY <1>3, <1>4 DEF IInv, Shape, Slot
<1>6. ChildrenKnowTheirPlace'
  <2> SUFFICES ASSUME NEW q \in Node, NEW i \in DOMAIN list'[q], list'[q][i] # Empty
               PROVE  i \in Slots(q) /\ list'[q][i] = list[q][i]
    BY <1>3 DEF ChildrenKnowTheirPlace, Slots, IInv
  <2>1. CASE q = p
    BY <2>1, <1>1, <1>2, <1>4
  <2>2. CASE q # p
    BY <2>2, <1>4 DEF Slots
  <2>3. QED
    BY <2>1, <2>2
<1>7. Abstract!Arrange(p)
  <2> DEFINE K == Abstract!Contents(row)
             W == Abstract!Without(K)
  <2>1. K = Kids(p)
    <3>1. Abstract!Contents(row) = {row[i] : i \in 1..(Len(list[p]) + 1)} \ {Empty}
      BY <1>2 DEF Abstract!Contents
    <3>2. QED
      BY <3>1, <1>1, <1>2 DEF Kids
  <2>2. W = [q \in Node |-> W[q]]
    BY DEF Abstract!Without
  <2>3. ASSUME NEW q \in Node \ {p} PROVE W[q] = list[q]
    <3>1. W[q] = [i \in Slots(q) |-> IF list[q][i] \in K THEN Empty ELSE list[q][i]]
      BY DEF Abstract!Without, Slots
    <3>2. \A i \in Slots(q) : list[q][i] \notin K
      BY <2>1, OneSlot DEF Kids
    <3>3. list[q] = [i \in Slots(q) |-> list[q][i]]
      BY Rows, LenProperties DEF IInv
    <3>4. QED
      BY <3>1, <3>2, <3>3
  <2> HIDE DEF W
  <2>4. list' = [W EXCEPT ![p] = row]
    BY <1>4, <2>2, <2>3
  <2>5. Abstract!Distinct(row)
    BY <1>1, <1>2, OneSlot DEF Abstract!Distinct
  <2>6. QED
    BY <1>2, <1>4, <2>4, <2>5 DEF Abstract!Arrange, W, Slot
<1>8. QED
  BY <1>5, <1>6, <1>7, ArrangeIsNext DEF IInv, Preserved

\* The row replace makes: that of p without slot i, that of q in its place.
LEMMA SplicedRow ==
  ASSUME IInv, NEW p \in Node, NEW q \in Node, p # q, NEW i \in Slots(p),
         Empty \notin Range(list[p])
  PROVE  LET row == SubSeq(list[p], 1, i - 1) \o list[q] \o SubSeq(list[p], i + 1, Len(list[p]))
         IN  /\ row \in Seq(Slot) /\ Single(row)
             /\ Range(row) \subseteq Kids(p) \union Kids(q) \union {Empty}
             /\ Kids(q) \subseteq Range(row)
<1> DEFINE L == Len(list[p])
           M == Len(list[q])
           head == SubSeq(list[p], 1, i - 1)
           tail == SubSeq(list[p], i + 1, L)
           row  == head \o list[q] \o tail
<1>1. /\ list[p] \in Seq(Slot) /\ list[q] \in Seq(Slot)
      /\ L \in Nat /\ M \in Nat /\ i \in 1..L
      /\ Slots(p) = 1..L /\ Slots(q) = 1..M
      /\ \A k \in 1..L : list[p][k] \in Slot
  BY Rows DEF IInv
<1> HIDE DEF L, M
<1>2. /\ head \in Seq(Slot) /\ Len(head) = i - 1
      /\ \A k \in 1..(i - 1) : head[k] = list[p][k]
  <2>1. \A k \in 1..(i - 1) : list[p][k] \in Slot
    BY <1>1
  <2>2. 1 \in Int /\ i - 1 \in Int /\ (i - 1) - 1 + 1 = i - 1
    BY <1>1
  <2>3. /\ head \in Seq(Slot) /\ Len(head) = IF 1 <= i - 1 THEN (i - 1) - 1 + 1 ELSE 0
        /\ \A k \in 1..((i - 1) - 1 + 1) : head[k] = list[p][1 + k - 1]
    BY <2>1, <2>2, SubSeqProperties
  <2>4. QED
    BY <1>1, <2>3
<1>3. /\ tail \in Seq(Slot) /\ Len(tail) = L - i
      /\ \A k \in 1..(L - i) : tail[k] = list[p][i + k]
  <2>1. \A k \in (i + 1)..L : list[p][k] \in Slot
    BY <1>1
  <2>2. i + 1 \in Int /\ L \in Int
    BY <1>1
  <2>3. /\ tail \in Seq(Slot) /\ Len(tail) = IF i + 1 <= L THEN L - (i + 1) + 1 ELSE 0
        /\ \A k \in 1..(L - (i + 1) + 1) : tail[k] = list[p][(i + 1) + k - 1]
    BY <2>1, <2>2, SubSeqProperties
  <2>4. QED
    BY <1>1, <2>3
<1> HIDE DEF head, tail
<1>4. /\ row \in Seq(Slot) /\ Len(row) = L + M - 1 /\ DOMAIN row = 1..(L + M - 1)
      /\ \A k \in 1..(L + M - 1) :
           row[k] = IF k < i THEN list[p][k]
                    ELSE IF k < i + M THEN list[q][k - i + 1] ELSE list[p][k - M + 1]
  <2> DEFINE front == head \o list[q]
  <2>1. /\ front \in Seq(Slot) /\ Len(front) = i - 1 + M
        /\ \A k \in 1..(i - 1 + M) : front[k] = IF k <= i - 1 THEN head[k] ELSE list[q][k - (i - 1)]
    <3>1. /\ front \in Seq(Slot) /\ Len(front) = Len(head) + Len(list[q])
          /\ \A k \in 1..(Len(head) + Len(list[q])) :
               front[k] = IF k <= Len(head) THEN head[k] ELSE list[q][k - Len(head)]
      BY <1>1, <1>2, ConcatProperties
    <3> HIDE DEF front
    <3>2. QED
      BY <1>2, <3>1 DEF M
  <2> HIDE DEF front
  <2>2. /\ front \o tail \in Seq(Slot) /\ Len(front \o tail) = L + M - 1
        /\ \A k \in 1..(L + M - 1) : (front \o tail)[k] =
             IF k <= i - 1 + M THEN front[k] ELSE tail[k - (i - 1 + M)]
    <3>1. /\ front \o tail \in Seq(Slot) /\ Len(front \o tail) = Len(front) + Len(tail)
          /\ \A k \in 1..(Len(front) + Len(tail)) :
               (front \o tail)[k] = IF k <= Len(front) THEN front[k] ELSE tail[k - Len(front)]
      BY <1>3, <2>1, ConcatProperties
    <3>2. Len(front) + Len(tail) = L + M - 1
      BY <1>1, <1>3, <2>1
    <3>3. QED
      BY <2>1, <3>1, <3>2
  <2>3. DOMAIN (front \o tail) = 1..(L + M - 1)
    BY <2>2, LenProperties
  <2>4. row = front \o tail
    BY DEF front
  <2> HIDE DEF row
  <2>5. \A k \in 1..(L + M - 1) :
          row[k] = IF k <= i - 1 + M THEN front[k] ELSE tail[k - (i - 1 + M)]
    BY <2>2, <2>4
  <2>6. ASSUME NEW k \in 1..(L + M - 1)
        PROVE  row[k] = IF k < i THEN list[p][k]
                        ELSE IF k < i + M THEN list[q][k - i + 1] ELSE list[p][k - M + 1]
    <3>1. CASE k < i
      <4>1. /\ k \in 1..(i - 1) /\ k \in 1..(i - 1 + M)
            /\ k <= i - 1 + M /\ k <= i - 1
        BY <1>1, <3>1
      <4>2. row[k] = front[k]
        BY <2>5, <4>1
      <4>3. front[k] = head[k]
        BY <2>1, <4>1
      <4>4. head[k] = list[p][k]
        BY <1>2, <4>1
      <4>5. QED
        BY <3>1, <4>2, <4>3, <4>4
    <3>2. CASE k >= i /\ k < i + M
      <4>1. /\ k \in 1..(i - 1 + M) /\ k <= i - 1 + M /\ ~(k <= i - 1) /\ ~(k < i)
            /\ k - (i - 1) = k - i + 1
        BY <1>1, <3>2
      <4>2. row[k] = front[k]
        BY <2>5, <4>1
      <4>3. front[k] = list[q][k - (i - 1)]
        BY <2>1, <4>1
      <4>4. QED
        BY <3>2, <4>1, <4>2, <4>3
    <3>3. CASE k >= i + M
      <4>1. row[k] = tail[k - (i - 1 + M)] /\ k - (i - 1 + M) \in 1..(L - i)
        <5>1. ~(k <= i - 1 + M) /\ k - (i - 1 + M) \in 1..(L - i)
          BY <1>1, <3>3
        <5>2. QED
          BY <2>5, <5>1
      <4>2. i + (k - (i - 1 + M)) = k - M + 1
        BY <1>1
      <4>3. tail[k - (i - 1 + M)] = list[p][k - M + 1]
        BY <1>3, <4>1, <4>2
      <4>4. ~(k < i) /\ ~(k < i + M)
        BY <1>1, <3>3
      <4>5. QED
        BY <4>1, <4>3, <4>4
    <3>4. QED
      BY <1>1, <3>1, <3>2, <3>3
  <2>7. QED
    BY <2>2, <2>3, <2>4, <2>6
<1> HIDE DEF row
<1>5. \A k \in 1..L : list[p][k] # Empty
  BY <1>1 DEF Range, Slots
<1>6. Single(row)
  <2> SUFFICES ASSUME NEW k \in 1..(L + M - 1), NEW l \in 1..(L + M - 1),
                      row[k] = row[l], row[k] # Empty
               PROVE  k = l
    BY <1>4 DEF Single
  <2> DEFINE Own(x) == x < i \/ x >= i + M
             Old(x) == IF x < i THEN x ELSE x - M + 1
  <2>1. \A x \in 1..(L + M - 1) :
          /\ Own(x) => row[x] = list[p][Old(x)] /\ Old(x) \in Slots(p)
          /\ ~Own(x) => row[x] = list[q][x - i + 1] /\ x - i + 1 \in Slots(q)
    BY <1>1, <1>4
  <2>2. CASE Own(k) /\ Own(l)
    <3>1. Old(k) = Old(l)
      BY <2>1, <2>2, OneSlot
    <3>2. QED
      BY <1>1, <2>2, <3>1
  <2>3. CASE ~Own(k) /\ ~Own(l)
    <3>1. k - i + 1 = l - i + 1
      BY <2>1, <2>3, OneSlot
    <3>2. QED
      BY <1>1, <3>1
  <2>4. CASE Own(k) /\ ~Own(l)
    BY <2>1, <2>4, OneSlot
  <2>5. CASE ~Own(k) /\ Own(l)
    BY <2>1, <2>5, OneSlot
  <2>6. QED
    BY <2>2, <2>3, <2>4, <2>5
<1>7. Range(row) \subseteq Kids(p) \union Kids(q) \union {Empty}
  <2> SUFFICES ASSUME NEW k \in 1..(L + M - 1)
               PROVE  row[k] \in Kids(p) \union Kids(q) \union {Empty}
    BY <1>4 DEF Range
  <2>1. CASE k < i
    BY <1>1, <1>4, <2>1 DEF Kids
  <2>2. CASE k >= i /\ k < i + M
    <3>1. k - i + 1 \in Slots(q) /\ row[k] = list[q][k - i + 1]
      BY <1>1, <1>4, <2>2
    <3>2. QED
      BY <3>1 DEF Kids
  <2>3. CASE k >= i + M
    <3>1. k - M + 1 \in Slots(p) /\ row[k] = list[p][k - M + 1]
      BY <1>1, <1>4, <2>3
    <3>2. QED
      BY <3>1 DEF Kids
  <2>4. QED
    BY <1>1, <2>1, <2>2, <2>3
<1>8. Kids(q) \subseteq Range(row)
  <2> SUFFICES ASSUME NEW j \in 1..M PROVE list[q][j] \in Range(row)
    BY <1>1 DEF Kids
  <2>1. j + i - 1 \in 1..(L + M - 1) /\ row[j + i - 1] = list[q][j]
    BY <1>1, <1>4
  <2>2. QED
    BY <1>4, <2>1 DEF Range
<1>9. QED
  BY <1>4, <1>6, <1>7, <1>8 DEF row, head, tail, L

LEMMA ReplaceStep ==
  ASSUME IInv, NEW p \in Node, NEW q \in Node, NEW i \in 1..MaxSlots, Replace(p, i, q)
  PROVE  Preserved
<1> DEFINE row == SubSeq(list[p], 1, i - 1) \o list[q] \o SubSeq(list[p], i + 1, Len(list[p]))
           C == Kids(p) \union Kids(q)
<1>1. CASE Len(list[q]) = 0 \/ Empty \in Range(list[p])
  BY <1>1, Aside DEF Replace, Crash
<1>2. CASE ~(Len(list[q]) = 0 \/ Empty \in Range(list[p]))
  <2>1. p # q /\ i \in Slots(p) /\ Move(p, row, C)
    BY <1>2 DEF Replace
  <2>2. /\ row \in Seq(Slot) /\ Single(row)
        /\ Range(row) \subseteq C \union {Empty} /\ Kids(q) \subseteq Range(row)
    BY <1>2, <2>1, SplicedRow
  <2> HIDE DEF row
  <2>3. ASSUME NEW r \in Node \ {p}, NEW n \in Kids(r) PROVE n \in C <=> n \in Range(row)
    <3>1. n \notin Kids(p) /\ n # Empty
      BY OneSlot DEF Kids
    <3>2. QED
      BY <2>2, <3>1
  <2>4. C \in SUBSET Node
    BY KidsAreNodes DEF IInv
  <2>5. QED
    BY <2>1, <2>2, <2>3, <2>4, Moving
<1>3. QED
  BY <1>1, <1>2

LEMMA UnlinkStep ==
  ASSUME IInv, NEW c \in Node, Unlink(c)
  PROVE  Preserved
<1>1. CASE ~InPlace(c)
  BY <1>1, Aside DEF Unlink, Crash
<1>2. CASE InPlace(c)
  <2> DEFINE T == TakenOut(list, {c})
  <2>1. /\ list' = T
        /\ parent' = [parent EXCEPT ![c] = Empty]
        /\ pindex' = [pindex EXCEPT ![c] = NoIndex]
    BY <1>2 DEF Unlink
  <2>2. T = [q \in Node |-> T[q]]
    BY DEF TakenOut
  <2>3. \A q \in Node : /\ T[q] \in Seq(Slot)
                        /\ DOMAIN T[q] = Slots(q)
                        /\ \A i \in Slots(q) : T[q][i] = IF list[q][i] = c THEN Empty ELSE list[q][i]
    <3>1. \A d \in {c} : InPlace(d)
      BY <1>2
    <3>2. QED
      BY <3>1, TakenOutSlots
  <2> HIDE DEF T
  <2>4. Shape'
    BY <2>1, <2>2, <2>3 DEF IInv, Shape, Slot, NoIndex
  <2>5. ChildrenKnowTheirPlace'
    <3> SUFFICES ASSUME NEW q \in Node, NEW i \in DOMAIN list'[q], list'[q][i] # Empty
                 PROVE  parent'[list'[q][i]] = q /\ pindex'[list'[q][i]] = i
      BY DEF ChildrenKnowTheirPlace, Slots
    <3>1. i \in Slots(q) /\ list'[q][i] = list[q][i] /\ list[q][i] # c
      BY <2>1, <2>3
    <3>2. list[q][i] \in Node
      BY <3>1, Rows DEF IInv, Slot
    <3>3. QED
      BY <2>1, <3>1, <3>2 DEF IInv, Shape, ChildrenKnowTheirPlace
  <2>6. Abstract!Detach(c)
    <3> DEFINE W == Abstract!Without({c})
    <3>1. W = [q \in Node |-> W[q]]
      BY DEF Abstract!Without
    <3>2. ASSUME NEW q \in Node PROVE W[q] = T[q]
      <4>1. W[q] = [i \in Slots(q) |-> IF list[q][i] \in {c} THEN Empty ELSE list[q][i]]
        BY DEF Abstract!Without, Slots
      <4>2. T[q] = [i \in Slots(q) |-> T[q][i]]
        BY <2>3, LenProperties
      <4>3. QED
        BY <2>3, <4>1, <4>2
    <3> HIDE DEF W
    <3>3. W = T
      BY <2>2, <3>1, <3>2
    <3>4. QED
      BY <2>1, <3>3 DEF Abstract!Detach, W
  <2>7. QED
    BY <2>4, <2>5, <2>6 DEF IInv, Preserved, Abstract!Next
<1>3. QED
  BY <1>1, <1>2

LEMMA DeleteStep ==
  ASSUME IInv, NEW n \in Node, Delete(n)
  PROVE  Preserved
<1>1. CASE status' # status
  <2>1. UNCHANGED <<list, parent, pindex>>
    BY <1>1 DEF Delete, Crash
  <2>2. QED
    BY <2>1, Aside
<1>2. CASE UNCHANGED <<list, parent, pindex>>
  BY <1>2, Aside
<1>3. CASE ~ UNCHANGED <<list, parent, pindex>>
  <2>1. /\ list' = [list EXCEPT ![n] = << >>]
        /\ parent' = [c \in Node |-> IF c \in Kids(n) THEN Empty ELSE parent[c]]
        /\ pindex' = pindex
    BY <1>3 DEF Delete, Crash, Orphan
  <2>2. << >> \in Seq(Slot) /\ DOMAIN << >> = {}
    BY EmptySeq
  <2>3. /\ list' \in [Node -> Seq(Slot)] /\ list'[n] = << >>
        /\ \A q \in Node \ {n} : list'[q] = list[q]
    BY <2>1, <2>2 DEF IInv, Shape
  <2>4. Shape'
    BY <2>1, <2>3 DEF IInv, Shape, Slot
  <2>5. ASSUME NEW q \in Node, NEW i \in DOMAIN list'[q], list'[q][i] # Empty
        PROVE  parent'[list'[q][i]] = q /\ pindex'[list'[q][i]] = i
    <3>1. q # n /\ i \in Slots(q) /\ list'[q][i] = list[q][i]
      BY <2>2, <2>3, <2>5 DEF Slots
    <3>2. list[q][i] \in Node /\ list[q][i] \notin Kids(n)
      BY <2>5, <3>1, Rows, OneSlot DEF IInv, Slot, Kids
    <3>3. QED
      BY <2>1, <2>5, <3>1, <3>2 DEF IInv, ChildrenKnowTheirPlace
  <2>6. Abstract!Arrange(n)
    <3> DEFINE K == Abstract!Contents(<< >>)
               W == Abstract!Without(K)
    <3>1. K = {}
      BY <2>2 DEF Abstract!Contents
    <3>2. W = [q \in Node |-> W[q]]
      BY DEF Abstract!Without
    <3>3. ASSUME NEW q \in Node PROVE W[q] = list[q]
      <4>1. W[q] = [i \in Slots(q) |-> list[q][i]]
        BY <3>1 DEF Abstract!Without, Slots
      <4>2. list[q] = [i \in Slots(q) |-> list[q][i]]
        BY Rows, LenProperties DEF IInv
      <4>3. QED
        BY <4>1, <4>2
    <3> HIDE DEF W
    <3>4. list' = [W EXCEPT ![n] = << >>]
      BY <2>3, <3>2, <3>3
    <3>5. Abstract!Distinct(<< >>)
      BY <2>2 DEF Abstract!Distinct
    <3>6. QED
      BY <2>2, <2>3, <3>4, <3>5 DEF Abstract!Arrange, W, Slot
  <2>7. ChildrenKnowTheirPlace'
    BY <2>5 DEF ChildrenKnowTheirPlace, Slots
  <2>8. QED
    BY <2>4, <2>6, <2>7, ArrangeIsNext DEF IInv, Preserved
<1>4. QED
  BY <1>2, <1>3

-----------------------------------------------------------------------------
LEMMA InitOfTree == Init => IInv /\ Abstract!Init
BY EmptySeq DEF Init, IInv, Shape, Slot, ChildrenKnowTheirPlace, Slots, NoIndex, Abstract!Init

LEMMA StepOfTree == IInv /\ [Next]_vars => Preserved
<1> SUFFICES ASSUME IInv, [Next]_vars PROVE Preserved
  OBVIOUS
<1>1. ASSUME NEW n \in Node, New(n) \/ Hold(n) \/ Drop(n) PROVE Preserved
  BY <1>1, Aside DEF New, Hold, Drop
<1>2. ASSUME NEW n \in Node, Unlink(n) \/ Clear(n) \/ AddNothing(n) \/ Delete(n) PROVE Preserved
  BY <1>2, UnlinkStep, ClearStep, AddNothingStep, DeleteStep
<1>3. ASSUME NEW p \in Node, NEW c \in Node, Add(p, c) PROVE Preserved
  BY <1>3, AddStep
<1>4. ASSUME NEW p \in Node, NEW c \in Node, NEW i \in 1..MaxSlots, Set(p, i, c) \/ Replace(p, i, c)
      PROVE  Preserved
  BY <1>4, SetStep, ReplaceStep
<1>5. CASE UNCHANGED vars
  BY <1>5, Aside DEF vars
<1>6. QED
  BY <1>1, <1>2, <1>3, <1>4, <1>5 DEF Next

LEMMA IInvHolds == Spec => []IInv
<1>1. IInv /\ [Next]_vars => IInv'
  BY StepOfTree DEF Preserved
<1>2. QED
  BY <1>1, InitOfTree, PTL DEF Spec

\* Whatever operations the phases string together, on trees of any size, a
\* child knows its parent and its place: the destructor's assertion holds and
\* no node has two places.
THEOREM PlacesAreKnown == Spec => []ChildrenKnowTheirPlace
BY IInvHolds, PTL DEF IInv

\* The lists behave as a forest that looks nodes up instead of following their
\* parent pointers.
THEOREM TreeIsForest == Spec => ImplementsForest
<1>1. IInv /\ [Next]_vars => [Abstract!Next]_list
  BY StepOfTree DEF Preserved
<1>2. QED
  BY <1>1, InitOfTree, IInvHolds, PTL DEF Spec, ImplementsForest, Abstract!ForestSpec
-----------------------------------------------------------------------------
\* Above is reflexive, and closed under the lists that hold a node.
LEMMA AboveClosed ==
  ASSUME Shape, NEW p \in Node
  PROVE  /\ Above(p, p)
         /\ \A c \in Node, q \in Alive : Above(c, p) /\ c \in Kids(q) => Above(q, p)
<1> DEFINE next == [x \in Node |-> {q \in Alive : x \in Kids(q)}]
<1>1. next \in [Node -> SUBSET Node] /\ {p} \in SUBSET Node /\ IsFiniteSet(Node)
  BY FiniteAssumption DEF Alive
<1>2. \A x \in Node : next[x] = {q \in Alive : x \in Kids(q)}
  OBVIOUS
<1>3. \A c : Above(c, p) <=> c \in Reach(Node, {p}, next)
  BY DEF Above
<1> HIDE DEF next
<1>4. /\ {p} \subseteq Reach(Node, {p}, next)
      /\ \A x \in Reach(Node, {p}, next) : next[x] \subseteq Reach(Node, {p}, next)
  BY <1>1, ReachLeast
<1>5. QED
  BY <1>2, <1>3, <1>4

-----------------------------------------------------------------------------
\* What is held is alive, and so is what a list has; only a node that is alive
\* has a list with something in it.
Living ==
  /\ life \in [Node -> {"unborn", "alive", "dead"}]
  /\ held \subseteq Alive
  /\ \A p \in Node : Kids(p) \subseteq Alive /\ (p \notin Alive => Kids(p) = {})

\* No nodes hold each other up: among any there is one in no list of theirs.
NoCircle ==
  \A S \in SUBSET Node : S # {} => \E x \in S : \A p \in S : x \notin Kids(p)

Life == Living /\ NoCircle

\* A node below what nothing refers to would be garbage itself, or on a circle.
LEMMA LifeIsNoLeak ==
  ASSUME Shape, Life
  PROVE  NothingLeaks
<1>1. \A p \in Node : Kids(p) \subseteq Alive
  BY DEF Life, Living
<1>2. ASSUME Garbage = {}, NEW n \in Alive, \A h \in held : ~Above(h, n) PROVE FALSE
  <2> DEFINE S == {h \in Alive : Above(h, n)}
  <2>1. n \in Node /\ n \in S
    BY AboveClosed DEF Alive
  <2>2. S \in SUBSET Node
    BY DEF Alive
  <2>3. PICK x \in S : \A p \in S : x \notin Kids(p)
    <3> HIDE DEF S
    <3>1. QED
      BY <2>1, <2>2 DEF Life, NoCircle
  <2>4. x \in Alive /\ Above(x, n) /\ x \notin held
    BY <1>2, <2>3
  <2>5. PICK q \in Alive : x \in Kids(q)
    BY <1>2, <2>4 DEF Garbage
  <2>6. x \in Node
    BY <2>4 DEF Alive
  <2>7. Above(q, n)
    BY <2>1, <2>4, <2>5, <2>6, AboveClosed
  <2>8. QED
    BY <2>3, <2>5, <2>7
<1>3. QED
  BY <1>1, <1>2 DEF NothingLeaks

-----------------------------------------------------------------------------
\* A step that puts nothing into a list makes no circle.
LEMMA ShedsCircle ==
  ASSUME NoCircle, \A q \in Node : Kids(q)' \subseteq Kids(q)
  PROVE  NoCircle'
<1> SUFFICES ASSUME NEW S \in SUBSET Node, S # {}
             PROVE  \E x \in S : \A p \in S : x \notin Kids(p)'
  BY DEF NoCircle
<1>1. PICK x \in S : \A p \in S : x \notin Kids(p)
  BY DEF NoCircle
<1>2. QED
  BY <1>1

\* Neither does one that puts nodes below p that are not above it.
LEMMA LinksNoCircle ==
  ASSUME Shape, Life, NEW p \in Alive, NEW C \in SUBSET Alive, \A c \in C : ~Above(c, p),
         \A q \in Node : Kids(q)' \subseteq IF q = p THEN Kids(p) \union C ELSE Kids(q)
  PROVE  NoCircle'
<1> SUFFICES ASSUME NEW S \in SUBSET Node, S # {},
                    \A x \in S : \E q \in S : x \in Kids(q)'
             PROVE  FALSE
  BY DEF NoCircle
<1>1. CASE p \notin S
  <2>1. \A q \in S : Kids(q)' \subseteq Kids(q)
    BY <1>1
  <2>2. PICK x \in S : \A q \in S : x \notin Kids(q)
    BY DEF Life, NoCircle
  <2>3. QED
    BY <2>1, <2>2
<1>2. CASE p \in S
  <2> DEFINE U == {h \in S : Above(h, p)}
  <2>1. U \in SUBSET Node /\ p \in U
    BY <1>2, AboveClosed
  <2>2. ASSUME NEW x \in U PROVE \E q \in U : x \in Kids(q)
    <3>1. x \in S /\ Above(x, p) /\ x \in Node
      BY <2>2
    <3>2. PICK q \in S : x \in Kids(q)'
      BY <3>1
    <3>3. x \notin C
      BY <3>1
    <3>4. x \in Kids(q)
      BY <3>2, <3>3
    <3>5. q \in Alive
      BY <3>4 DEF Life, Living
    <3>6. Above(q, p)
      BY <1>2, <3>1, <3>4, <3>5, AboveClosed
    <3>7. QED
      BY <3>2, <3>4, <3>6
  <2> HIDE DEF U
  <2>3. PICK x \in U : \A q \in U : x \notin Kids(q)
    BY <2>1 DEF Life, NoCircle
  <2>4. QED
    BY <2>2, <2>3
<1>3. QED
  BY <1>1, <1>2

\* A step of a list that is alive: it may take nodes that are alive and not
\* above it, and all other lists can only lose some.
LEMMA Edit ==
  ASSUME Shape, Life, NEW p \in Alive, NEW C \in SUBSET Alive, \A c \in C : ~Above(c, p),
         UNCHANGED <<life, held>>,
         \A q \in Node : Kids(q)' \subseteq IF q = p THEN Kids(p) \union C ELSE Kids(q)
  PROVE  Life'
<1>1. Alive' = Alive
  BY DEF Alive
<1>2. Living'
  <2>1. life' \in [Node -> {"unborn", "alive", "dead"}]
    BY DEF Life, Living
  <2>2. held' \subseteq Alive'
    BY <1>1 DEF Life, Living
  <2>3. ASSUME NEW q \in Node PROVE Kids(q)' \subseteq Alive' /\ (q \notin Alive' => Kids(q)' = {})
    BY <1>1 DEF Life, Living
  <2>4. QED
    BY <2>1, <2>2, <2>3 DEF Living
<1>3. QED
  BY <1>2, LinksNoCircle DEF Life

\* Taking nodes out and giving p a new row, as Place does.
LEMMA PlaceEdits ==
  ASSUME IInv, Life, NEW p \in Alive, NEW row \in Seq(Slot), NEW C \in SUBSET Node,
         NEW K \in SUBSET Alive, \A c \in K : ~Above(c, p),
         Range(row) \subseteq Kids(p) \union K \union {Empty}, Move(p, row, C)
  PROVE  Life'
<1>1. p \in Node /\ Shape
  BY DEF Alive, IInv
<1>2. UNCHANGED <<life, held>>
  BY DEF Move, Crash
<1>3. ASSUME NEW q \in Node
      PROVE  Kids(q)' \subseteq IF q = p THEN Kids(p) \union K ELSE Kids(q)
  <2>1. CASE UNCHANGED list
    BY <2>1 DEF Kids, Slots
  <2>2. CASE ~ UNCHANGED list
    <3>1. (\A c \in C : InPlace(c)) /\ list' = [TakenOut(list, C) EXCEPT ![p] = row]
      BY <2>2 DEF Move, Place, Crash
    <3>2. TakenOut(list, C) = [r \in Node |-> TakenOut(list, C)[r]]
      BY DEF TakenOut
    <3>3. CASE q = p
      <4>1. list'[q] = row
        BY <1>1, <3>1, <3>2, <3>3
      <4>2. Kids(q)' = Range(row) \ {Empty}
        BY <4>1 DEF Kids, Slots, Range
      <4>3. QED
        BY <3>3, <4>2
    <3>4. CASE q # p
      <4>1. list'[q] = TakenOut(list, C)[q]
        BY <3>1, <3>2, <3>4
      <4>2. /\ DOMAIN list'[q] = Slots(q)
            /\ \A i \in Slots(q) : list'[q][i] = IF list[q][i] \in C THEN Empty ELSE list[q][i]
        BY <3>1, <4>1, TakenOutSlots
      <4>3. QED
        BY <3>4, <4>2 DEF Kids, Slots
    <3>5. QED
      BY <3>3, <3>4
  <2>3. QED
    BY <2>1, <2>2
<1>4. QED
  BY <1>1, <1>2, <1>3, Edit

-----------------------------------------------------------------------------
\* A step of the references alone.
LEMMA References ==
  ASSUME Life, UNCHANGED list, Alive \subseteq Alive', held' \subseteq Alive',
         life' \in [Node -> {"unborn", "alive", "dead"}]
  PROVE  Life'
<1>1. \A q \in Node : Kids(q)' = Kids(q)
  BY DEF Kids, Slots
<1>2. Living'
  BY <1>1 DEF Life, Living
<1>3. QED
  BY <1>1, <1>2, ShedsCircle DEF Life

\* A step of the lists alone, that puts nothing into them.
LEMMA Sheds ==
  ASSUME Life, UNCHANGED <<life, held>>, \A q \in Node : Kids(q)' \subseteq Kids(q)
  PROVE  Life'
<1>1. Alive' = Alive
  BY DEF Alive
<1>2. Living'
  BY <1>1 DEF Life, Living
<1>3. QED
  BY <1>2, ShedsCircle DEF Life

LEMMA CrashKeepsLife ==
  ASSUME Life, UNCHANGED <<life, held, list>>
  PROVE  Life'
<1>1. Alive' = Alive
  BY DEF Alive
<1>2. QED
  BY <1>1, References DEF Life, Living

LEMMA ReferenceSteps ==
  ASSUME Life, NEW n \in Node, New(n) \/ Hold(n) \/ Drop(n)
  PROVE  Life'
<1>1. life \in [Node -> {"unborn", "alive", "dead"}] /\ held \subseteq Alive
  BY DEF Life, Living
<1>2. CASE New(n)
  <2>1. /\ life' = [life EXCEPT ![n] = "alive"] /\ held' = held \union {n}
        /\ UNCHANGED list
    BY <1>2 DEF New
  <2>2. Alive' = Alive \union {n} /\ life' \in [Node -> {"unborn", "alive", "dead"}]
    BY <1>1, <2>1 DEF Alive
  <2>3. QED
    BY <1>1, <2>1, <2>2, References
<1>3. CASE Hold(n) \/ Drop(n)
  <2>1. /\ UNCHANGED <<life, list>> /\ held' \subseteq Alive
    BY <1>1, <1>3 DEF Hold, Drop
  <2>2. Alive' = Alive
    BY <2>1 DEF Alive
  <2>3. QED
    BY <1>1, <2>1, <2>2, References
<1>4. QED
  BY <1>2, <1>3

LEMMA UnlinkLife ==
  ASSUME IInv, Life, NEW c \in Node, Unlink(c)
  PROVE  Life'
<1>1. CASE ~InPlace(c)
  BY <1>1, CrashKeepsLife DEF Unlink, Crash
<1>2. CASE InPlace(c)
  <2>1. UNCHANGED <<life, held>> /\ list' = TakenOut(list, {c})
    BY <1>2 DEF Unlink
  <2>2. ASSUME NEW q \in Node PROVE Kids(q)' \subseteq Kids(q)
    <3>1. \A d \in {c} : InPlace(d)
      BY <1>2
    <3>2. /\ DOMAIN list'[q] = Slots(q)
          /\ \A i \in Slots(q) : list'[q][i] = IF list[q][i] \in {c} THEN Empty ELSE list[q][i]
      BY <2>1, <3>1, TakenOutSlots
    <3>3. QED
      BY <3>2 DEF Kids, Slots
  <2>3. QED
    BY <2>1, <2>2, Sheds
<1>3. QED
  BY <1>1, <1>2

LEMMA AddLife ==
  ASSUME IInv, Life, NEW p \in Node, NEW c \in Node, Add(p, c)
  PROVE  Life'
<1> DEFINE rest == TakenOut(list, {c})[p]
           row  == Append(rest, c)
<1>1. CASE ~InPlace(c)
  BY <1>1, CrashKeepsLife DEF Add, Move, Crash
<1>2. CASE InPlace(c)
  <2>1. /\ p \in Alive /\ {c} \subseteq Alive /\ \A d \in {c} : ~Above(d, p)
        /\ Move(p, row, {c})
    BY DEF Add
  <2>2. \A d \in {c} : InPlace(d)
    BY <1>2
  <2>3. /\ rest \in Seq(Slot) /\ Len(rest) = Len(list[p]) /\ Len(list[p]) \in Nat
        /\ Slots(p) = 1..Len(list[p])
        /\ \A i \in Slots(p) : rest[i] = IF list[p][i] \in {c} THEN Empty ELSE list[p][i]
    BY <2>2, TakenOutSlots, Rows DEF IInv
  <2> HIDE DEF rest
  <2>4. /\ row \in Seq(Slot) /\ DOMAIN row = 1..(Len(list[p]) + 1)
        /\ \A i \in 1..Len(list[p]) : row[i] = rest[i]
        /\ row[Len(list[p]) + 1] = c
    BY <2>3 DEF Slot
  <2> HIDE DEF row
  <2>5. Range(row) \subseteq Kids(p) \union {c} \union {Empty}
    <3> SUFFICES ASSUME NEW i \in 1..(Len(list[p]) + 1)
                 PROVE  row[i] \in Kids(p) \union {c} \union {Empty}
      BY <2>4 DEF Range
    <3>1. i = Len(list[p]) + 1 \/ i \in 1..Len(list[p])
      BY <2>3
    <3>2. QED
      BY <2>3, <2>4, <3>1 DEF Kids
  <2>6. row \in Seq(Slot)
    BY <2>4
  <2>7. QED
    BY <2>1, <2>5, <2>6, PlaceEdits
<1>3. QED
  BY <1>1, <1>2

LEMMA SetLife ==
  ASSUME IInv, Life, NEW p \in Node, NEW c \in Node, NEW i \in 1..MaxSlots, Set(p, i, c)
  PROVE  Life'
<1> DEFINE rest == TakenOut(list, {c})[p]
           row  == [rest EXCEPT ![i] = c]
<1>1. CASE ~InPlace(c)
  BY <1>1, CrashKeepsLife DEF Set, Move, Crash
<1>2. CASE InPlace(c)
  <2>1. /\ p \in Alive /\ {c} \subseteq Alive /\ \A d \in {c} : ~Above(d, p)
        /\ Move(p, row, {c}) /\ i \in Slots(p)
    BY DEF Set
  <2>2. \A d \in {c} : InPlace(d)
    BY <1>2
  <2>3. /\ rest \in Seq(Slot) /\ Len(rest) = Len(list[p]) /\ Len(list[p]) \in Nat
        /\ Slots(p) = 1..Len(list[p])
        /\ \A j \in Slots(p) : rest[j] = IF list[p][j] \in {c} THEN Empty ELSE list[p][j]
    BY <2>2, TakenOutSlots, Rows DEF IInv
  <2> HIDE DEF rest
  <2>4. /\ row \in Seq(Slot) /\ DOMAIN row = 1..Len(list[p])
        /\ \A j \in 1..Len(list[p]) : row[j] = IF j = i THEN c ELSE rest[j]
    BY <2>1, <2>3, ExceptSeq, LenProperties DEF Slot
  <2> HIDE DEF row
  <2>5. Range(row) \subseteq Kids(p) \union {c} \union {Empty}
    <3> SUFFICES ASSUME NEW j \in 1..Len(list[p])
                 PROVE  row[j] \in Kids(p) \union {c} \union {Empty}
      BY <2>4 DEF Range
    <3>1. QED
      BY <2>3, <2>4 DEF Kids
  <2> DEFINE C == {c}
  <2>6. /\ row \in Seq(Slot) /\ Move(p, row, C) /\ C \in SUBSET Node /\ C \in SUBSET Alive
        /\ \A d \in C : ~Above(d, p)
        /\ Range(row) \subseteq Kids(p) \union C \union {Empty}
    BY <2>1, <2>4, <2>5
  <2> HIDE DEF C
  <2>7. QED
    BY <2>1, <2>6, PlaceEdits
<1>3. QED
  BY <1>1, <1>2

LEMMA ReplaceLife ==
  ASSUME IInv, Life, NEW p \in Node, NEW q \in Node, NEW i \in 1..MaxSlots, Replace(p, i, q)
  PROVE  Life'
<1> DEFINE row == SubSeq(list[p], 1, i - 1) \o list[q] \o SubSeq(list[p], i + 1, Len(list[p]))
           C == Kids(p) \union Kids(q)
<1>1. CASE Len(list[q]) = 0 \/ Empty \in Range(list[p])
  BY <1>1, CrashKeepsLife DEF Replace, Crash
<1>2. CASE ~(Len(list[q]) = 0 \/ Empty \in Range(list[p]))
  <2>1. /\ p \in Alive /\ p # q /\ i \in Slots(p) /\ Move(p, row, C)
        /\ \A c \in Kids(q) : ~Above(c, p)
    BY <1>2 DEF Replace
  <2>2. row \in Seq(Slot) /\ Range(row) \subseteq Kids(p) \union Kids(q) \union {Empty}
    BY <1>2, <2>1, SplicedRow
  <2> HIDE DEF row
  <2>3. C \in SUBSET Node
    BY KidsAreNodes DEF IInv
  <2>4. Kids(q) \subseteq Alive
    BY DEF Life, Living
  <2> HIDE DEF C
  <2>5. QED
    BY <2>1, <2>2, <2>3, <2>4, PlaceEdits
<1>3. QED
  BY <1>1, <1>2

LEMMA ClearLife ==
  ASSUME IInv, Life, NEW p \in Node, Clear(p)
  PROVE  Life'
<1>1. << >> \in Seq(Slot) /\ Range(<< >>) = {}
  BY EmptySeq DEF Range
<1>2. p \in Alive /\ Move(p, << >>, Kids(p)) /\ Kids(p) \in SUBSET Node
  BY KidsAreNodes DEF Clear, IInv
<1>3. QED
  BY <1>1, <1>2, PlaceEdits

LEMMA AddNothingLife ==
  ASSUME IInv, Life, NEW p \in Node, AddNothing(p)
  PROVE  Life'
<1> DEFINE row == Append(list[p], Empty)
<1>1. /\ list[p] \in Seq(Slot) /\ Len(list[p]) \in Nat /\ Slots(p) = 1..Len(list[p])
  BY Rows DEF IInv
<1>2. /\ DOMAIN row = 1..(Len(list[p]) + 1)
      /\ \A i \in 1..Len(list[p]) : row[i] = list[p][i]
      /\ row[Len(list[p]) + 1] = Empty
  BY <1>1 DEF Slot
<1>3. list' = [list EXCEPT ![p] = row] /\ UNCHANGED <<life, held>> /\ p \in Alive
  BY DEF AddNothing
<1> HIDE DEF row
<1>4. ASSUME NEW q \in Node PROVE Kids(q)' \subseteq Kids(q)
  <2>1. CASE q # p
    BY <1>3, <2>1 DEF IInv, Shape, Kids, Slots
  <2>2. CASE q = p
    <3>1. list'[q] = row
      BY <1>3, <2>2 DEF IInv, Shape
    <3>2. Kids(q)' = {row[i] : i \in 1..(Len(list[p]) + 1)} \ {Empty}
      BY <1>2, <3>1 DEF Kids, Slots
    <3>3. ASSUME NEW i \in 1..(Len(list[p]) + 1), row[i] # Empty PROVE row[i] \in Kids(p)
      <4>1. i \in 1..Len(list[p])
        BY <1>1, <1>2, <3>3
      <4>2. QED
        BY <1>1, <1>2, <3>3, <4>1 DEF Kids
    <3>4. QED
      BY <2>2, <3>2, <3>3
  <2>3. QED
    BY <2>1, <2>2
<1>5. QED
  BY <1>3, <1>4, Sheds

LEMMA DeleteLife ==
  ASSUME IInv, Life, NEW n \in Node, Delete(n)
  PROVE  Life'
<1>1. CASE UNCHANGED <<life, list>>
  BY <1>1, CrashKeepsLife DEF Delete, Crash
<1>2. CASE ~ UNCHANGED <<life, list>>
  <2>1. /\ life' = [life EXCEPT ![n] = "dead"] /\ list' = [list EXCEPT ![n] = << >>]
        /\ held' = held /\ n \in Garbage
    BY <1>2 DEF Delete, Crash, Deletable
  <2>2. Alive' = Alive \ {n} /\ life' \in [Node -> {"unborn", "alive", "dead"}]
    BY <2>1 DEF Alive, Life, Living
  <2>3. Kids(n)' = {}
    <3>1. list'[n] = << >> /\ DOMAIN << >> = {}
      BY <2>1, EmptySeq DEF IInv, Shape
    <3>2. QED
      BY <3>1 DEF Kids, Slots
  <2>4. ASSUME NEW q \in Node, q # n PROVE Kids(q)' = Kids(q) /\ n \notin Kids(q)
    <3>1. Kids(q)' = Kids(q)
      BY <2>1, <2>4 DEF IInv, Shape, Kids, Slots
    <3>2. n \notin Kids(q)
      BY <2>1 DEF Garbage, Life, Living
    <3>3. QED
      BY <3>1, <3>2
  <2>5. Living'
    <3>1. held' \subseteq Alive'
      BY <2>1, <2>2 DEF Garbage, Life, Living
    <3>2. ASSUME NEW q \in Node PROVE Kids(q)' \subseteq Alive' /\ (q \notin Alive' => Kids(q)' = {})
      BY <2>2, <2>3, <2>4 DEF Life, Living
    <3>3. QED
      BY <2>2, <3>1, <3>2 DEF Living
  <2>6. QED
    BY <2>3, <2>4, <2>5, ShedsCircle DEF Life
<1>3. QED
  BY <1>1, <1>2

-----------------------------------------------------------------------------
LEMMA LifeAtFirst == Init => Life
<1> SUFFICES ASSUME Init PROVE Life
  OBVIOUS
<1>1. \A p \in Node : Kids(p) = {}
  BY EmptySeq DEF Init, Kids, Slots
<1>2. QED
  BY <1>1 DEF Init, Life, Living, NoCircle, Alive

LEMMA LifeGoesOn == IInv /\ Life /\ [Next]_vars => Life'
<1> SUFFICES ASSUME IInv, Life, [Next]_vars PROVE Life'
  OBVIOUS
<1>1. ASSUME NEW n \in Node, New(n) \/ Hold(n) \/ Drop(n) PROVE Life'
  BY <1>1, ReferenceSteps
<1>2. ASSUME NEW n \in Node, Unlink(n) \/ Clear(n) \/ AddNothing(n) \/ Delete(n) PROVE Life'
  BY <1>2, UnlinkLife, ClearLife, AddNothingLife, DeleteLife
<1>3. ASSUME NEW p \in Node, NEW c \in Node, Add(p, c) PROVE Life'
  BY <1>3, AddLife
<1>4. ASSUME NEW p \in Node, NEW c \in Node, NEW i \in 1..MaxSlots, Set(p, i, c) \/ Replace(p, i, c)
      PROVE  Life'
  BY <1>4, SetLife, ReplaceLife
<1>5. CASE UNCHANGED vars
  BY <1>5, CrashKeepsLife DEF vars
<1>6. QED
  BY <1>1, <1>2, <1>3, <1>4, <1>5 DEF Next

\* Releasing a reference frees what only it kept, however the phases have
\* moved the nodes about, and nothing that a list or the program still has:
\* the counts alone are enough, as no operation closes a circle of nodes that
\* count each other.
THEOREM NothingIsLeaked == Spec => []NothingLeaks
<1>1. IInv /\ Life => NothingLeaks
  BY LifeIsNoLeak DEF IInv
<1>2. QED
  BY <1>1, IInvHolds, LifeAtFirst, LifeGoesOn, PTL DEF Spec
=============================================================================
