---------------------------- MODULE SourcesProofs ----------------------------
(***************************************************************************)
(* Theorems of Sources, for all documents: what resolve_sources reports,   *)
(* the files each target is made of in the end, and what ends a run before *)
(* there is an end.                                                        *)
(*                                                                         *)
(* The visitor of each phase goes through the places of the document in    *)
(* order, and Placed says that it does not leave them.  Resolving is about *)
(* resolve_sources: what stands before the visitor has been read, what     *)
(* stands behind it has not, and in_sources says whether an exclude has    *)
(* been met in the list it is in.  The other phases, in a document that is *)
(* Regular, keep one invariant each: Listing for resolve_wildcards (a list *)
(* means what the one that was written says), Gathering for                *)
(* resolve_sourcesref (a target has what it has imported, no more, and     *)
(* what that imports is there or awaited) and Excluding for exclude (a     *)
(* file that is to go is there as long as an exclude that names it is).    *)
(* Traced needs no regular document: whatever is left of a section stood   *)
(* in the document as it was written, in the block or in one it imports.   *)
(***************************************************************************)
EXTENDS Sources, SetInduction

Positions == [t : Nat \ {0}, s : Nat \ {0}, i : Nat, j : Nat]

\* The places of the items of a document, those in excludes included.
Spots(d) ==
  {p \in Positions :
     /\ p.t \in DOMAIN d /\ p.s \in DOMAIN d[p.t].body
     /\ p.i \in DOMAIN d[p.t].body[p.s].items
     /\ p.j = 0 \/ /\ d[p.t].body[p.s].items[p.i].op = "exclude"
                   /\ p.j \in DOMAIN d[p.t].body[p.s].items[p.i].items}

ItemAt(d, p) ==
  IF p.j = 0 THEN d[p.t].body[p.s].items[p.i] ELSE d[p.t].body[p.s].items[p.i].items[p.j]

\* The same blocks, whatever their bodies are.
SameBlocks(d, e) ==
  /\ DOMAIN d = DOMAIN e
  /\ \A t \in DOMAIN e : d[t].kind = e[t].kind /\ d[t].name = e[t].name

\* What stays when an item is replaced.
SameOutline(d, e) ==
  /\ SameBlocks(d, e)
  /\ \A t \in DOMAIN e : /\ DOMAIN d[t].body = DOMAIN e[t].body
                         /\ \A s \in DOMAIN e[t].body : d[t].body[s].own = e[t].body[s].own

-----------------------------------------------------------------------------
\* Types of what a document has in it.
LEMMA PartsTyped ==
  ASSUME NEW d \in Seq(Blocks), NEW t \in DOMAIN d
  PROVE  /\ d[t] \in Blocks /\ d[t].body \in Seq(Sections)
         /\ \A s \in DOMAIN d[t].body :
              /\ d[t].body[s] \in Sections /\ d[t].body[s].items \in Seq(Items)
              /\ \A i \in DOMAIN d[t].body[s].items : d[t].body[s].items[i] \in Items
<1>1. d[t] \in Blocks
  BY ElementOfSeq, LenProperties
<1>2. d[t].body \in Seq(Sections)
  BY <1>1 DEF Blocks
<1>3. ASSUME NEW s \in DOMAIN d[t].body
      PROVE  /\ d[t].body[s] \in Sections /\ d[t].body[s].items \in Seq(Items)
             /\ \A i \in DOMAIN d[t].body[s].items : d[t].body[s].items[i] \in Items
  <2>1. d[t].body[s] \in Sections
    BY <1>2, <1>3, ElementOfSeq, LenProperties
  <2>2. d[t].body[s].items \in Seq(Items)
    BY <2>1 DEF Sections
  <2>3. QED
    BY <2>1, <2>2, ElementOfSeq, LenProperties
<1>4. QED
  BY <1>1, <1>2, <1>3

\* An item is plain, or an exclude of plain ones.
LEMMA ItemsTyped ==
  ASSUME NEW x \in Items
  PROVE  /\ x.op # "exclude" => x \in Plain
         /\ x.op = "exclude" => x.items \in Seq(Plain) /\ x = [op |-> "exclude", items |-> x.items]
BY DEF Items, Plain, None

\* What a plain item has.
LEMMA PlainTyped ==
  ASSUME NEW x \in Plain
  PROVE  /\ x.op \in {"file", "wild", "ref", "none"} /\ x \in Items
         /\ x.op = "file" => x.dir \in Seq(STRING) /\ x.name \in Seq(STRING)
         /\ x.op = "wild" => x.matches \in SUBSET Path
BY DEF Items, Plain, None

\* Rows with one element replaced.
LEMMA RowWith ==
  ASSUME NEW T, NEW row \in Seq(T), NEW k \in DOMAIN row, NEW x \in T
  PROVE  [row EXCEPT ![k] = x] \in Seq(T)
BY ExceptSeq, LenProperties

\* A document with the items of section s of block t replaced.
With(d, t, s, items) == [d EXCEPT ![t].body[s].items = items]

\* Replacing the items of a section changes no other one.
LEMMA WithTyped ==
  ASSUME NEW d \in Seq(Blocks), NEW t \in DOMAIN d, NEW s \in DOMAIN d[t].body,
         NEW items \in Seq(Items), NEW e, e = With(d, t, s, items)
  PROVE  /\ e \in Seq(Blocks) /\ SameOutline(e, d)
         /\ e[t].body[s].items = items
         /\ \A u \in DOMAIN d : \A r \in DOMAIN d[u].body :
              u # t \/ r # s => e[u].body[r] = d[u].body[r]
<1> DEFINE sec == [d[t].body[s] EXCEPT !.items = items]
           body == [d[t].body EXCEPT ![s] = sec]
           block == [d[t] EXCEPT !.body = body]
<1>1. sec \in Sections /\ sec.items = items /\ sec.own = d[t].body[s].own
  BY PartsTyped DEF Sections
<1>2. body \in Seq(Sections)
  BY <1>1, PartsTyped, RowWith
<1>3. /\ DOMAIN body = DOMAIN d[t].body /\ body[s] = sec
      /\ \A r \in DOMAIN d[t].body : r # s => body[r] = d[t].body[r]
  OBVIOUS
<1> HIDE DEF sec
<1>4. block \in Blocks /\ block.body = body /\ block.kind = d[t].kind /\ block.name = d[t].name
  <2> DEFINE V == Seq(Sections)
             K == {"program", "library", "template", "toplevel"}
  <2>1. d[t] \in [kind : K, name : STRING, body : V]
    BY PartsTyped DEF Blocks
  <2>2. body \in V
    BY <1>2
  <2> HIDE DEF body, V, K
  <2>3. block \in [kind : K, name : STRING, body : V] /\ block.body = body
        /\ block.kind = d[t].kind /\ block.name = d[t].name
    BY <2>1, <2>2
  <2>4. QED
    BY <2>3 DEF Blocks, V, K
<1>5. e = [d EXCEPT ![t] = block]
  BY DEF With, sec
<1> HIDE DEF body, block
<1>6. e \in Seq(Blocks)
  BY <1>4, <1>5, RowWith
<1>7. /\ DOMAIN e = DOMAIN d /\ e[t] = block
      /\ \A u \in DOMAIN d : u # t => e[u] = d[u]
  BY <1>5
<1>8. SameOutline(e, d)
  BY <1>1, <1>3, <1>4, <1>7 DEF SameOutline, SameBlocks
<1>9. QED
  BY <1>1, <1>3, <1>4, <1>6, <1>7, <1>8

\* The item of p when its list is the one that is given.
ItemOf(items, p) == IF p.j = 0 THEN items[p.i] ELSE items[p.i].items[p.j]

\* A list of the same length, with excludes of the same lengths.
Alike(items, old) ==
  /\ DOMAIN items = DOMAIN old
  /\ \A i \in DOMAIN old : /\ items[i].op = "exclude" <=> old[i].op = "exclude"
                           /\ old[i].op = "exclude" => DOMAIN items[i].items = DOMAIN old[i].items

\* Lists that are alike have their items in the same places.
LEMMA WithSpots ==
  ASSUME NEW d \in Seq(Blocks), NEW t \in DOMAIN d, NEW s \in DOMAIN d[t].body,
         NEW items \in Seq(Items), NEW e, e = With(d, t, s, items),
         Alike(items, d[t].body[s].items)
  PROVE  /\ Spots(e) = Spots(d)
         /\ \A p \in Spots(d) :
              ItemAt(e, p) = IF p.t = t /\ p.s = s THEN ItemOf(items, p) ELSE ItemAt(d, p)
<1>1. /\ SameOutline(e, d) /\ e[t].body[s].items = items
      /\ \A u \in DOMAIN d : \A r \in DOMAIN d[u].body : u # t \/ r # s => e[u].body[r] = d[u].body[r]
  BY WithTyped
<1>2. ASSUME NEW p \in Positions PROVE p \in Spots(e) <=> p \in Spots(d)
  <2>1. /\ DOMAIN e = DOMAIN d
        /\ p.t \in DOMAIN d => DOMAIN e[p.t].body = DOMAIN d[p.t].body
    BY <1>1 DEF SameOutline, SameBlocks
  <2> DEFINE IsPlace(items0) ==
               /\ p.i \in DOMAIN items0
               /\ p.j = 0 \/ (items0[p.i].op = "exclude" /\ p.j \in DOMAIN items0[p.i].items)
             there == p.t \in DOMAIN d /\ p.s \in DOMAIN d[p.t].body
  <2>2. /\ p \in Spots(d) <=> there /\ IsPlace(d[p.t].body[p.s].items)
        /\ p \in Spots(e) <=> there /\ IsPlace(e[p.t].body[p.s].items)
    BY <2>1 DEF Spots
  <2>3. ASSUME p.t = t, p.s = s PROVE IsPlace(items) <=> IsPlace(d[t].body[s].items)
    BY DEF Alike
  <2>4. there /\ ~(p.t = t /\ p.s = s) => e[p.t].body[p.s] = d[p.t].body[p.s]
    BY <1>1
  <2> HIDE DEF IsPlace
  <2>5. QED
    BY <1>1, <2>2, <2>3, <2>4
<1>3. Spots(e) = Spots(d)
  BY <1>2 DEF Spots
<1>4. ASSUME NEW p \in Spots(d)
      PROVE  ItemAt(e, p) = IF p.t = t /\ p.s = s THEN ItemOf(items, p) ELSE ItemAt(d, p)
  BY <1>1 DEF ItemAt, ItemOf, Spots
<1>5. QED
  BY <1>3, <1>4

\* The item that is visited is replaced, and no other.
LEMMA ItemReplaced ==
  ASSUME doc \in Seq(Blocks), at \in Spots(doc), Item.op # "exclude",
         NEW x \in Plain, NEW e, e = WithItem(x)
  PROVE  /\ e \in Seq(Blocks) /\ SameOutline(e, doc) /\ Spots(e) = Spots(doc)
         /\ ItemAt(e, at) = x
         /\ \A p \in Spots(doc) :
              /\ ItemAt(doc, p).op = "exclude" => ItemAt(e, p).op = "exclude"
              /\ ItemAt(doc, p).op # "exclude" /\ p # at => ItemAt(e, p) = ItemAt(doc, p)
<1>1. /\ at.t \in DOMAIN doc /\ at.s \in DOMAIN doc[at.t].body /\ at.i \in DOMAIN Outer
      /\ at \in Positions
      /\ at.j # 0 => Outer[at.i].op = "exclude" /\ at.j \in DOMAIN Outer[at.i].items
  BY DEF Spots, Outer
<1>2. Outer \in Seq(Items) /\ \A i \in DOMAIN Outer : Outer[i] \in Items
  BY <1>1, PartsTyped DEF Outer
<1>3. x \in Items /\ x.op # "exclude"
  BY PlainTyped
<1> DEFINE old == Outer
<1>4. old = doc[at.t].body[at.s].items
  BY DEF Outer
<1>5. CASE ~Nested
  <2> DEFINE items == [old EXCEPT ![at.i] = x]
  <2>1. at.j = 0
    BY <1>1, <1>5 DEF Nested, Positions
  <2>2. e = With(doc, at.t, at.s, items)
    BY <1>5 DEF WithItem, WithList, List, Here, With
  <2>3. old[at.i].op # "exclude"
    BY <1>5 DEF Item, List, Here
  <2>4. items \in Seq(Items)
    BY <1>1, <1>2, <1>3, RowWith
  <2>5. /\ DOMAIN items = DOMAIN old /\ items[at.i] = x
        /\ \A i \in DOMAIN old : i # at.i => items[i] = old[i]
    BY <1>1
  <2> HIDE DEF items, old
  <2>6. Alike(items, old)
    BY <1>3, <2>3, <2>5 DEF Alike
  <2>7. /\ e \in Seq(Blocks) /\ SameOutline(e, doc) /\ Spots(e) = Spots(doc)
        /\ \A p \in Spots(doc) :
             ItemAt(e, p) = IF p.t = at.t /\ p.s = at.s THEN ItemOf(items, p) ELSE ItemAt(doc, p)
    BY <1>1, <1>4, <2>2, <2>4, <2>6, WithTyped, WithSpots
  <2>8. ItemAt(e, at) = x
    BY <2>1, <2>5, <2>7 DEF ItemOf
  <2>9. ASSUME NEW p \in Spots(doc), p # at PROVE ItemAt(e, p) = ItemAt(doc, p)
    <3>1. CASE p.t = at.t /\ p.s = at.s
      <4>1. ItemAt(doc, p) = ItemOf(old, p) /\ ItemAt(e, p) = ItemOf(items, p)
        BY <1>4, <2>7, <3>1 DEF ItemAt, ItemOf
      <4>2. p \in Positions /\ p.i \in DOMAIN old /\ (p.j # 0 => old[p.i].op = "exclude")
        BY <1>4, <3>1 DEF Spots
      <4>3. p.i # at.i
        BY <1>1, <2>1, <2>3, <2>9, <3>1, <4>2 DEF Positions
      <4>4. QED
        BY <2>5, <4>1, <4>2, <4>3 DEF ItemOf
    <3>2. CASE ~(p.t = at.t /\ p.s = at.s)
      BY <2>7, <3>2
    <3>3. QED
      BY <3>1, <3>2
  <2>10. ItemAt(e, at).op # "exclude" /\ ItemAt(doc, at).op # "exclude"
    BY <1>3, <1>4, <2>1, <2>3, <2>8 DEF ItemAt
  <2>11. QED
    BY <2>7, <2>8, <2>9, <2>10
<1>6. CASE Nested
  <2> DEFINE inner == old[at.i].items
             more == [inner EXCEPT ![at.j] = x]
             exclude == [old[at.i] EXCEPT !.items = more]
             items == [old EXCEPT ![at.i] = exclude]
  <2>1. at.j # 0 /\ old[at.i].op = "exclude" /\ at.j \in DOMAIN inner
    BY <1>1, <1>6 DEF Nested
  <2>2. e = With(doc, at.t, at.s, items)
    <3>1. e = [doc EXCEPT ![at.t].body[at.s].items[at.i].items = more]
      BY <1>6 DEF WithItem, WithList, List, Here
    <3> HIDE DEF more
    <3>2. QED
      BY <3>1 DEF With, Outer
  <2>3. inner \in Seq(Plain) /\ old[at.i] = [op |-> "exclude", items |-> inner]
    BY <1>1, <1>2, <2>1, ItemsTyped
  <2>4. more \in Seq(Plain) /\ DOMAIN more = DOMAIN inner /\ more[at.j] = x
        /\ \A j \in DOMAIN inner : j # at.j => more[j] = inner[j]
    BY <2>1, <2>3, RowWith
  <2> HIDE DEF more
  <2>5. exclude = [op |-> "exclude", items |-> more]
    BY <2>3
  <2>6. exclude \in Items /\ exclude.op = "exclude" /\ exclude.items = more
    BY <2>4, <2>5 DEF Items
  <2> HIDE DEF exclude
  <2>7. items \in Seq(Items)
    BY <1>1, <1>2, <2>6, RowWith
  <2>8. /\ DOMAIN items = DOMAIN old /\ items[at.i] = exclude
        /\ \A i \in DOMAIN old : i # at.i => items[i] = old[i]
    BY <1>1
  <2> HIDE DEF items
  <2>9. Alike(items, old)
    BY <2>1, <2>4, <2>6, <2>8 DEF Alike
  <2> HIDE DEF old
  <2>10. /\ e \in Seq(Blocks) /\ SameOutline(e, doc) /\ Spots(e) = Spots(doc)
         /\ \A p \in Spots(doc) :
              ItemAt(e, p) = IF p.t = at.t /\ p.s = at.s THEN ItemOf(items, p) ELSE ItemAt(doc, p)
    BY <1>1, <1>4, <2>2, <2>7, <2>9, WithTyped, WithSpots
  <2>11. ItemAt(e, at) = x
    BY <2>1, <2>4, <2>6, <2>8, <2>10 DEF ItemOf
  <2>12. ASSUME NEW p \in Spots(doc), p # at
         PROVE  /\ ItemAt(doc, p).op = "exclude" => ItemAt(e, p).op = "exclude"
                /\ ItemAt(doc, p).op # "exclude" => ItemAt(e, p) = ItemAt(doc, p)
    <3>1. CASE p.t = at.t /\ p.s = at.s
      <4>1. ItemAt(doc, p) = ItemOf(old, p) /\ ItemAt(e, p) = ItemOf(items, p)
        BY <1>4, <2>10, <3>1 DEF ItemAt, ItemOf
      <4>2. p \in Positions /\ p.i \in DOMAIN old /\ (p.j # 0 => p.j \in DOMAIN old[p.i].items)
        BY <1>4, <3>1 DEF Spots
      <4>3. CASE p.i # at.i
        BY <2>8, <4>1, <4>2, <4>3 DEF ItemOf
      <4>4. CASE p.i = at.i /\ p.j = 0
        BY <2>1, <2>6, <2>8, <4>1, <4>4 DEF ItemOf
      <4>5. CASE p.i = at.i /\ p.j # 0
        <5>1. p.j # at.j
          BY <1>1, <2>12, <3>1, <4>2, <4>5 DEF Positions
        <5>2. QED
          BY <2>4, <2>6, <2>8, <4>1, <4>2, <4>5, <5>1 DEF ItemOf
      <4>6. QED
        BY <4>3, <4>4, <4>5
    <3>2. CASE ~(p.t = at.t /\ p.s = at.s)
      BY <2>10, <3>2
    <3>3. QED
      BY <3>1, <3>2
  <2>13. ItemAt(doc, at).op # "exclude"
    BY <1>6, <2>1 DEF ItemAt, Item, List, Here, Outer
  <2>14. QED
    BY <2>10, <2>11, <2>12, <2>13
<1>7. QED
  BY <1>5, <1>6

-----------------------------------------------------------------------------
Phases == {"resolve_sources", "resolve_wildcards", "resolve_sourcesref", "exclude",
           "failed", "thrown", "crashed", "exhausted", "done"}

\* Where the visitor is: inside of an exclude when it says so.
Placed ==
  /\ project \in Seq(Blocks) /\ doc \in Seq(Blocks) /\ SameBlocks(doc, project)
  /\ phase \in Phases
  /\ at \in Positions
  /\ at.j > 0 => /\ at.i > 0 /\ [at EXCEPT !.j = 0] \in Spots(doc)
                 /\ Outer[at.i].op = "exclude"

\* What resolve_sources makes of an item it looks at.
After(x) == IF x.op = "file" /\ Found(x) THEN File(Resolved(x)) ELSE x

\* The visitor has been at p before it comes to q.
Before(p, q) ==
  \/ p.t < q.t
  \/ p.t = q.t /\ p.s < q.s
  \/ p.t = q.t /\ p.s = q.s /\ p.i < q.i
  \/ p.t = q.t /\ p.s = q.s /\ p.i = q.i /\ p.j < q.j

\* No exclude stands before p in its list.
Looked(p) ==
  p.j > 0 \/ \A k \in 1..(p.i - 1) : project[p.t].body[p.s].items[k].op # "exclude"

\* The items resolve_sources looks at, and those it has been at.
Read == {p \in Spots(project) : /\ ItemAt(project, p).op # "exclude"
                                /\ project[p.t].kind # "template" /\ Looked(p)}
Past1(q) == {p \in Read : Before(p, q)}

\* Items that have been looked at are resolved, or an error has been reported
\* and they are as they were, like the others.
Resolving ==
  /\ Spots(doc) = Spots(project) /\ SameOutline(doc, project)
  /\ \A p \in Spots(project) :
       IF ItemAt(project, p).op = "exclude" THEN ItemAt(doc, p).op = "exclude"
       ELSE ItemAt(doc, p) = IF p \in Past1(at) THEN After(ItemAt(project, p))
                             ELSE ItemAt(project, p)
  /\ at.i > 0 => (inSources <=> Looked(at))
  /\ errors = {} <=> \A p \in Past1(at) : ~IsMissing(ItemAt(project, p))

\* The invariant of resolve_sources.
IInv == phase = "resolve_sources" => Placed /\ Resolving

-----------------------------------------------------------------------------
\* The visitor is at an item of the document.
LEMMA AtSpot ==
  ASSUME Placed, AtItem
  PROVE  at \in Spots(doc) /\ Item = ItemAt(doc, at) /\ at.t \in DOMAIN doc /\ at.i > 0
<1>1. /\ at \in Positions /\ doc \in Seq(Blocks) /\ at.i > 0
      /\ at.t <= Len(doc) /\ at.s <= Len(doc[at.t].body)
  BY DEF Placed, AtItem, InBody
<1>2. at.t \in DOMAIN doc
  BY <1>1, LenProperties DEF Positions
<1>3. at.s \in DOMAIN doc[at.t].body
  BY <1>1, <1>2, PartsTyped, LenProperties DEF Positions
<1>4. Outer \in Seq(Items) /\ \A i \in DOMAIN Outer : Outer[i] \in Items
  BY <1>1, <1>2, <1>3, PartsTyped DEF Outer
<1>5. CASE at.j = 0
  <2>1. at.i <= Len(Outer)
    BY <1>5 DEF AtItem, Here, List, Nested
  <2>2. at.i \in DOMAIN Outer
    BY <1>1, <1>4, <2>1, LenProperties DEF Positions
  <2>3. Item = ItemAt(doc, at)
    BY <1>5 DEF Item, ItemAt, List, Here, Nested, Outer
  <2>4. QED
    BY <1>1, <1>2, <1>3, <1>5, <2>2, <2>3 DEF Spots, Outer
<1>6. CASE at.j > 0
  <2>1. [at EXCEPT !.j = 0] \in Spots(doc) /\ Outer[at.i].op = "exclude"
    BY <1>6 DEF Placed
  <2>2. at.i \in DOMAIN Outer
    BY <1>1, <2>1 DEF Spots, Outer, Positions
  <2>3. Outer[at.i].items \in Seq(Plain)
    BY <1>4, <2>1, <2>2, ItemsTyped
  <2>4. at.j <= Len(Outer[at.i].items)
    BY <1>6 DEF AtItem, Here, List, Nested
  <2>5. at.j \in DOMAIN Outer[at.i].items
    BY <1>1, <1>6, <2>3, <2>4, LenProperties DEF Positions
  <2>6. Item = ItemAt(doc, at)
    BY <1>1, <1>6 DEF Item, ItemAt, List, Here, Nested, Outer, Positions
  <2>7. QED
    BY <1>1, <1>2, <1>3, <2>1, <2>2, <2>5, <2>6 DEF Spots, Outer
<1>7. QED
  BY <1>1, <1>5, <1>6 DEF Positions

\* What comes before the next place: the item that is passed as well.
LEMMA PastBefore ==
  ASSUME Placed, AtItem, Item.op # "exclude", NEW p \in Spots(doc)
  PROVE  Before(p, Past) <=> Before(p, at) \/ p = at
<1>1. at \in Spots(doc) /\ Item = ItemAt(doc, at) /\ at \in Positions /\ p \in Positions
  BY AtSpot DEF Placed, Spots
<1>2. p = at <=> p.t = at.t /\ p.s = at.s /\ p.i = at.i /\ p.j = at.j
  BY <1>1 DEF Positions
<1>3. CASE Nested
  <2>1. Past.t = at.t /\ Past.s = at.s /\ Past.i = at.i /\ Past.j = at.j + 1
    BY <1>1, <1>3 DEF Past, Positions
  <2>2. QED
    BY <1>1, <1>2, <2>1 DEF Before, Positions
<1>4. CASE ~Nested
  <2>1. Past.t = at.t /\ Past.s = at.s /\ Past.i = at.i + 1 /\ Past.j = at.j /\ at.j = 0
    BY <1>1, <1>4 DEF Past, Positions, Nested
  <2>2. p.t = at.t /\ p.s = at.s /\ p.i = at.i => p.j = 0
    BY <1>1, <2>1 DEF Spots, ItemAt
  <2>3. QED
    BY <1>1, <1>2, <2>1, <2>2 DEF Before, Positions
<1>5. QED
  BY <1>3, <1>4

\* No item but an exclude is between the head of a list and its first item.
LEMMA InsideBefore ==
  ASSUME Placed, AtList, NEW p \in Spots(doc), ItemAt(doc, p).op # "exclude"
  PROVE  Before(p, Inside) <=> Before(p, at)
<1>1. at \in Positions /\ p \in Positions /\ p.i # 0
  <2>1. doc[p.t].body[p.s].items \in Seq(Items) /\ p.i \in DOMAIN doc[p.t].body[p.s].items
    BY PartsTyped DEF Spots, Placed
  <2>2. QED
    BY <2>1, LenProperties DEF Placed, Spots
<1>2. CASE at.i = 0
  <2>1. Inside.t = at.t /\ Inside.s = at.s /\ Inside.i = 1 /\ Inside.j = at.j /\ at.j = 0
    BY <1>1, <1>2 DEF Inside, Positions, Placed
  <2>2. QED
    BY <1>1, <1>2, <2>1 DEF Before, Positions
<1>3. CASE at.i # 0
  <2>1. AtItem /\ ~Nested /\ Item.op = "exclude"
    BY <1>3 DEF AtList
  <2>2. Inside.t = at.t /\ Inside.s = at.s /\ Inside.i = at.i /\ Inside.j = 1 /\ at.j = 0
    BY <1>1, <1>3, <2>1 DEF Inside, Positions, Nested
  <2>3. ItemAt(doc, at).op = "exclude"
    BY <2>1, AtSpot
  <2>4. p # at
    BY <2>3
  <2>5. QED
    BY <1>1, <2>2, <2>4 DEF Before, Positions
<1>4. QED
  BY <1>2, <1>3

\* There is nothing more behind the end of a list.
LEMMA BehindBefore ==
  ASSUME Placed, AtEnd, NEW p \in Spots(doc)
  PROVE  Before(p, Behind) <=> Before(p, at)
<1>1. at \in Positions /\ p \in Positions /\ at.i > 0 /\ Here > Len(List)
  BY DEF Placed, Spots, AtEnd
<1>2. /\ p.t = at.t /\ p.s = at.s => p.i \in DOMAIN Outer
      /\ p.t = at.t /\ p.s = at.s /\ p.j # 0 => p.j \in DOMAIN Outer[p.i].items
      /\ p.t = at.t /\ p.s = at.s => Outer \in Seq(Items) /\ Outer[p.i] \in Items
  <2>1. doc \in Seq(Blocks)
    BY DEF Placed
  <2>2. QED
    BY <2>1, PartsTyped DEF Spots, Outer
<1>3. CASE Nested
  <2>1. Behind.t = at.t /\ Behind.s = at.s /\ Behind.i = at.i + 1 /\ Behind.j = 0
    BY <1>1, <1>3 DEF Behind, Positions
  <2>2. ASSUME p.t = at.t, p.s = at.s, p.i = at.i PROVE p.j < at.j
    <3>1. Outer[at.i].op = "exclude" /\ at.j > 0
      BY <1>3 DEF Nested, Placed
    <3>2. Outer[at.i].items \in Seq(Plain) /\ at.j > Len(Outer[at.i].items)
      BY <1>1, <1>2, <1>3, <2>2, <3>1, ItemsTyped DEF Here, List
    <3>3. CASE p.j = 0
      BY <3>1, <3>3
    <3>4. CASE p.j # 0
      BY <1>1, <1>2, <2>2, <3>2, <3>4, LenProperties DEF Positions
    <3>5. QED
      BY <3>3, <3>4
  <2>3. QED
    BY <1>1, <2>1, <2>2 DEF Before, Positions
<1>4. CASE ~Nested
  <2>1. Behind.t = at.t /\ Behind.s = at.s + 1 /\ Behind.i = 0 /\ Behind.j = at.j /\ at.j = 0
    BY <1>1, <1>4 DEF Behind, Positions, Nested
  <2>2. ASSUME p.t = at.t, p.s = at.s PROVE p.i < at.i
    <3>1. at.i > Len(Outer) /\ p.i <= Len(Outer) /\ Len(Outer) \in Nat
      BY <1>1, <1>2, <1>4, <2>2, LenProperties DEF Here, List, Positions
    <3>2. QED
      BY <1>1, <3>1 DEF Positions
  <2>3. QED
    BY <1>1, <2>1, <2>2 DEF Before, Positions
<1>5. QED
  BY <1>3, <1>4

\* An exclude holds no other one.
LEMMA NestedPlain ==
  ASSUME Placed, AtItem
  PROVE  Item \in Items /\ (Nested => Item \in Plain /\ Item.op # "exclude")
<1>1. at \in Spots(doc) /\ at \in Positions /\ doc \in Seq(Blocks) /\ Item = ItemAt(doc, at)
  BY AtSpot DEF Placed
<1>2. /\ Outer[at.i] \in Items
      /\ at.j # 0 => Outer[at.i].op = "exclude" /\ at.j \in DOMAIN Outer[at.i].items
  BY <1>1, PartsTyped DEF Spots, Outer
<1>3. CASE Nested
  <2>1. at.j # 0 /\ Item = Outer[at.i].items[at.j]
    BY <1>1, <1>3 DEF Nested, Item, List, Here
  <2>2. Outer[at.i].items \in Seq(Plain)
    BY <1>2, <2>1, ItemsTyped
  <2>3. Item \in Plain
    BY <1>2, <2>1, <2>2, ElementOfSeq, LenProperties
  <2>4. QED
    BY <2>3, PlainTyped
<1>4. CASE ~Nested
  BY <1>2, <1>4 DEF Item, List, Here
<1>5. QED
  BY <1>3, <1>4

\* Resolving and what it is about do not change but by what is said here.
LEMMA ReadStays ==
  ASSUME UNCHANGED project
  PROVE  /\ Read' = Read /\ Spots(project)' = Spots(project)
         /\ \A p : ItemAt(project, p)' = ItemAt(project, p)
         /\ Past1(at)' = {p \in Read : Before(p, at')}
BY DEF Read, Spots, ItemAt, Looked, Past1

\* A step that changes no item and passes none.
LEMMA QuietStep ==
  ASSUME Resolving, UNCHANGED <<project, doc, errors>>,
         \A p \in Read : Before(p, at') <=> Before(p, at),
         at'.i > 0 => (inSources' <=> Looked(at)')
  PROVE  Resolving'
<1>1. Past1(at)' = Past1(at)
  BY ReadStays DEF Past1
<1>2. /\ Spots(project)' = Spots(project) /\ Spots(doc)' = Spots(doc)
      /\ \A p : ItemAt(project, p)' = ItemAt(project, p) /\ ItemAt(doc, p)' = ItemAt(doc, p)
  BY DEF Spots, ItemAt
<1>3. \A x : IsMissing(x)' <=> IsMissing(x)
  BY DEF IsMissing, Found, Known
<1> DEFINE Was(x, old, gone) == IF old.op = "exclude" THEN x.op = "exclude"
                                ELSE x = IF gone THEN After(old) ELSE old
<1>4. /\ \A p \in Spots(project) : Was(ItemAt(doc, p), ItemAt(project, p), p \in Past1(at))
      /\ Spots(doc) = Spots(project)
      /\ errors = {} <=> \A p \in Past1(at) : ~IsMissing(ItemAt(project, p))
  BY DEF Resolving
<1>5. \A p \in Spots(project)' :
        Was(ItemAt(doc, p)', ItemAt(project, p)', p \in Past1(at)')
  BY <1>1, <1>2, <1>4
<1>6. (errors = {})' <=> \A p \in Past1(at)' : ~IsMissing(ItemAt(project, p))'
  BY <1>1, <1>2, <1>3, <1>4
<1>7. SameOutline(doc', project')
  BY DEF Resolving
<1>8. QED
  BY <1>2, <1>4, <1>5, <1>6, <1>7 DEF Resolving, After, Found, Resolved, Known, File

\* Behind an item that is no exclude as many excludes have been seen as before it.
LEMMA LookedPast ==
  ASSUME Placed, Resolving, AtItem, Item.op # "exclude"
  PROVE  Looked(Past) <=> Looked(at)
<1>1. at \in Spots(doc) /\ at \in Positions /\ Item = ItemAt(doc, at) /\ at.i > 0
  BY AtSpot DEF Placed
<1>2. ItemAt(project, at).op # "exclude"
  BY <1>1 DEF Resolving
<1>3. CASE Nested
  <2>1. Past.j > 0 /\ at.j > 0
    BY <1>1, <1>3 DEF Past, Positions, Nested
  <2>2. QED
    BY <2>1 DEF Looked
<1>4. CASE ~Nested
  <2>1. Past.t = at.t /\ Past.s = at.s /\ Past.i = at.i + 1 /\ Past.j = 0 /\ at.j = 0
    BY <1>1, <1>4 DEF Past, Positions, Nested
  <2>2. project[at.t].body[at.s].items[at.i].op # "exclude"
    BY <1>2, <2>1 DEF ItemAt
  <2>3. \A k \in 1..(Past.i - 1) : k = at.i \/ k \in 1..(at.i - 1)
    BY <1>1, <2>1 DEF Positions
  <2>4. 1..(at.i - 1) \subseteq 1..(Past.i - 1)
    BY <1>1, <2>1 DEF Positions
  <2>5. QED
    BY <2>1, <2>2, <2>3, <2>4 DEF Looked
<1>5. QED
  BY <1>3, <1>4

\* An item is passed: it is resolved if it is one to read.
LEMMA ItemStep ==
  ASSUME Placed, Resolving, AtItem, Item.op # "exclude", at' = Past,
         UNCHANGED <<project, inSources>>,
         Spots(doc)' = Spots(doc), SameOutline(doc', doc),
         \A p \in Spots(doc) :
           IF ItemAt(doc, p).op = "exclude" THEN ItemAt(doc, p)'.op = "exclude"
           ELSE ItemAt(doc, p)' = IF p = at /\ at \in Read THEN After(Item) ELSE ItemAt(doc, p),
         errors' = {} <=> errors = {} /\ ~(at \in Read /\ IsMissing(Item))
  PROVE  Resolving'
<1>1. /\ at \in Spots(doc) /\ at \in Positions /\ Item = ItemAt(doc, at) /\ at.i > 0
      /\ Spots(doc) = Spots(project)
  BY AtSpot DEF Placed, Resolving
<1>2. at \notin Past1(at)
  BY <1>1 DEF Past1, Before, Positions
<1>3. Item = ItemAt(project, at)
  BY <1>1, <1>2 DEF Resolving
<1>4. Past1(at)' = Past1(at) \union (Read \intersect {at})
  <2>1. Read \subseteq Spots(doc)
    BY <1>1 DEF Read
  <2>2. \A p \in Spots(doc) : Before(p, at') <=> Before(p, at) \/ p = at
    BY PastBefore
  <2>3. QED
    BY <2>1, <2>2, ReadStays DEF Past1
<1>5. /\ Spots(project)' = Spots(project)
      /\ \A p : ItemAt(project, p)' = ItemAt(project, p)
  BY ReadStays
<1>6. \A x : (IsMissing(x)' <=> IsMissing(x)) /\ After(x)' = After(x)
  BY DEF IsMissing, Found, Known, After, Resolved, File
<1> DEFINE Was(x, old, gone) == IF old.op = "exclude" THEN x.op = "exclude"
                                ELSE x = IF gone THEN After(old) ELSE old
<1>7. /\ \A p \in Spots(project) : Was(ItemAt(doc, p), ItemAt(project, p), p \in Past1(at))
      /\ errors = {} <=> \A p \in Past1(at) : ~IsMissing(ItemAt(project, p))
      /\ inSources <=> Looked(at)
  BY <1>1 DEF Resolving
<1>8. ASSUME NEW p \in Spots(project) PROVE Was(ItemAt(doc, p)', ItemAt(project, p), p \in Past1(at)')
  <2>1. CASE p = at
    BY <1>1, <1>3, <1>4, <1>2, <2>1
  <2>2. CASE p # at
    <3>1. p \in Past1(at)' <=> p \in Past1(at)
      BY <1>4, <2>2
    <3>2. ItemAt(doc, p).op = "exclude" <=> ItemAt(project, p).op = "exclude"
      BY <1>7 DEF After, File
    <3>3. QED
      BY <1>1, <1>7, <2>2, <3>1, <3>2
  <2>3. QED
    BY <2>1, <2>2
<1>9. \A p \in Spots(project)' : Was(ItemAt(doc, p)', ItemAt(project, p)', p \in Past1(at)')
  BY <1>5, <1>8
<1>10. (errors = {})' <=> \A p \in Past1(at)' : ~IsMissing(ItemAt(project, p))'
  BY <1>3, <1>4, <1>5, <1>6, <1>7
<1>11. at'.i > 0 => (inSources' <=> Looked(at)')
  <2>1. Looked(at)' <=> Looked(Past)
    BY DEF Looked
  <2>2. Looked(Past) <=> Looked(at)
    BY LookedPast
  <2>3. inSources' <=> inSources
    OBVIOUS
  <2>4. QED
    BY <1>7, <2>1, <2>2, <2>3
<1>12. SameOutline(doc', project')
  BY DEF Resolving, SameOutline, SameBlocks
<1>13. QED
  BY <1>1, <1>5, <1>6, <1>9, <1>10, <1>11, <1>12 DEF Resolving

-----------------------------------------------------------------------------
\* What is in the slot of the list the visitor is in, or that of its exclude.
Slot(p) == [p EXCEPT !.j = 0]

\* The places the visitor goes to, in a document in which lists and excludes
\* stay where they are.
Seat(p) == /\ p \in Positions
           /\ p.j > 0 => p.i > 0 /\ Slot(p) \in Spots(doc) /\ ItemAt(doc, Slot(p)).op = "exclude"

\* The visitor is where it can be.
LEMMA SeatOfPlaced == Placed => Seat(at)
<1>1. at \in Positions => Outer[at.i] = ItemAt(doc, Slot(at))
  BY DEF Outer, ItemAt, Slot, Positions
<1>2. QED
  BY <1>1 DEF Placed, Seat, Slot

\* A step that leaves the outline alone and goes to a place it can.
LEMMA PlacedStays ==
  ASSUME Placed, UNCHANGED project, phase' \in Phases,
         doc' \in Seq(Blocks), SameBlocks(doc', doc), Spots(doc) \subseteq Spots(doc'),
         \A p \in Spots(doc) : ItemAt(doc, p).op = "exclude" => ItemAt(doc, p)'.op = "exclude",
         Seat(at')
  PROVE  Placed'
<1>1. SameBlocks(doc', project')
  BY DEF Placed, SameBlocks
<1>2. ASSUME at'.j > 0
      PROVE  /\ at'.i > 0 /\ [at' EXCEPT !.j = 0] \in Spots(doc')
             /\ ItemAt(doc', [at' EXCEPT !.j = 0]).op = "exclude"
  <2> DEFINE q == [at' EXCEPT !.j = 0]
  <2>1. q = Slot(at')
    BY DEF Slot
  <2>2. at'.i > 0 /\ q \in Spots(doc) /\ ItemAt(doc, q).op = "exclude"
    BY <1>2, <2>1 DEF Seat
  <2> HIDE DEF q
  <2>3. q \in Spots(doc') /\ ItemAt(doc', q).op = "exclude"
    BY <2>2
  <2>4. QED
    BY <2>2, <2>3 DEF q
<1>3. at' \in Positions
  BY DEF Seat
<1>4. Outer'[at'.i] = ItemAt(doc', [at' EXCEPT !.j = 0])
  BY <1>3 DEF Outer, ItemAt, Positions
<1>5. at'.j > 0 => /\ at'.i > 0 /\ [at' EXCEPT !.j = 0] \in Spots(doc')
                   /\ Outer'[at'.i].op = "exclude"
  BY <1>2, <1>4
<1>6. project' \in Seq(Blocks)
  BY DEF Placed
<1>7. QED
  BY <1>1, <1>3, <1>5, <1>6 DEF Placed

\* The visitor goes to the next place of a list.
LEMMA PastSeat ==
  ASSUME Placed, AtItem
  PROVE  Seat(Past)
<1>1. at \in Positions /\ Seat(at) /\ at.i > 0
  BY AtSpot, SeatOfPlaced DEF Placed
<1>2. CASE Nested
  <2>1. Past = [at EXCEPT !.j = at.j + 1] /\ at.j > 0
    BY <1>1, <1>2 DEF Past, Nested
  <2>2. Past \in Positions /\ Slot(Past) = Slot(at) /\ Past.i = at.i
    <3>1. Past \in Positions /\ Past.i = at.i
      BY <1>1, <2>1 DEF Positions
    <3>2. Slot(Past) = Slot(at)
      BY <1>1, <2>1 DEF Positions, Slot
    <3>3. QED
      BY <3>1, <3>2
  <2>3. QED
    BY <1>1, <2>1, <2>2 DEF Seat
<1>3. CASE ~Nested
  BY <1>1, <1>3 DEF Past, Nested, Positions, Seat
<1>4. QED
  BY <1>2, <1>3

\* The visitor goes to the first place of a list.
LEMMA InsideSeat ==
  ASSUME Placed, AtList
  PROVE  Seat(Inside)
<1>1. at \in Positions
  BY DEF Placed
<1>2. CASE at.i = 0
  <2>1. Inside = [at EXCEPT !.i = 1] /\ at.j = 0
    BY <1>1, <1>2 DEF Inside, Placed, Positions
  <2>2. QED
    BY <1>1, <2>1 DEF Positions, Seat
<1>3. CASE at.i # 0
  <2>1. AtItem /\ ~Nested /\ Item.op = "exclude"
    BY <1>3 DEF AtList
  <2>2. at.j = 0 /\ Inside = [at EXCEPT !.j = 1]
    BY <1>1, <1>3, <2>1 DEF Nested, Positions, Inside
  <2>3. Slot(Inside) = at /\ Inside \in Positions /\ Inside.i = at.i
    BY <1>1, <2>2 DEF Positions, Slot
  <2>4. QED
    BY <2>1, <2>3, AtSpot DEF Seat
<1>4. QED
  BY <1>2, <1>3

\* The visitor goes behind the end of a list.
LEMMA BehindSeat ==
  ASSUME Placed, AtEnd
  PROVE  Seat(Behind)
<1>1. at \in Positions
  BY DEF Placed
<1>2. CASE Nested
  <2>1. Behind = [t |-> at.t, s |-> at.s, i |-> at.i + 1, j |-> 0]
    BY <1>1, <1>2 DEF Behind, Positions
  <2>2. Behind \in Positions /\ Behind.j = 0
    BY <1>1, <2>1 DEF Positions
  <2>3. QED
    BY <2>2 DEF Seat
<1>3. CASE ~Nested
  <2>1. at.j = 0
    BY <1>1, <1>3 DEF Nested, Positions
  <2>2. Behind = [t |-> at.t, s |-> at.s + 1, i |-> 0, j |-> 0]
    BY <1>1, <1>3, <2>1 DEF Behind, Positions
  <2>3. Behind \in Positions /\ Behind.j = 0
    BY <1>1, <2>2 DEF Positions
  <2>4. QED
    BY <2>3 DEF Seat
<1>4. QED
  BY <1>2, <1>3
-----------------------------------------------------------------------------
\* Each step of the phase keeps what it has done so far.
LEMMA PassResolves ==
  ASSUME Placed, Resolving, Pass, phase = "resolve_sources"
  PROVE  Placed' /\ Resolving'
<1>1. /\ AtItem /\ ~AtList /\ Item.op # "file" /\ at' = Past
      /\ UNCHANGED <<project, doc, phase, inSources, errors>>
  BY DEF Pass
<1>2. Item.op # "exclude"
  BY <1>1, NestedPlain DEF AtList
<1>3. Spots(doc)' = Spots(doc) /\ \A p : ItemAt(doc, p)' = ItemAt(doc, p)
  BY <1>1 DEF Spots, ItemAt
<1>4. Seat(at')
  BY <1>1, PastSeat
<1>5. Placed'
  BY <1>1, <1>3, <1>4, PlacedStays DEF Placed, SameBlocks
<1>6. After(Item) = Item /\ ~IsMissing(Item) /\ Item = ItemAt(doc, at)
  BY <1>1, AtSpot DEF After, IsMissing
<1>7. Resolving'
  <2>1. \A p \in Spots(doc) :
          IF ItemAt(doc, p).op = "exclude" THEN ItemAt(doc, p)'.op = "exclude"
          ELSE ItemAt(doc, p)' = IF p = at /\ at \in Read THEN After(Item) ELSE ItemAt(doc, p)
    BY <1>3, <1>6
  <2>2. SameOutline(doc', doc)
    BY <1>1 DEF SameOutline, SameBlocks
  <2>3. QED
    BY <1>1, <1>2, <1>3, <1>6, <2>1, <2>2, ItemStep
<1>8. QED
  BY <1>5, <1>7

\* A name that is found is replaced by one that is a row of parts as well.
LEMMA ResolvedIsPlain ==
  ASSUME Item \in Items, Item.op = "file"
  PROVE  File(Resolved(Item)) \in Plain
<1>1. Item \in Plain
  BY ItemsTyped
<1>2. Item.dir \in Seq(STRING) /\ Item.name \in Seq(STRING)
  BY <1>1, PlainTyped
<1>3. Resolved(Item) \in Seq(STRING) /\ << >> \in Seq(STRING)
  <2>1. Item.dir \o Item.name \in Seq(STRING)
    BY <1>2, ConcatProperties
  <2>2. QED
    BY <1>2, <2>1, EmptySeq DEF Resolved
<1>4. QED
  BY <1>3 DEF File, Plain

\* A file name is read, or left alone when it follows an exclude.
LEMMA ResolveFileResolves ==
  ASSUME Placed, Resolving, ResolveFile
  PROVE  Placed' /\ Resolving'
<1>1. /\ AtItem /\ Item.op = "file" /\ at' = Past /\ phase = "resolve_sources"
      /\ UNCHANGED <<project, phase, inSources>>
      /\ doc' = IF inSources /\ Found(Item) THEN WithItem(File(Resolved(Item))) ELSE doc
      /\ errors' = IF inSources THEN Report(Item) ELSE errors
  BY DEF ResolveFile
<1>2. at \in Spots(doc) /\ Item = ItemAt(doc, at) /\ Item \in Items /\ doc \in Seq(Blocks)
      /\ at.t \in DOMAIN doc /\ at.i > 0
  BY <1>1, AtSpot, NestedPlain DEF Placed
<1>3. File(Resolved(Item)) \in Plain
  BY <1>1, <1>2, ResolvedIsPlain
<1>4. at \in Read <=> inSources
  <2>1. at \in Spots(project) /\ ItemAt(project, at).op # "exclude"
    BY <1>1, <1>2 DEF Resolving
  <2>2. project[at.t].kind # "template"
    BY <1>1, <1>2 DEF Placed, SameBlocks, AtItem, InBody, Skipped
  <2>3. inSources <=> Looked(at)
    BY <1>2 DEF Resolving
  <2>4. QED
    BY <2>1, <2>2, <2>3 DEF Read
<1> DEFINE New(p) == IF p = at /\ at \in Read THEN After(Item) ELSE ItemAt(doc, p)
<1>5. /\ doc' \in Seq(Blocks) /\ SameOutline(doc', doc) /\ Spots(doc') = Spots(doc)
      /\ \A p \in Spots(doc) :
           IF ItemAt(doc, p).op = "exclude" THEN ItemAt(doc', p).op = "exclude"
           ELSE ItemAt(doc', p) = New(p)
  <2>1. CASE inSources /\ Found(Item)
    <3>1. After(Item) = File(Resolved(Item)) /\ doc' = WithItem(File(Resolved(Item)))
      BY <1>1, <2>1 DEF After
    <3>2. Item.op # "exclude"
      BY <1>1
    <3>3. /\ doc' \in Seq(Blocks) /\ SameOutline(doc', doc) /\ Spots(doc') = Spots(doc)
          /\ ItemAt(doc', at) = File(Resolved(Item))
          /\ \A p \in Spots(doc) :
               /\ ItemAt(doc, p).op = "exclude" => ItemAt(doc', p).op = "exclude"
               /\ ItemAt(doc, p).op # "exclude" /\ p # at => ItemAt(doc', p) = ItemAt(doc, p)
      BY <1>2, <1>3, <3>1, <3>2, ItemReplaced
    <3>4. QED
      BY <1>4, <2>1, <3>1, <3>3
  <2>2. CASE ~(inSources /\ Found(Item))
    <3>1. doc' = doc /\ (at \in Read => After(Item) = Item)
      BY <1>1, <1>4, <2>2 DEF After
    <3>2. QED
      BY <1>2, <3>1 DEF SameOutline, SameBlocks
  <2>3. QED
    BY <2>1, <2>2
<1>6. Seat(at')
  BY <1>1, PastSeat
<1>7. Placed'
  BY <1>1, <1>5, <1>6, PlacedStays DEF Placed, SameOutline
<1>8. errors' = {} <=> errors = {} /\ ~(at \in Read /\ IsMissing(Item))
  BY <1>1, <1>4 DEF Report, IsMissing
<1>9. Resolving'
  BY <1>1, <1>5, <1>8, ItemStep
<1>10. QED
  BY <1>7, <1>9

\* A list starts or ends: in_sources says whether its items are read.
LEMMA ResolveListResolves ==
  ASSUME Placed, Resolving, ResolveList
  PROVE  Placed' /\ Resolving'
<1>1. UNCHANGED <<project, doc, phase, errors>> /\ phase = "resolve_sources"
  BY DEF ResolveList
<1>2. /\ Read \subseteq Spots(doc)
      /\ \A p \in Read : ItemAt(doc, p).op # "exclude"
      /\ at \in Positions
  <2>1. /\ Read \subseteq Spots(project) /\ Spots(doc) = Spots(project)
        /\ \A p \in Read : ItemAt(project, p).op # "exclude"
    BY DEF Read, Resolving
  <2>2. \A p \in Spots(project) : ItemAt(project, p).op # "exclude" => ItemAt(doc, p).op # "exclude"
    BY DEF Resolving, After, File
  <2>3. QED
    BY <2>1, <2>2 DEF Placed
<1>3. Spots(doc)' = Spots(doc) /\ \A p : ItemAt(doc, p)' = ItemAt(doc, p)
  BY <1>1 DEF Spots, ItemAt
<1>4. \A p : Looked(p)' <=> Looked(p)
  BY <1>1 DEF Looked
<1>5. CASE AtList /\ inSources' = TRUE /\ at' = Inside
  <2>1. Seat(at')
    BY <1>5, InsideSeat
  <2>2. Looked(at)'
    <3>1. CASE at.i = 0
      <4>1. Inside.i = 1
        BY <1>2, <3>1 DEF Inside, Positions
      <4>2. QED
        BY <1>5, <4>1 DEF Looked
    <3>2. CASE at.i # 0
      <4>1. Inside.j = 1
        BY <1>2, <3>2 DEF Inside, Positions
      <4>2. QED
        BY <1>5, <4>1 DEF Looked
    <3>3. QED
      BY <3>1, <3>2
  <2>3. \A p \in Read : Before(p, at') <=> Before(p, at)
    BY <1>2, <1>5, InsideBefore
  <2>4. QED
    BY <1>1, <1>3, <1>5, <2>1, <2>2, <2>3, QuietStep, PlacedStays DEF Placed, SameBlocks
<1>6. CASE AtEnd /\ inSources' = FALSE /\ at' = Behind
  <2>1. Seat(at')
    BY <1>6, BehindSeat
  <2>2. at'.i > 0 => ~Looked(at)'
    <3>1. CASE Nested
      <4>1. Behind.t = at.t /\ Behind.s = at.s /\ Behind.i = at.i + 1 /\ Behind.j = 0
        BY <1>2, <3>1 DEF Behind, Positions
      <4>2. /\ Slot(at) \in Spots(project) /\ at.i > 0
            /\ ItemAt(doc, Slot(at)).op = "exclude"
        BY <3>1, SeatOfPlaced DEF Seat, Nested, Resolving
      <4>3. ItemAt(project, Slot(at)).op = "exclude"
        BY <4>2 DEF Resolving, After, File
      <4>4. project[at.t].body[at.s].items[at.i].op = "exclude"
        BY <1>2, <4>3 DEF ItemAt, Slot, Positions
      <4>5. at.i \in 1..(Behind.i - 1)
        BY <1>2, <4>1, <4>2 DEF Positions
      <4>6. QED
        BY <1>1, <1>6, <4>1, <4>4, <4>5 DEF Looked
    <3>2. CASE ~Nested
      <4>1. Behind.i = 0
        BY <1>2, <3>2 DEF Behind, Positions
      <4>2. QED
        BY <1>6, <4>1
    <3>3. QED
      BY <3>1, <3>2
  <2>3. \A p \in Read : Before(p, at') <=> Before(p, at)
    BY <1>2, <1>6, BehindBefore
  <2>4. QED
    BY <1>1, <1>3, <1>6, <2>1, <2>2, <2>3, QuietStep, PlacedStays DEF Placed, SameBlocks
<1>7. QED
  BY <1>5, <1>6 DEF ResolveList

\* The end of a block: nothing in it is left to be read.
LEMMA NextBlockResolves ==
  ASSUME Placed, Resolving, NextBlock, phase = "resolve_sources"
  PROVE  Placed' /\ Resolving'
<1>1. /\ UNCHANGED <<project, doc, phase, inSources, errors>>
      /\ at' = [Start EXCEPT !.t = at.t + 1] /\ ~InBody /\ at.t <= Len(doc)
  BY DEF NextBlock
<1>2. at \in Positions /\ doc \in Seq(Blocks)
  BY DEF Placed
<1>3. at' = [t |-> at.t + 1, s |-> 1, i |-> 0, j |-> 0]
  BY <1>1 DEF Start
<1>4. Seat(at')
  BY <1>2, <1>3 DEF Positions, Seat
<1>5. Spots(doc)' = Spots(doc) /\ \A p : ItemAt(doc, p)' = ItemAt(doc, p)
  BY <1>1 DEF Spots, ItemAt
<1>6. Placed'
  BY <1>1, <1>4, <1>5, PlacedStays DEF Placed, SameBlocks
<1>7. ASSUME NEW p \in Read PROVE Before(p, at') <=> Before(p, at)
  <2>1. /\ p \in Spots(doc) /\ p \in Positions /\ project[p.t].kind # "template"
        /\ p.t \in DOMAIN project
    BY DEF Read, Resolving, Spots
  <2>2. /\ p.t \in DOMAIN doc /\ p.s \in DOMAIN doc[p.t].body /\ p.i \in Nat
        /\ doc[p.t].kind # "template"
    BY <2>1 DEF Spots, Placed, SameBlocks, Positions
  <2>3. p.t = at.t => p.s < at.s
    <3> SUFFICES ASSUME p.t = at.t PROVE p.s < at.s
      OBVIOUS
    <3>1. ~(at.s <= Len(doc[at.t].body))
      BY <1>1, <2>2 DEF InBody, Skipped
    <3>2. p.s <= Len(doc[at.t].body) /\ Len(doc[at.t].body) \in Nat
      BY <1>2, <2>2, PartsTyped, LenProperties
    <3>3. QED
      BY <1>2, <2>1, <3>1, <3>2 DEF Positions
  <2>4. QED
    BY <1>2, <1>3, <2>1, <2>3 DEF Before, Positions
<1>8. at'.i = 0
  BY <1>3
<1>9. Resolving'
  BY <1>1, <1>7, <1>8, QuietStep
<1>10. QED
  BY <1>6, <1>9

\* When the phase is over all that is read has been: errors are as they should.
LEMMA AllRead ==
  ASSUME Placed, Resolving, at.t > Len(doc)
  PROVE  Past1(at) = Read
<1>1. ASSUME NEW p \in Read PROVE Before(p, at)
  <2>1. p \in Spots(doc) /\ p \in Positions
    BY DEF Read, Resolving, Spots
  <2>2. p.t \in DOMAIN doc /\ doc \in Seq(Blocks) /\ at \in Positions
    BY <2>1 DEF Spots, Placed
  <2>3. p.t <= Len(doc) /\ Len(doc) \in Nat
    BY <2>1, <2>2, LenProperties DEF Positions
  <2>4. p.t < at.t
    BY <2>1, <2>2, <2>3 DEF Positions
  <2>5. QED
    BY <2>4 DEF Before
<1>2. QED
  BY <1>1 DEF Past1

\* A name that is looked for in the block and is that of no file.
Misses(t) ==
  \E l \in ListsOf(t) : \E k \in DOMAIN l :
    IsMissing(l[k]) /\ \A i \in 1..(k - 1) : l[i].op # "exclude"

\* A name that is missed is one to be read.
LEMMA MissesAreRead ==
  ASSUME project \in Seq(Blocks)
  PROVE  (\E t \in DOMAIN project : project[t].kind # "template" /\ Misses(t))
           <=> \E p \in Read : IsMissing(ItemAt(project, p))
<1>1. ASSUME NEW t \in DOMAIN project, project[t].kind # "template", Misses(t)
      PROVE  \E p \in Read : IsMissing(ItemAt(project, p))
  <2>1. PICK l \in ListsOf(t) : \E k \in DOMAIN l :
          IsMissing(l[k]) /\ \A i \in 1..(k - 1) : l[i].op # "exclude"
    BY <1>1 DEF Misses
  <2>2. PICK k \in DOMAIN l : IsMissing(l[k]) /\ \A i \in 1..(k - 1) : l[i].op # "exclude"
    BY <2>1
  <2>3. t \in Nat \ {0} /\ \A s \in DOMAIN project[t].body :
          /\ s \in Nat \ {0} /\ project[t].body[s].items \in Seq(Items)
          /\ \A i \in DOMAIN project[t].body[s].items :
               i \in Nat \ {0} /\ project[t].body[s].items[i] \in Items
    BY PartsTyped, LenProperties
  <2>4. l[k].op # "exclude"
    BY <2>2 DEF IsMissing
  <2>5. CASE \E s \in DOMAIN project[t].body : l = project[t].body[s].items
    <3>1. PICK s \in DOMAIN project[t].body : l = project[t].body[s].items
      BY <2>5
    <3> DEFINE p == [t |-> t, s |-> s, i |-> k, j |-> 0]
    <3>2. p \in Positions /\ p \in Spots(project) /\ ItemAt(project, p) = l[k]
      BY <2>2, <2>3, <3>1 DEF Positions, Spots, ItemAt
    <3>3. Looked(p)
      BY <2>2, <3>1 DEF Looked
    <3>4. p \in Read
      BY <1>1, <2>4, <3>2, <3>3 DEF Read
    <3>5. QED
      BY <2>2, <3>2, <3>4
  <2>6. CASE \E s \in DOMAIN project[t].body : \E e \in DOMAIN project[t].body[s].items :
               /\ project[t].body[s].items[e].op = "exclude"
               /\ l = project[t].body[s].items[e].items
    <3>0. PICK s \in DOMAIN project[t].body :
             \E e \in DOMAIN project[t].body[s].items :
               /\ project[t].body[s].items[e].op = "exclude"
               /\ l = project[t].body[s].items[e].items
      BY <2>6
    <3>1. PICK e \in DOMAIN project[t].body[s].items :
             /\ project[t].body[s].items[e].op = "exclude"
             /\ l = project[t].body[s].items[e].items
      BY <3>0
    <3>2. l \in Seq(Plain)
      BY <2>3, <3>1, ItemsTyped
    <3>3. k \in Nat \ {0}
      BY <2>2, <3>2, LenProperties
    <3> DEFINE p == [t |-> t, s |-> s, i |-> e, j |-> k]
    <3>4. p \in Positions /\ p \in Spots(project) /\ ItemAt(project, p) = l[k] /\ p.j > 0
      <4>1. /\ p \in Positions /\ p.t = t /\ p.s = s /\ p.i = e /\ p.j = k /\ p.j > 0
            /\ p.j # 0
        BY <2>3, <3>0, <3>1, <3>3 DEF Positions
      <4> HIDE DEF p
      <4>2. p \in Spots(project)
        BY <2>2, <3>1, <4>1 DEF Spots
      <4>3. ItemAt(project, p) = l[k]
        BY <3>1, <4>1 DEF ItemAt
      <4>4. QED
        BY <4>1, <4>2, <4>3
    <3>5. p \in Read
      BY <1>1, <2>4, <3>4 DEF Read, Looked
    <3>6. QED
      BY <2>2, <3>4, <3>5
  <2>7. QED
    BY <2>1, <2>5, <2>6 DEF ListsOf
<1>2. ASSUME NEW p \in Read, IsMissing(ItemAt(project, p))
      PROVE  \E t \in DOMAIN project : project[t].kind # "template" /\ Misses(t)
  <2> DEFINE t == p.t
             outer == project[p.t].body[p.s].items
  <2>1. /\ p \in Spots(project) /\ p \in Positions /\ Looked(p) /\ project[t].kind # "template"
        /\ t \in DOMAIN project /\ p.s \in DOMAIN project[t].body /\ p.i \in DOMAIN outer
        /\ (p.j = 0 \/ (outer[p.i].op = "exclude" /\ p.j \in DOMAIN outer[p.i].items))
    BY DEF Read, Spots
  <2>2. outer \in Seq(Items) /\ \A i \in DOMAIN outer : outer[i] \in Items
    BY <2>1, PartsTyped
  <2>3. CASE p.j = 0
    <3>1. outer \in ListsOf(t) /\ IsMissing(outer[p.i])
      BY <1>2, <2>1, <2>3 DEF ListsOf, ItemAt
    <3>2. \A k \in 1..(p.i - 1) : outer[k].op # "exclude"
      BY <2>1, <2>3 DEF Looked, Positions
    <3>3. QED
      BY <2>1, <3>1, <3>2 DEF Misses
  <2>4. CASE p.j # 0
    <3> DEFINE l == outer[p.i].items
    <3>1. l \in Seq(Plain) /\ p.j \in DOMAIN l
      BY <2>1, <2>2, <2>4, ItemsTyped
    <3>2. l \in ListsOf(t) /\ IsMissing(l[p.j])
      <4>1. ItemAt(project, p) = l[p.j]
        BY <2>4 DEF ItemAt
      <4>2. outer \in {project[t].body[s].items : s \in DOMAIN project[t].body}
        BY <2>1
      <4>3. outer[p.i].op = "exclude"
        BY <2>1, <2>4
      <4>4. l \in {outer[k].items : k \in {k \in DOMAIN outer : outer[k].op = "exclude"}}
        BY <2>1, <4>3
      <4> HIDE DEF l, outer
      <4>5. l \in ListsOf(t)
        BY <4>2, <4>4 DEF ListsOf
      <4>6. QED
        BY <1>2, <4>1, <4>5
    <3>3. ASSUME NEW k \in 1..(p.j - 1) PROVE l[k].op # "exclude"
      <4>1. k \in DOMAIN l
        BY <2>1, <3>1, LenProperties DEF Positions
      <4>2. l[k] \in Plain
        BY <3>1, <4>1, ElementOfSeq, LenProperties
      <4>3. QED
        BY <4>2, PlainTyped
    <3>4. QED
      BY <2>1, <3>1, <3>2, <3>3 DEF Misses
  <2>5. QED
    BY <2>1, <2>3, <2>4
<1>3. QED
  BY <1>1, <1>2

-----------------------------------------------------------------------------
\* A name that is looked for is that of no file.
Missed == \E t \in DOMAIN project : project[t].kind # "template" /\ Misses(t)

\* What is missed depends on the document as it was parsed.
LEMMA SameMissed ==
  ASSUME UNCHANGED project
  PROVE  Missed' <=> Missed
BY DEF Missed, Misses, ListsOf, IsMissing, Found, Known

\* How the phase ends.
LEMMA PhaseEnds ==
  ASSUME Placed, Resolving, NextPhase, phase = "resolve_sources"
  PROVE  phase' = (IF Missed THEN "failed" ELSE "resolve_wildcards")
<1>1. at.t > Len(doc) /\ phase' = IF errors = {} THEN "resolve_wildcards" ELSE "failed"
  BY DEF NextPhase
<1>2. Past1(at) = Read
  BY <1>1, AllRead
<1>3. errors = {} <=> \A p \in Read : ~IsMissing(ItemAt(project, p))
  BY <1>2 DEF Resolving
<1>4. Missed <=> \E p \in Read : IsMissing(ItemAt(project, p))
  BY MissesAreRead DEF Placed, Missed
<1>5. QED
  BY <1>1, <1>3, <1>4

\* At the start nothing has been looked at.
LEMMA StartResolves ==
  ASSUME Init
  PROVE  Placed /\ Resolving
<1>1. /\ project \in Seq(Blocks) /\ doc = project /\ at = [t |-> 1, s |-> 1, i |-> 0, j |-> 0]
      /\ errors = {} /\ phase = "resolve_sources"
  BY SourcesAssumption DEF Init, Start
<1>2. Placed
  BY <1>1 DEF Placed, SameBlocks, Positions, Phases
<1>3. ASSUME NEW p \in Read PROVE ~Before(p, at)
  <2>1. p \in Positions /\ p.i \in DOMAIN project[p.t].body[p.s].items
        /\ p.t \in DOMAIN project /\ p.s \in DOMAIN project[p.t].body
    BY DEF Read, Spots
  <2>2. p.i > 0
    BY <1>1, <2>1, PartsTyped, LenProperties
  <2>3. QED
    BY <1>1, <2>1, <2>2 DEF Before, Positions
<1>4. Past1(at) = {}
  BY <1>3 DEF Past1
<1>5. QED
  BY <1>1, <1>2, <1>4 DEF Resolving, SameOutline, SameBlocks

\* The flag in_sources settles which names are looked for: all that stand before
\* the excludes of their lists.
FailsIfMissed ==
  /\ phase = "failed" => Missed
  /\ phase \notin {"resolve_sources", "failed"} => ~Missed

LEMMA MissedMeans == FailsIfMissed => FailsOnMissingFiles
<1>1. ASSUME NEW t \in DOMAIN project, Misses(t)
      PROVE  \E x \in ItemsOf(t) : IsMissing(x)
  BY <1>1 DEF Misses, ItemsOf, Range
<1>2. \A t : MustReport(t) => Misses(t)
  BY DEF MustReport, Misses
<1>3. QED
  BY <1>1, <1>2 DEF FailsIfMissed, FailsOnMissingFiles, Missed

\* What holds all the time.
SInv == IInv /\ phase \in Phases /\ FailsIfMissed

\* Every step of every phase.
LEMMA StepFails ==
  ASSUME SInv, [Next]_vars
  PROVE  SInv'
<1>1. UNCHANGED project
  BY DEF Next, NextPhase, NextBlock, Pass, PassList, ResolveFile, ResolveList, Collect, EnterList,
         LeaveList, Import, ImportCrashes, Exclude, vars
<1>2. Missed' <=> Missed
  BY <1>1, SameMissed
<1>3. /\ phase = "failed" => Missed
      /\ phase \notin {"resolve_sources", "failed"} => ~Missed
  BY DEF SInv, FailsIfMissed
<1>4. SUFFICES /\ IInv' /\ phase' \in Phases
               /\ phase' = "failed" => Missed
               /\ phase' \notin {"resolve_sources", "failed"} => ~Missed
  BY <1>2 DEF SInv, FailsIfMissed
<1>5. CASE phase = "resolve_sources"
  <2>1. Placed /\ Resolving
    BY <1>5 DEF SInv, IInv
  <2>2. CASE NextPhase
    <3>1. phase' = IF Missed THEN "failed" ELSE "resolve_wildcards"
      BY <1>5, <2>1, <2>2, PhaseEnds
    <3>2. QED
      BY <3>1 DEF IInv, Phases
  <2>3. CASE NextBlock \/ Pass \/ ResolveFile \/ ResolveList
    <3>1. Placed' /\ Resolving'
      BY <1>5, <2>1, <2>3, NextBlockResolves, PassResolves, ResolveFileResolves, ResolveListResolves
    <3>2. phase' = phase
      BY <2>3 DEF NextBlock, Pass, ResolveFile, ResolveList
    <3>3. QED
      BY <1>5, <3>1, <3>2 DEF IInv, Phases
  <2>4. CASE UNCHANGED vars
    <3>1. Placed' /\ Resolving' /\ phase' = phase
      BY <2>1, <2>4, QuietStep DEF vars, Placed, SameBlocks, Spots, Outer, Resolving, Looked
    <3>2. QED
      BY <1>5, <3>1 DEF IInv, Phases
  <2>5. ~(PassList \/ Collect \/ EnterList \/ LeaveList \/ Import \/ ImportCrashes \/ Exclude)
    BY <1>5 DEF PassList, Collect, EnterList, LeaveList, Import, ImportCrashes, Exclude
  <2>6. QED
    BY <2>2, <2>3, <2>4, <2>5 DEF Next
<1>6. CASE phase # "resolve_sources"
  <2>1. phase' \in Phases \ {"resolve_sources"} /\ (phase' = "failed" => phase = "failed")
    BY <1>6 DEF SInv, Phases, Next, NextPhase, NextBlock, Pass, PassList, ResolveFile, ResolveList,
                Collect, EnterList, LeaveList, Import, ImportCrashes, Exclude, vars
  <2>2. phase' # "failed" => phase # "failed"
    BY <1>6 DEF Next, NextPhase, NextBlock, Pass, PassList, ResolveFile, ResolveList, Running,
                Collect, EnterList, LeaveList, Import, ImportCrashes, Exclude, vars
  <2>3. QED
    BY <1>3, <1>6, <2>1, <2>2 DEF IInv
<1>7. QED
  BY <1>5, <1>6

\* The run fails only if a name is that of no file, and it does when one is that
\* stands before all excludes of its list, for a name in an exclude one of more
\* than the base name (resolve_sources.cpp:76-128).
THEOREM MissingFilesFail == Spec => []FailsOnMissingFiles
<1>1. Init => SInv
  <2>1. Init => IInv /\ phase = "resolve_sources"
    BY StartResolves DEF IInv, Init
  <2>2. QED
    BY <2>1 DEF SInv, FailsIfMissed, Phases
<1>2. SInv /\ [Next]_vars => SInv'
  BY StepFails
<1>3. SInv => FailsOnMissingFiles
  BY MissedMeans DEF SInv
<1>4. QED
  BY <1>1, <1>2, <1>3, PTL DEF Spec

-----------------------------------------------------------------------------
\* What a list of the document has in it.
Wilds(l) ==
  UNION {l[k].matches \intersect Range(FileList) : k \in {k \in DOMAIN l : l[k].op = "wild"}}
HasWild(l) == \E k \in DOMAIN l : l[k].op = "wild"
Outs(l) == UNION {FileNames(l[k].items) : k \in {k \in DOMAIN l : l[k].op = "exclude"}}
Refs(l) == {l[k].name : k \in {k \in DOMAIN l : l[k].op = "ref"}}

\* The files that are written in a list, and in the excludes of it.
Written(l) == UNION {FilesOf(x) : x \in Range(l)}
Excluded(l) == UNION {Written(l[k].items) : k \in {k \in DOMAIN l : l[k].op = "exclude"}}

\* A list that is regular.
Tidy(l) ==
  \A i, k \in DOMAIN l :
    /\ l[i].op = "wild" => l[k].op \in {"wild", "file"}
    /\ l[i].op = "exclude" => k <= i /\ \A j \in DOMAIN l[i].items : l[i].items[j].op = "file"

\* A list l of the document means what the list m that it comes from says.
Kept(l, m) ==
  /\ FileNames(l) \union Wilds(l) = Written(m)
  /\ Outs(l) = Excluded(m)
  /\ Refs(l) = Refs(m)

-----------------------------------------------------------------------------
\* Rows of elements of a set.
LEMMA RowElements ==
  ASSUME NEW T, NEW row \in Seq(T)
  PROVE  DOMAIN row \subseteq Nat \ {0} /\ \A i \in DOMAIN row : row[i] \in T
BY ElementOfSeq, LenProperties

\* The lists of a regular document are tidy.
LEMMA RegularLists ==
  ASSUME Regular, NEW t \in DOMAIN project, NEW s \in DOMAIN project[t].body
  PROVE  Tidy(project[t].body[s].items)
<1> DEFINE l == project[t].body[s].items
<1>1. l \in ListsOf(t)
  BY DEF ListsOf
<1>2. \A i, k \in DOMAIN l :
         /\ l[i].op = "wild" => l[k].op \in {"wild", "file"}
         /\ l[i].op = "exclude" => k <= i /\ \A x \in Range(l[i].items) : x.op = "file"
  BY <1>1 DEF Regular
<1>3. QED
  BY <1>2 DEF Tidy, Range

\* The places of a list, from those of the document.
LEMMA SpotsOfList ==
  ASSUME NEW d \in Seq(Blocks), NEW t \in DOMAIN d, NEW s \in DOMAIN d[t].body, NEW i \in Nat
  PROVE  /\ [t |-> t, s |-> s, i |-> i, j |-> 0] \in Spots(d) <=> i \in DOMAIN d[t].body[s].items
         /\ \A j \in Nat \ {0} :
              [t |-> t, s |-> s, i |-> i, j |-> j] \in Spots(d)
                <=> /\ i \in DOMAIN d[t].body[s].items
                    /\ d[t].body[s].items[i].op = "exclude"
                    /\ j \in DOMAIN d[t].body[s].items[i].items
<1>1. t \in Nat \ {0} /\ s \in Nat \ {0}
  BY PartsTyped, LenProperties
<1>2. ASSUME NEW j \in Nat
      PROVE  /\ [t |-> t, s |-> s, i |-> i, j |-> j] \in Positions
             /\ [t |-> t, s |-> s, i |-> i, j |-> j].t = t
             /\ [t |-> t, s |-> s, i |-> i, j |-> j].s = s
             /\ [t |-> t, s |-> s, i |-> i, j |-> j].i = i
             /\ [t |-> t, s |-> s, i |-> i, j |-> j].j = j
  BY <1>1 DEF Positions
<1>3. QED
  BY <1>2 DEF Spots

\* Of the list l of section s of block t, which is m as it is written, those
\* items have been read that the visitor has been at.
ReadAs(l, m, t, s) ==
  /\ l \in Seq(Items) /\ m \in Seq(Items) /\ DOMAIN l = DOMAIN m
  /\ \A i \in DOMAIN m :
       /\ i \in Nat
       /\ LET p == [t |-> t, s |-> s, i |-> i, j |-> 0]
          IN  m[i].op # "exclude" =>
                p \in Spots(project) /\ l[i] = IF p \in Past1(at) THEN After(m[i]) ELSE m[i]
       /\ m[i].op = "exclude" =>
            /\ l[i].op = "exclude" /\ m[i].items \in Seq(Plain) /\ l[i].items \in Seq(Plain)
            /\ DOMAIN l[i].items = DOMAIN m[i].items
            /\ \A j \in DOMAIN m[i].items :
                 LET p == [t |-> t, s |-> s, i |-> i, j |-> j]
                 IN  /\ p \in Spots(project) /\ j \in Nat \ {0}
                     /\ l[i].items[j] = IF p \in Past1(at) THEN After(m[i].items[j])
                                        ELSE m[i].items[j]

\* The lists of a document that is being read.
LEMMA ListRead ==
  ASSUME Placed, Resolving, NEW t \in DOMAIN project, NEW s \in DOMAIN project[t].body,
         NEW l, l = doc[t].body[s].items, NEW m, m = project[t].body[s].items
  PROVE  ReadAs(l, m, t, s)
<1>1. /\ doc \in Seq(Blocks) /\ project \in Seq(Blocks) /\ Spots(doc) = Spots(project)
      /\ t \in DOMAIN doc /\ s \in DOMAIN doc[t].body
  BY DEF Placed, Resolving, SameOutline, SameBlocks
<1>2. /\ l \in Seq(Items) /\ m \in Seq(Items)
      /\ \A i \in DOMAIN l : l[i] \in Items
      /\ \A i \in DOMAIN m : m[i] \in Items
  BY <1>1, PartsTyped
<1>3. DOMAIN l \subseteq Nat \ {0} /\ DOMAIN m \subseteq Nat \ {0}
  BY <1>2, LenProperties
<1>4. \A i \in Nat : i \in DOMAIN l <=> i \in DOMAIN m
  BY <1>1, SpotsOfList
<1>5. DOMAIN l = DOMAIN m
  BY <1>3, <1>4
<1>6. \A p \in Spots(project) :
        IF ItemAt(project, p).op = "exclude" THEN ItemAt(doc, p).op = "exclude"
        ELSE ItemAt(doc, p) = IF p \in Past1(at) THEN After(ItemAt(project, p))
                              ELSE ItemAt(project, p)
  BY DEF Resolving
<1>7. ASSUME NEW i \in DOMAIN m
      PROVE  LET p == [t |-> t, s |-> s, i |-> i, j |-> 0]
             IN  /\ p \in Spots(project)
                 /\ m[i].op # "exclude" => l[i] = IF p \in Past1(at) THEN After(m[i]) ELSE m[i]
                 /\ m[i].op = "exclude" => l[i].op = "exclude"
  <2> DEFINE p == [t |-> t, s |-> s, i |-> i, j |-> 0]
  <2>1. p \in Spots(project)
    BY <1>1, <1>3, SpotsOfList
  <2>2. ItemAt(project, p) = m[i] /\ ItemAt(doc, p) = l[i]
    BY DEF ItemAt
  <2> HIDE DEF p
  <2>3. QED
    BY <1>6, <2>1, <2>2 DEF p
<1>8. ASSUME NEW i \in DOMAIN m, m[i].op = "exclude"
      PROVE  /\ l[i].op = "exclude" /\ m[i].items \in Seq(Plain) /\ l[i].items \in Seq(Plain)
             /\ DOMAIN l[i].items = DOMAIN m[i].items
             /\ \A j \in DOMAIN m[i].items :
                  LET p == [t |-> t, s |-> s, i |-> i, j |-> j]
                  IN  /\ p \in Spots(project) /\ j \in Nat \ {0}
                      /\ l[i].items[j] = IF p \in Past1(at) THEN After(m[i].items[j])
                                         ELSE m[i].items[j]
  <2>1. l[i].op = "exclude"
    BY <1>7, <1>8
  <2>2. m[i].items \in Seq(Plain) /\ l[i].items \in Seq(Plain)
    BY <1>2, <1>5, <1>8, <2>1, ItemsTyped
  <2>3. DOMAIN m[i].items \subseteq Nat \ {0} /\ DOMAIN l[i].items \subseteq Nat \ {0}
    BY ONLY <2>2, RowElements
  <2>4. \A j \in Nat \ {0} : j \in DOMAIN l[i].items <=> j \in DOMAIN m[i].items
    BY <1>1, <1>3, <1>5, <1>8, <2>1, SpotsOfList
  <2>5. DOMAIN l[i].items = DOMAIN m[i].items
    BY <2>3, <2>4
  <2>6. ASSUME NEW j \in DOMAIN m[i].items
        PROVE  LET p == [t |-> t, s |-> s, i |-> i, j |-> j]
               IN  /\ p \in Spots(project) /\ j \in Nat \ {0}
                   /\ l[i].items[j] = IF p \in Past1(at) THEN After(m[i].items[j])
                                      ELSE m[i].items[j]
    <3> DEFINE p == [t |-> t, s |-> s, i |-> i, j |-> j]
    <3>1. p \in Spots(project) /\ j \in Nat \ {0}
      BY <1>1, <1>3, <1>8, <2>3, SpotsOfList
    <3>2. ItemAt(project, p) = m[i].items[j] /\ ItemAt(doc, p) = l[i].items[j]
      BY <3>1 DEF ItemAt
    <3>3. m[i].items[j].op # "exclude"
      <4>1. m[i].items[j] \in Plain
        BY ONLY <2>2, <2>6, RowElements
      <4>2. QED
        BY ONLY <4>1, PlainTyped
    <3> HIDE DEF p
    <3>4. QED
      BY <1>6, <3>1, <3>2, <3>3 DEF p
  <2>7. QED
    BY <2>1, <2>2, <2>5, <2>6
<1>9. QED
  BY <1>2, <1>3, <1>5, <1>7, <1>8 DEF ReadAs

\* A list without missing names, when its names have been read.
LEMMA AfterMeans ==
  ASSUME NEW l, NEW m, DOMAIN l = DOMAIN m,
         \A i \in DOMAIN m : IF m[i].op = "exclude" THEN l[i].op = "exclude"
                             ELSE l[i] = After(m[i]) /\ ~IsMissing(m[i])
  PROVE  /\ \A i \in DOMAIN m : l[i].op = m[i].op
         /\ FileNames(l) \union Wilds(l) = Written(m)
         /\ Refs(l) = Refs(m)
<1>1. ASSUME NEW i \in DOMAIN m
      PROVE  /\ l[i].op = m[i].op
             /\ m[i].op = "file" => FilesOf(m[i]) = {l[i].name}
             /\ m[i].op = "wild" => FilesOf(m[i]) = l[i].matches \intersect Range(FileList)
             /\ m[i].op = "ref" => l[i].name = m[i].name
             /\ m[i].op \notin {"file", "wild"} => FilesOf(m[i]) = {}
  <2>1. CASE m[i].op = "file"
    <3>1. Found(m[i]) /\ l[i] = File(Resolved(m[i]))
      BY <2>1 DEF IsMissing, After
    <3>2. QED
      BY <2>1, <3>1 DEF File, FilesOf
  <2>2. CASE m[i].op = "wild"
    <3>1. l[i] = m[i]
      BY <2>2 DEF After
    <3>2. QED
      BY <2>2, <3>1 DEF FilesOf
  <2>3. CASE m[i].op \notin {"file", "wild"}
    <3>1. FilesOf(m[i]) = {}
      BY <2>3 DEF FilesOf
    <3>2. QED
      BY <2>3, <3>1 DEF After
  <2>4. QED
    BY <2>1, <2>2, <2>3
<1>2. \A x : x \in Written(m) <=> \E i \in DOMAIN m : x \in FilesOf(m[i])
  BY DEF Written, Range
<1>3. \A x : x \in FileNames(l) <=> \E i \in DOMAIN m : l[i].op = "file" /\ x = l[i].name
  BY DEF FileNames
<1>4. \A x : x \in Wilds(l) <=> \E i \in DOMAIN m : /\ l[i].op = "wild"
                                                  /\ x \in l[i].matches \intersect Range(FileList)
  BY DEF Wilds
<1>5. FileNames(l) \union Wilds(l) = Written(m)
  <2>1. ASSUME NEW x \in Written(m) PROVE x \in FileNames(l) \union Wilds(l)
    <3>1. PICK i \in DOMAIN m : x \in FilesOf(m[i])
      BY <1>2, <2>1
    <3>2. QED
      BY <1>1, <1>3, <1>4, <3>1
  <2>2. ASSUME NEW x \in FileNames(l) PROVE x \in Written(m)
    <3>1. PICK i \in DOMAIN m : l[i].op = "file" /\ x = l[i].name
      BY <1>3, <2>2
    <3>2. x \in FilesOf(m[i])
      BY <1>1, <3>1
    <3>3. QED
      BY <1>2, <3>2
  <2>3. ASSUME NEW x \in Wilds(l) PROVE x \in Written(m)
    <3>1. PICK i \in DOMAIN m : l[i].op = "wild" /\ x \in l[i].matches \intersect Range(FileList)
      BY <1>4, <2>3
    <3>2. x \in FilesOf(m[i])
      BY <1>1, <3>1
    <3>3. QED
      BY <1>2, <3>2
  <2>4. QED
    BY <2>1, <2>2, <2>3
<1>6. Refs(l) = Refs(m)
  BY <1>1 DEF Refs
<1>7. QED
  BY <1>1, <1>5, <1>6

\* What all lists are after resolve_sources, and what they mean when nothing
\* is missing.
LEMMA ReadMeans ==
  ASSUME Placed, Resolving, Regular, Past1(at) = Read,
         NEW t \in DOMAIN project, NEW s \in DOMAIN project[t].body
  PROVE  /\ Tidy(doc[t].body[s].items)
         /\ ~Missed /\ project[t].kind # "template"
              => Kept(doc[t].body[s].items, project[t].body[s].items)
<1> DEFINE l == doc[t].body[s].items
           m == project[t].body[s].items
           Spot(i, j) == [t |-> t, s |-> s, i |-> i, j |-> j]
           Left(x, old, p) == x = IF p \in Past1(at) THEN After(old) ELSE old
<1>0. l = doc[t].body[s].items /\ m = project[t].body[s].items
  OBVIOUS
<1> HIDE DEF l, m
<1>1. /\ l \in Seq(Items) /\ m \in Seq(Items) /\ DOMAIN l = DOMAIN m
      /\ \A i \in DOMAIN m :
           /\ i \in Nat
           /\ m[i].op # "exclude" => Spot(i, 0) \in Spots(project) /\ Left(l[i], m[i], Spot(i, 0))
           /\ m[i].op = "exclude" =>
                /\ l[i].op = "exclude" /\ m[i].items \in Seq(Plain) /\ l[i].items \in Seq(Plain)
                /\ DOMAIN l[i].items = DOMAIN m[i].items
                /\ \A j \in DOMAIN m[i].items :
                     /\ Spot(i, j) \in Spots(project) /\ j \in Nat \ {0}
                     /\ Left(l[i].items[j], m[i].items[j], Spot(i, j))
  <2>1. ReadAs(l, m, t, s)
    BY <1>0, ListRead
  <2>2. QED
    BY ONLY <2>1 DEF ReadAs, Spot, Left
<1>2. Tidy(m)
  BY <1>0, RegularLists
<1>3. /\ \A i \in DOMAIN m : l[i].op = m[i].op
      /\ \A i \in DOMAIN m : m[i].op = "exclude" =>
           \A j \in DOMAIN m[i].items : l[i].items[j].op = m[i].items[j].op
  <2>1. \A x : After(x).op = x.op
    BY DEF After, File
  <2> HIDE DEF Spot
  <2>2. QED
    BY <1>1, <2>1
<1>4. Tidy(l)
  <2>1. DOMAIN l = DOMAIN m
    BY <1>1
  <2>2. \A i \in DOMAIN m : m[i].op = "exclude" => DOMAIN l[i].items = DOMAIN m[i].items
    BY <1>1
  <2>3. QED
    BY ONLY <1>2, <1>3, <2>1, <2>2 DEF Tidy
<1>5. ASSUME ~Missed, project[t].kind # "template" PROVE Kept(l, m)
  <2>1. \A p \in Read : ~IsMissing(ItemAt(project, p))
    BY <1>5, MissesAreRead DEF Missed, Placed
  <2>2. ASSUME NEW i \in DOMAIN m, m[i].op # "exclude"
        PROVE  l[i] = After(m[i]) /\ ~IsMissing(m[i])
    <3>1. Spot(i, 0).j = 0 /\ ItemAt(project, Spot(i, 0)) = m[i]
      BY <1>0 DEF ItemAt
    <3>2. \A k \in DOMAIN m : m[k].op = "exclude" => i <= k
      BY <1>2 DEF Tidy
    <3>3. \A k \in 1..(i - 1) : m[k].op # "exclude"
      <4>1. \A k \in 1..(i - 1) : k \in DOMAIN m /\ ~(i <= k)
        BY <1>1, LenProperties
      <4>2. QED
        BY <3>2, <4>1
    <3>4. Looked(Spot(i, 0))
      BY <1>0, <3>3 DEF Looked
    <3>5. Spot(i, 0) \in Read
      <4>1. Spot(i, 0) \in Spots(project) /\ project[Spot(i, 0).t].kind # "template"
        BY <1>1, <1>5, <2>2
      <4> HIDE DEF Spot
      <4>2. QED
        BY <2>2, <3>1, <3>4, <4>1 DEF Read
    <3>6. ~IsMissing(m[i])
      BY <2>1, <3>1, <3>5
    <3>7. Left(l[i], m[i], Spot(i, 0))
      BY <1>1, <2>2
    <3> HIDE DEF Spot
    <3>8. QED
      BY <3>5, <3>6, <3>7
  <2>3. ASSUME NEW i \in DOMAIN m, m[i].op = "exclude", NEW j \in DOMAIN m[i].items
        PROVE  l[i].items[j] = After(m[i].items[j]) /\ ~IsMissing(m[i].items[j])
    <3>1. /\ Spot(i, j) \in Spots(project) /\ j \in Nat \ {0}
          /\ Left(l[i].items[j], m[i].items[j], Spot(i, j))
      BY <1>1, <2>3
    <3>2. ItemAt(project, Spot(i, j)) = m[i].items[j]
      BY <1>0, <3>1 DEF ItemAt
    <3>3. Looked(Spot(i, j))
      BY <3>1 DEF Looked
    <3>4. m[i].items[j].op # "exclude"
      BY <1>2, <2>3 DEF Tidy
    <3>5. project[Spot(i, j).t].kind # "template"
      BY <1>5
    <3> HIDE DEF Spot
    <3>6. Spot(i, j) \in Read
      BY <3>1, <3>2, <3>3, <3>4, <3>5 DEF Read
    <3>7. QED
      BY <2>1, <3>1, <3>2, <3>6
  <2> HIDE DEF Spot, Left
  <2>4. FileNames(l) \union Wilds(l) = Written(m) /\ Refs(l) = Refs(m)
    <3>1. \A i \in DOMAIN m : IF m[i].op = "exclude" THEN l[i].op = "exclude"
                              ELSE l[i] = After(m[i]) /\ ~IsMissing(m[i])
      BY <1>1, <2>2
    <3>2. DOMAIN l = DOMAIN m
      BY <1>1
    <3>3. QED
      BY ONLY <3>1, <3>2, AfterMeans
  <2>5. ASSUME NEW i \in DOMAIN m, m[i].op = "exclude"
        PROVE  FileNames(l[i].items) = Written(m[i].items)
    <3> DEFINE a == l[i].items
               b == m[i].items
    <3>1. DOMAIN a = DOMAIN b
      BY <1>1, <2>5
    <3>2. \A j \in DOMAIN b : b[j].op = "file" /\ a[j] = After(b[j]) /\ ~IsMissing(b[j])
      BY <1>2, <2>3, <2>5 DEF Tidy
    <3> HIDE DEF a, b
    <3>3. \A j \in DOMAIN b : IF b[j].op = "exclude" THEN a[j].op = "exclude"
                              ELSE a[j] = After(b[j]) /\ ~IsMissing(b[j])
      BY <3>2
    <3>4. FileNames(a) \union Wilds(a) = Written(b) /\ \A j \in DOMAIN b : a[j].op = b[j].op
      BY ONLY <3>1, <3>3, AfterMeans
    <3>5. Wilds(a) = {}
      BY <3>1, <3>2, <3>4 DEF Wilds
    <3>6. QED
      BY <3>4, <3>5 DEF a, b
  <2>6. Outs(l) = Excluded(m)
    BY <1>1, <1>3, <2>5 DEF Outs, Excluded
  <2>7. QED
    BY <2>4, <2>6 DEF Kept
<1>6. QED
  BY <1>0, <1>4, <1>5

-----------------------------------------------------------------------------
\* The visitor has been through section s of block t.
SectionBefore(t, s) == t < at.t \/ (t = at.t /\ s < at.s)

\* The wildcards, and the names, that stand before place i of a list.
WildBefore(l, i) == {l[k] : k \in {k \in DOMAIN l : k < i /\ l[k].op = "wild"}}
NamesBefore(l, i) == {l[k].name : k \in {k \in DOMAIN l : k < i /\ l[k].op = "file"}}

\* What resolve_wildcards knows of the list l that it has come through up to i.
Listed(l, i) ==
  IF HasWild(l) THEN /\ inSources
                     /\ Range(wildcards) = WildBefore(l, i)
                     /\ Range(sourceFiles) = NamesBefore(l, i)
  ELSE wildcards = << >>

\* While resolve_wildcards runs the lists keep what they mean, and those it
\* has been through have no wildcards left.
Listing ==
  /\ SameOutline(doc, project)
  /\ \A t \in DOMAIN doc : \A s \in DOMAIN doc[t].body :
       /\ Tidy(doc[t].body[s].items)
       /\ SectionBefore(t, s) => ~HasWild(doc[t].body[s].items)
       /\ project[t].kind # "template" => Kept(doc[t].body[s].items, project[t].body[s].items)
  /\ wildcards \in Seq(Plain) /\ sourceFiles \in Seq(Seq(STRING))
  /\ at.i = 0 => wildcards = << >> /\ sourceFiles = << >>
  /\ at.i > 0 => /\ at.t \in DOMAIN doc /\ at.s \in DOMAIN doc[at.t].body
                 /\ Listed(Outer, at.i)

\* Where the visitor is in the document.
LEMMA InTheList ==
  ASSUME Placed, InBody
  PROVE  /\ at.t \in DOMAIN doc /\ at.s \in DOMAIN doc[at.t].body /\ Outer \in Seq(Items)
         /\ at.t \in Nat /\ at.s \in Nat /\ at.i \in Nat /\ at.j \in Nat
<1>1. /\ doc \in Seq(Blocks) /\ at \in Positions /\ at.t <= Len(doc) /\ at.s <= Len(doc[at.t].body)
  BY DEF Placed, InBody
<1>2. at.t \in DOMAIN doc
  BY <1>1, LenProperties DEF Positions
<1>3. at.s \in DOMAIN doc[at.t].body
  BY <1>1, <1>2, PartsTyped, LenProperties DEF Positions
<1>4. QED
  BY <1>1, <1>2, <1>3, PartsTyped DEF Positions, Outer

\* A list with a wildcard has no excludes: the visitor is not in one.
LEMMA NotNested ==
  ASSUME Placed, Tidy(Outer), Nested
  PROVE  ~HasWild(Outer) /\ Outer[at.i].op = "exclude" /\ at.i \in DOMAIN Outer
<1>1. at.i \in DOMAIN Outer /\ Outer[at.i].op = "exclude"
  BY DEF Placed, Nested, Spots, Outer, Positions
<1>2. QED
  BY <1>1 DEF Tidy, HasWild

\* What is known one place further.
LEMMA OneFurther ==
  ASSUME NEW l, NEW i \in Nat, DOMAIN l \subseteq Nat, i \in DOMAIN l
  PROVE  /\ WildBefore(l, i + 1) = WildBefore(l, i) \union (IF l[i].op = "wild" THEN {l[i]} ELSE {})
         /\ NamesBefore(l, i + 1)
              = NamesBefore(l, i) \union (IF l[i].op = "file" THEN {l[i].name} ELSE {})
<1>1. \A k \in DOMAIN l : k < i + 1 <=> k < i \/ k = i
  OBVIOUS
<1>2. QED
  BY <1>1 DEF WildBefore, NamesBefore

\* At the head of a list nothing is known, at its end everything.
LEMMA HeadAndEnd ==
  ASSUME NEW l \in Seq(Items)
  PROVE  /\ WildBefore(l, 1) = {} /\ NamesBefore(l, 1) = {}
         /\ \A i \in Nat : i > Len(l) =>
              /\ WildBefore(l, i) = {l[k] : k \in {k \in DOMAIN l : l[k].op = "wild"}}
              /\ NamesBefore(l, i) = FileNames(l)
<1>1. \A k \in DOMAIN l : k \in Nat /\ ~(k < 1) /\ k <= Len(l) /\ Len(l) \in Nat
  BY LenProperties
<1>2. QED
  BY <1>1 DEF WildBefore, NamesBefore, FileNames

\* A step that changes nothing of the document, and does not go to another section.
LEMMA ListStays ==
  ASSUME Listing, UNCHANGED <<project, doc>>, at'.t = at.t, at'.s = at.s, at'.i > 0,
         at.t \in DOMAIN doc, at.s \in DOMAIN doc[at.t].body,
         wildcards' \in Seq(Plain), sourceFiles' \in Seq(Seq(STRING)),
         Listed(Outer, at.i)'
  PROVE  Listing'
<1>1. \A t, s : SectionBefore(t, s)' <=> SectionBefore(t, s)
  BY DEF SectionBefore
<1>2. SameOutline(doc', project')
  BY DEF Listing
<1>3. \A t \in DOMAIN doc' : \A s \in DOMAIN doc'[t].body :
       /\ Tidy(doc'[t].body[s].items)
       /\ SectionBefore(t, s)' => ~HasWild(doc'[t].body[s].items)
       /\ project'[t].kind # "template" => Kept(doc'[t].body[s].items, project'[t].body[s].items)
  BY <1>1 DEF Listing
<1>4. QED
  BY <1>2, <1>3 DEF Listing

-----------------------------------------------------------------------------
\* A function on the first numbers is a row.
LEMMA RowOf ==
  ASSUME NEW T, NEW n \in Nat, NEW f \in [1..n -> T]
  PROVE  f \in Seq(T) /\ Len(f) = n /\ DOMAIN f = 1..n
<1>1. f \in Seq(T)
  BY SeqDef
<1>2. QED
  BY <1>1, LenProperties

\* A row for each element: with it, or empty when its place is not chosen.
ChosenRows(row, C) == [k \in DOMAIN row |-> IF k \in C THEN <<row[k]>> ELSE << >>]
Chosen(row, C) == {row[k] : k \in DOMAIN row \intersect C}

\* They make a row of those that are chosen.
LEMMA ChosenRow ==
  ASSUME NEW T, NEW row \in Seq(T), NEW C
  PROVE  /\ FlattenSeq(ChosenRows(row, C)) \in Seq(T)
         /\ Range(FlattenSeq(ChosenRows(row, C))) = Chosen(row, C)
<1> DEFINE rows == ChosenRows(row, C)
<1>0. rows = [k \in DOMAIN row |-> IF k \in C THEN <<row[k]>> ELSE << >>]
  BY DEF ChosenRows
<1> HIDE DEF rows
<1>1. Len(row) \in Nat /\ DOMAIN row = 1..Len(row) /\ \A k \in 1..Len(row) : row[k] \in T
  BY LenProperties, ElementOfSeq
<1>2. \A k \in 1..Len(row) : /\ rows[k] \in Seq(T)
                             /\ Range(rows[k]) = IF k \in C THEN {row[k]} ELSE {}
  <2>1. ASSUME NEW k \in 1..Len(row), k \in C
        PROVE  <<row[k]>> \in Seq(T) /\ Range(<<row[k]>>) = {row[k]}
    BY <1>1 DEF Range
  <2>2. << >> \in Seq(T) /\ Range(<< >>) = {}
    BY EmptySeq DEF Range
  <2>3. QED
    BY <1>0, <1>1, <2>1, <2>2
<1>3. rows \in [1..Len(row) -> Seq(T)]
  <2>1. DOMAIN rows = 1..Len(row) /\ rows = [k \in 1..Len(row) |-> rows[k]]
    BY <1>0, <1>1
  <2>2. QED
    BY <1>2, <2>1
<1>4. rows \in Seq(Seq(T)) /\ Len(rows) = Len(row)
  BY <1>1, <1>3, RowOf
<1>5. /\ FlattenSeq(rows) \in Seq(T)
      /\ Range(FlattenSeq(rows)) = UNION {Range(rows[k]) : k \in 1..Len(rows)}
  BY <1>4, FlattenType, FlattenRange
<1> HIDE DEF Range
<1>6. UNION {Range(rows[k]) : k \in 1..Len(rows)} = {row[k] : k \in DOMAIN row \intersect C}
  <2>1. ASSUME NEW k \in 1..Len(row), NEW x PROVE x \in Range(rows[k]) <=> k \in C /\ x = row[k]
    <3>1. Range(rows[k]) = IF k \in C THEN {row[k]} ELSE {}
      BY <1>2
    <3>2. QED
      BY ONLY <3>1
  <2> DEFINE Left == UNION {Range(rows[k]) : k \in 1..Len(rows)}
             Right == {row[k] : k \in DOMAIN row \intersect C}
  <2>2. ASSUME NEW x PROVE x \in Left <=> \E k \in 1..Len(row) : x \in Range(rows[k])
    BY <1>4
  <2>3. ASSUME NEW x PROVE x \in Right <=> \E k \in 1..Len(row) : k \in C /\ x = row[k]
    BY <1>1
  <2> HIDE DEF Left, Right
  <2>4. Left = Right
    BY ONLY <2>1, <2>2, <2>3
  <2>5. QED
    BY <2>4 DEF Left, Right
<1>7. QED
  BY <1>5, <1>6 DEF rows, Chosen

\* The files that the wildcards match and that are not listed already.
LEMMA MatchedFiles ==
  ASSUME wildcards \in Seq(Plain), sourceFiles \in Seq(Seq(STRING))
  PROVE  /\ Matched \in Seq(Seq(STRING))
         /\ Range(Matched) = {f \in Range(FileList) : IsMatched(f)}
<1> DEFINE C == {k \in DOMAIN FileList : IsMatched(FileList[k])}
<1> DEFINE V == Seq(STRING)
<1>1. FileList \in Seq(V)
  BY SourcesAssumption, SeqMonotonic
<1>2. Matched = FlattenSeq(ChosenRows(FileList, C))
  <2>1. \A k \in DOMAIN FileList : k \in C <=> IsMatched(FileList[k])
    OBVIOUS
  <2> HIDE DEF C
  <2>2. ChosenRows(FileList, C)
          = [k \in DOMAIN FileList |-> IF IsMatched(FileList[k]) THEN <<FileList[k]>> ELSE << >>]
    BY <2>1, Zenon DEF ChosenRows
  <2>3. QED
    BY <2>2 DEF Matched
<1>3. FlattenSeq(ChosenRows(FileList, C)) \in Seq(V)
      /\ Range(FlattenSeq(ChosenRows(FileList, C))) = Chosen(FileList, C)
  <2> HIDE DEF C, V
  <2>1. QED
    BY ONLY <1>1, ChosenRow
<1>4. Chosen(FileList, C) = {f \in Range(FileList) : IsMatched(f)}
  BY DEF Chosen, Range
<1>5. QED
  BY <1>2, <1>3, <1>4

\* What a list with wildcards becomes.
LEMMA ExpandedMeans ==
  ASSUME wildcards \in Seq(Plain), sourceFiles \in Seq(Seq(STRING))
  PROVE  /\ Expanded \in Seq(Items)
         /\ \A k \in DOMAIN Expanded : Expanded[k].op = "file"
         /\ FileNames(Expanded) = Range(sourceFiles) \union
               UNION {w.matches \intersect Range(FileList) : w \in Range(wildcards)}
<1> DEFINE all == sourceFiles \o Matched
<1>1. all \in Seq(Seq(STRING)) /\ Range(all) = Range(sourceFiles) \union Range(Matched)
  BY MatchedFiles, ConcatProperties, RangeOfConcat
<1>2. Range(Matched) = {f \in Range(FileList) : IsMatched(f)}
  BY MatchedFiles
<1>3. Expanded = [k \in 1..Len(all) |-> File(all[k])]
  BY DEF Expanded
<1> HIDE DEF all
<1>4. Len(all) \in Nat /\ \A k \in 1..Len(all) : all[k] \in Seq(STRING)
  BY <1>1, LenProperties, ElementOfSeq
<1>5. \A k \in 1..Len(all) :
        Expanded[k] \in Items /\ Expanded[k].op = "file" /\ Expanded[k].name = all[k]
  <2>1. << >> \in Seq(STRING)
    BY EmptySeq
  <2>2. QED
    BY <1>3, <1>4, <2>1 DEF File, Items, Plain
<1>6. Expanded \in Seq(Items) /\ DOMAIN Expanded = 1..Len(all)
  <2>1. Expanded \in [1..Len(all) -> Items]
    BY <1>3, <1>5
  <2>2. QED
    BY <1>4, <2>1, RowOf
<1>7. FileNames(Expanded) = Range(all)
  <2>1. DOMAIN all = 1..Len(all)
    BY <1>1, LenProperties
  <2>2. QED
    BY <1>5, <1>6, <2>1 DEF FileNames, Range
<1>8. Range(sourceFiles) \union {f \in Range(FileList) : IsMatched(f)}
        = Range(sourceFiles) \union
            UNION {w.matches \intersect Range(FileList) : w \in Range(wildcards)}
  <2> HIDE DEF Range
  <2>1. QED
    BY DEF IsMatched
<1>9. QED
  BY <1>1, <1>2, <1>5, <1>6, <1>7, <1>8

-----------------------------------------------------------------------------
\* The visitor moves in a document that stays as it is.
LEMMA PlacedMoves ==
  ASSUME Placed, UNCHANGED <<project, doc>>, phase' \in Phases, Seat(at')
  PROVE  Placed'
<1>1. /\ SameBlocks(doc', doc) /\ doc' \in Seq(Blocks) /\ Spots(doc) \subseteq Spots(doc')
      /\ \A p \in Spots(doc) : ItemAt(doc, p).op = "exclude" => ItemAt(doc, p)'.op = "exclude"
  BY DEF SameBlocks, Placed, ItemAt
<1>2. QED
  BY <1>1, PlacedStays

\* The item the visitor is at, in a tidy list.
LEMMA TidyItem ==
  ASSUME Placed, AtItem, Tidy(Outer)
  PROVE  /\ at.i \in DOMAIN Outer /\ at.i > 0 /\ Item \in Items
         /\ Nested => Item.op = "file" /\ ~HasWild(Outer)
         /\ ~Nested => Item = Outer[at.i] /\ Past.i = at.i + 1
         /\ Past.t = at.t /\ Past.s = at.s /\ Past.i > 0 /\ (Nested => Past.i = at.i)
         /\ Seat(Past)
<1>1. at \in Spots(doc) /\ at.i > 0 /\ at \in Positions /\ Item \in Items /\ Seat(Past)
  BY AtSpot, NestedPlain, PastSeat DEF Spots
<1>2. /\ at.i \in DOMAIN Outer
      /\ at.j > 0 => Outer[at.i].op = "exclude" /\ at.j \in DOMAIN Outer[at.i].items
  <2>1. /\ at.i \in DOMAIN Outer
        /\ at.j # 0 => Outer[at.i].op = "exclude" /\ at.j \in DOMAIN Outer[at.i].items
    BY <1>1 DEF Spots, Outer
  <2>2. at.j > 0 => at.j # 0
    BY <1>1 DEF Positions
  <2>3. QED
    BY <2>1, <2>2
<1>3. CASE Nested
  <2>1. Item = Outer[at.i].items[at.j] /\ Outer[at.i].op = "exclude"
    BY <1>2, <1>3 DEF Nested, Item, List, Here
  <2>2. Item.op = "file"
    BY <1>2, <1>3, <2>1 DEF Tidy, Nested
  <2>3. ~HasWild(Outer)
    BY <1>3, NotNested
  <2>4. Past.t = at.t /\ Past.s = at.s /\ Past.i = at.i
    BY <1>1, <1>3 DEF Past, Positions
  <2>5. QED
    BY <1>1, <1>2, <1>3, <2>2, <2>3, <2>4
<1>4. CASE ~Nested
  <2>1. Item = Outer[at.i]
    BY <1>4 DEF Item, List, Here
  <2>2. Past.t = at.t /\ Past.s = at.s /\ Past.i = at.i + 1 /\ Past.i > 0
    BY <1>1, <1>4 DEF Past, Positions
  <2>3. QED
    BY <1>1, <1>2, <1>4, <2>1, <2>2
<1>5. QED
  BY <1>3, <1>4

\* What Listing says of the list the visitor is in.
LEMMA ListingHere ==
  ASSUME Placed, Listing, InBody
  PROVE  /\ Tidy(Outer) /\ Outer \in Seq(Items)
         /\ at.i > 0 => Listed(Outer, at.i)
         /\ at.t \in DOMAIN doc /\ at.s \in DOMAIN doc[at.t].body
         /\ wildcards \in Seq(Plain) /\ sourceFiles \in Seq(Seq(STRING))
<1>1. at.t \in DOMAIN doc /\ at.s \in DOMAIN doc[at.t].body /\ Outer \in Seq(Items)
  BY InTheList
<1>2. QED
  BY <1>1 DEF Listing, Outer

\* A step in a list that has no wildcards.
LEMMA PlainListing ==
  ASSUME Placed, Listing, InBody, ~HasWild(Outer), UNCHANGED <<project, doc, wildcards>>,
         at.i = 0 \/ at.i > 0, at'.t = at.t, at'.s = at.s, at'.i > 0,
         sourceFiles' \in Seq(Seq(STRING))
  PROVE  Listing'
<1>1. wildcards = << >> /\ wildcards' \in Seq(Plain)
  BY ListingHere DEF Listing, Listed
<1>2. Outer' = Outer
  BY DEF Outer
<1>3. Listed(Outer, at.i)'
  BY <1>1, <1>2 DEF Listed, HasWild
<1>4. QED
  BY <1>1, <1>3, ListingHere, ListStays

\* An item that resolve_wildcards has nothing to do with.
LEMMA PassLists ==
  ASSUME Placed, Listing, Pass, phase = "resolve_wildcards"
  PROVE  Placed' /\ Listing'
<1>1. /\ AtItem /\ ~AtList /\ Item.op \notin {"file", "wild"} /\ at' = Past /\ InBody
      /\ UNCHANGED <<project, doc, phase, wildcards, sourceFiles>>
  BY DEF Pass, AtItem
<1>2. Tidy(Outer) /\ sourceFiles \in Seq(Seq(STRING))
  BY <1>1, ListingHere
<1>3. /\ at.i \in DOMAIN Outer /\ at.i > 0
      /\ ~Nested => Item = Outer[at.i]
      /\ Nested => ~HasWild(Outer)
      /\ Past.t = at.t /\ Past.s = at.s /\ Past.i > 0 /\ Seat(Past)
  BY <1>1, <1>2, TidyItem
<1>4. ~HasWild(Outer)
  BY <1>1, <1>2, <1>3 DEF HasWild, Tidy
<1>5. Placed'
  BY <1>1, <1>3, PlacedMoves DEF Phases
<1>6. QED
  BY <1>1, <1>2, <1>3, <1>4, <1>5, PlainListing

\* What has been collected is a row of wildcards and a row of names.
LEMMA CollectTyped ==
  ASSUME Collect, Item \in Items, wildcards \in Seq(Plain), sourceFiles \in Seq(Seq(STRING))
  PROVE  wildcards' \in Seq(Plain) /\ sourceFiles' \in Seq(Seq(STRING))
<1> DEFINE V == Seq(STRING)
<1>1. Item.op \in {"file", "wild"} /\ Item \in Plain /\ (Item.op = "file" => Item.name \in V)
  BY ItemsTyped, PlainTyped DEF Collect
<1>2. Append(wildcards, Item) \in Seq(Plain)
  BY <1>1, AppendProperties
<1>3. sourceFiles \in Seq(V)
  OBVIOUS
<1> HIDE DEF V
<1>4. Item.op = "file" => Append(sourceFiles, Item.name) \in Seq(V)
  BY <1>1, <1>3, AppendProperties
<1>5. sourceFiles' \in Seq(V) /\ wildcards' \in Seq(Plain)
  BY <1>1, <1>2, <1>3, <1>4 DEF Collect
<1>6. QED
  BY <1>5 DEF V

\* A name or a wildcard is collected.
LEMMA CollectLists ==
  ASSUME Placed, Listing, Collect
  PROVE  Placed' /\ Listing'
<1>1. /\ AtItem /\ InBody /\ Item.op \in {"file", "wild"} /\ at' = Past
      /\ UNCHANGED <<project, doc, phase, inSources>> /\ phase = "resolve_wildcards"
      /\ IF inSources /\ Item.op = "wild"
         THEN wildcards' = Append(wildcards, Item) /\ sourceFiles' = sourceFiles
         ELSE /\ sourceFiles' = IF inSources THEN Append(sourceFiles, Item.name) ELSE sourceFiles
              /\ wildcards' = wildcards
  BY DEF Collect, AtItem
<1>2. /\ Tidy(Outer) /\ Outer \in Seq(Items)
      /\ at.i > 0 => Listed(Outer, at.i)
      /\ at.t \in DOMAIN doc /\ at.s \in DOMAIN doc[at.t].body
      /\ wildcards \in Seq(Plain) /\ sourceFiles \in Seq(Seq(STRING))
  BY <1>1, ListingHere
<1>3. /\ at.i \in DOMAIN Outer /\ at.i > 0 /\ Item \in Items
      /\ Nested => Item.op = "file" /\ ~HasWild(Outer)
      /\ ~Nested => Item = Outer[at.i] /\ Past.i = at.i + 1
      /\ Past.t = at.t /\ Past.s = at.s /\ Past.i > 0 /\ Seat(Past)
  BY <1>1, <1>2, TidyItem
<1>4. Item \in Plain /\ (Item.op = "file" => Item.name \in Seq(STRING))
  BY <1>1, <1>3, ItemsTyped, PlainTyped
<1>5. Placed'
  BY <1>1, <1>3, PlacedMoves DEF Phases
<1>6. wildcards' \in Seq(Plain) /\ sourceFiles' \in Seq(Seq(STRING))
  BY <1>2, <1>3, CollectTyped
<1>7. CASE ~HasWild(Outer)
  <2>1. Item.op = "file"
    BY <1>1, <1>3, <1>7 DEF HasWild
  <2>2. QED
    BY <1>1, <1>3, <1>5, <1>6, <1>7, <2>1, PlainListing
<1>8. CASE HasWild(Outer)
  <2>1. ~Nested /\ Item = Outer[at.i] /\ Past.i = at.i + 1
    BY <1>3, <1>8
  <2>2. /\ inSources /\ Range(wildcards) = WildBefore(Outer, at.i)
        /\ Range(sourceFiles) = NamesBefore(Outer, at.i)
    BY <1>2, <1>3, <1>8 DEF Listed
  <2>3. /\ WildBefore(Outer, at.i + 1)
             = WildBefore(Outer, at.i) \union (IF Item.op = "wild" THEN {Item} ELSE {})
        /\ NamesBefore(Outer, at.i + 1)
             = NamesBefore(Outer, at.i) \union (IF Item.op = "file" THEN {Item.name} ELSE {})
    <3>1. DOMAIN Outer \subseteq Nat /\ at.i \in Nat
      BY <1>2, <1>3, RowElements
    <3>2. QED
      BY <1>3, <2>1, <3>1, OneFurther
  <2>4. Range(wildcards') = WildBefore(Outer, at.i + 1)
    <3>1. CASE Item.op = "wild"
      <4>1. Range(Append(wildcards, Item)) = Range(wildcards) \union {Item}
        BY <1>2, <1>4, RangeOfAppend
      <4>2. QED
        BY <1>1, <2>2, <2>3, <3>1, <4>1
    <3>2. CASE Item.op # "wild"
      BY <1>1, <2>2, <2>3, <3>2
    <3>3. QED
      BY <3>1, <3>2
  <2>5. Range(sourceFiles') = NamesBefore(Outer, at.i + 1)
    <3>1. CASE Item.op = "file"
      <4> DEFINE V == Seq(STRING)
      <4>1. Item.name \in V /\ sourceFiles \in Seq(V)
        BY <1>2, <1>4, <3>1
      <4> HIDE DEF V
      <4>2. Range(Append(sourceFiles, Item.name)) = Range(sourceFiles) \union {Item.name}
        BY <4>1, RangeOfAppend
      <4>3. QED
        BY <1>1, <2>2, <2>3, <3>1, <4>2
    <3>2. CASE Item.op # "file"
      BY <1>1, <2>2, <2>3, <3>2
    <3>3. QED
      BY <3>1, <3>2
  <2>6. Outer' = Outer /\ at'.i = at.i + 1
    <3>1. at'.t = at.t /\ at'.s = at.s
      BY <1>1, <1>3
    <3>2. QED
      BY <1>1, <2>1, <3>1 DEF Outer
  <2>7. Listed(Outer, at.i)'
    BY <1>1, <1>8, <2>2, <2>4, <2>5, <2>6 DEF Listed, HasWild, WildBefore, NamesBefore
  <2>8. QED
    BY <1>1, <1>2, <1>3, <1>5, <1>6, <2>7, ListStays
<1>9. QED
  BY <1>7, <1>8

\* A list starts.
LEMMA EnterListing ==
  ASSUME Placed, Listing, EnterList, phase' = "resolve_wildcards"
  PROVE  Placed' /\ Listing'
<1>1. /\ AtList /\ phase = "resolve_wildcards" /\ InBody /\ inSources' = TRUE /\ at' = Inside
      /\ UNCHANGED <<project, doc, phase, wildcards, sourceFiles>>
  BY DEF EnterList, AtList, AtItem
<1>2. /\ Tidy(Outer) /\ Outer \in Seq(Items) /\ at \in Positions
      /\ at.t \in DOMAIN doc /\ at.s \in DOMAIN doc[at.t].body
      /\ wildcards \in Seq(Plain) /\ sourceFiles \in Seq(Seq(STRING))
  BY <1>1, ListingHere DEF Placed
<1>3. Placed'
  BY <1>1, InsideSeat, PlacedMoves DEF Phases
<1>4. CASE at.i = 0
  <2>1. Inside.t = at.t /\ Inside.s = at.s /\ Inside.i = 1
    BY <1>2, <1>4 DEF Inside, Positions
  <2>2. wildcards = << >> /\ sourceFiles = << >>
    BY <1>4 DEF Listing
  <2>3. Range(wildcards) = {} /\ Range(sourceFiles) = {}
    BY <2>2 DEF Range
  <2>4. WildBefore(Outer, 1) = {} /\ NamesBefore(Outer, 1) = {}
    BY <1>2, HeadAndEnd
  <2>5. at'.t = at.t /\ at'.s = at.s /\ at'.i = 1
    BY <1>1, <2>1
  <2>6. Outer' = Outer
    BY <1>1, <2>5 DEF Outer
  <2>7. Listed(Outer, at.i)'
    BY <1>1, <2>2, <2>3, <2>4, <2>5, <2>6 DEF Listed, HasWild, WildBefore, NamesBefore
  <2>8. wildcards' \in Seq(Plain) /\ sourceFiles' \in Seq(Seq(STRING))
    BY <1>1, <1>2
  <2>9. QED
    BY <1>1, <1>2, <1>3, <2>5, <2>7, <2>8, ListStays
<1>5. CASE at.i # 0
  <2>1. AtItem /\ ~Nested /\ Item.op = "exclude"
    BY <1>1, <1>5 DEF AtList
  <2>2. at.i \in DOMAIN Outer /\ Item = Outer[at.i]
    BY <1>2, <2>1, TidyItem
  <2>3. ~HasWild(Outer)
    BY <1>2, <2>1, <2>2 DEF Tidy, HasWild
  <2>4. Inside.t = at.t /\ Inside.s = at.s /\ Inside.i = at.i /\ at.i > 0
    BY <1>2, <1>5 DEF Inside, Positions
  <2>5. sourceFiles' \in Seq(Seq(STRING)) /\ at'.t = at.t /\ at'.s = at.s /\ at'.i > 0
    BY <1>1, <1>2, <2>4
  <2>6. QED
    BY <1>1, <1>3, <2>3, <2>4, <2>5, PlainListing
<1>6. QED
  BY <1>4, <1>5

\* The visitor leaves a section, in which no wildcard is left.
LEMMA SectionLeft ==
  ASSUME Placed, Listing, InBody, UNCHANGED project, at'.i = 0,
         \A t, s \in Nat : SectionBefore(t, s)' => SectionBefore(t, s) \/ (t = at.t /\ s = at.s),
         wildcards' = << >>, sourceFiles' = << >>, SameOutline(doc', doc),
         NEW items, doc'[at.t].body[at.s].items = items, Tidy(items), ~HasWild(items),
         FileNames(items) = FileNames(Outer) \union Wilds(Outer),
         Outs(items) = Outs(Outer), Refs(items) = Refs(Outer),
         \A u \in DOMAIN doc : \A r \in DOMAIN doc[u].body :
           u # at.t \/ r # at.s => doc'[u].body[r] = doc[u].body[r]
  PROVE  Listing'
<1>1. /\ SameOutline(doc, project)
      /\ \A t \in DOMAIN doc : \A s \in DOMAIN doc[t].body :
           /\ Tidy(doc[t].body[s].items)
           /\ SectionBefore(t, s) => ~HasWild(doc[t].body[s].items)
           /\ project[t].kind # "template" => Kept(doc[t].body[s].items, project[t].body[s].items)
  BY DEF Listing
<1>2. SameOutline(doc', project')
  BY <1>1 DEF SameOutline, SameBlocks
<1>3. Wilds(items) = {}
  BY DEF Wilds, HasWild
<1>4. Kept(Outer, project[at.t].body[at.s].items) => Kept(items, project[at.t].body[at.s].items)
  BY <1>3 DEF Kept
<1>5. DOMAIN doc' = DOMAIN doc /\ \A t \in DOMAIN doc : DOMAIN doc'[t].body = DOMAIN doc[t].body
  BY DEF SameOutline, SameBlocks
<1>6. ASSUME NEW t \in DOMAIN doc, NEW s \in DOMAIN doc[t].body
      PROVE  /\ Tidy(doc'[t].body[s].items)
             /\ SectionBefore(t, s)' => ~HasWild(doc'[t].body[s].items)
             /\ project[t].kind # "template"
                  => Kept(doc'[t].body[s].items, project[t].body[s].items)
  <2>0. t \in Nat /\ s \in Nat
    <3>1. doc \in Seq(Blocks) /\ doc[t].body \in Seq(Sections)
      BY PartsTyped DEF Placed
    <3>2. QED
      BY <3>1, RowElements
  <2>1. CASE t = at.t /\ s = at.s
    BY <1>1, <1>4, <2>1 DEF Outer
  <2>2. CASE ~(t = at.t /\ s = at.s)
    BY <1>1, <2>0, <2>2
  <2>3. QED
    BY <2>1, <2>2
<1>7. << >> \in Seq(Plain) /\ << >> \in Seq(Seq(STRING))
  BY EmptySeq
<1>8. \A t \in DOMAIN doc' : \A s \in DOMAIN doc'[t].body :
       /\ Tidy(doc'[t].body[s].items)
       /\ SectionBefore(t, s)' => ~HasWild(doc'[t].body[s].items)
       /\ project'[t].kind # "template" => Kept(doc'[t].body[s].items, project'[t].body[s].items)
  BY <1>5, <1>6
<1>9. QED
  BY <1>2, <1>7, <1>8 DEF Listing

\* A list ends.
LEMMA LeaveListing ==
  ASSUME Placed, Listing, LeaveList
  PROVE  Placed' /\ Listing'
<1>1. /\ AtEnd /\ InBody /\ at.i > 0 /\ phase = "resolve_wildcards" /\ at' = Behind
      /\ UNCHANGED <<project, phase>> /\ wildcards' = << >> /\ sourceFiles' = << >>
      /\ doc' = IF wildcards = << >> THEN doc ELSE WithList(Expanded)
  BY DEF LeaveList, AtEnd
<1>2. /\ Tidy(Outer) /\ Outer \in Seq(Items) /\ at \in Positions /\ doc \in Seq(Blocks)
      /\ Listed(Outer, at.i) /\ at.t \in DOMAIN doc /\ at.s \in DOMAIN doc[at.t].body
      /\ wildcards \in Seq(Plain) /\ sourceFiles \in Seq(Seq(STRING))
  BY <1>1, ListingHere DEF Placed
<1>3. Seat(Behind)
  BY <1>1, BehindSeat
<1>4. CASE Nested
  <2>1. ~HasWild(Outer)
    BY <1>2, <1>4, NotNested
  <2>2. wildcards = << >>
    BY <1>2, <2>1 DEF Listed
  <2>3. doc' = doc /\ wildcards' = wildcards
    BY <1>1, <2>2
  <2>4. at'.t = at.t /\ at'.s = at.s /\ at'.i > 0
    BY <1>1, <1>2, <1>4 DEF Behind, Positions
  <2>5. sourceFiles' \in Seq(Seq(STRING))
    BY <1>1, EmptySeq
  <2>6. Placed'
    BY <1>1, <1>3, <2>3, PlacedMoves DEF Phases
  <2>7. QED
    BY <1>1, <2>1, <2>3, <2>4, <2>5, <2>6, PlainListing
<1>5. CASE ~Nested
  <2>1. at.j = 0 /\ at.i > Len(Outer) /\ at.i \in Nat
    BY <1>1, <1>2, <1>5 DEF AtEnd, Nested, Here, List, Positions
  <2>2. at' = [t |-> at.t, s |-> at.s + 1, i |-> 0, j |-> 0]
    BY <1>1, <1>2, <1>5, <2>1 DEF Behind, Positions
  <2>3. at' \in Positions /\ at'.i = 0 /\ at'.j = 0
    BY <1>2, <2>2 DEF Positions
  <2>4. \A t, s \in Nat : SectionBefore(t, s)' => SectionBefore(t, s) \/ (t = at.t /\ s = at.s)
    BY <1>2, <2>2 DEF SectionBefore, Positions
  <2>5. /\ WildBefore(Outer, at.i) = {Outer[k] : k \in {k \in DOMAIN Outer : Outer[k].op = "wild"}}
        /\ NamesBefore(Outer, at.i) = FileNames(Outer)
    BY <1>2, <2>1, HeadAndEnd
  <2>6. CASE wildcards = << >>
    <3>1. ~HasWild(Outer)
      <4>1. Range(wildcards) = {}
        BY <2>6 DEF Range
      <4>2. QED
        BY <1>2, <2>5, <4>1 DEF Listed, HasWild
    <3>2. doc' = doc /\ Wilds(Outer) = {}
      BY <1>1, <2>6, <3>1 DEF Wilds, HasWild
    <3>3. SameOutline(doc', doc) /\ doc'[at.t].body[at.s].items = Outer
      BY <3>2 DEF SameOutline, SameBlocks, Outer
    <3>4. Listing'
      <4>1. FileNames(Outer) = FileNames(Outer) \union Wilds(Outer)
        BY <3>2
      <4>2. \A u \in DOMAIN doc : \A r \in DOMAIN doc[u].body :
              u # at.t \/ r # at.s => doc'[u].body[r] = doc[u].body[r]
        BY <3>2
      <4>3. QED
        BY <1>1, <1>2, <2>3, <2>4, <3>1, <3>3, <4>1, <4>2, SectionLeft
    <3>5. Placed'
      BY <1>1, <1>3, <3>2, PlacedMoves DEF Phases
    <3>6. QED
      BY <3>4, <3>5
  <2>7. CASE wildcards # << >>
    <3>1. HasWild(Outer)
      BY <1>2, <2>7 DEF Listed
    <3>2. doc' = With(doc, at.t, at.s, Expanded)
      BY <1>1, <1>5, <2>7 DEF WithList, With
    <3>3. /\ Expanded \in Seq(Items)
          /\ \A k \in DOMAIN Expanded : Expanded[k].op = "file"
          /\ FileNames(Expanded) = Range(sourceFiles) \union
                UNION {w.matches \intersect Range(FileList) : w \in Range(wildcards)}
      BY <1>2, ExpandedMeans
    <3> DEFINE items == Expanded
    <3>4. items = Expanded /\ items \in Seq(Items) /\ doc' = With(doc, at.t, at.s, items)
      BY <3>2, <3>3
    <3> HIDE DEF items
    <3>5. /\ doc' \in Seq(Blocks) /\ SameOutline(doc', doc) /\ doc'[at.t].body[at.s].items = items
          /\ \A u \in DOMAIN doc : \A r \in DOMAIN doc[u].body :
               u # at.t \/ r # at.s => doc'[u].body[r] = doc[u].body[r]
      <4>1. doc \in Seq(Blocks) /\ at.t \in DOMAIN doc /\ at.s \in DOMAIN doc[at.t].body
        BY <1>2
      <4>2. ASSUME NEW e, e = With(doc, at.t, at.s, items)
            PROVE  /\ e \in Seq(Blocks) /\ SameOutline(e, doc) /\ e[at.t].body[at.s].items = items
                   /\ \A u \in DOMAIN doc : \A r \in DOMAIN doc[u].body :
                        u # at.t \/ r # at.s => e[u].body[r] = doc[u].body[r]
        BY ONLY <3>4, <4>1, <4>2, WithTyped
      <4>3. QED
        BY ONLY <3>4, <4>2
    <3>6. \A k \in DOMAIN items : items[k].op = "file"
      BY <3>3, <3>4
    <3>7. Tidy(items) /\ ~HasWild(items) /\ Outs(items) = {} /\ Refs(items) = {}
      BY <3>6 DEF Tidy, HasWild, Outs, Refs
    <3>8. \A k \in DOMAIN Outer : Outer[k].op \in {"wild", "file"}
      BY <1>2, <3>1 DEF Tidy, HasWild
    <3>9. Outs(Outer) = {} /\ Refs(Outer) = {}
      BY <3>8 DEF Outs, Refs
    <3>10. FileNames(items) = FileNames(Outer) \union Wilds(Outer)
      <4>1. /\ Range(sourceFiles) = FileNames(Outer)
            /\ Range(wildcards) = {Outer[k] : k \in {k \in DOMAIN Outer : Outer[k].op = "wild"}}
        BY <1>2, <2>5, <3>1 DEF Listed
      <4>2. UNION {w.matches \intersect Range(FileList) : w \in Range(wildcards)} = Wilds(Outer)
        BY <4>1 DEF Wilds
      <4>3. QED
        BY <3>3, <3>4, <4>1, <4>2
    <3>11. Listing'
      BY <1>1, <1>2, <2>3, <2>4, <3>5, <3>7, <3>9, <3>10, SectionLeft
    <3>12. Placed'
      BY <1>1, <1>2, <2>3, <3>5 DEF Placed, SameOutline, SameBlocks, Phases
    <3>13. QED
      BY <3>11, <3>12
  <2>8. QED
    BY <2>6, <2>7
<1>6. QED
  BY <1>4, <1>5

\* The end of a block, in any phase but the first: all of its sections are done.
LEMMA BlockEnds ==
  ASSUME Placed, NextBlock, phase # "resolve_sources"
  PROVE  /\ Placed' /\ at' = [t |-> at.t + 1, s |-> 1, i |-> 0, j |-> 0]
         /\ UNCHANGED <<project, doc, phase, inSources, wildcards, sourceFiles>>
         /\ ~InBody /\ at.t \in DOMAIN doc /\ at.s \notin DOMAIN doc[at.t].body
         /\ \A t \in DOMAIN doc : \A s \in DOMAIN doc[t].body :
              SectionBefore(t, s)' => SectionBefore(t, s)
<1>1. /\ UNCHANGED <<project, doc, phase, inSources, wildcards, sourceFiles>>
      /\ at' = [Start EXCEPT !.t = at.t + 1] /\ ~InBody /\ at.t <= Len(doc)
  BY DEF NextBlock
<1>2. at \in Positions /\ doc \in Seq(Blocks) /\ phase \in Phases
  BY DEF Placed
<1>3. at' = [t |-> at.t + 1, s |-> 1, i |-> 0, j |-> 0]
  BY <1>1 DEF Start
<1>4. at' \in Positions /\ at'.j = 0
  BY <1>2, <1>3 DEF Positions
<1>5. Placed'
  <2>1. phase' \in Phases
    BY <1>1, <1>2
  <2>2. Seat(at')
    BY <1>4 DEF Seat
  <2>3. QED
    BY <1>1, <2>1, <2>2, PlacedMoves
<1>6. at.t \in DOMAIN doc
  BY <1>1, <1>2, LenProperties DEF Positions
<1>7. ~(at.s <= Len(doc[at.t].body))
  BY <1>1 DEF InBody, Skipped
<1>8. \A s \in DOMAIN doc[at.t].body : s \in Nat /\ s < at.s
  <2>1. doc[at.t].body \in Seq(Sections) /\ at.s \in Nat
    BY <1>2, <1>6, PartsTyped DEF Positions
  <2>2. QED
    BY <1>7, <2>1, LenProperties
<1>9. at.s \notin DOMAIN doc[at.t].body
  BY <1>2, <1>8 DEF Positions
<1>10. ASSUME NEW t \in DOMAIN doc, NEW s \in DOMAIN doc[t].body, SectionBefore(t, s)'
       PROVE  SectionBefore(t, s)
  <2>1. t \in Nat /\ s \in Nat \ {0}
    <3>1. doc[t].body \in Seq(Sections)
      BY <1>2, PartsTyped
    <3>2. QED
      BY <1>2, <3>1, RowElements
  <2>2. t < at.t + 1
    BY <1>2, <1>3, <1>10, <2>1 DEF SectionBefore, Positions
  <2>3. QED
    BY <1>2, <1>8, <2>1, <2>2 DEF SectionBefore, Positions
<1>11. QED
  BY <1>1, <1>3, <1>5, <1>6, <1>9, <1>10

\* The visitor of wildcards goes to the next block.
LEMMA BlockListing ==
  ASSUME Placed, Listing, NextBlock, phase = "resolve_wildcards"
  PROVE  Placed' /\ Listing'
<1>1. /\ Placed' /\ at' = [t |-> at.t + 1, s |-> 1, i |-> 0, j |-> 0]
      /\ UNCHANGED <<project, doc, phase, inSources, wildcards, sourceFiles>>
      /\ ~InBody /\ at.t \in DOMAIN doc /\ at.s \notin DOMAIN doc[at.t].body
      /\ \A t \in DOMAIN doc : \A s \in DOMAIN doc[t].body :
           SectionBefore(t, s)' => SectionBefore(t, s)
  BY BlockEnds
<1>2. at'.i = 0 /\ ~(at'.i > 0)
  BY <1>1
<1>3. at.i = 0
  BY <1>1 DEF Listing, Placed, Positions
<1>4. wildcards' = << >> /\ sourceFiles' = << >>
  BY <1>1, <1>3 DEF Listing
<1>5. \A t \in DOMAIN doc' : \A s \in DOMAIN doc'[t].body :
       /\ Tidy(doc'[t].body[s].items)
       /\ SectionBefore(t, s)' => ~HasWild(doc'[t].body[s].items)
       /\ project'[t].kind # "template" => Kept(doc'[t].body[s].items, project'[t].body[s].items)
  BY <1>1 DEF Listing
<1>6. SameOutline(doc', project')
  BY <1>1 DEF Listing
<1>7. wildcards' \in Seq(Plain) /\ sourceFiles' \in Seq(Seq(STRING))
  BY <1>1 DEF Listing
<1>8. QED
  BY <1>1, <1>2, <1>4, <1>5, <1>6, <1>7 DEF Listing

\* Wildcards are resolved after the names.
LEMMA ListingStarts ==
  ASSUME Placed, Resolving, NextPhase, phase = "resolve_sources", ~Missed, Regular,
         wildcards = << >>, sourceFiles = << >>
  PROVE  Placed' /\ Listing'
<1>1. /\ at.t > Len(doc) /\ at' = [t |-> 1, s |-> 1, i |-> 0, j |-> 0]
      /\ UNCHANGED <<project, doc, wildcards, sourceFiles>>
      /\ phase' \in Phases
  BY DEF NextPhase, Start, Phases
<1>2. Past1(at) = Read
  BY <1>1, AllRead
<1>3. at' \in Positions /\ at'.i = 0 /\ at'.j = 0
  BY <1>1 DEF Positions
<1>4. Placed'
  BY <1>1, <1>3, PlacedMoves DEF Seat
<1>5. SameOutline(doc', project') /\ SameOutline(doc, project)
  BY <1>1 DEF Resolving
<1>6. ASSUME NEW t \in DOMAIN doc, NEW s \in DOMAIN doc[t].body
      PROVE  /\ Tidy(doc[t].body[s].items) /\ ~SectionBefore(t, s)'
             /\ project[t].kind # "template" => Kept(doc[t].body[s].items, project[t].body[s].items)
  <2>1. t \in DOMAIN project /\ s \in DOMAIN project[t].body
    BY <1>5 DEF SameOutline, SameBlocks
  <2>2. t \in Nat \ {0} /\ s \in Nat \ {0}
    <3>1. doc \in Seq(Blocks) /\ doc[t].body \in Seq(Sections)
      BY PartsTyped DEF Placed
    <3>2. QED
      BY <3>1, RowElements
  <2>3. ~SectionBefore(t, s)'
    BY <1>1, <2>2 DEF SectionBefore
  <2>4. QED
    BY <1>2, <2>1, <2>3, ReadMeans
<1>7. \A t \in DOMAIN doc' : \A s \in DOMAIN doc'[t].body :
       /\ Tidy(doc'[t].body[s].items)
       /\ SectionBefore(t, s)' => ~HasWild(doc'[t].body[s].items)
       /\ project'[t].kind # "template" => Kept(doc'[t].body[s].items, project'[t].body[s].items)
  BY <1>1, <1>6
<1>8. wildcards' \in Seq(Plain) /\ sourceFiles' \in Seq(Seq(STRING))
  BY <1>1, EmptySeq
<1>9. QED
  BY <1>1, <1>3, <1>4, <1>5, <1>7, <1>8 DEF Listing

-----------------------------------------------------------------------------
\* The blocks that can be imported.
Targets == {t \in DOMAIN project : project[t].kind \in {"program", "library"}}

\* Blocks are found by their kind and name, which do not change.
LEMMA SameLookup ==
  ASSUME SameBlocks(doc', doc)
  PROVE  \A n : Lookup(n)' = Lookup(n)
<1> SUFFICES ASSUME NEW n PROVE Lookup(n)' = Lookup(n)
  OBVIOUS
<1> DEFINE named(kind) == {t \in DOMAIN doc : doc[t].kind = kind /\ doc[t].name = n}
           after(kind) == {t \in DOMAIN doc' : doc'[t].kind = kind /\ doc'[t].name = n}
           Found1(p, l) == IF (IF p # {} THEN p ELSE l) = {} THEN 0
                           ELSE CHOOSE t \in (IF p # {} THEN p ELSE l) : TRUE
<1>1. after("program") = named("program") /\ after("library") = named("library")
  BY DEF SameBlocks
<1>2. Lookup(n) = Found1(named("program"), named("library"))
  BY DEF Lookup
<1>3. Lookup(n)' = Found1(after("program"), after("library"))
  BY DEF Lookup
<1> HIDE DEF named, after, Found1
<1>4. QED
  BY <1>1, <1>2, <1>3

\* What is found is a program or a library.
LEMMA LookupFinds ==
  ASSUME Placed, NEW n, Lookup(n) # 0 \/ Lookup(n) \in DOMAIN project
  PROVE  Lookup(n) \in Targets /\ Lookup(n) \in DOMAIN doc
<1> DEFINE named(kind) == {t \in DOMAIN doc : doc[t].kind = kind /\ doc[t].name = n}
           among == IF named("program") # {} THEN named("program") ELSE named("library")
<1>1. Lookup(n) = IF among = {} THEN 0 ELSE CHOOSE t \in among : TRUE
  BY DEF Lookup
<1>2. \A t \in among : t \in DOMAIN doc /\ doc[t].kind \in {"program", "library"}
  OBVIOUS
<1>3. 0 \notin DOMAIN project
  BY RowElements DEF Placed
<1> HIDE DEF among
<1>4. Lookup(n) \in among
  BY <1>1, <1>3
<1>5. QED
  BY <1>2, <1>4 DEF Targets, Placed, SameBlocks

\* Imports, over any number of targets, is the least closed set.
LEMMA ImportsClosed ==
  ASSUME project \in Seq(Blocks), NEW t \in DOMAIN project
  PROVE  /\ t \in Imports(t) /\ Imports(t) \subseteq DOMAIN project
         /\ \A u \in Imports(t) : RefersTo[u] \subseteq Imports(t)
         /\ \A M \in SUBSET DOMAIN project :
              t \in M /\ (\A u \in M : RefersTo[u] \subseteq M) => Imports(t) \subseteq M
<1> DEFINE Base == DOMAIN project
<1>1. IsFiniteSet(Base)
  BY LenProperties, FS_Interval
<1>2. RefersTo \in [Base -> SUBSET Base]
  BY DEF RefersTo
<1>3. Imports(t) = Reach(Base, {t}, RefersTo)
  BY DEF Imports
<1>4. {t} \in SUBSET Base
  OBVIOUS
<1> HIDE DEF Base
<1>5. /\ Imports(t) \in SUBSET Base /\ {t} \subseteq Imports(t)
      /\ \A x \in Imports(t) : RefersTo[x] \subseteq Imports(t)
      /\ \A X \in SUBSET Base :
           {t} \subseteq X /\ (\A x \in X : RefersTo[x] \subseteq X) => Imports(t) \subseteq X
  BY ONLY <1>1, <1>2, <1>3, <1>4, ReachLeast
<1>6. QED
  BY <1>5 DEF Base

\* What an imported target imports is imported.
LEMMA ImportsGoOn ==
  ASSUME project \in Seq(Blocks), NEW t \in DOMAIN project, NEW u \in Imports(t)
  PROVE  Imports(u) \subseteq Imports(t)
<1>1. u \in DOMAIN project /\ Imports(t) \in SUBSET DOMAIN project
      /\ \A x \in Imports(t) : RefersTo[x] \subseteq Imports(t)
  BY ImportsClosed
<1>2. QED
  BY <1>1, ImportsClosed

\* What depends on the document as it was parsed, and on names of blocks.
LEMMA SameImports ==
  ASSUME UNCHANGED project, SameBlocks(doc', doc)
  PROVE  /\ RefersTo' = RefersTo /\ Targets' = Targets
         /\ \A t : Imports(t)' = Imports(t)
<1>1. \A n : Lookup(n)' = Lookup(n)
  BY SameLookup
<1>2. \A t : ItemsOf(t)' = ItemsOf(t)
  BY DEF ItemsOf, ListsOf
<1> DEFINE found(t) == {Lookup(x.name) : x \in {x \in ItemsOf(t) : x.op = "ref"}}
           after(t) == {Lookup(x.name)' : x \in {x \in ItemsOf(t)' : x.op = "ref"}}
<1>3. \A t : after(t) = found(t)
  BY <1>1, <1>2
<1>4. RefersTo = [t \in DOMAIN project |-> found(t) \intersect DOMAIN project]
  BY DEF RefersTo
<1>5. RefersTo' = [t \in DOMAIN project |-> after(t) \intersect DOMAIN project]
  BY DEF RefersTo
<1> HIDE DEF found, after
<1>6. RefersTo' = RefersTo
  BY <1>3, <1>4, <1>5, Zenon
<1>7. \A t : Imports(t)' = Imports(t)
  BY <1>6 DEF Imports
<1>8. QED
  BY <1>6, <1>7 DEF Targets

\* In a regular document the imports of a block are in sources sections of its own.
LEMMA RegularRefs ==
  ASSUME Placed, Regular, NEW u \in DOMAIN project
  PROVE  /\ \A r \in DOMAIN project[u].body : \A n \in Refs(project[u].body[r].items) :
              /\ project[u].body[r].own
              /\ Lookup(n) # 0 => Lookup(n) \in RefersTo[u]
         /\ \A v \in RefersTo[u] : \E r \in DOMAIN project[u].body :
              project[u].body[r].own /\ \E n \in Refs(project[u].body[r].items) : v = Lookup(n)
<1>1. /\ \A r \in DOMAIN project[u].body : \A x \in Range(project[u].body[r].items) :
           /\ x.op \in {"ref", "exclude"} => project[u].body[r].own
           /\ x \in ItemsOf(u)
  BY DEF Regular, ItemsOf, ListsOf
<1>2. ASSUME NEW r \in DOMAIN project[u].body, NEW n \in Refs(project[u].body[r].items)
      PROVE  /\ project[u].body[r].own
             /\ Lookup(n) # 0 => Lookup(n) \in RefersTo[u]
  <2>1. PICK k \in DOMAIN project[u].body[r].items :
          /\ project[u].body[r].items[k].op = "ref"
          /\ project[u].body[r].items[k].name = n
    BY DEF Refs
  <2> DEFINE x == project[u].body[r].items[k]
  <2>2. x \in Range(project[u].body[r].items) /\ x.op = "ref" /\ x.name = n
    BY <2>1 DEF Range
  <2> HIDE DEF x
  <2>3. x \in ItemsOf(u) /\ project[u].body[r].own
    BY <1>1, <2>2
  <2>4. Lookup(n) # 0 => Lookup(n) \in DOMAIN project
    BY LookupFinds DEF Targets
  <2>5. QED
    BY <2>2, <2>3, <2>4 DEF RefersTo
<1>3. ASSUME NEW v \in RefersTo[u]
      PROVE  \E r \in DOMAIN project[u].body :
               project[u].body[r].own /\ \E n \in Refs(project[u].body[r].items) : v = Lookup(n)
  <2>1. PICK x \in ItemsOf(u) : x.op = "ref" /\ v = Lookup(x.name)
    BY DEF RefersTo
  <2>2. PICK l \in ListsOf(u) : x \in Range(l)
    BY DEF ItemsOf
  <2>3. CASE \E r \in DOMAIN project[u].body : l = project[u].body[r].items
    <3>1. PICK r \in DOMAIN project[u].body : l = project[u].body[r].items
      BY <2>3
    <3>2. project[u].body[r].own
      BY <1>1, <2>1, <2>2, <3>1
    <3>3. x.name \in Refs(project[u].body[r].items)
      BY <2>1, <2>2, <3>1 DEF Refs, Range
    <3>4. QED
      BY <2>1, <3>2, <3>3
  <2>4. CASE \E r \in DOMAIN project[u].body : \E k \in DOMAIN project[u].body[r].items :
               /\ project[u].body[r].items[k].op = "exclude"
               /\ l = project[u].body[r].items[k].items
    <3>1. PICK r \in DOMAIN project[u].body : \E k \in DOMAIN project[u].body[r].items :
             /\ project[u].body[r].items[k].op = "exclude"
             /\ l = project[u].body[r].items[k].items
      BY <2>4
    <3>2. Tidy(project[u].body[r].items)
      BY RegularLists
    <3>3. QED
      BY <2>1, <2>2, <3>1, <3>2 DEF Tidy, Range
  <2>5. QED
    BY <2>3, <2>4 DEF ListsOf
<1>4. QED
  BY <1>2, <1>3

-----------------------------------------------------------------------------
\* The visitor has been at item k of section s of block t.
Came(t, s, k) == SectionBefore(t, s) \/ (t = at.t /\ s = at.s /\ k < at.i)

\* What the last two phases look for; they leave none of it behind.
Sought == IF phase = "resolve_sourcesref" THEN "ref" ELSE "exclude"
Cleared ==
  \A t \in Targets : \A s \in DOMAIN doc[t].body : \A k \in DOMAIN doc[t].body[s].items :
    Came(t, s, k) => doc[t].body[s].items[k].op # Sought

\* The numbers of blocks, sections and items.
LEMMA PlaceNumbers ==
  ASSUME NEW d \in Seq(Blocks), NEW t \in DOMAIN d, NEW s \in DOMAIN d[t].body,
         NEW k \in DOMAIN d[t].body[s].items
  PROVE  t \in Nat \ {0} /\ s \in Nat \ {0} /\ k \in Nat \ {0}
<1>1. d[t].body \in Seq(Sections) /\ d[t].body[s].items \in Seq(Items)
  BY PartsTyped
<1>2. QED
  BY <1>1, RowElements

\* What is behind the visitor when it goes on in the same section.
LEMMA CameTo ==
  ASSUME Placed, at'.t = at.t, at'.s = at.s, at'.i = at.i \/ at'.i = at.i + 1,
         NEW t, NEW s, NEW k \in Nat, Came(t, s, k)'
  PROVE  Came(t, s, k) \/ (t = at.t /\ s = at.s /\ k = at.i /\ at'.i = at.i + 1)
BY DEF Came, SectionBefore, Placed, Positions

\* Steps of the last two phases that change nothing leave nothing behind.
LEMMA WalkOn ==
  ASSUME Placed, Pass \/ PassList \/ NextBlock, phase \in {"resolve_sourcesref", "exclude"},
         phase = "exclude" => at.j = 0
  PROVE  /\ Placed' /\ UNCHANGED <<project, doc, phase>>
         /\ phase = "exclude" => at'.j = 0
         /\ \A t \in DOMAIN doc : \A s \in DOMAIN doc[t].body :
              \A k \in DOMAIN doc[t].body[s].items :
                Came(t, s, k)' => Came(t, s, k) \/ doc[t].body[s].items[k].op # Sought
<1>1. at \in Positions /\ doc \in Seq(Blocks) /\ phase \in Phases
  BY DEF Placed
<1> DEFINE NoneLeft == \A t \in DOMAIN doc : \A s \in DOMAIN doc[t].body :
              \A k \in DOMAIN doc[t].body[s].items :
                Came(t, s, k)' => Came(t, s, k) \/ doc[t].body[s].items[k].op # Sought
<1>2. CASE NextBlock
  <2>1. /\ Placed' /\ at' = [t |-> at.t + 1, s |-> 1, i |-> 0, j |-> 0]
        /\ UNCHANGED <<project, doc, phase>>
        /\ \A t \in DOMAIN doc : \A s \in DOMAIN doc[t].body :
             SectionBefore(t, s)' => SectionBefore(t, s)
    BY <1>2, BlockEnds
  <2>2. at'.i = 0 /\ at'.j = 0
    BY <2>1
  <2>3. NoneLeft
    BY <1>1, <2>1, <2>2, PlaceNumbers DEF Came
  <2>4. QED
    BY <2>1, <2>2, <2>3
<1>3. CASE Pass
  <2>1. /\ AtItem /\ at' = Past /\ UNCHANGED <<project, doc, phase>>
        /\ Item.op # Sought
    BY <1>3 DEF Pass, Sought
  <2>2. at.i > 0 /\ Seat(Past)
    BY <2>1, AtSpot, PastSeat
  <2>3. Placed'
    BY <1>1, <2>1, <2>2, PlacedMoves
  <2>4. CASE Nested
    <3>1. at'.t = at.t /\ at'.s = at.s /\ at'.i = at.i
      BY <1>1, <2>1, <2>4 DEF Past, Positions
    <3>2. NoneLeft
      BY <1>1, <3>1 DEF Came, SectionBefore
    <3>3. phase # "exclude"
      BY <2>4 DEF Nested
    <3>4. QED
      BY <2>1, <2>3, <3>2, <3>3
  <2>5. CASE ~Nested
    <3>1. at'.t = at.t /\ at'.s = at.s /\ at'.i = at.i + 1 /\ at'.j = at.j
      BY <1>1, <2>1, <2>5 DEF Past, Positions
    <3>2. Item = doc[at.t].body[at.s].items[at.i]
      BY <2>5 DEF Item, List, Here, Outer
    <3>3. NoneLeft
      BY <1>1, <2>1, <3>1, <3>2, CameTo, PlaceNumbers
    <3>4. QED
      BY <2>1, <2>3, <3>1, <3>3
  <2>6. QED
    BY <2>4, <2>5
<1>4. CASE PassList /\ AtList /\ at' = Inside
  <2>1. UNCHANGED <<project, doc, phase>> /\ Seat(Inside)
    BY <1>4, InsideSeat DEF PassList
  <2>2. Placed'
    BY <1>1, <1>4, <2>1, PlacedMoves
  <2>3. CASE at.i = 0
    <3>1. at'.t = at.t /\ at'.s = at.s /\ at'.i = 1 /\ at'.j = at.j
      BY <1>1, <1>4, <2>3 DEF Inside, Positions
    <3>2. NoneLeft
      BY <1>1, <3>1, PlaceNumbers DEF Came, SectionBefore
    <3>3. QED
      BY <2>1, <2>2, <3>1, <3>2
  <2>4. CASE at.i # 0
    <3>1. at'.t = at.t /\ at'.s = at.s /\ at'.i = at.i
      BY <1>1, <1>4, <2>4 DEF Inside, Positions
    <3>2. NoneLeft
      BY <1>1, <3>1 DEF Came, SectionBefore
    <3>3. phase # "exclude"
      BY <1>4, <2>4 DEF AtList
    <3>4. QED
      BY <2>1, <2>2, <3>2, <3>3
  <2>5. QED
    BY <2>3, <2>4
<1>5. CASE PassList /\ AtEnd /\ at' = Behind
  <2>1. UNCHANGED <<project, doc, phase>> /\ Seat(Behind) /\ InBody /\ at.i > 0 /\ Here > Len(List)
    BY <1>5, BehindSeat DEF PassList, AtEnd
  <2>2. Placed'
    BY <1>1, <1>5, <2>1, PlacedMoves
  <2>3. CASE Nested
    <3>1. at'.t = at.t /\ at'.s = at.s /\ at'.i = at.i + 1
      BY <1>1, <1>5, <2>3 DEF Behind, Positions
    <3>2. phase # "exclude" /\ Outer[at.i].op = "exclude"
      BY <2>3 DEF Nested, Placed
    <3>3. doc[at.t].body[at.s].items[at.i].op # Sought
      BY <3>2 DEF Sought, Outer
    <3>4. NoneLeft
      BY <1>1, <3>1, <3>3, CameTo, PlaceNumbers
    <3>5. QED
      BY <2>1, <2>2, <3>2, <3>4
  <2>4. CASE ~Nested
    <3>0. at.j = 0
      BY <1>1, <2>4 DEF Nested, Positions
    <3>1. at' = [t |-> at.t, s |-> at.s + 1, i |-> 0, j |-> 0]
      BY <1>1, <1>5, <2>4, <3>0 DEF Behind, Positions
    <3>2. at.i > Len(Outer) /\ Outer \in Seq(Items)
      BY <2>1, <2>4, InTheList DEF Here, List
    <3>3. \A k \in DOMAIN Outer : k < at.i
      BY <1>1, <3>2, LenProperties DEF Positions
    <3>4. NoneLeft
      BY <1>1, <3>1, <3>3, PlaceNumbers DEF Came, SectionBefore, Outer, Positions
    <3>5. QED
      BY <2>1, <2>2, <3>0, <3>1, <3>4
  <2>5. QED
    BY <2>3, <2>4
<1>6. QED
  BY <1>2, <1>3, <1>4, <1>5 DEF PassList

-----------------------------------------------------------------------------
\* The excludes of a list hold plain names only.
Simple(l) ==
  \A i \in DOMAIN l : l[i].op = "exclude" => \A j \in DOMAIN l[i].items : l[i].items[j].op = "file"

\* A section of the document means what that of the project says, but for
\* imports that have been done.
Means(sec, of) ==
  /\ sec.own = of.own
  /\ FileNames(sec.items) = Written(of.items)
  /\ Outs(sec.items) = Excluded(of.items)
  /\ Refs(sec.items) \subseteq Refs(of.items)
  /\ Simple(sec.items)

\* What block t still has to import.
Awaited(block) ==
  UNION {Refs(block.body[s].items) : s \in {s \in DOMAIN block.body : block.body[s].own}}
Pending(t) == {Lookup(n) : n \in Awaited(doc[t])}

\* Block t has the sections of the blocks M, and M lacks what is pending only.
Gathered(t, M) ==
  /\ t \in M
  /\ \A u \in M :
       /\ \A r \in DOMAIN project[u].body : project[u].body[r].own =>
            \E s \in DOMAIN doc[t].body : Means(doc[t].body[s], project[u].body[r])
       /\ RefersTo[u] \subseteq M \union Pending(t)

\* The sections of block t are those of blocks it imports.
FromImports(t) ==
  \A s \in DOMAIN doc[t].body :
    \E u \in Imports(t) : \E r \in DOMAIN project[u].body :
      Means(doc[t].body[s], project[u].body[r])

\* While resolve_sourcesref runs the targets have what they have imported, no
\* more, and what that refers to is there or still to be imported.
Gathering ==
  /\ Cleared
  /\ \A t \in Targets : FromImports(t) /\ \E M \in SUBSET DOMAIN project : Gathered(t, M)

\* The files a target has, and those its excludes name.
OwnNames(t) ==
  UNION {FileNames(doc[t].body[s].items) : s \in {s \in DOMAIN doc[t].body : doc[t].body[s].own}}
AllOuts(t) == UNION {Outs(doc[t].body[s].items) : s \in DOMAIN doc[t].body}

\* What a target and all it imports list and exclude.
AllListed(t) == UNION {ListedIn(u) : u \in Imports(t)}
AllExcluded(t) == UNION {ExcludedIn(u) : u \in Imports(t)}

\* While exclude runs a file that is to go is there only as long as an exclude
\* that names it is.
Excluding ==
  /\ at.j = 0 /\ Cleared
  /\ \A t \in Targets :
       /\ OwnNames(t) \subseteq AllListed(t)
       /\ AllListed(t) \ AllExcluded(t) \subseteq OwnNames(t)
       /\ OwnNames(t) \intersect AllExcluded(t) \subseteq AllOuts(t)
       /\ AllOuts(t) \subseteq AllExcluded(t)

\* Blocks that stay as they are have the same sections, and await the same.
LEMMA GatheredStays ==
  ASSUME UNCHANGED project, SameBlocks(doc', doc), NEW t, doc'[t] = doc[t]
  PROVE  /\ FromImports(t)' <=> FromImports(t)
         /\ \A M : Gathered(t, M)' <=> Gathered(t, M)
<1>1. RefersTo' = RefersTo /\ Imports(t)' = Imports(t)
  BY SameImports
<1>2. \A n : Lookup(n)' = Lookup(n)
  BY SameLookup
<1>3. Pending(t)' = Pending(t)
  BY <1>2 DEF Pending, Awaited
<1>4. \A sec, of : Means(sec, of)' <=> Means(sec, of)
  <2>1. \A l : Written(l)' = Written(l) /\ Excluded(l)' = Excluded(l)
    BY DEF Written, Excluded, FilesOf, Found, Resolved, Known
  <2>2. QED
    BY <2>1 DEF Means
<1>5. FromImports(t)' <=> FromImports(t)
  BY <1>1, <1>4 DEF FromImports
<1>6. ASSUME NEW M PROVE Gathered(t, M)' <=> Gathered(t, M)
  BY <1>1, <1>3, <1>4 DEF Gathered
<1>7. QED
  BY <1>5, <1>6

\* A section without wildcards means what it says.
LEMMA KeptMeans ==
  ASSUME NEW sec, NEW of, sec.own = of.own, Tidy(sec.items), ~HasWild(sec.items),
         Kept(sec.items, of.items)
  PROVE  Means(sec, of)
<1>1. Wilds(sec.items) = {}
  BY DEF Wilds, HasWild
<1>2. Simple(sec.items)
  BY DEF Tidy, Simple
<1>3. QED
  BY <1>1, <1>2 DEF Means, Kept

\* Imports are resolved after the wildcards.
LEMMA GatheringStarts ==
  ASSUME Placed, Listing, Regular, NextPhase, phase = "resolve_wildcards"
  PROVE  Placed' /\ Gathering'
<1>1. /\ at.t > Len(doc) /\ at' = [t |-> 1, s |-> 1, i |-> 0, j |-> 0]
      /\ UNCHANGED <<project, doc>> /\ phase' \in Phases
  BY DEF NextPhase, Start, Phases
<1>2. at' \in Positions /\ at'.i = 0 /\ at'.j = 0
  BY <1>1 DEF Positions
<1>3. Placed'
  BY <1>1, <1>2, PlacedMoves DEF Seat
<1>4. SameBlocks(doc, project) /\ SameOutline(doc, project) /\ doc \in Seq(Blocks)
      /\ project \in Seq(Blocks) /\ at \in Positions
  BY DEF Placed, Listing
<1>5. ASSUME NEW t \in Targets, NEW s \in DOMAIN doc[t].body
      PROVE  /\ s \in DOMAIN project[t].body /\ Means(doc[t].body[s], project[t].body[s])
             /\ Refs(doc[t].body[s].items) = Refs(project[t].body[s].items)
  <2>1. t \in DOMAIN project /\ t \in DOMAIN doc /\ project[t].kind # "template"
    BY <1>4 DEF Targets, SameBlocks
  <2>2. SectionBefore(t, s)
    <3>1. t \in Nat /\ t <= Len(doc) /\ Len(doc) \in Nat
      BY <1>4, <2>1, LenProperties
    <3>2. QED
      BY <1>1, <1>4, <3>1 DEF SectionBefore, Positions
  <2>3. /\ s \in DOMAIN project[t].body /\ doc[t].body[s].own = project[t].body[s].own
    BY <1>4, <2>1 DEF SameOutline
  <2>4. Tidy(doc[t].body[s].items) /\ ~HasWild(doc[t].body[s].items)
        /\ Kept(doc[t].body[s].items, project[t].body[s].items)
    BY <2>1, <2>2 DEF Listing
  <2>5. QED
    BY <2>3, <2>4, KeptMeans DEF Kept
<1>6. ASSUME NEW t \in Targets PROVE FromImports(t) /\ Gathered(t, {t})
  <2>1. t \in DOMAIN project /\ t \in Imports(t)
    BY <1>4, ImportsClosed DEF Targets
  <2>2. FromImports(t)
    BY <1>5, <2>1 DEF FromImports
  <2>3. DOMAIN doc[t].body = DOMAIN project[t].body
    BY <1>4, <2>1 DEF SameOutline
  <2>4. RefersTo[t] \subseteq Pending(t)
    <3>1. ASSUME NEW v \in RefersTo[t] PROVE v \in Pending(t)
      <4>1. PICK r \in DOMAIN project[t].body :
              project[t].body[r].own /\ \E n \in Refs(project[t].body[r].items) : v = Lookup(n)
        BY <2>1, RegularRefs
      <4>2. /\ Means(doc[t].body[r], project[t].body[r]) /\ r \in DOMAIN doc[t].body
            /\ Refs(doc[t].body[r].items) = Refs(project[t].body[r].items)
        BY <1>5, <2>3
      <4>3. QED
        BY <4>1, <4>2 DEF Pending, Awaited, Means
    <3>2. QED
      BY <3>1
  <2>5. Gathered(t, {t})
    BY <1>5, <2>3, <2>4 DEF Gathered
  <2>6. QED
    BY <2>2, <2>5
<1>7. ASSUME NEW t \in Targets
      PROVE  FromImports(t)' /\ \E M \in SUBSET DOMAIN project' : Gathered(t, M)'
  <2>1. SameBlocks(doc', doc) /\ doc'[t] = doc[t] /\ {t} \in SUBSET DOMAIN project'
    BY <1>1 DEF SameBlocks, Targets
  <2>2. FromImports(t)' <=> FromImports(t)
    BY <1>1, <2>1, GatheredStays
  <2>3. \A M : Gathered(t, M)' <=> Gathered(t, M)
    BY <1>1, <2>1, GatheredStays
  <2>4. QED
    BY <1>6, <2>1, <2>2, <2>3
<1>8. Targets' = Targets
  BY <1>1 DEF Targets
<1>9. Cleared'
  <2>1. \A t \in Targets : \A s \in DOMAIN doc[t].body : \A k \in DOMAIN doc[t].body[s].items :
          ~Came(t, s, k)'
    <3>1. ASSUME NEW t \in Targets, NEW s \in DOMAIN doc[t].body,
                 NEW k \in DOMAIN doc[t].body[s].items
          PROVE  ~Came(t, s, k)'
      <4>1. t \in DOMAIN doc
        BY <1>4 DEF Targets, SameBlocks
      <4>2. t \in Nat \ {0} /\ s \in Nat \ {0} /\ k \in Nat \ {0}
        BY <1>4, <4>1, PlaceNumbers
      <4>3. QED
        BY <1>1, <4>2 DEF Came, SectionBefore
    <3>2. QED
      BY <3>1
  <2>2. QED
    BY <1>1, <1>8, <2>1 DEF Cleared
<1>10. QED
  BY <1>3, <1>7, <1>8, <1>9 DEF Gathering

\* Steps that only walk on.
LEMMA WalkGathering ==
  ASSUME Placed, Gathering, Pass \/ PassList \/ NextBlock, phase = "resolve_sourcesref"
  PROVE  Placed' /\ Gathering'
<1>1. /\ Placed' /\ UNCHANGED <<project, doc, phase>>
      /\ \A t \in DOMAIN doc : \A s \in DOMAIN doc[t].body : \A k \in DOMAIN doc[t].body[s].items :
           Came(t, s, k)' => Came(t, s, k) \/ doc[t].body[s].items[k].op # Sought
  BY WalkOn
<1>2. Targets' = Targets /\ Targets \subseteq DOMAIN doc /\ SameBlocks(doc', doc)
  BY <1>1 DEF Targets, Placed, SameBlocks
<1>3. Cleared'
  BY <1>1, <1>2 DEF Gathering, Cleared, Sought
<1>4. \A t \in Targets : FromImports(t)' <=> FromImports(t)
  BY <1>1, <1>2, GatheredStays
<1>5. \A t \in Targets : \A M : Gathered(t, M)' <=> Gathered(t, M)
  BY <1>1, <1>2, GatheredStays
<1>6. QED
  BY <1>1, <1>2, <1>3, <1>4, <1>5 DEF Gathering

-----------------------------------------------------------------------------
\* A document with the body of block t replaced.
Bodied(d, t, body) == [d EXCEPT ![t].body = body]

\* Replacing the body of a block changes no other one.
LEMMA WithBody ==
  ASSUME NEW d \in Seq(Blocks), NEW t \in DOMAIN d, NEW body \in Seq(Sections)
  PROVE  /\ Bodied(d, t, body) \in Seq(Blocks) /\ SameBlocks(Bodied(d, t, body), d)
         /\ Bodied(d, t, body)[t].body = body
         /\ \A u \in DOMAIN d : u # t => Bodied(d, t, body)[u] = d[u]
<1> SUFFICES ASSUME NEW e, e = Bodied(d, t, body)
             PROVE  /\ e \in Seq(Blocks) /\ SameBlocks(e, d) /\ e[t].body = body
                    /\ \A u \in DOMAIN d : u # t => e[u] = d[u]
  OBVIOUS
<1> DEFINE V == Seq(Sections)
           K == {"program", "library", "template", "toplevel"}
           block == [d[t] EXCEPT !.body = body]
<1>1. d[t] \in [kind : K, name : STRING, body : V]
  BY PartsTyped DEF Blocks
<1>2. body \in V
  OBVIOUS
<1> HIDE DEF V, K
<1>3. /\ block \in [kind : K, name : STRING, body : V] /\ block.body = body
      /\ block.kind = d[t].kind /\ block.name = d[t].name
  BY <1>1, <1>2
<1>4. e = [d EXCEPT ![t] = block] /\ d \in Seq(Blocks) /\ t \in DOMAIN d
  BY DEF Bodied
<1> HIDE DEF block
<1>5. block \in Blocks
  BY <1>3 DEF Blocks, V, K
<1>6. e \in Seq(Blocks)
  BY ONLY <1>4, <1>5, RowWith
<1>7. DOMAIN e = DOMAIN d /\ e[t] = block /\ \A u \in DOMAIN d : u # t => e[u] = d[u]
  BY <1>4
<1>8. QED
  BY <1>3, <1>6, <1>7 DEF SameBlocks

\* Two rows in one.
LEMMA RowBehind ==
  ASSUME NEW T, NEW a \in Seq(T), NEW b \in Seq(T), NEW c, c = a \o b
  PROVE  /\ c \in Seq(T)
         /\ \A k \in DOMAIN a : k \in DOMAIN c /\ c[k] = a[k]
         /\ \A k \in DOMAIN c : k \in DOMAIN a \/ c[k] \in Range(b)
         /\ Range(b) \subseteq Range(c)
<1>1. /\ c \in Seq(T) /\ Len(a) \in Nat /\ Len(b) \in Nat /\ Len(c) = Len(a) + Len(b)
      /\ \A i \in 1..(Len(a) + Len(b)) : c[i] = IF i <= Len(a) THEN a[i] ELSE b[i - Len(a)]
  BY ConcatProperties, LenProperties
<1>2. /\ DOMAIN a = 1..Len(a) /\ DOMAIN b = 1..Len(b) /\ DOMAIN c = 1..(Len(a) + Len(b))
  BY <1>1, LenProperties
<1>3. \A k \in DOMAIN a : k \in DOMAIN c /\ c[k] = a[k]
  BY <1>1, <1>2
<1>4. ASSUME NEW k \in DOMAIN c, k \notin DOMAIN a PROVE c[k] \in Range(b)
  <2>1. k - Len(a) \in DOMAIN b /\ c[k] = b[k - Len(a)]
    BY <1>1, <1>2, <1>4
  <2>2. QED
    BY <2>1 DEF Range
<1>5. ASSUME NEW x \in Range(b) PROVE x \in Range(c)
  <2>1. PICK i \in DOMAIN b : b[i] = x
    BY DEF Range
  <2>2. /\ i + Len(a) \in DOMAIN c /\ ~(i + Len(a) <= Len(a)) /\ (i + Len(a)) - Len(a) = i
    BY <1>1, <1>2
  <2>3. c[i + Len(a)] = x
    BY <1>1, <1>2, <2>1, <2>2
  <2>4. QED
    BY <2>2, <2>3 DEF Range
<1>6. QED
  BY <1>1, <1>3, <1>4, <1>5

\* The sources sections of a block.
LEMMA CopiesAre ==
  ASSUME doc \in Seq(Blocks), NEW t \in DOMAIN doc
  PROVE  /\ Copies(t) \in Seq(Sections)
         /\ Range(Copies(t)) = {doc[t].body[k] : k \in {k \in DOMAIN doc[t].body : doc[t].body[k].own}}
<1> DEFINE body == doc[t].body
           C == {k \in DOMAIN body : body[k].own}
<1>1. body \in Seq(Sections)
  BY PartsTyped
<1>2. Copies(t) = FlattenSeq(ChosenRows(body, C))
  <2>1. \A k \in DOMAIN body : k \in C <=> body[k].own
    OBVIOUS
  <2>2. Copies(t) = FlattenSeq([k \in DOMAIN body |-> IF body[k].own THEN <<body[k]>> ELSE << >>])
    BY DEF Copies
  <2> HIDE DEF C, body
  <2>3. ChosenRows(body, C) = [k \in DOMAIN body |-> IF body[k].own THEN <<body[k]>> ELSE << >>]
    BY <2>1, Zenon DEF ChosenRows
  <2>4. QED
    BY <2>2, <2>3
<1>3. FlattenSeq(ChosenRows(body, C)) \in Seq(Sections)
      /\ Range(FlattenSeq(ChosenRows(body, C))) = Chosen(body, C)
  <2> HIDE DEF C, body
  <2>1. QED
    BY ONLY <1>1, ChosenRow
<1>4. Chosen(body, C) = {body[k] : k \in C}
  BY DEF Chosen
<1>5. QED
  BY <1>2, <1>3, <1>4

\* A document with sections put to the end of the body of block t.
Grown(d, t, copies) == [d EXCEPT ![t].body = @ \o copies]

\* Document e is d, but for these sections behind those of block t.
MoreIn(e, d, t, copies) ==
  /\ e \in Seq(Blocks) /\ SameBlocks(e, d) /\ \A u \in DOMAIN d : u # t => e[u] = d[u]
  /\ \A s \in DOMAIN d[t].body : s \in DOMAIN e[t].body /\ e[t].body[s] = d[t].body[s]
  /\ \A s \in DOMAIN e[t].body : s \in DOMAIN d[t].body \/ e[t].body[s] \in Range(copies)
  /\ Range(copies) \subseteq Range(e[t].body)
  /\ Spots(d) \subseteq Spots(e) /\ \A p \in Spots(d) : ItemAt(e, p) = ItemAt(d, p)

\* A block with sections put to the end of its body.
LEMMA BodyGrows ==
  ASSUME NEW d \in Seq(Blocks), NEW t \in DOMAIN d, NEW copies \in Seq(Sections)
  PROVE  MoreIn(Grown(d, t, copies), d, t, copies)
<1> DEFINE old == d[t].body
           body == old \o copies
           e == Grown(d, t, copies)
<1>1. old \in Seq(Sections)
  BY PartsTyped
<1>2. old = d[t].body /\ e = Bodied(d, t, body)
  BY DEF Grown, Bodied
<1>3. body = old \o copies /\ copies \in Seq(Sections)
  OBVIOUS
<1> HIDE DEF old, body, e
<1>4. /\ body \in Seq(Sections)
      /\ \A k \in DOMAIN old : k \in DOMAIN body /\ body[k] = old[k]
      /\ \A k \in DOMAIN body : k \in DOMAIN old \/ body[k] \in Range(copies)
      /\ Range(copies) \subseteq Range(body)
  <2>1. body \in Seq(Sections)
    BY <1>1, <1>3, RowBehind
  <2>2. \A k \in DOMAIN old : k \in DOMAIN body /\ body[k] = old[k]
    BY <1>1, <1>3, RowBehind
  <2>3. \A k \in DOMAIN body : k \in DOMAIN old \/ body[k] \in Range(copies)
    BY <1>1, <1>3, RowBehind
  <2>4. Range(copies) \subseteq Range(body)
    BY <1>1, <1>3, RowBehind
  <2>5. QED
    BY <2>1, <2>2, <2>3, <2>4
<1>5. /\ e \in Seq(Blocks) /\ SameBlocks(e, d) /\ e[t].body = body
      /\ \A u \in DOMAIN d : u # t => e[u] = d[u]
  BY <1>2, <1>4, WithBody
<1>6. ASSUME NEW p \in Spots(d) PROVE p \in Spots(e) /\ ItemAt(e, p) = ItemAt(d, p)
  <2>1. p \in Positions /\ p.t \in DOMAIN d /\ p.s \in DOMAIN d[p.t].body
    BY DEF Spots
  <2>2. p.t \in DOMAIN e /\ p.s \in DOMAIN e[p.t].body /\ e[p.t].body[p.s] = d[p.t].body[p.s]
    <3>1. DOMAIN e = DOMAIN d
      BY <1>5 DEF SameBlocks
    <3>2. CASE p.t = t
      BY <1>2, <1>4, <1>5, <2>1, <3>1, <3>2
    <3>3. CASE p.t # t
      BY <1>5, <2>1, <3>1, <3>3
    <3>4. QED
      BY <3>2, <3>3
  <2>3. d[p.t].body[p.s].items = e[p.t].body[p.s].items
    BY <2>2
  <2>4. ItemAt(e, p) = ItemAt(d, p)
    BY <2>3 DEF ItemAt
  <2>5. p \in Spots(e)
    BY <2>1, <2>2, <2>3 DEF Spots
  <2>6. QED
    BY <2>4, <2>5
<1>7. MoreIn(e, d, t, copies)
  BY <1>2, <1>4, <1>5, <1>6 DEF MoreIn
<1>8. QED
  BY <1>7 DEF e

\* List m is l without an import of n.
LessRef(m, l, n) ==
  /\ FileNames(m) = FileNames(l) /\ Outs(m) = Outs(l)
  /\ Refs(m) \subseteq Refs(l) /\ Refs(l) \subseteq Refs(m) \union {n}
  /\ Simple(l) => Simple(m)

\* A list that has lost an import.
LEMMA RefDropped ==
  ASSUME NEW l, NEW i \in DOMAIN l, l[i].op = "ref"
  PROVE  LessRef([l EXCEPT ![i] = None], l, l[i].name)
<1> DEFINE m == [l EXCEPT ![i] = None]
<1>1. DOMAIN m = DOMAIN l /\ m[i].op = "none" /\ \A k \in DOMAIN l : k # i => m[k] = l[k]
  BY DEF None
<1> HIDE DEF m
<1>2. /\ {k \in DOMAIN m : m[k].op = "file"} = {k \in DOMAIN l : l[k].op = "file"}
      /\ {k \in DOMAIN m : m[k].op = "exclude"} = {k \in DOMAIN l : l[k].op = "exclude"}
  BY <1>1
<1>3. FileNames(m) = FileNames(l) /\ Outs(m) = Outs(l)
  BY <1>1, <1>2 DEF FileNames, Outs
<1>4. Refs(m) \subseteq Refs(l) /\ Refs(l) \subseteq Refs(m) \union {l[i].name}
  BY <1>1 DEF Refs
<1>5. Simple(l) => Simple(m)
  BY <1>1 DEF Simple
<1>6. LessRef(m, l, l[i].name)
  BY <1>3, <1>4, <1>5 DEF LessRef
<1>7. QED
  BY <1>6 DEF m

\* What an import of block v does to the block that the visitor is in.
ImportsBody(v) ==
  /\ ~Nested /\ v \in DOMAIN doc /\ v \in Targets
  /\ Item.name \in Refs(Outer) /\ at.s \in DOMAIN doc[at.t].body
  /\ \A s \in DOMAIN doc[at.t].body :
       /\ s \in DOMAIN doc'[at.t].body
       /\ s # at.s => doc'[at.t].body[s] = doc[at.t].body[s]
  /\ doc'[at.t].body[at.s].own = doc[at.t].body[at.s].own
  /\ at.i \in DOMAIN Outer /\ Outer[at.i].op = "ref" /\ Outer[at.i].name = Item.name
  /\ doc'[at.t].body[at.s].items = [Outer EXCEPT ![at.i] = None]
  /\ \A s \in DOMAIN doc'[at.t].body :
       \/ s \in DOMAIN doc[at.t].body
       \/ \E k \in DOMAIN doc[v].body : doc'[at.t].body[s] = doc[v].body[k]
  /\ \A k \in DOMAIN doc[v].body : doc[v].body[k].own =>
       \E s \in DOMAIN doc'[at.t].body : doc'[at.t].body[s] = doc[v].body[k]

\* It is what the step does.
LEMMA ImportedBody ==
  ASSUME Placed, Import, phase' = "resolve_sourcesref", at.t \in Targets, Simple(Outer),
         NEW v, v = Lookup(Item.name)
  PROVE  ImportsBody(v)
<1> DEFINE t == at.t
           items == [Outer EXCEPT ![at.i] = None]
           d == WithItem(None)
           copies == Copies(v)
<1>1. /\ AtItem /\ Item.op = "ref" /\ ~Undefined /\ doc \in Seq(Blocks) /\ at \in Positions
      /\ doc' = Grown(d, t, copies)
  BY DEF Import, Placed, Grown
<1>2. /\ at \in Spots(doc) /\ t \in DOMAIN doc /\ at.s \in DOMAIN doc[t].body
      /\ at.i \in DOMAIN Outer
      /\ at.j # 0 => Outer[at.i].op = "exclude" /\ at.j \in DOMAIN Outer[at.i].items
  <2>1. at \in Spots(doc)
    BY <1>1, AtSpot
  <2>2. QED
    BY <1>1, <2>1 DEF Spots, Outer
<1>3. ~Nested
  <2>1. Nested => Item = Outer[at.i].items[at.j]
    BY DEF Item, List, Here, Nested
  <2>2. QED
    BY <1>1, <1>2, <2>1 DEF Nested, Simple
<1>4. Item = Outer[at.i] /\ Item.name \in Refs(Outer)
  <2>1. Item = Outer[at.i]
    BY <1>3 DEF Item, List, Here
  <2>2. QED
    BY <1>1, <1>2, <2>1 DEF Refs
<1>5. v \in Targets /\ v \in DOMAIN doc
  BY <1>1, LookupFinds DEF Undefined
<1>6. /\ copies \in Seq(Sections)
      /\ Range(copies) = {doc[v].body[k] : k \in {k \in DOMAIN doc[v].body : doc[v].body[k].own}}
  BY <1>1, <1>5, CopiesAre
<1>7. d = With(doc, t, at.s, items)
  BY <1>3 DEF WithItem, WithList, List, Here, With
<1>8. items \in Seq(Items)
  <2>1. Outer \in Seq(Items) /\ None \in Items
    BY <1>1, <1>2, PartsTyped DEF Outer, Items, Plain
  <2>2. QED
    BY <1>2, <2>1, RowWith
<1>9. items = [Outer EXCEPT ![at.i] = None]
  OBVIOUS
<1> HIDE DEF d, copies, items
<1>10. /\ d \in Seq(Blocks) /\ SameOutline(d, doc) /\ d[t].body[at.s].items = items
       /\ \A u \in DOMAIN doc : \A r \in DOMAIN doc[u].body :
            u # t \/ r # at.s => d[u].body[r] = doc[u].body[r]
  <2>1. ASSUME NEW e, e = With(doc, t, at.s, items)
        PROVE  /\ e \in Seq(Blocks) /\ SameOutline(e, doc) /\ e[t].body[at.s].items = items
               /\ \A u \in DOMAIN doc : \A r \in DOMAIN doc[u].body :
                    u # t \/ r # at.s => e[u].body[r] = doc[u].body[r]
    BY ONLY <1>1, <1>2, <1>8, <2>1, WithTyped
  <2>2. QED
    BY ONLY <1>7, <2>1
<1>11. /\ t \in DOMAIN d /\ DOMAIN d[t].body = DOMAIN doc[t].body
       /\ d[t].body[at.s].own = doc[t].body[at.s].own
  BY <1>2, <1>10 DEF SameOutline, SameBlocks
<1>12. /\ \A s \in DOMAIN d[t].body : s \in DOMAIN doc'[t].body /\ doc'[t].body[s] = d[t].body[s]
       /\ \A s \in DOMAIN doc'[t].body : s \in DOMAIN d[t].body \/ doc'[t].body[s] \in Range(copies)
       /\ Range(copies) \subseteq Range(doc'[t].body)
  <2>1. MoreIn(doc', d, t, copies)
    BY <1>1, <1>6, <1>10, <1>11, BodyGrows
  <2>2. QED
    BY <2>1 DEF MoreIn
<1>13. \A s \in DOMAIN doc[t].body :
         s \in DOMAIN doc'[t].body /\ (s # at.s => doc'[t].body[s] = doc[t].body[s])
  BY <1>2, <1>10, <1>11, <1>12
<1>14. /\ doc'[t].body[at.s].own = doc[t].body[at.s].own
       /\ doc'[t].body[at.s].items = [Outer EXCEPT ![at.i] = None]
  BY <1>2, <1>9, <1>10, <1>11, <1>12
<1>15. \A s \in DOMAIN doc'[t].body :
         \/ s \in DOMAIN doc[t].body
         \/ \E k \in DOMAIN doc[v].body : doc'[t].body[s] = doc[v].body[k]
  BY <1>6, <1>11, <1>12
<1>16. \A k \in DOMAIN doc[v].body : doc[v].body[k].own =>
         \E s \in DOMAIN doc'[t].body : doc'[t].body[s] = doc[v].body[k]
  <2>1. \A k \in DOMAIN doc[v].body : doc[v].body[k].own => doc[v].body[k] \in Range(doc'[t].body)
    BY <1>6, <1>12
  <2>2. QED
    BY <2>1 DEF Range
<1>17. QED
  BY <1>1, <1>2, <1>3, <1>4, <1>5, <1>13, <1>14, <1>15, <1>16 DEF ImportsBody

\* An import keeps the visitor in the document, and the other blocks as they are.
LEMMA ImportPlaced ==
  ASSUME Placed, Import, phase' = "resolve_sourcesref"
  PROVE  /\ Placed' /\ SameBlocks(doc', doc) /\ UNCHANGED <<project, phase>> /\ at' = Past
         /\ \A u \in DOMAIN doc : u # at.t => doc'[u] = doc[u]
         /\ at.t \in DOMAIN doc /\ AtItem /\ Item.op = "ref" /\ doc[at.t].kind # "toplevel"
<1> DEFINE d == WithItem(None)
           copies == Copies(Lookup(Item.name))
<1>1. /\ AtItem /\ Item.op = "ref" /\ ~Undefined /\ doc \in Seq(Blocks) /\ at' = Past
      /\ phase = "resolve_sourcesref" /\ UNCHANGED <<project, phase>>
      /\ doc' = Grown(d, at.t, copies)
  BY DEF Import, Placed, Grown
<1>2. at \in Spots(doc) /\ at.t \in DOMAIN doc /\ Seat(Past)
  BY <1>1, AtSpot, PastSeat
<1>3. copies \in Seq(Sections)
  BY <1>1, LookupFinds, CopiesAre DEF Undefined
<1>4. d = WithItem(None) /\ None \in Plain
  BY DEF Plain
<1>5. \A u \in DOMAIN doc : u # at.t => d[u] = doc[u]
  BY DEF WithItem, WithList
<1> HIDE DEF d, copies
<1>6. /\ d \in Seq(Blocks) /\ SameOutline(d, doc) /\ Spots(d) = Spots(doc)
      /\ \A p \in Spots(doc) : ItemAt(doc, p).op = "exclude" => ItemAt(d, p).op = "exclude"
  BY <1>1, <1>2, <1>4, ItemReplaced
<1>7. at.t \in DOMAIN d /\ DOMAIN d = DOMAIN doc
  BY <1>2, <1>6 DEF SameOutline, SameBlocks
<1>8. /\ doc' \in Seq(Blocks) /\ SameBlocks(doc', d) /\ \A u \in DOMAIN d : u # at.t => doc'[u] = d[u]
      /\ Spots(d) \subseteq Spots(doc') /\ \A p \in Spots(d) : ItemAt(doc', p) = ItemAt(d, p)
  <2>1. MoreIn(doc', d, at.t, copies)
    BY <1>1, <1>3, <1>6, <1>7, BodyGrows
  <2>2. QED
    BY <2>1 DEF MoreIn
<1>9. SameBlocks(doc', doc)
  BY <1>6, <1>8 DEF SameOutline, SameBlocks
<1>10. Placed'
  <2>1. \A p \in Spots(doc) : ItemAt(doc, p).op = "exclude" => ItemAt(doc, p)'.op = "exclude"
    BY <1>6, <1>8
  <2>2. phase' \in Phases /\ Seat(at') /\ UNCHANGED project /\ Spots(doc) \subseteq Spots(doc')
    BY <1>1, <1>2, <1>6, <1>8 DEF Phases
  <2>3. QED
    BY <1>8, <1>9, <2>1, <2>2, PlacedStays
<1>11. QED
  BY <1>1, <1>2, <1>5, <1>7, <1>8, <1>9, <1>10 DEF Undefined

\* What it changes in what the sections of block t mean, and in what t awaits.
ImportsMeaning(t, v) ==
  /\ v \in Targets /\ Item.name \in Refs(Outer)
  /\ \A s \in DOMAIN doc[t].body :
       /\ s \in DOMAIN doc'[t].body
       /\ \A of : Means(doc[t].body[s], of) => Means(doc'[t].body[s], of)
  /\ \A s \in DOMAIN doc'[t].body :
       s \in DOMAIN doc[t].body \/ \E k \in DOMAIN doc[v].body : doc'[t].body[s] = doc[v].body[k]
  /\ \A k \in DOMAIN doc[v].body : doc[v].body[k].own =>
       \E s \in DOMAIN doc'[t].body : doc'[t].body[s] = doc[v].body[k]
  /\ Awaited(doc[t]) \subseteq Awaited(doc'[t]) \union {Item.name}
  /\ Awaited(doc[v]) \subseteq Awaited(doc'[t])

\* The sections mean what they did, and what they have in addition comes from v.
LEMMA ImportedSections ==
  ASSUME Placed, Import, phase' = "resolve_sourcesref", at.t \in Targets, Simple(Outer),
         NEW v, v = Lookup(Item.name)
  PROVE  ImportsMeaning(at.t, v)
<1> DEFINE old == doc[at.t].body
           new == doc'[at.t].body
           l == old[at.s].items
           m == new[at.s].items
<1>1. /\ v \in DOMAIN doc /\ v \in Targets /\ Item.name \in Refs(Outer) /\ at.s \in DOMAIN old
      /\ \A s \in DOMAIN old : s \in DOMAIN new /\ (s # at.s => new[s] = old[s])
      /\ new[at.s].own = old[at.s].own
      /\ at.i \in DOMAIN l /\ l[at.i].op = "ref" /\ l[at.i].name = Item.name
      /\ m = [l EXCEPT ![at.i] = None]
      /\ \A s \in DOMAIN new : s \in DOMAIN old \/ \E k \in DOMAIN doc[v].body : new[s] = doc[v].body[k]
      /\ \A k \in DOMAIN doc[v].body : doc[v].body[k].own =>
           \E s \in DOMAIN new : new[s] = doc[v].body[k]
      /\ Simple(l)
  <2>1. ImportsBody(v)
    BY ImportedBody
  <2>2. QED
    BY <2>1 DEF Outer, ImportsBody
<1>2. l = old[at.s].items /\ m = new[at.s].items
  OBVIOUS
<1> HIDE DEF m, l
<1>3. /\ FileNames(m) = FileNames(l) /\ Outs(m) = Outs(l) /\ Simple(m)
      /\ Refs(m) \subseteq Refs(l) /\ Refs(l) \subseteq Refs(m) \union {Item.name}
  <2>1. LessRef(m, l, Item.name)
    BY <1>1, RefDropped
  <2>2. QED
    BY <1>1, <2>1 DEF LessRef
<1> HIDE DEF old, new
<1>4. \A s \in DOMAIN old : \A of : Means(old[s], of) => Means(new[s], of)
  <2>1. \A of : Means(old[at.s], of) => Means(new[at.s], of)
    BY <1>1, <1>2, <1>3 DEF Means
  <2>2. QED
    BY <1>1, <2>1
<1>5. \A s \in DOMAIN old : Refs(old[s].items) \subseteq Refs(new[s].items) \union {Item.name}
  BY <1>1, <1>2, <1>3
<1>6. \A s \in DOMAIN old : s \in DOMAIN new /\ new[s].own = old[s].own
  BY <1>1
<1>7. Awaited(doc[at.t]) \subseteq Awaited(doc'[at.t]) \union {Item.name}
  BY <1>5, <1>6 DEF Awaited, old, new
<1>8. Awaited(doc[v]) \subseteq Awaited(doc'[at.t])
  <2>1. ASSUME NEW k \in DOMAIN doc[v].body, doc[v].body[k].own
        PROVE  Refs(doc[v].body[k].items) \subseteq Awaited(doc'[at.t])
    <3>1. PICK s \in DOMAIN new : new[s] = doc[v].body[k]
      BY <1>1, <2>1
    <3>2. new[s].own /\ Refs(doc[v].body[k].items) = Refs(new[s].items)
      BY <2>1, <3>1
    <3>3. QED
      BY <3>1, <3>2 DEF Awaited, new
  <2>2. QED
    BY <2>1 DEF Awaited
<1>9. QED
  BY <1>1, <1>4, <1>7, <1>8 DEF old, new, ImportsMeaning

\* A block that has imported is gathered from more blocks.
LEMMA ImportedGathered ==
  ASSUME Placed, Gathering, Regular, Import, phase' = "resolve_sourcesref",
         NEW t \in Targets, t = at.t
  PROVE  FromImports(t)' /\ \E M \in SUBSET DOMAIN project' : Gathered(t, M)'
<1> DEFINE v == Lookup(Item.name)
<1>1. /\ SameBlocks(doc', doc) /\ project' = project /\ project \in Seq(Blocks)
      /\ t \in DOMAIN project /\ AtItem /\ t \in DOMAIN doc
  BY ImportPlaced DEF Targets, Placed
<1>2. at.s \in DOMAIN doc[t].body
  <2>1. InBody
    BY <1>1 DEF AtItem
  <2>2. QED
    BY <2>1, InTheList
<1>3. PICK u0 \in Imports(t) : \E r \in DOMAIN project[u0].body :
        Means(doc[t].body[at.s], project[u0].body[r])
  BY <1>2 DEF Gathering, FromImports
<1>4. PICK r0 \in DOMAIN project[u0].body : Means(doc[t].body[at.s], project[u0].body[r0])
  BY <1>3
<1>5. Simple(Outer) /\ Refs(Outer) \subseteq Refs(project[u0].body[r0].items)
  BY <1>4 DEF Means, Outer
<1>6. /\ v \in Targets /\ Item.name \in Refs(Outer)
      /\ \A s \in DOMAIN doc[t].body :
           /\ s \in DOMAIN doc'[t].body
           /\ \A of : Means(doc[t].body[s], of) => Means(doc'[t].body[s], of)
      /\ \A s \in DOMAIN doc'[t].body :
           s \in DOMAIN doc[t].body \/ \E k \in DOMAIN doc[v].body : doc'[t].body[s] = doc[v].body[k]
      /\ \A k \in DOMAIN doc[v].body : doc[v].body[k].own =>
           \E s \in DOMAIN doc'[t].body : doc'[t].body[s] = doc[v].body[k]
      /\ Awaited(doc[t]) \subseteq Awaited(doc'[t]) \union {Item.name}
      /\ Awaited(doc[v]) \subseteq Awaited(doc'[t])
  BY <1>5, ImportedSections DEF ImportsMeaning
<1>7. Lookup(Item.name) = v
  OBVIOUS
<1> HIDE DEF v
<1>8. RefersTo' = RefersTo /\ Imports(t)' = Imports(t) /\ \A n : Lookup(n)' = Lookup(n)
  BY <1>1, SameImports, SameLookup
<1>9. v \in Imports(t) /\ Imports(v) \subseteq Imports(t) /\ v \in DOMAIN project
  <2>1. u0 \in DOMAIN project /\ RefersTo[u0] \subseteq Imports(t)
    BY <1>1, <1>3, ImportsClosed
  <2>2. Item.name \in Refs(project[u0].body[r0].items)
    BY <1>5, <1>6
  <2>3. v # 0 /\ v \in DOMAIN project
    BY <1>1, <1>6, RowElements DEF Targets
  <2>4. v \in RefersTo[u0]
    BY <1>7, <2>1, <2>2, <2>3, RegularRefs
  <2>5. QED
    BY <1>1, <2>1, <2>3, <2>4, ImportsGoOn
<1>10. \A s \in DOMAIN doc'[t].body : \E u \in Imports(t) : \E r \in DOMAIN project[u].body :
         Means(doc'[t].body[s], project[u].body[r])
  <2>1. ASSUME NEW s \in DOMAIN doc'[t].body
        PROVE  \E u \in Imports(t) : \E r \in DOMAIN project[u].body :
                 Means(doc'[t].body[s], project[u].body[r])
    <3>1. CASE s \in DOMAIN doc[t].body
      BY <1>6, <3>1 DEF Gathering, FromImports
    <3>2. CASE \E k \in DOMAIN doc[v].body : doc'[t].body[s] = doc[v].body[k]
      BY <1>6, <1>9, <3>2 DEF Gathering, FromImports
    <3>3. QED
      BY <1>6, <3>1, <3>2
  <2>2. QED
    BY <2>1
<1>11. FromImports(t)'
  BY <1>1, <1>8, <1>10 DEF FromImports
<1>12. PICK M1 \in SUBSET DOMAIN project : Gathered(t, M1)
  BY DEF Gathering
<1>13. PICK M2 \in SUBSET DOMAIN project : Gathered(v, M2)
  BY <1>6 DEF Gathering
<1> DEFINE M == M1 \union M2
<1>14. ASSUME NEW u \in M, NEW r \in DOMAIN project[u].body, project[u].body[r].own
       PROVE  \E s \in DOMAIN doc'[t].body : Means(doc'[t].body[s], project[u].body[r])
  <2>1. CASE u \in M1
    <3>1. PICK s \in DOMAIN doc[t].body : Means(doc[t].body[s], project[u].body[r])
      BY <1>12, <1>14, <2>1 DEF Gathered
    <3>2. QED
      BY <1>6, <3>1
  <2>2. CASE u \in M2
    <3>1. PICK k \in DOMAIN doc[v].body : Means(doc[v].body[k], project[u].body[r])
      BY <1>13, <1>14, <2>2 DEF Gathered
    <3>2. doc[v].body[k].own
      BY <1>14, <3>1 DEF Means
    <3>3. PICK s \in DOMAIN doc'[t].body : doc'[t].body[s] = doc[v].body[k]
      BY <1>6, <3>2
    <3>4. QED
      BY <3>1, <3>3
  <2>3. QED
    BY <2>1, <2>2
<1>15. Pending(t) \subseteq {Lookup(n) : n \in Awaited(doc'[t])} \union {v}
  BY <1>6, <1>7 DEF Pending
<1>16. Pending(v) \subseteq {Lookup(n) : n \in Awaited(doc'[t])}
  BY <1>6 DEF Pending
<1>17. ASSUME NEW u \in M
       PROVE  RefersTo[u] \subseteq M \union {Lookup(n) : n \in Awaited(doc'[t])}
  <2>1. v \in M
    BY <1>13 DEF Gathered
  <2>2. CASE u \in M1
    BY <1>12, <1>15, <2>1, <2>2 DEF Gathered
  <2>3. CASE u \in M2
    BY <1>13, <1>16, <2>3 DEF Gathered
  <2>4. QED
    BY <2>2, <2>3
<1>18. t \in M /\ M \in SUBSET DOMAIN project
  BY <1>12, <1>13 DEF Gathered
<1> HIDE DEF M
<1>19. Gathered(t, M)'
  <2>1. {Lookup(n) : n \in Awaited(doc'[t])} = {Lookup(n)' : n \in Awaited(doc'[t])}
    BY <1>8
  <2>2. Pending(t)' = {Lookup(n)' : n \in Awaited(doc'[t])}
    BY DEF Pending
  <2>3. QED
    BY <1>1, <1>8, <1>14, <1>17, <1>18, <2>1, <2>2 DEF Gathered
<1>20. QED
  BY <1>1, <1>11, <1>18, <1>19

\* An import leaves no import behind, and the targets as Gathering has them.
LEMMA ImportGathers ==
  ASSUME Placed, Gathering, Regular, Import, phase' = "resolve_sourcesref"
  PROVE  Placed' /\ Gathering'
<1>1. /\ Placed' /\ SameBlocks(doc', doc) /\ UNCHANGED <<project, phase>> /\ at' = Past
      /\ \A u \in DOMAIN doc : u # at.t => doc'[u] = doc[u]
      /\ at.t \in DOMAIN doc /\ AtItem /\ doc \in Seq(Blocks) /\ at \in Positions
      /\ phase = "resolve_sourcesref"
  BY ImportPlaced DEF Placed, Import
<1>2. /\ Targets' = Targets /\ Targets \subseteq DOMAIN doc
      /\ doc' \in Seq(Blocks) /\ DOMAIN doc' = DOMAIN doc
  BY <1>1 DEF Targets, Placed, SameBlocks
<1>3. /\ at'.t = at.t /\ at'.s = at.s /\ (at'.i = at.i \/ at'.i = at.i + 1)
      /\ ~Nested => at'.i = at.i + 1
  BY <1>1 DEF Past, Positions
<1>4. ASSUME NEW t \in Targets, NEW s \in DOMAIN doc'[t].body,
             NEW k \in DOMAIN doc'[t].body[s].items, Came(t, s, k)'
      PROVE  doc'[t].body[s].items[k].op # "ref"
  <2>1. t \in Nat \ {0} /\ s \in Nat \ {0} /\ k \in Nat \ {0}
    BY <1>2, PlaceNumbers
  <2>2. Came(t, s, k) \/ (t = at.t /\ s = at.s /\ k = at.i /\ at'.i = at.i + 1)
    BY <1>3, <1>4, <2>1, CameTo
  <2>3. CASE t # at.t
    <3>1. doc'[t] = doc[t]
      BY <1>1, <1>2, <2>3
    <3>2. QED
      BY <1>1, <2>2, <2>3, <3>1 DEF Gathering, Cleared, Sought
  <2>4. CASE t = at.t
    <3>1. InBody /\ at.s \in DOMAIN doc[at.t].body
      BY <1>1, InTheList DEF AtItem
    <3>2. Simple(Outer)
      BY <2>4, <3>1 DEF Gathering, FromImports, Means, Outer
    <3>3. ImportsBody(Lookup(Item.name))
      BY <2>4, <3>2, ImportedBody
    <3>4. /\ ~Nested /\ at.i \in DOMAIN Outer
          /\ \A r \in DOMAIN doc[at.t].body : r # at.s => doc'[at.t].body[r] = doc[at.t].body[r]
          /\ doc'[at.t].body[at.s].items = [Outer EXCEPT ![at.i] = None]
      BY <3>3 DEF ImportsBody
    <3>5. s \in DOMAIN doc[t].body
      <4>1. s <= at.s /\ at.s <= Len(doc[at.t].body) /\ doc[at.t].body \in Seq(Sections)
        BY <1>1, <2>1, <2>2, <2>4, <3>1, PartsTyped DEF Came, SectionBefore, InBody, Positions
      <4>2. QED
        BY <1>1, <2>1, <2>4, <4>1, LenProperties DEF Positions
    <3>6. CASE s # at.s
      BY <2>2, <2>4, <3>4, <3>5, <3>6, <1>1 DEF Gathering, Cleared, Sought
    <3>7. CASE s = at.s
      <4>1. /\ k \in DOMAIN Outer
            /\ doc'[t].body[s].items[k] = IF k = at.i THEN None ELSE Outer[k]
        BY <2>4, <3>4, <3>7
      <4>2. k # at.i => Came(t, s, k)
        BY <2>2
      <4>3. k # at.i => Outer[k].op # "ref"
        BY <1>1, <2>4, <3>5, <3>7, <4>1, <4>2 DEF Gathering, Cleared, Sought, Outer
      <4>4. QED
        BY <4>1, <4>3 DEF None
    <3>8. QED
      BY <3>6, <3>7
  <2>5. QED
    BY <2>3, <2>4
<1>5. Cleared'
  BY <1>1, <1>2, <1>4 DEF Cleared, Sought
<1>6. ASSUME NEW t \in Targets
      PROVE  FromImports(t)' /\ \E M \in SUBSET DOMAIN project' : Gathered(t, M)'
  <2>1. CASE t = at.t
    BY <2>1, ImportedGathered
  <2>2. CASE t # at.t
    <3>1. doc'[t] = doc[t]
      BY <1>1, <1>2, <2>2
    <3>2. FromImports(t)' <=> FromImports(t)
      BY <1>1, <3>1, GatheredStays
    <3>3. \A M : Gathered(t, M)' <=> Gathered(t, M)
      BY <1>1, <3>1, GatheredStays
    <3>4. QED
      BY <1>1, <3>2, <3>3 DEF Gathering
  <2>3. QED
    BY <2>1, <2>2
<1>7. QED
  BY <1>1, <1>2, <1>5, <1>6 DEF Gathering

-----------------------------------------------------------------------------
\* What a regular block excludes is in sources sections of its own.
LEMMA ExcludedAre ==
  ASSUME Regular, NEW u \in DOMAIN project
  PROVE  /\ \A r \in DOMAIN project[u].body : Excluded(project[u].body[r].items) \subseteq ExcludedIn(u)
         /\ \A x \in ExcludedIn(u) : \E r \in DOMAIN project[u].body :
              project[u].body[r].own /\ x \in Excluded(project[u].body[r].items)
<1>1. ExcludedIn(u) = UNION {Written(e.items) : e \in {e \in ItemsOf(u) : e.op = "exclude"}}
  BY DEF ExcludedIn, Written
<1>2. /\ \A r \in DOMAIN project[u].body : \A x \in Range(project[u].body[r].items) :
           /\ x.op \in {"ref", "exclude"} => project[u].body[r].own
           /\ x \in ItemsOf(u)
  BY DEF Regular, ItemsOf, ListsOf
<1>3. ASSUME NEW r \in DOMAIN project[u].body
      PROVE  Excluded(project[u].body[r].items) \subseteq ExcludedIn(u)
  <2> DEFINE l == project[u].body[r].items
  <2>1. \A k \in DOMAIN l : l[k] \in ItemsOf(u)
    BY <1>2 DEF Range
  <2> HIDE DEF l
  <2>2. Excluded(l) \subseteq ExcludedIn(u)
    BY <1>1, <2>1 DEF Excluded
  <2>3. QED
    BY <2>2 DEF l
<1>4. ASSUME NEW x \in ExcludedIn(u)
      PROVE  \E r \in DOMAIN project[u].body :
               project[u].body[r].own /\ x \in Excluded(project[u].body[r].items)
  <2>1. PICK e \in ItemsOf(u) : e.op = "exclude" /\ x \in Written(e.items)
    BY <1>1
  <2>2. PICK l \in ListsOf(u) : e \in Range(l)
    BY DEF ItemsOf
  <2>3. CASE \E r \in DOMAIN project[u].body : l = project[u].body[r].items
    <3>1. PICK r \in DOMAIN project[u].body : l = project[u].body[r].items
      BY <2>3
    <3>2. project[u].body[r].own
      BY <1>2, <2>1, <2>2, <3>1
    <3>3. \E k \in DOMAIN l : l[k] = e
      BY <2>2 DEF Range
    <3>4. x \in Excluded(l)
      BY <2>1, <3>3 DEF Excluded
    <3>5. QED
      BY <3>1, <3>2, <3>4
  <2>4. CASE \E r \in DOMAIN project[u].body : \E k \in DOMAIN project[u].body[r].items :
               /\ project[u].body[r].items[k].op = "exclude"
               /\ l = project[u].body[r].items[k].items
    <3>1. PICK r \in DOMAIN project[u].body : \E k \in DOMAIN project[u].body[r].items :
             /\ project[u].body[r].items[k].op = "exclude"
             /\ l = project[u].body[r].items[k].items
      BY <2>4
    <3>2. Tidy(project[u].body[r].items)
      BY RegularLists
    <3>3. QED
      BY <2>1, <2>2, <3>1, <3>2 DEF Tidy, Range
  <2>5. QED
    BY <2>2, <2>3, <2>4 DEF ListsOf
<1>5. QED
  BY <1>3, <1>4

\* When all imports are done a target lists and excludes what all of them do.
LEMMA GatheringEnds ==
  ASSUME Placed, Gathering, Regular, at.t > Len(doc), phase = "resolve_sourcesref",
         NEW t \in Targets
  PROVE  OwnNames(t) = AllListed(t) /\ AllOuts(t) = AllExcluded(t)
<1>1. /\ doc \in Seq(Blocks) /\ project \in Seq(Blocks) /\ at \in Positions
      /\ t \in DOMAIN doc /\ t \in DOMAIN project
  BY DEF Placed, Targets, SameBlocks
<1>2. Awaited(doc[t]) = {}
  <2>1. t < at.t
    BY <1>1, LenProperties DEF Positions
  <2>2. \A s \in DOMAIN doc[t].body : \A k \in DOMAIN doc[t].body[s].items :
          doc[t].body[s].items[k].op # "ref"
    BY <2>1 DEF Gathering, Cleared, Came, SectionBefore, Sought
  <2>3. \A s \in DOMAIN doc[t].body : Refs(doc[t].body[s].items) = {}
    BY <2>2 DEF Refs
  <2>4. QED
    BY <2>3 DEF Awaited
<1>3. PICK M \in SUBSET DOMAIN project : Gathered(t, M)
  BY DEF Gathering
<1>4. Imports(t) \subseteq M
  <2>1. t \in M /\ \A u \in M : RefersTo[u] \subseteq M
    BY <1>2, <1>3 DEF Gathered, Pending
  <2>2. QED
    BY <1>1, <2>1, ImportsClosed
<1>5. Imports(t) \subseteq DOMAIN project
  BY <1>1, ImportsClosed
<1>6. /\ \A s \in DOMAIN doc[t].body : \E u \in Imports(t) : \E r \in DOMAIN project[u].body :
           Means(doc[t].body[s], project[u].body[r])
      /\ \A u \in Imports(t) : \A r \in DOMAIN project[u].body : project[u].body[r].own =>
           \E s \in DOMAIN doc[t].body : Means(doc[t].body[s], project[u].body[r])
  BY <1>3, <1>4 DEF Gathering, FromImports, Gathered
<1>7. \A u, x : x \in ListedIn(u) <=> \E r \in DOMAIN project[u].body :
                                       project[u].body[r].own /\ x \in Written(project[u].body[r].items)
  BY DEF ListedIn, Written
<1>8. \A x : x \in OwnNames(t) <=> \E s \in DOMAIN doc[t].body :
               doc[t].body[s].own /\ x \in FileNames(doc[t].body[s].items)
  BY DEF OwnNames
<1>9. \A x : x \in AllOuts(t) <=> \E s \in DOMAIN doc[t].body : x \in Outs(doc[t].body[s].items)
  BY DEF AllOuts
<1>10. ASSUME NEW x \in OwnNames(t) PROVE x \in AllListed(t)
  <2>1. PICK s \in DOMAIN doc[t].body : doc[t].body[s].own /\ x \in FileNames(doc[t].body[s].items)
    BY <1>8, <1>10
  <2>2. PICK u \in Imports(t) : \E r \in DOMAIN project[u].body :
          Means(doc[t].body[s], project[u].body[r])
    BY <1>6
  <2>3. x \in ListedIn(u)
    BY <1>7, <2>1, <2>2 DEF Means
  <2>4. QED
    BY <2>3 DEF AllListed
<1>11. ASSUME NEW x \in AllListed(t) PROVE x \in OwnNames(t)
  <2>1. PICK u \in Imports(t) : x \in ListedIn(u)
    BY <1>11 DEF AllListed
  <2>2. PICK r \in DOMAIN project[u].body :
          project[u].body[r].own /\ x \in Written(project[u].body[r].items)
    BY <1>7, <2>1
  <2>3. PICK s \in DOMAIN doc[t].body : Means(doc[t].body[s], project[u].body[r])
    BY <1>6, <2>2
  <2>4. QED
    BY <1>8, <2>2, <2>3 DEF Means
<1>12. ASSUME NEW x \in AllOuts(t) PROVE x \in AllExcluded(t)
  <2>1. PICK s \in DOMAIN doc[t].body : x \in Outs(doc[t].body[s].items)
    BY <1>9, <1>12
  <2>2. PICK u \in Imports(t) : \E r \in DOMAIN project[u].body :
          Means(doc[t].body[s], project[u].body[r])
    BY <1>6
  <2>3. x \in ExcludedIn(u)
    BY <1>5, <2>1, <2>2, ExcludedAre DEF Means
  <2>4. QED
    BY <2>3 DEF AllExcluded
<1>13. ASSUME NEW x \in AllExcluded(t) PROVE x \in AllOuts(t)
  <2>1. PICK u \in Imports(t) : x \in ExcludedIn(u)
    BY <1>13 DEF AllExcluded
  <2>2. PICK r \in DOMAIN project[u].body :
          project[u].body[r].own /\ x \in Excluded(project[u].body[r].items)
    BY <1>5, <2>1, ExcludedAre
  <2>3. PICK s \in DOMAIN doc[t].body : Means(doc[t].body[s], project[u].body[r])
    BY <1>6, <2>2
  <2>4. QED
    BY <1>9, <2>2, <2>3 DEF Means
<1>14. QED
  BY <1>10, <1>11, <1>12, <1>13

-----------------------------------------------------------------------------
\* What is listed and excluded does not change.
LEMMA SameClaims ==
  ASSUME UNCHANGED project, SameBlocks(doc', doc)
  PROVE  \A t : AllListed(t)' = AllListed(t) /\ AllExcluded(t)' = AllExcluded(t)
<1>1. \A t : Imports(t)' = Imports(t)
  BY SameImports
<1>2. \A u : ListedIn(u)' = ListedIn(u) /\ ExcludedIn(u)' = ExcludedIn(u)
  BY DEF ListedIn, ExcludedIn, ItemsOf, ListsOf, FilesOf, Found, Resolved, Known
<1>3. QED
  BY <1>1, <1>2 DEF AllListed, AllExcluded

\* Excludes are done after the imports.
LEMMA ExcludingStarts ==
  ASSUME Placed, Gathering, Regular, NextPhase, phase = "resolve_sourcesref"
  PROVE  Placed' /\ Excluding'
<1>1. /\ at.t > Len(doc) /\ at' = [t |-> 1, s |-> 1, i |-> 0, j |-> 0]
      /\ UNCHANGED <<project, doc>> /\ phase' \in Phases /\ doc \in Seq(Blocks)
  BY DEF NextPhase, Start, Phases, Placed
<1>2. at' \in Positions /\ at'.i = 0 /\ at'.j = 0
  BY <1>1 DEF Positions
<1>3. Placed'
  BY <1>1, <1>2, PlacedMoves DEF Seat
<1>4. Targets' = Targets /\ Targets \subseteq DOMAIN doc /\ SameBlocks(doc', doc)
  BY <1>1 DEF Targets, Placed, SameBlocks
<1>5. Cleared'
  <2>1. ASSUME NEW t \in Targets, NEW s \in DOMAIN doc[t].body, NEW k \in DOMAIN doc[t].body[s].items
        PROVE  ~Came(t, s, k)'
    <3>1. t \in Nat \ {0} /\ s \in Nat \ {0} /\ k \in Nat \ {0}
      BY <1>1, <1>4, PlaceNumbers
    <3>2. QED
      BY <1>1, <3>1 DEF Came, SectionBefore
  <2>2. QED
    BY <1>1, <1>4, <2>1 DEF Cleared
<1>6. ASSUME NEW t \in Targets
      PROVE  /\ OwnNames(t)' = AllListed(t)' /\ AllOuts(t)' = AllExcluded(t)'
  <2>1. OwnNames(t) = AllListed(t) /\ AllOuts(t) = AllExcluded(t)
    BY <1>1, GatheringEnds
  <2>2. AllListed(t)' = AllListed(t) /\ AllExcluded(t)' = AllExcluded(t)
    BY <1>1, <1>4, SameClaims
  <2>3. OwnNames(t)' = OwnNames(t) /\ AllOuts(t)' = AllOuts(t)
    BY <1>1 DEF OwnNames, AllOuts
  <2>4. QED
    BY <2>1, <2>2, <2>3
<1>7. QED
  BY <1>2, <1>3, <1>4, <1>5, <1>6 DEF Excluding

\* Steps that only walk on.
LEMMA WalkExcluding ==
  ASSUME Placed, Excluding, Pass \/ PassList \/ NextBlock, phase = "exclude"
  PROVE  Placed' /\ Excluding'
<1>1. /\ Placed' /\ UNCHANGED <<project, doc, phase>> /\ at'.j = 0
      /\ \A t \in DOMAIN doc : \A s \in DOMAIN doc[t].body : \A k \in DOMAIN doc[t].body[s].items :
           Came(t, s, k)' => Came(t, s, k) \/ doc[t].body[s].items[k].op # Sought
  BY WalkOn DEF Excluding
<1>2. Targets' = Targets /\ Targets \subseteq DOMAIN doc /\ SameBlocks(doc', doc)
  BY <1>1 DEF Targets, Placed, SameBlocks
<1>3. Cleared'
  BY <1>1, <1>2 DEF Excluding, Cleared, Sought
<1>4. \A t : AllListed(t)' = AllListed(t) /\ AllExcluded(t)' = AllExcluded(t)
  BY <1>1, <1>2, SameClaims
<1>5. \A t : OwnNames(t)' = OwnNames(t) /\ AllOuts(t)' = AllOuts(t)
  BY <1>1 DEF OwnNames, AllOuts
<1>6. QED
  BY <1>1, <1>2, <1>3, <1>4, <1>5 DEF Excluding

\* A section without the files of some names.
LEMMA WithoutIs ==
  ASSUME NEW sec \in Sections, NEW names
  PROVE  /\ Without(sec, names) \in Sections /\ Without(sec, names).own = sec.own
         /\ DOMAIN Without(sec, names).items = DOMAIN sec.items
         /\ \A k \in DOMAIN sec.items : Without(sec, names).items[k] =
              IF sec.own /\ sec.items[k].op = "file" /\ sec.items[k].name \in names
              THEN None ELSE sec.items[k]
<1> DEFINE New(k) == IF sec.own /\ sec.items[k].op = "file" /\ sec.items[k].name \in names
                     THEN None ELSE sec.items[k]
           items == [k \in DOMAIN sec.items |-> New(k)]
<1>1. sec \in [own : BOOLEAN, items : Seq(Items)] /\ sec.items \in Seq(Items) /\ None \in Items
  BY DEF Sections, Items, Plain
<1>2. \A k \in DOMAIN sec.items : sec.items[k] \in Items
  BY <1>1, RowElements
<1>3. Len(sec.items) \in Nat /\ DOMAIN sec.items = 1..Len(sec.items)
  BY <1>1, LenProperties
<1>4. \A k \in DOMAIN sec.items : New(k) \in Items
  BY <1>1, <1>2
<1>5. Without(sec, names) = [sec EXCEPT !.items = items]
  BY DEF Without
<1>6. items \in Seq(Items) /\ DOMAIN items = DOMAIN sec.items
      /\ \A k \in DOMAIN sec.items : items[k] = New(k)
  <2> HIDE DEF New
  <2>1. items \in [1..Len(sec.items) -> Items]
    BY <1>3, <1>4
  <2>2. QED
    BY <1>3, <2>1, RowOf
<1> HIDE DEF items
<1>7. [sec EXCEPT !.items = items] = [own |-> sec.own, items |-> items]
  BY <1>1
<1>8. Without(sec, names) = [own |-> sec.own, items |-> items] /\ sec.own \in BOOLEAN
  BY <1>1, <1>5, <1>7
<1>9. QED
  BY <1>6, <1>8 DEF Sections

\* The names that an exclude takes out.
Taken == FileNames(Item.items)

\* What remains of an item of the target whose exclude is visited.
Remains(s, k) ==
  LET x == doc[at.t].body[s].items[k]
  IN  IF \/ s = at.s /\ k = at.i
         \/ doc[at.t].body[s].own /\ x.op = "file" /\ x.name \in Taken
      THEN None ELSE x

\* The body that exclude leaves behind.
Cleaned(body) ==
  /\ body \in Seq(Sections) /\ DOMAIN body = DOMAIN doc[at.t].body
  /\ \A s \in DOMAIN doc[at.t].body :
       /\ body[s].own = doc[at.t].body[s].own
       /\ DOMAIN body[s].items = DOMAIN doc[at.t].body[s].items
       /\ \A k \in DOMAIN doc[at.t].body[s].items : body[s].items[k] = Remains(s, k)

\* The sections of the target without the files that are named.
LEMMA ExcludeCleans ==
  ASSUME Placed, Exclude, phase' = "exclude", at.j = 0
  PROVE  /\ Placed' /\ UNCHANGED <<project, phase>> /\ at' = [at EXCEPT !.i = at.i + 1]
         /\ doc \in Seq(Blocks) /\ at \in Positions /\ SameBlocks(doc', doc)
         /\ at.t \in DOMAIN doc /\ at.s \in DOMAIN doc[at.t].body
         /\ at.i \in DOMAIN doc[at.t].body[at.s].items
         /\ Item = doc[at.t].body[at.s].items[at.i] /\ Item.op = "exclude"
         /\ Cleaned(doc'[at.t].body)
         /\ \A u \in DOMAIN doc : u # at.t => doc'[u] = doc[u]
<1> DEFINE old == doc[at.t].body
           New(s) == LET left == Without(old[s], Taken)
                     IN  IF s = at.s THEN [left EXCEPT !.items[at.i] = None] ELSE left
           body == [s \in DOMAIN old |-> New(s)]
<1>1. /\ phase = "exclude" /\ AtItem /\ Item.op = "exclude" /\ UNCHANGED project
      /\ at' = Past /\ doc' = [doc EXCEPT ![at.t].body = body]
  BY DEF Exclude, Taken
<1>2. /\ doc \in Seq(Blocks) /\ at \in Positions /\ at \in Spots(doc) /\ Item = ItemAt(doc, at)
      /\ ~Nested
  BY <1>1, AtSpot DEF Placed, Nested
<1>3. /\ at.t \in DOMAIN doc /\ at.s \in DOMAIN old /\ at.i \in DOMAIN old[at.s].items
      /\ Item = old[at.s].items[at.i]
  BY <1>2 DEF Spots, ItemAt
<1>4. old \in Seq(Sections) /\ \A s \in DOMAIN old : old[s] \in Sections
  BY <1>2, <1>3, PartsTyped
<1> HIDE DEF old
<1>5. ASSUME NEW s \in DOMAIN old
      PROVE  /\ New(s) \in Sections /\ New(s).own = old[s].own
             /\ DOMAIN New(s).items = DOMAIN old[s].items
             /\ \A k \in DOMAIN old[s].items : New(s).items[k] = Remains(s, k)
  <2> DEFINE left == Without(old[s], Taken)
  <2>1. /\ left \in Sections /\ left.own = old[s].own /\ DOMAIN left.items = DOMAIN old[s].items
        /\ \A k \in DOMAIN old[s].items : left.items[k] =
             IF old[s].own /\ old[s].items[k].op = "file" /\ old[s].items[k].name \in Taken
             THEN None ELSE old[s].items[k]
    BY <1>4, WithoutIs
  <2>2. New(s) = IF s = at.s THEN [left EXCEPT !.items[at.i] = None] ELSE left
    OBVIOUS
  <2> HIDE DEF New, left
  <2>3. CASE s # at.s
    BY <2>1, <2>2, <2>3 DEF Remains, old
  <2>4. CASE s = at.s
    <3> DEFINE items == [left.items EXCEPT ![at.i] = None]
    <3>1. left.items \in Seq(Items) /\ None \in Items /\ left.own \in BOOLEAN
      BY <2>1 DEF Sections, Items, Plain
    <3>2. items \in Seq(Items)
      BY <1>3, <2>1, <2>4, <3>1, RowWith
    <3>3. /\ DOMAIN items = DOMAIN left.items /\ items[at.i] = None
          /\ \A k \in DOMAIN left.items : k # at.i => items[k] = left.items[k]
      BY <1>3, <2>1, <2>4
    <3>4. New(s) = [left EXCEPT !.items = items]
      BY <2>2, <2>4
    <3>5. left = [own |-> left.own, items |-> left.items]
      BY <2>1 DEF Sections
    <3> HIDE DEF items
    <3>6. New(s) = [own |-> left.own, items |-> items]
      BY <3>4, <3>5
    <3>7. New(s) \in Sections /\ New(s).own = left.own /\ New(s).items = items
      BY <3>1, <3>2, <3>6 DEF Sections
    <3>8. \A k \in DOMAIN old[s].items : items[k] = Remains(s, k)
      BY <2>1, <2>4, <3>3 DEF Remains, old
    <3>9. QED
      BY <2>1, <3>3, <3>7, <3>8
  <2>5. QED
    BY <2>3, <2>4
<1> HIDE DEF New
<1>6. /\ body \in Seq(Sections) /\ DOMAIN body = DOMAIN old
      /\ \A s \in DOMAIN old : body[s] = New(s)
  <2>1. Len(old) \in Nat /\ DOMAIN old = 1..Len(old)
    BY <1>4, LenProperties
  <2>2. body \in [1..Len(old) -> Sections]
    BY <1>5, <2>1
  <2>3. QED
    BY <2>1, <2>2, RowOf
<1>7. Cleaned(body)
  BY <1>5, <1>6 DEF Cleaned, old
<1> HIDE DEF body
<1>8. doc' = Bodied(doc, at.t, body)
  BY <1>1 DEF Bodied
<1>9. /\ doc' \in Seq(Blocks) /\ SameBlocks(doc', doc) /\ doc'[at.t].body = body
      /\ \A u \in DOMAIN doc : u # at.t => doc'[u] = doc[u]
  BY <1>2, <1>3, <1>6, <1>8, WithBody
<1>10. at' = [at EXCEPT !.i = at.i + 1] /\ at' \in Positions /\ at'.j = 0
  BY <1>1, <1>2 DEF Past, Positions
<1>11. Placed'
  <2>1. SameBlocks(doc', project')
    BY <1>1, <1>9 DEF Placed, SameBlocks
  <2>2. ~(at'.j > 0)
    BY <1>10
  <2>3. QED
    BY <1>1, <1>9, <1>10, <2>1, <2>2 DEF Placed, Phases
<1>12. QED
  BY <1>1, <1>2, <1>3, <1>7, <1>9, <1>10, <1>11 DEF old

\* What a target has, and what its excludes name, when one has been done.
LEMMA TakenOut ==
  ASSUME Cleaned(doc'[at.t].body), doc \in Seq(Blocks), at.t \in DOMAIN doc,
         at.s \in DOMAIN doc[at.t].body, at.i \in DOMAIN doc[at.t].body[at.s].items,
         Item = doc[at.t].body[at.s].items[at.i], Item.op = "exclude", NEW t, t = at.t
  PROVE  /\ OwnNames(t)' = OwnNames(t) \ Taken /\ Taken \subseteq AllOuts(t)
         /\ AllOuts(t)' \subseteq AllOuts(t) /\ AllOuts(t) \subseteq AllOuts(t)' \union Taken
<1> DEFINE old == doc[t].body
           new == doc'[t].body
<1>1. /\ DOMAIN new = DOMAIN old
      /\ \A s \in DOMAIN old :
           /\ new[s].own = old[s].own /\ DOMAIN new[s].items = DOMAIN old[s].items
           /\ \A k \in DOMAIN old[s].items : new[s].items[k] =
                IF \/ s = at.s /\ k = at.i
                   \/ old[s].own /\ old[s].items[k].op = "file" /\ old[s].items[k].name \in Taken
                THEN None ELSE old[s].items[k]
  BY DEF Cleaned, Remains
<1>2. /\ \A x : x \in OwnNames(t) <=> \E s \in DOMAIN old : old[s].own /\ x \in FileNames(old[s].items)
      /\ \A x : x \in OwnNames(t)' <=> \E s \in DOMAIN new : new[s].own /\ x \in FileNames(new[s].items)
      /\ \A x : x \in AllOuts(t) <=> \E s \in DOMAIN old : x \in Outs(old[s].items)
      /\ \A x : x \in AllOuts(t)' <=> \E s \in DOMAIN new : x \in Outs(new[s].items)
  BY DEF OwnNames, AllOuts
<1>3. /\ at.s \in DOMAIN old /\ at.i \in DOMAIN old[at.s].items
      /\ Item = old[at.s].items[at.i] /\ old[at.s].items[at.i].op = "exclude"
  OBVIOUS
<1> HIDE DEF old, new
<1>4. Taken \subseteq Outs(old[at.s].items)
  BY <1>3 DEF Taken, Outs
<1>5. ASSUME NEW s \in DOMAIN old
      PROVE  /\ old[s].own => FileNames(new[s].items) = FileNames(old[s].items) \ Taken
             /\ Outs(new[s].items) \subseteq Outs(old[s].items)
             /\ Outs(old[s].items) \subseteq Outs(new[s].items) \union Taken
  <2> DEFINE a == old[s].items
             b == new[s].items
  <2>1. /\ DOMAIN b = DOMAIN a
        /\ \A k \in DOMAIN a : b[k] =
             IF \/ s = at.s /\ k = at.i
                \/ old[s].own /\ a[k].op = "file" /\ a[k].name \in Taken
             THEN None ELSE a[k]
    BY <1>1
  <2>2. s = at.s => at.i \in DOMAIN a /\ a[at.i].op = "exclude" /\ Taken = FileNames(a[at.i].items)
    BY <1>3 DEF Taken
  <2> HIDE DEF a, b
  <2>3. None.op = "none"
    BY DEF None
  <2>4. /\ \A x : x \in FileNames(a) <=> \E k \in DOMAIN a : a[k].op = "file" /\ x = a[k].name
        /\ \A x : x \in FileNames(b) <=> \E k \in DOMAIN b : b[k].op = "file" /\ x = b[k].name
        /\ \A x : x \in Outs(a) <=>
             \E k \in DOMAIN a : a[k].op = "exclude" /\ x \in FileNames(a[k].items)
        /\ \A x : x \in Outs(b) <=>
             \E k \in DOMAIN b : b[k].op = "exclude" /\ x \in FileNames(b[k].items)
    BY DEF FileNames, Outs
  <2>5. ASSUME old[s].own PROVE FileNames(b) = FileNames(a) \ Taken
    <3>1. ASSUME NEW x \in FileNames(b) PROVE x \in FileNames(a) \ Taken
      BY <2>1, <2>3, <2>4, <2>5, <3>1
    <3>2. ASSUME NEW x \in FileNames(a) \ Taken PROVE x \in FileNames(b)
      <4>1. PICK k \in DOMAIN a : a[k].op = "file" /\ x = a[k].name
        BY <2>4, <3>2
      <4>2. b[k] = a[k]
        BY <2>1, <2>2, <3>2, <4>1
      <4>3. QED
        BY <2>1, <2>4, <4>1, <4>2
    <3>3. QED
      BY <3>1, <3>2
  <2>6. Outs(b) \subseteq Outs(a)
    BY <2>1, <2>3, <2>4
  <2>7. Outs(a) \subseteq Outs(b) \union Taken
    <3> SUFFICES ASSUME NEW x \in Outs(a), x \notin Taken PROVE x \in Outs(b)
      OBVIOUS
    <3>1. PICK k \in DOMAIN a : a[k].op = "exclude" /\ x \in FileNames(a[k].items)
      BY <2>4
    <3>2. b[k] = a[k]
      BY <2>1, <2>2, <3>1
    <3>3. QED
      BY <2>1, <2>4, <3>1, <3>2
  <2>8. QED
    BY <2>5, <2>6, <2>7 DEF a, b
<1>6. OwnNames(t)' = OwnNames(t) \ Taken
  <2>1. ASSUME NEW x \in OwnNames(t)' PROVE x \in OwnNames(t) \ Taken
    <3>1. PICK s \in DOMAIN old : old[s].own /\ x \in FileNames(new[s].items)
      BY <1>1, <1>2
    <3>2. x \in FileNames(old[s].items) \ Taken
      BY <1>5, <3>1
    <3>3. QED
      BY <1>2, <3>1, <3>2
  <2>2. ASSUME NEW x \in OwnNames(t) \ Taken PROVE x \in OwnNames(t)'
    <3>1. PICK s \in DOMAIN old : old[s].own /\ x \in FileNames(old[s].items)
      BY <1>2
    <3>2. s \in DOMAIN new /\ new[s].own /\ x \in FileNames(new[s].items)
      BY <1>1, <1>5, <2>2, <3>1
    <3>3. QED
      BY <1>2, <3>2
  <2>3. QED
    BY <2>1, <2>2
<1>7. AllOuts(t)' \subseteq AllOuts(t)
  BY <1>1, <1>2, <1>5
<1>8. AllOuts(t) \subseteq AllOuts(t)' \union Taken
  <2> SUFFICES ASSUME NEW x \in AllOuts(t) PROVE x \in AllOuts(t)' \union Taken
    OBVIOUS
  <2>1. PICK s \in DOMAIN old : x \in Outs(old[s].items)
    BY <1>2
  <2>2. s \in DOMAIN new /\ x \in Outs(new[s].items) \union Taken
    BY <1>1, <1>5, <2>1
  <2>3. QED
    BY <1>2, <2>2
<1>9. Taken \subseteq AllOuts(t)
  BY <1>2, <1>3, <1>4
<1>10. QED
  BY <1>6, <1>7, <1>8, <1>9

\* An exclude takes its names out of all sections of its target.
LEMMA ExcludeExcludes ==
  ASSUME Placed, Excluding, Exclude, phase' = "exclude"
  PROVE  Placed' /\ Excluding'
<1>1. at.j = 0
  BY DEF Excluding
<1>2. /\ Placed' /\ UNCHANGED <<project, phase>> /\ at' = [at EXCEPT !.i = at.i + 1]
      /\ doc \in Seq(Blocks) /\ at \in Positions /\ SameBlocks(doc', doc)
      /\ at.t \in DOMAIN doc /\ at.s \in DOMAIN doc[at.t].body
      /\ at.i \in DOMAIN doc[at.t].body[at.s].items
      /\ Item = doc[at.t].body[at.s].items[at.i] /\ Item.op = "exclude"
      /\ Cleaned(doc'[at.t].body)
      /\ \A u \in DOMAIN doc : u # at.t => doc'[u] = doc[u]
  BY <1>1, ExcludeCleans
<1>3. \A t \in Targets : \A s \in DOMAIN doc[t].body : \A k \in DOMAIN doc[t].body[s].items :
        Came(t, s, k) => doc[t].body[s].items[k].op # "exclude"
  BY DEF Excluding, Cleared, Sought, Exclude
<1>4. Targets' = Targets /\ Targets \subseteq DOMAIN doc /\ DOMAIN doc' = DOMAIN doc
      /\ doc' \in Seq(Blocks)
  BY <1>2 DEF Targets, Placed, SameBlocks
<1>5. at'.t = at.t /\ at'.s = at.s /\ at'.i = at.i + 1 /\ at'.j = 0
  BY <1>1, <1>2 DEF Positions
<1>6. \A t : AllListed(t)' = AllListed(t) /\ AllExcluded(t)' = AllExcluded(t)
  BY <1>2, SameClaims
<1>7. ASSUME NEW t \in Targets, NEW s \in DOMAIN doc'[t].body,
             NEW k \in DOMAIN doc'[t].body[s].items, Came(t, s, k)'
      PROVE  doc'[t].body[s].items[k].op # "exclude"
  <2>1. k \in Nat
    BY <1>4, PlaceNumbers
  <2>2. Came(t, s, k) \/ (t = at.t /\ s = at.s /\ k = at.i)
    BY <1>5, <1>7, <2>1, CameTo
  <2>3. CASE t # at.t
    <3>1. doc'[t] = doc[t]
      BY <1>2, <1>4, <2>3
    <3>2. QED
      BY <1>3, <2>2, <2>3, <3>1
  <2>4. CASE t = at.t
    <3>1. /\ s \in DOMAIN doc[t].body /\ k \in DOMAIN doc[t].body[s].items
          /\ doc'[t].body[s].items[k] = None
             \/ (~(s = at.s /\ k = at.i) /\ doc'[t].body[s].items[k] = doc[t].body[s].items[k])
      BY <1>2, <2>4 DEF Cleaned, Remains
    <3>2. CASE doc'[t].body[s].items[k] = None
      BY <3>2 DEF None
    <3>3. CASE ~(s = at.s /\ k = at.i) /\ doc'[t].body[s].items[k] = doc[t].body[s].items[k]
      BY <1>3, <2>2, <3>1, <3>3
    <3>4. QED
      BY <3>1, <3>2, <3>3
  <2>5. QED
    BY <2>3, <2>4
<1>8. Cleared'
  BY <1>2, <1>4, <1>7 DEF Cleared, Sought, Exclude
<1>9. ASSUME NEW t \in Targets
      PROVE  /\ OwnNames(t)' \subseteq AllListed(t)
             /\ AllListed(t) \ AllExcluded(t) \subseteq OwnNames(t)'
             /\ OwnNames(t)' \intersect AllExcluded(t) \subseteq AllOuts(t)'
             /\ AllOuts(t)' \subseteq AllExcluded(t)
  <2>1. /\ OwnNames(t) \subseteq AllListed(t)
        /\ AllListed(t) \ AllExcluded(t) \subseteq OwnNames(t)
        /\ OwnNames(t) \intersect AllExcluded(t) \subseteq AllOuts(t)
        /\ AllOuts(t) \subseteq AllExcluded(t)
    BY DEF Excluding
  <2>2. CASE t = at.t
    <3>1. /\ OwnNames(t)' = OwnNames(t) \ Taken /\ Taken \subseteq AllOuts(t)
          /\ AllOuts(t)' \subseteq AllOuts(t) /\ AllOuts(t) \subseteq AllOuts(t)' \union Taken
      BY <1>2, <2>2, TakenOut
    <3>2. QED
      BY <2>1, <3>1
  <2>3. CASE t # at.t
    <3>1. doc'[t] = doc[t]
      BY <1>2, <1>4, <2>3
    <3>2. OwnNames(t)' = OwnNames(t) /\ AllOuts(t)' = AllOuts(t)
      BY <3>1 DEF OwnNames, AllOuts
    <3>3. QED
      BY <2>1, <3>2
  <2>4. QED
    BY <2>2, <2>3
<1>10. QED
  BY <1>2, <1>4, <1>5, <1>6, <1>8, <1>9 DEF Excluding

\* What the targets are made of in the end.
Settled == \A t \in Targets : OwnNames(t) = AllListed(t) \ AllExcluded(t)

\* When all excludes are done the files they name are gone.
LEMMA ExcludingEnds ==
  ASSUME Placed, Excluding, at.t > Len(doc), phase = "exclude"
  PROVE  Settled
<1> SUFFICES ASSUME NEW t \in Targets PROVE OwnNames(t) = AllListed(t) \ AllExcluded(t)
  BY DEF Settled
<1>1. doc \in Seq(Blocks) /\ at \in Positions /\ t \in DOMAIN doc
  BY DEF Placed, Targets, SameBlocks
<1>2. t < at.t
  BY <1>1, LenProperties DEF Positions
<1>3. \A s \in DOMAIN doc[t].body : \A k \in DOMAIN doc[t].body[s].items :
        doc[t].body[s].items[k].op # "exclude"
  BY <1>2 DEF Excluding, Cleared, Came, SectionBefore, Sought
<1>4. AllOuts(t) = {}
  BY <1>3 DEF AllOuts, Outs
<1>5. QED
  BY <1>4 DEF Excluding

-----------------------------------------------------------------------------
\* What is claimed of the end.
LEMMA SettledMeans == (phase = "done" /\ Regular => Settled) => SourcesMeanWhatTheySay
<1> SUFFICES ASSUME Settled, NEW t \in DOMAIN project,
                    project[t].kind \in {"program", "library"}
             PROVE  LET from     == Imports(t)
                        listed   == UNION {ListedIn(u) : u \in from}
                        excluded == UNION {ExcludedIn(u) : u \in from}
                        sources  == UNION {FileNames(doc[t].body[s].items) :
                                       s \in {s \in DOMAIN doc[t].body : doc[t].body[s].own}}
                    IN  /\ sources \subseteq listed \ excluded
                        /\ listed \ (excluded \union UNION {BaseNamedIn(u) : u \in from})
                             \subseteq sources
  BY DEF SourcesMeanWhatTheySay
<1>1. OwnNames(t) = AllListed(t) \ AllExcluded(t)
  BY DEF Settled, Targets
<1>2. QED
  BY <1>1 DEF OwnNames, AllListed, AllExcluded

\* What the phases that follow resolve_sources keep, in regular documents, and
\* what is so when they are over.
Meaning ==
  /\ phase = "resolve_wildcards" => Placed /\ Listing
  /\ phase = "resolve_sourcesref" => Placed /\ Gathering
  /\ phase = "exclude" => Placed /\ Excluding
  /\ phase = "done" => Settled

\* The invariant of all phases.
MInv ==
  /\ SInv
  /\ phase = "resolve_sources" => wildcards = << >> /\ sourceFiles = << >>
  /\ Regular => Meaning

\* Whether it is regular depends on the document as it was parsed.
LEMMA SameRegular ==
  ASSUME UNCHANGED project
  PROVE  Regular' <=> Regular
BY DEF Regular, ListsOf

\* A step in which nothing happens.
LEMMA StaysMeaningful ==
  ASSUME Meaning, UNCHANGED <<project, doc, phase, at, inSources, wildcards, sourceFiles>>
  PROVE  Meaning'
<1>1. Placed' <=> Placed
  BY DEF Placed, SameBlocks, Spots, Outer
<1>2. SameBlocks(doc', doc)
  BY DEF SameBlocks
<1>3. Targets' = Targets /\ RefersTo' = RefersTo /\ \A t : Imports(t)' = Imports(t)
  BY <1>2, SameImports
<1>4. Listing' <=> Listing
  BY DEF Listing, Listed, SectionBefore, SameOutline, SameBlocks, Outer
<1>5. Cleared' <=> Cleared
  BY <1>3 DEF Cleared, Came, SectionBefore, Sought
<1>6. \A t : AllListed(t)' = AllListed(t) /\ AllExcluded(t)' = AllExcluded(t)
  BY <1>2, SameClaims
<1>7. \A t : OwnNames(t)' = OwnNames(t) /\ AllOuts(t)' = AllOuts(t)
  BY DEF OwnNames, AllOuts
<1>8. Excluding' <=> Excluding
  BY <1>3, <1>5, <1>6, <1>7 DEF Excluding
<1>9. Settled' <=> Settled
  BY <1>3, <1>6, <1>7 DEF Settled
<1>10. Gathering' <=> Gathering
  BY <1>2, <1>3, <1>5, GatheredStays DEF Gathering
<1>11. QED
  BY <1>1, <1>4, <1>8, <1>9, <1>10 DEF Meaning

\* A phase that ends hands over to the next.
LEMMA NextPhaseMeans ==
  ASSUME MInv, NextPhase, Regular
  PROVE  Meaning'
<1>1. SInv /\ Meaning
  BY DEF MInv
<1>2. at.t > Len(doc) /\ UNCHANGED <<project, doc>>
  BY DEF NextPhase
<1>3. CASE phase = "resolve_sources"
  <2>1. /\ Placed /\ Resolving /\ wildcards = << >> /\ sourceFiles = << >>
    BY <1>1, <1>3 DEF SInv, IInv, MInv
  <2>2. phase' = IF Missed THEN "failed" ELSE "resolve_wildcards"
    BY <1>3, <2>1, PhaseEnds
  <2>3. CASE Missed
    BY <2>2, <2>3 DEF Meaning
  <2>4. CASE ~Missed
    <3>1. Placed' /\ Listing'
      BY <1>3, <2>1, <2>4, ListingStarts
    <3>2. QED
      BY <2>2, <2>4, <3>1 DEF Meaning
  <2>5. QED
    BY <2>3, <2>4
<1>4. CASE phase = "resolve_wildcards"
  <2>1. Placed' /\ Gathering' /\ phase' = "resolve_sourcesref"
    BY <1>1, <1>4, GatheringStarts DEF Meaning, NextPhase
  <2>2. QED
    BY <2>1 DEF Meaning
<1>5. CASE phase = "resolve_sourcesref"
  <2>1. Placed' /\ Excluding' /\ phase' = "exclude"
    BY <1>1, <1>5, ExcludingStarts DEF Meaning, NextPhase
  <2>2. QED
    BY <2>1 DEF Meaning
<1>6. CASE phase = "exclude"
  <2>1. Settled /\ phase' = "done"
    BY <1>1, <1>2, <1>6, ExcludingEnds DEF Meaning, NextPhase
  <2>2. SameBlocks(doc', doc)
    BY <1>2 DEF SameBlocks
  <2>3. Targets' = Targets
    BY <1>2, <2>2, SameImports
  <2>4. \A t : AllListed(t)' = AllListed(t) /\ AllExcluded(t)' = AllExcluded(t)
    BY <1>2, <2>2, SameClaims
  <2>5. \A t : OwnNames(t)' = OwnNames(t)
    BY <1>2 DEF OwnNames
  <2>6. Settled'
    BY <2>1, <2>3, <2>4, <2>5 DEF Settled
  <2>7. QED
    BY <2>1, <2>6 DEF Meaning
<1>7. QED
  BY <1>3, <1>4, <1>5, <1>6 DEF NextPhase

\* Every step of a phase, in a regular document.
LEMMA StepMeans ==
  ASSUME MInv, Regular, [Next]_vars
  PROVE  Meaning'
<1>1. SInv /\ Meaning
  BY DEF MInv
<1>2. CASE NextPhase
  BY <1>2, NextPhaseMeans
<1>3. CASE UNCHANGED vars
  BY <1>1, <1>3, StaysMeaningful DEF vars
<1>4. CASE phase' \notin {"resolve_wildcards", "resolve_sourcesref", "exclude", "done"}
  BY <1>4 DEF Meaning
<1>5. CASE (Pass \/ NextBlock) /\ phase' # "resolve_sources"
  <2>1. phase' = phase /\ Running
    BY <1>5 DEF Pass, NextBlock
  <2>2. CASE phase = "resolve_wildcards"
    <3>1. Placed' /\ Listing'
      BY <1>1, <1>5, <2>2, PassLists, BlockListing DEF Meaning
    <3>2. QED
      BY <2>1, <2>2, <3>1 DEF Meaning
  <2>3. CASE phase = "resolve_sourcesref"
    <3>1. Placed' /\ Gathering'
      BY <1>1, <1>5, <2>3, WalkGathering DEF Meaning
    <3>2. QED
      BY <2>1, <2>3, <3>1 DEF Meaning
  <2>4. CASE phase = "exclude"
    <3>1. Placed' /\ Excluding'
      BY <1>1, <1>5, <2>4, WalkExcluding DEF Meaning
    <3>2. QED
      BY <2>1, <2>4, <3>1 DEF Meaning
  <2>5. QED
    BY <1>5, <2>1, <2>2, <2>3, <2>4 DEF Running
<1>6. CASE PassList
  <2>1. phase' = phase /\ phase \in {"resolve_sourcesref", "exclude"}
    BY <1>6 DEF PassList
  <2>2. CASE phase = "resolve_sourcesref"
    <3>1. Placed' /\ Gathering'
      BY <1>1, <1>6, <2>2, WalkGathering DEF Meaning
    <3>2. QED
      BY <2>1, <2>2, <3>1 DEF Meaning
  <2>3. CASE phase = "exclude"
    <3>1. Placed' /\ Excluding'
      BY <1>1, <1>6, <2>3, WalkExcluding DEF Meaning
    <3>2. QED
      BY <2>1, <2>3, <3>1 DEF Meaning
  <2>4. QED
    BY <2>1, <2>2, <2>3
<1>7. CASE (Collect \/ EnterList \/ LeaveList) /\ phase' = "resolve_wildcards"
  <2>1. phase = "resolve_wildcards"
    BY <1>7 DEF Collect, EnterList, LeaveList
  <2>2. Placed' /\ Listing'
    BY <1>1, <1>7, <2>1, CollectLists, EnterListing, LeaveListing DEF Meaning
  <2>3. QED
    BY <1>7, <2>2 DEF Meaning
<1>8. CASE Import /\ phase' = "resolve_sourcesref"
  <2>1. phase = "resolve_sourcesref"
    BY <1>8 DEF Import
  <2>2. Placed' /\ Gathering'
    BY <1>1, <1>8, <2>1, ImportGathers DEF Meaning
  <2>3. QED
    BY <1>8, <2>2 DEF Meaning
<1>9. CASE Exclude /\ phase' = "exclude"
  <2>1. phase = "exclude"
    BY <1>9 DEF Exclude
  <2>2. Placed' /\ Excluding'
    BY <1>1, <1>9, <2>1, ExcludeExcludes DEF Meaning
  <2>3. QED
    BY <1>9, <2>2 DEF Meaning
<1>10. /\ ResolveFile \/ ResolveList \/ ImportCrashes
             => phase' \notin {"resolve_wildcards", "resolve_sourcesref", "exclude", "done"}
       /\ Collect \/ LeaveList => phase' = "resolve_wildcards"
       /\ EnterList => phase' \in {"resolve_wildcards", "thrown"}
       /\ Import => phase' \in {"resolve_sourcesref", "exhausted"}
       /\ Exclude => phase' \in {"exclude", "crashed"}
  BY DEF ResolveFile, ResolveList, ImportCrashes, Collect, EnterList, LeaveList, Import, Exclude
<1>11. QED
  BY <1>2, <1>3, <1>4, <1>5, <1>6, <1>7, <1>8, <1>9, <1>10 DEF Next

\* In the end the sources of each target are the files that it and what it
\* imports, over any number of targets and in whatever order these stand, list
\* by name or by wildcard, without what any of them excludes; of other files with
\* the base name of one that is excluded nothing is claimed
\* (resolve_wildcards.cpp, resolve_sourcesref.cpp, exclude.cpp;
\* .web/target.pod:69-73).
THEOREM SourcesMean == Spec => []SourcesMeanWhatTheySay
<1>1. Init => MInv
  <2> SUFFICES ASSUME Init PROVE MInv
    OBVIOUS
  <2>1. phase = "resolve_sources" /\ wildcards = << >> /\ sourceFiles = << >>
    BY DEF Init
  <2>2. SInv
    BY <2>1, StartResolves DEF SInv, IInv, FailsIfMissed, Phases
  <2>3. QED
    BY <2>1, <2>2 DEF MInv, Meaning
<1>2. MInv /\ [Next]_vars => MInv'
  <2> SUFFICES ASSUME MInv, [Next]_vars PROVE MInv'
    OBVIOUS
  <2>1. UNCHANGED project
    BY DEF Next, NextPhase, NextBlock, Pass, PassList, ResolveFile, ResolveList, Collect, EnterList,
           LeaveList, Import, ImportCrashes, Exclude, vars
  <2>2. SInv'
    BY StepFails DEF MInv
  <2>3. Regular' => Meaning'
    BY <2>1, SameRegular, StepMeans
  <2>4. ASSUME phase' = "resolve_sources" PROVE wildcards' = << >> /\ sourceFiles' = << >>
    <3>1. phase = "resolve_sources" /\ UNCHANGED <<wildcards, sourceFiles>>
      BY <2>4 DEF Next, NextPhase, NextBlock, Pass, PassList, ResolveFile, ResolveList, Collect,
         EnterList, LeaveList, Import, ImportCrashes, Exclude, vars
    <3>2. QED
      BY <3>1 DEF MInv
  <2>5. QED
    BY <2>2, <2>3, <2>4 DEF MInv
<1>3. MInv => SourcesMeanWhatTheySay
  BY SettledMeans DEF MInv, Meaning
<1>4. QED
  BY <1>1, <1>2, <1>3, PTL DEF Spec

-----------------------------------------------------------------------------
\* The imports in a list, and those that are written in a block.
Wants(l) ==
  Refs(l) \union UNION {Refs(l[k].items) : k \in {k \in DOMAIN l : l[k].op = "exclude"}}
Named(u) == {x.name : x \in {x \in ItemsOf(u) : x.op = "ref"}}

\* List l has no import that m lacks, and no wildcard or exclude where m has
\* none.
NoMore(l, m) ==
  /\ Wants(l) \subseteq Wants(m)
  /\ \A k \in DOMAIN l : l[k].op \in {"wild", "exclude"} => k \in DOMAIN m /\ m[k].op = l[k].op

\* No section of document e has more than the one in its place in d.
LessIn(e, d) ==
  \A t \in DOMAIN d : \A s \in DOMAIN e[t].body :
    s \in DOMAIN d[t].body /\ NoMore(e[t].body[s].items, d[t].body[s].items)

\* An import in a section of block t comes from the block itself, or from one
\* that it imports; what stands outside of targets was written there.
Origin(t) ==
  \A s \in DOMAIN doc[t].body :
    /\ \E u \in Imports(t) : Wants(doc[t].body[s].items) \subseteq Named(u)
    /\ doc[t].kind = "toplevel" =>
         /\ Wants(doc[t].body[s].items) \subseteq Named(t)
         /\ (\E k \in DOMAIN doc[t].body[s].items : doc[t].body[s].items[k].op = "exclude")
              => \E x \in ItemsOf(t) : x.op = "exclude"
Origins == \A t \in DOMAIN doc : Origin(t)

\* One document that has less than another that has less than a third.
LEMMA LessThanLess ==
  ASSUME NEW c, NEW d, NEW e, DOMAIN c = DOMAIN d, LessIn(e, d), LessIn(d, c)
  PROVE  LessIn(e, c)
<1> SUFFICES ASSUME NEW t \in DOMAIN c, NEW s \in DOMAIN e[t].body
             PROVE  s \in DOMAIN c[t].body /\ NoMore(e[t].body[s].items, c[t].body[s].items)
  BY DEF LessIn
<1>1. s \in DOMAIN d[t].body /\ NoMore(e[t].body[s].items, d[t].body[s].items)
  BY DEF LessIn
<1>2. s \in DOMAIN c[t].body /\ NoMore(d[t].body[s].items, c[t].body[s].items)
  BY <1>1 DEF LessIn
<1>3. QED
  BY <1>1, <1>2 DEF NoMore

LEMMA LessThanSelf ==
  ASSUME NEW d
  PROVE  LessIn(d, d)
BY DEF LessIn, NoMore

\* What is left of what was written comes from where it was written.
LEMMA OriginsStart ==
  ASSUME project \in Seq(Blocks), SameBlocks(doc, project), LessIn(doc, project)
  PROVE  Origins
<1> SUFFICES ASSUME NEW t \in DOMAIN project PROVE Origin(t)
  BY DEF Origins, SameBlocks
<1> SUFFICES ASSUME NEW s \in DOMAIN doc[t].body
             PROVE  /\ \E u \in Imports(t) : Wants(doc[t].body[s].items) \subseteq Named(u)
                    /\ Wants(doc[t].body[s].items) \subseteq Named(t)
                    /\ (\E k \in DOMAIN doc[t].body[s].items : doc[t].body[s].items[k].op = "exclude")
                         => \E x \in ItemsOf(t) : x.op = "exclude"
  BY DEF Origin
<1> DEFINE l == project[t].body[s].items
<1>1. s \in DOMAIN project[t].body /\ NoMore(doc[t].body[s].items, l)
  BY DEF LessIn
<1>2. l \in ListsOf(t) /\ \A k \in DOMAIN l : l[k].op = "exclude" => l[k].items \in ListsOf(t)
  BY <1>1 DEF ListsOf
<1> HIDE DEF l
<1>3. \A m \in ListsOf(t) : \A k \in DOMAIN m : m[k] \in ItemsOf(t)
  BY DEF ItemsOf, Range
<1>4. \A m \in ListsOf(t) : Refs(m) \subseteq Named(t)
  BY <1>3 DEF Refs, Named
<1>5. Wants(l) \subseteq Named(t)
  BY <1>2, <1>4 DEF Wants
<1>6. (\E k \in DOMAIN l : l[k].op = "exclude") => \E x \in ItemsOf(t) : x.op = "exclude"
  BY <1>2, <1>3
<1>7. t \in Imports(t)
  BY ImportsClosed
<1>8. QED
  BY <1>1, <1>5, <1>6, <1>7 DEF NoMore

\* A section that has no more than one of block u, which block t imports.
LEMMA OriginKept ==
  ASSUME project \in Seq(Blocks), Origins, NEW u \in DOMAIN doc, NEW r \in DOMAIN doc[u].body,
         NEW t \in DOMAIN project, u \in Imports(t),
         NEW l, NoMore(l, doc[u].body[r].items)
  PROVE  \E v \in Imports(t) : Wants(l) \subseteq Named(v)
<1>1. PICK v \in Imports(u) : Wants(doc[u].body[r].items) \subseteq Named(v)
  BY DEF Origins, Origin
<1>2. v \in Imports(t)
  BY <1>1, ImportsGoOn
<1>3. QED
  BY <1>1, <1>2 DEF NoMore

\* Steps after which no section has more than before.
LEMMA OriginsKept ==
  ASSUME Placed, Origins, UNCHANGED project, SameBlocks(doc', doc), LessIn(doc', doc)
  PROVE  Origins'
<1>1. \A t : Imports(t)' = Imports(t)
  BY SameImports
<1>2. \A t : Named(t)' = Named(t) /\ ItemsOf(t)' = ItemsOf(t)
  BY DEF Named, ItemsOf, ListsOf
<1>3. DOMAIN doc' = DOMAIN doc /\ \A t \in DOMAIN doc : doc'[t].kind = doc[t].kind
  BY DEF SameBlocks
<1>4. ASSUME NEW t \in DOMAIN doc, NEW s \in DOMAIN doc'[t].body
      PROVE  /\ \E u \in Imports(t) : Wants(doc'[t].body[s].items) \subseteq Named(u)
             /\ doc[t].kind = "toplevel" =>
                  /\ Wants(doc'[t].body[s].items) \subseteq Named(t)
                  /\ (\E k \in DOMAIN doc'[t].body[s].items :
                        doc'[t].body[s].items[k].op = "exclude")
                       => \E x \in ItemsOf(t) : x.op = "exclude"
  <2>1. s \in DOMAIN doc[t].body /\ NoMore(doc'[t].body[s].items, doc[t].body[s].items)
    BY DEF LessIn
  <2>2. Origin(t)
    BY DEF Origins
  <2>3. PICK u \in Imports(t) : Wants(doc[t].body[s].items) \subseteq Named(u)
    BY <2>1, <2>2 DEF Origin
  <2>4. Wants(doc'[t].body[s].items) \subseteq Named(u)
    BY <2>1, <2>3 DEF NoMore
  <2>5. doc[t].kind = "toplevel" =>
          /\ Wants(doc'[t].body[s].items) \subseteq Named(t)
          /\ (\E k \in DOMAIN doc'[t].body[s].items : doc'[t].body[s].items[k].op = "exclude")
               => \E x \in ItemsOf(t) : x.op = "exclude"
    BY <2>1, <2>2 DEF Origin, NoMore
  <2>6. QED
    BY <2>4, <2>5
<1>5. \A l : Wants(l)' = Wants(l)
  OBVIOUS
<1>6. ASSUME NEW t \in DOMAIN doc PROVE Origin(t)'
  BY <1>1, <1>2, <1>3, <1>4 DEF Origin
<1>7. QED
  BY <1>3, <1>6 DEF Origins

\* The imports in a section are the items of its places that are imports.
Wanted(d, t, s) ==
  {ItemAt(d, p).name : p \in {p \in Spots(d) : p.t = t /\ p.s = s /\ ItemAt(d, p).op = "ref"}}

LEMMA WantsAreSpots ==
  ASSUME NEW d \in Seq(Blocks), NEW t \in DOMAIN d, NEW s \in DOMAIN d[t].body
  PROVE  /\ Wants(d[t].body[s].items) = Wanted(d, t, s)
         /\ \A k \in DOMAIN d[t].body[s].items :
              LET p == [t |-> t, s |-> s, i |-> k, j |-> 0]
              IN  p \in Spots(d) /\ ItemAt(d, p) = d[t].body[s].items[k]
<1> DEFINE l == d[t].body[s].items
           Spot(i, j) == [t |-> t, s |-> s, i |-> i, j |-> j]
<1>1. l \in Seq(Items) /\ \A k \in DOMAIN l : k \in Nat \ {0} /\ l[k] \in Items
  BY PartsTyped, RowElements
<1>2. \A k \in DOMAIN l : l[k].op = "exclude" => DOMAIN l[k].items \subseteq Nat \ {0}
  <2> SUFFICES ASSUME NEW k \in DOMAIN l, l[k].op = "exclude" PROVE DOMAIN l[k].items \subseteq Nat \ {0}
    OBVIOUS
  <2>1. l[k].items \in Seq(Plain)
    BY <1>1, ItemsTyped
  <2> HIDE DEF l
  <2>2. QED
    BY ONLY <2>1, RowElements
<1>3. ASSUME NEW k \in DOMAIN l
      PROVE  Spot(k, 0) \in Spots(d) /\ ItemAt(d, Spot(k, 0)) = l[k]
  BY <1>1, SpotsOfList DEF ItemAt
<1>4. ASSUME NEW k \in DOMAIN l, l[k].op = "exclude", NEW j \in DOMAIN l[k].items
      PROVE  Spot(k, j) \in Spots(d) /\ ItemAt(d, Spot(k, j)) = l[k].items[j]
  <2>1. k \in Nat /\ j \in Nat \ {0}
    BY <1>1, <1>2, <1>4
  <2>2. Spot(k, j) \in Spots(d)
    BY <1>4, <2>1, SpotsOfList
  <2>3. QED
    BY <2>1, <2>2 DEF ItemAt
<1>5. ASSUME NEW p \in Spots(d), p.t = t, p.s = s
      PROVE  \/ p.i \in DOMAIN l /\ ItemAt(d, p) = l[p.i]
             \/ /\ p.i \in DOMAIN l /\ l[p.i].op = "exclude" /\ p.j \in DOMAIN l[p.i].items
                /\ ItemAt(d, p) = l[p.i].items[p.j] /\ ItemAt(d, p).op # "exclude"
  <2>1. /\ p.i \in DOMAIN l
        /\ p.j = 0 \/ (l[p.i].op = "exclude" /\ p.j \in DOMAIN l[p.i].items)
    BY <1>5 DEF Spots
  <2>2. CASE p.j = 0
    BY <1>5, <2>1, <2>2 DEF ItemAt
  <2>3. CASE p.j # 0
    <3>1. l[p.i].items \in Seq(Plain) /\ l[p.i].op = "exclude" /\ p.j \in DOMAIN l[p.i].items
      BY <1>1, <2>1, <2>3, ItemsTyped
    <3>2. ItemAt(d, p) = l[p.i].items[p.j]
      BY <1>5, <2>3 DEF ItemAt
    <3> HIDE DEF l
    <3>3. l[p.i].items[p.j] \in Plain
      BY ONLY <3>1, RowElements
    <3>4. l[p.i].items[p.j].op # "exclude"
      BY ONLY <3>3, PlainTyped
    <3>5. QED
      BY <2>1, <3>1, <3>2, <3>4
  <2>4. QED
    BY <2>2, <2>3
<1>6. \A k, j : Spot(k, j).t = t /\ Spot(k, j).s = s
  OBVIOUS
<1>7. l = d[t].body[s].items
  OBVIOUS
<1> HIDE DEF l, Spot
<1>8. ASSUME NEW n \in Wants(l)
      PROVE  \E p \in Spots(d) : p.t = t /\ p.s = s /\ ItemAt(d, p).op = "ref" /\ ItemAt(d, p).name = n
  <2>1. CASE n \in Refs(l)
    <3>1. PICK k \in DOMAIN l : l[k].op = "ref" /\ l[k].name = n
      BY <2>1 DEF Refs
    <3>2. QED
      BY <1>3, <1>6, <3>1
  <2>2. CASE \E k \in DOMAIN l : l[k].op = "exclude" /\ n \in Refs(l[k].items)
    <3>1. PICK k \in DOMAIN l : l[k].op = "exclude" /\ n \in Refs(l[k].items)
      BY <2>2
    <3>2. PICK j \in DOMAIN l[k].items : l[k].items[j].op = "ref" /\ l[k].items[j].name = n
      BY <3>1 DEF Refs
    <3>3. QED
      BY <1>4, <1>6, <3>1, <3>2
  <2>3. QED
    BY <2>1, <2>2 DEF Wants
<1>9. ASSUME NEW p \in Spots(d), p.t = t, p.s = s, ItemAt(d, p).op = "ref"
      PROVE  ItemAt(d, p).name \in Wants(l)
  <2>1. CASE p.i \in DOMAIN l /\ ItemAt(d, p) = l[p.i]
    BY <1>9, <2>1 DEF Wants, Refs
  <2>2. CASE /\ p.i \in DOMAIN l /\ l[p.i].op = "exclude" /\ p.j \in DOMAIN l[p.i].items
             /\ ItemAt(d, p) = l[p.i].items[p.j]
    <3>1. ItemAt(d, p).name \in Refs(l[p.i].items)
      BY <1>9, <2>2 DEF Refs
    <3>2. QED
      BY <2>2, <3>1 DEF Wants
  <2>3. QED
    BY <1>5, <1>9, <2>1, <2>2
<1>10. Wants(l) = Wanted(d, t, s)
  BY <1>8, <1>9 DEF Wanted
<1>11. QED
  BY <1>3, <1>7, <1>10 DEF Spot
-----------------------------------------------------------------------------
\* An item is replaced by a file, or by nothing.
LEMMA LessItem ==
  ASSUME doc \in Seq(Blocks), at \in Spots(doc), Item.op # "exclude",
         NEW x \in Plain, x.op \in {"file", "none"}, NEW e, e = WithItem(x)
  PROVE  LessIn(e, doc)
<1>1. /\ e \in Seq(Blocks) /\ SameOutline(e, doc) /\ Spots(e) = Spots(doc)
      /\ ItemAt(e, at) = x
      /\ \A p \in Spots(doc) :
           /\ ItemAt(doc, p).op = "exclude" => ItemAt(e, p).op = "exclude"
           /\ ItemAt(doc, p).op # "exclude" /\ p # at => ItemAt(e, p) = ItemAt(doc, p)
  BY ItemReplaced
<1> SUFFICES ASSUME NEW t \in DOMAIN doc, NEW s \in DOMAIN e[t].body
             PROVE  s \in DOMAIN doc[t].body /\ NoMore(e[t].body[s].items, doc[t].body[s].items)
  BY DEF LessIn
<1>2. t \in DOMAIN e /\ s \in DOMAIN doc[t].body
  BY <1>1 DEF SameOutline, SameBlocks
<1>3. \A p \in Spots(doc) : ItemAt(e, p).op = "ref" => ItemAt(doc, p) = ItemAt(e, p)
  BY <1>1
<1>4. \A p \in Spots(doc) : ItemAt(e, p).op \in {"wild", "exclude"} => ItemAt(doc, p).op = ItemAt(e, p).op
  BY <1>1
<1>5. Wants(e[t].body[s].items) \subseteq Wants(doc[t].body[s].items)
  <2>1. /\ Wants(e[t].body[s].items) = Wanted(e, t, s)
        /\ Wants(doc[t].body[s].items) = Wanted(doc, t, s)
    BY <1>1, <1>2, WantsAreSpots
  <2>2. Wanted(e, t, s) \subseteq Wanted(doc, t, s)
    BY <1>1, <1>3 DEF Wanted
  <2>3. QED
    BY <2>1, <2>2
<1>6. ASSUME NEW k \in DOMAIN e[t].body[s].items, e[t].body[s].items[k].op \in {"wild", "exclude"}
      PROVE  /\ k \in DOMAIN doc[t].body[s].items
             /\ doc[t].body[s].items[k].op = e[t].body[s].items[k].op
  <2> DEFINE p == [t |-> t, s |-> s, i |-> k, j |-> 0]
  <2>1. p \in Spots(doc) /\ ItemAt(e, p) = e[t].body[s].items[k]
    BY <1>1, <1>2, WantsAreSpots
  <2>2. k \in DOMAIN doc[t].body[s].items /\ ItemAt(doc, p) = doc[t].body[s].items[k]
    BY <2>1 DEF Spots, ItemAt
  <2> HIDE DEF p
  <2>3. ItemAt(doc, p).op = ItemAt(e, p).op
    BY <1>4, <1>6, <2>1
  <2>4. QED
    BY <2>1, <2>2, <2>3
<1>7. QED
  BY <1>2, <1>5, <1>6 DEF NoMore

\* The document with the items of a section replaced by fewer.
LEMMA LessWith ==
  ASSUME NEW d \in Seq(Blocks), NEW t \in DOMAIN d, NEW s \in DOMAIN d[t].body,
         NEW items \in Seq(Items), NEW e, e = With(d, t, s, items), NoMore(items, d[t].body[s].items)
  PROVE  e \in Seq(Blocks) /\ SameBlocks(e, d) /\ LessIn(e, d)
<1>1. /\ e \in Seq(Blocks) /\ SameOutline(e, d)
      /\ e[t].body[s].items = items
      /\ \A u \in DOMAIN d : \A r \in DOMAIN d[u].body : u # t \/ r # s => e[u].body[r] = d[u].body[r]
  BY WithTyped
<1>2. SameBlocks(e, d) /\ \A u \in DOMAIN d : DOMAIN e[u].body = DOMAIN d[u].body
  BY <1>1 DEF SameOutline
<1>3. ASSUME NEW u \in DOMAIN d, NEW r \in DOMAIN e[u].body
      PROVE  r \in DOMAIN d[u].body /\ NoMore(e[u].body[r].items, d[u].body[r].items)
  <2>1. r \in DOMAIN d[u].body
    BY <1>2
  <2>2. CASE u = t /\ r = s
    BY <1>1, <2>1, <2>2
  <2>3. CASE u # t \/ r # s
    BY <1>1, <2>1, <2>3 DEF NoMore
  <2>4. QED
    BY <2>2, <2>3
<1>4. QED
  BY <1>1, <1>2, <1>3 DEF LessIn

\* Files have no imports.
LEMMA FilesWantNothing ==
  ASSUME NEW l, NEW m, \A k \in DOMAIN l : l[k].op = "file"
  PROVE  NoMore(l, m) /\ Refs(l) = {}
BY DEF NoMore, Wants, Refs

\* The list of an exclude is replaced by files.
LEMMA NestedFiles ==
  ASSUME NEW l \in Seq(Items), NEW i \in DOMAIN l, l[i].op = "exclude",
         NEW files \in Seq(Items), \A k \in DOMAIN files : files[k].op = "file",
         NEW m, m = [l EXCEPT ![i].items = files]
  PROVE  NoMore(m, l) /\ m \in Seq(Items)
<1>1. l[i] \in Items /\ l[i] = [op |-> "exclude", items |-> l[i].items]
  BY RowElements, ItemsTyped
<1> DEFINE x == [op |-> "exclude", items |-> files]
<1>2. m = [l EXCEPT ![i] = x]
  <2> DEFINE y == l[i]
  <2>1. y = [op |-> "exclude", items |-> y.items]
    BY <1>1
  <2> HIDE DEF y
  <2>2. [y EXCEPT !.items = files] = x
    BY <2>1
  <2>3. m = [l EXCEPT ![i] = [y EXCEPT !.items = files]]
    BY DEF y
  <2>4. QED
    BY <2>2, <2>3
<1>3. x.op = "exclude" /\ x.items = files
  OBVIOUS
<1>4. x \in Items
  <2>1. \A k \in DOMAIN files : files[k] \in Plain
    BY RowElements, ItemsTyped
  <2>2. files \in Seq(Plain)
    BY <2>1, LenProperties, IsASeq
  <2>3. QED
    BY <2>2 DEF Items
<1> HIDE DEF x
<1>5. m \in Seq(Items)
  <2>1. [l EXCEPT ![i] = x] \in Seq(Items)
    BY ONLY <1>4, l \in Seq(Items), i \in DOMAIN l, RowWith
  <2>2. QED
    BY <1>2, <2>1
<1>6. /\ DOMAIN m = DOMAIN l /\ m[i] = x
      /\ \A k \in DOMAIN l : k # i => m[k] = l[k]
  BY <1>2
<1>7. \A k \in DOMAIN l : m[k].op = l[k].op
  BY <1>3, <1>6
<1>8. Refs(m) = Refs(l)
  BY <1>3, <1>6 DEF Refs
<1>9. Refs(files) = {}
  BY FilesWantNothing
<1>10. Wants(m) \subseteq Wants(l)
  BY <1>3, <1>6, <1>8, <1>9 DEF Wants
<1>11. QED
  BY <1>5, <1>6, <1>7, <1>10 DEF NoMore
-----------------------------------------------------------------------------
\* Wildcards that have been collected and not been replaced yet stand in the
\* list that the visitor is in, before it.
Collected ==
  /\ wildcards \in Seq(Plain) /\ sourceFiles \in Seq(Seq(STRING))
  /\ wildcards # << >> /\ ~Nested =>
       /\ at.i > 0 /\ at.t \in DOMAIN doc /\ at.s \in DOMAIN doc[at.t].body
       /\ \E k \in DOMAIN Outer : k < at.i /\ Outer[k].op = "wild"

\* resolve_sources changes names only.
LEMMA ResolvedLess ==
  ASSUME Placed, LessIn(doc, project), UNCHANGED project,
         UNCHANGED doc \/ ResolveFile
  PROVE  LessIn(doc', project)
<1>1. CASE UNCHANGED doc
  BY <1>1
<1>2. CASE ~UNCHANGED doc
  <2>1. ResolveFile /\ AtItem /\ Item.op = "file" /\ doc' = WithItem(File(Resolved(Item)))
    BY <1>2 DEF ResolveFile
  <2>2. at \in Spots(doc) /\ Item \in Items /\ doc \in Seq(Blocks) /\ DOMAIN project = DOMAIN doc
    BY <2>1, AtSpot, NestedPlain DEF Placed, SameBlocks
  <2>3. File(Resolved(Item)) \in Plain /\ File(Resolved(Item)).op = "file" /\ Item.op # "exclude"
    BY <2>1, <2>2, ResolvedIsPlain DEF File
  <2>4. LessIn(doc', doc)
    BY <2>1, <2>2, <2>3, LessItem
  <2>5. QED
    BY <2>2, <2>4, LessThanLess
<1>3. QED
  BY <1>1, <1>2

\* A step in a list that collects, or passes, one item.
LEMMA CollectedPast ==
  ASSUME Placed, Collected, AtItem, at' = Past, UNCHANGED doc,
         wildcards' \in Seq(Plain), sourceFiles' \in Seq(Seq(STRING)),
         wildcards' = wildcards \/ Item.op = "wild"
  PROVE  Collected'
<1>1. CASE Nested
  <2>1. Nested'
    BY <1>1 DEF Nested, Past, Placed, Positions
  <2>2. QED
    BY <2>1 DEF Collected
<1>2. CASE ~Nested
  <2>1. /\ at \in Spots(doc) /\ at.i > 0 /\ at \in Positions
    BY AtSpot DEF Placed
  <2>2. /\ at.t \in DOMAIN doc /\ at.s \in DOMAIN doc[at.t].body /\ at.i \in DOMAIN Outer
    BY <2>1 DEF Spots, Outer
  <2>3. Item = Outer[at.i]
    BY <1>2 DEF Item, List, Here
  <2>4. at'.t = at.t /\ at'.s = at.s /\ at'.i = at.i + 1
    BY <1>2, <2>1 DEF Past, Positions
  <2>5. Outer' = Outer
    BY <2>4 DEF Outer
  <2>6. ASSUME wildcards' # << >>
        PROVE  \E k \in DOMAIN Outer : k < at'.i /\ Outer[k].op = "wild"
    <3>1. CASE Item.op = "wild"
      BY <2>1, <2>2, <2>3, <2>4, <3>1 DEF Positions
    <3>2. CASE Item.op # "wild"
      <4>1. PICK k \in DOMAIN Outer : k < at.i /\ Outer[k].op = "wild"
        BY <1>2, <2>6, <3>2 DEF Collected
      <4>2. Outer \in Seq(Items)
        BY InTheList DEF AtItem
      <4>3. k \in Nat
        BY <4>1, <4>2, RowElements
      <4>4. k < at'.i
        BY <2>1, <2>4, <4>1, <4>3 DEF Positions
      <4>5. QED
        BY <4>1, <4>4
    <3>3. QED
      BY <3>1, <3>2
  <2>7. at'.i > 0 /\ at'.t \in DOMAIN doc' /\ at'.s \in DOMAIN doc'[at'.t].body
    BY <2>1, <2>2, <2>4 DEF Positions
  <2>8. QED
    BY <2>5, <2>6, <2>7 DEF Collected
<1>3. QED
  BY <1>1, <1>2

\* A list whose wildcards have been replaced has no more than before.
LEMMA LeaveLess ==
  ASSUME Placed, Collected, LeaveList
  PROVE  Placed' /\ Collected' /\ LessIn(doc', doc)
<1>1. /\ AtEnd /\ InBody /\ at.i > 0 /\ phase = "resolve_wildcards" /\ at' = Behind
      /\ UNCHANGED <<project, phase>> /\ wildcards' = << >> /\ sourceFiles' = << >>
      /\ doc' = IF wildcards = << >> THEN doc ELSE WithList(Expanded)
  BY DEF LeaveList, AtEnd
<1>2. /\ at.t \in DOMAIN doc /\ at.s \in DOMAIN doc[at.t].body /\ Outer \in Seq(Items)
      /\ at \in Positions /\ doc \in Seq(Blocks) /\ Outer = doc[at.t].body[at.s].items
  BY <1>1, InTheList DEF Placed, Outer
<1>3. Collected'
  BY <1>1, EmptySeq DEF Collected
<1>4. doc' \in Seq(Blocks) /\ SameBlocks(doc', doc) /\ LessIn(doc', doc)
  <2>1. CASE wildcards = << >>
    BY <1>1, <1>2, <2>1, LessThanSelf DEF SameBlocks
  <2>2. CASE wildcards # << >>
    <3> DEFINE files == Expanded
    <3>1. files \in Seq(Items) /\ \A k \in DOMAIN files : files[k].op = "file"
      BY ExpandedMeans DEF Collected
    <3>2. doc' = WithList(files)
      BY <1>1, <2>2
    <3> HIDE DEF files
    <3> DEFINE items == IF Nested THEN [Outer EXCEPT ![at.i].items = files] ELSE files
    <3>3. doc' = With(doc, at.t, at.s, items)
      BY <3>2 DEF WithList, With, Outer
    <3>4. items \in Seq(Items) /\ NoMore(items, Outer)
      <4>1. CASE ~Nested
        BY <3>1, <4>1, FilesWantNothing
      <4>2. CASE Nested
        <5>1. at.i \in DOMAIN Outer /\ Outer[at.i].op = "exclude"
          <6>1. [at EXCEPT !.j = 0] \in Spots(doc) /\ Outer[at.i].op = "exclude"
            BY <4>2 DEF Placed, Nested
          <6>2. at.i \in DOMAIN Outer
            BY <1>2, <6>1 DEF Spots, Positions
          <6>3. QED
            BY <6>1, <6>2
        <5>2. items = [Outer EXCEPT ![at.i].items = files]
          BY <4>2
        <5> HIDE DEF items
        <5>3. QED
          BY <1>2, <3>1, <5>1, <5>2, NestedFiles
      <4>3. QED
        BY <4>1, <4>2
    <3> HIDE DEF items
    <3>5. ASSUME NEW d, d = With(doc, at.t, at.s, items)
          PROVE  d \in Seq(Blocks) /\ SameBlocks(d, doc) /\ LessIn(d, doc)
      BY <1>2, <3>4, <3>5, LessWith
    <3>6. QED
      BY <3>3, <3>5
  <2>3. QED
    BY <2>1, <2>2
<1>5. Placed'
  <2>1. at' \in Positions /\ at'.j = 0
    BY <1>1, <1>2, BehindSeat DEF Seat, Behind, Positions, Nested
  <2>2. QED
    BY <1>1, <1>4, <2>1 DEF Placed, SameBlocks, Phases
<1>6. QED
  BY <1>3, <1>4, <1>5
-----------------------------------------------------------------------------
\* A step of resolve_wildcards.
LEMMA WildcardsGoOn ==
  ASSUME Placed, LessIn(doc, project), Collected, phase = "resolve_wildcards", phase' = phase,
         Pass \/ NextBlock \/ Collect \/ EnterList \/ LeaveList
  PROVE  Placed' /\ LessIn(doc', project') /\ Collected'
<1>1. CASE Pass \/ Collect
  <2>1. /\ AtItem /\ at' = Past /\ UNCHANGED <<project, doc>>
        /\ wildcards' = wildcards \/ Item.op = "wild"
    BY <1>1 DEF Pass, Collect
  <2>2. wildcards' \in Seq(Plain) /\ sourceFiles' \in Seq(Seq(STRING))
    <3>1. CASE Pass
      BY <3>1 DEF Pass, Collected
    <3>2. CASE Collect
      BY <2>1, <3>2, NestedPlain, CollectTyped DEF Collected
    <3>3. QED
      BY <1>1, <3>1, <3>2
  <2>3. Collected'
    BY <2>1, <2>2, CollectedPast
  <2>4. Placed'
    BY <2>1, PastSeat, PlacedMoves DEF Phases
  <2>5. QED
    BY <2>1, <2>3, <2>4
<1>2. CASE NextBlock
  <2>1. /\ Placed' /\ at' = [t |-> at.t + 1, s |-> 1, i |-> 0, j |-> 0]
        /\ UNCHANGED <<project, doc, wildcards, sourceFiles>>
        /\ at.t \in DOMAIN doc /\ at.s \notin DOMAIN doc[at.t].body
    BY <1>2, BlockEnds
  <2>2. ~Nested
    <3> SUFFICES ASSUME Nested PROVE FALSE
      OBVIOUS
    <3> DEFINE p == [at EXCEPT !.j = 0]
    <3>1. p \in Spots(doc) /\ p.t = at.t /\ p.s = at.s
      BY DEF Placed, Nested, Positions
    <3> HIDE DEF p
    <3>2. p.s \in DOMAIN doc[p.t].body
      BY <3>1 DEF Spots
    <3>3. QED
      BY <2>1, <3>1, <3>2
  <2>3. wildcards = << >>
    BY <2>1, <2>2 DEF Collected
  <2>4. QED
    BY <2>1, <2>3 DEF Collected
<1>3. CASE EnterList
  <2>1. /\ AtList /\ at' = Inside /\ wildcards = << >>
        /\ UNCHANGED <<project, doc, wildcards, sourceFiles>>
    BY <1>3 DEF EnterList
  <2>2. Placed'
    BY <2>1, InsideSeat, PlacedMoves DEF Phases
  <2>3. QED
    BY <2>1, <2>2 DEF Collected
<1>4. CASE LeaveList
  <2>1. Placed' /\ Collected' /\ LessIn(doc', doc) /\ UNCHANGED project
    BY <1>4, LeaveLess DEF LeaveList
  <2>2. DOMAIN project = DOMAIN doc
    BY DEF Placed, SameBlocks
  <2>3. QED
    BY <2>1, <2>2, LessThanLess
<1>5. QED
  BY <1>1, <1>2, <1>3, <1>4

\* The exception.
LEMMA ThrownForThis ==
  ASSUME Placed, LessIn(doc, project), Collected, EnterList, phase' = "thrown"
  PROVE  \E t \in DOMAIN project : \E l \in ListsOf(t) : Precedes(l, "wild", "exclude")
<1>1. AtList /\ wildcards # << >> /\ phase = "resolve_wildcards"
  BY DEF EnterList
<1>2. ~Nested
  BY <1>1 DEF AtList, Nested, Placed, Positions
<1>3. PICK k \in DOMAIN Outer : k < at.i /\ Outer[k].op = "wild"
  BY <1>1, <1>2 DEF Collected
<1>4. /\ at.i > 0 /\ at.t \in DOMAIN doc /\ at.s \in DOMAIN doc[at.t].body /\ at \in Positions
      /\ Outer = doc[at.t].body[at.s].items
  BY <1>1, <1>2 DEF Collected, Outer, Placed
<1>5. AtItem /\ Item.op = "exclude"
  BY <1>1, <1>4 DEF AtList, Positions
<1>6. at.i \in DOMAIN Outer /\ Item = Outer[at.i]
  BY <1>2, <1>5, AtSpot DEF Spots, Outer, Item, List, Here
<1> DEFINE m == project[at.t].body[at.s].items
<1>7. at.t \in DOMAIN project /\ at.s \in DOMAIN project[at.t].body /\ NoMore(Outer, m)
  BY <1>4 DEF LessIn, Placed, SameBlocks
<1>8. m \in ListsOf(at.t)
  BY <1>7 DEF ListsOf
<1> HIDE DEF m
<1>9. k \in DOMAIN m /\ at.i \in DOMAIN m /\ m[k].op = "wild" /\ m[at.i].op = "exclude"
  BY <1>3, <1>5, <1>6, <1>7 DEF NoMore
<1>10. Precedes(m, "wild", "exclude")
  BY <1>3, <1>9 DEF Precedes
<1>11. QED
  BY <1>7, <1>8, <1>10

-----------------------------------------------------------------------------
\* The item the visitor is at is an import of its section.
LEMMA ItemWanted ==
  ASSUME Placed, AtItem, Item.op = "ref"
  PROVE  /\ at.t \in DOMAIN doc /\ at.s \in DOMAIN doc[at.t].body
         /\ Item.name \in Wants(doc[at.t].body[at.s].items)
<1>1. at \in Spots(doc) /\ Item = ItemAt(doc, at) /\ doc \in Seq(Blocks)
  BY AtSpot DEF Placed
<1>2. at.t \in DOMAIN doc /\ at.s \in DOMAIN doc[at.t].body
  BY <1>1 DEF Spots
<1>3. Item.name \in Wanted(doc, at.t, at.s)
  BY <1>1 DEF Wanted
<1>4. QED
  BY <1>1, <1>2, <1>3, WantsAreSpots

\* What an import is of: a block that the target imports.
LEMMA WantedFrom ==
  ASSUME Placed, Origins, AtItem, Item.op = "ref"
  PROVE  \E u \in Imports(at.t) :
           /\ u \in DOMAIN project
           /\ \E x \in ItemsOf(u) : x.op = "ref" /\ x.name = Item.name
           /\ Lookup(Item.name) # 0 => Lookup(Item.name) \in RefersTo[u]
<1>1. /\ at.t \in DOMAIN doc /\ at.s \in DOMAIN doc[at.t].body
      /\ Item.name \in Wants(doc[at.t].body[at.s].items)
  BY ItemWanted
<1>2. PICK u \in Imports(at.t) : Wants(doc[at.t].body[at.s].items) \subseteq Named(u)
  BY <1>1 DEF Origins, Origin
<1>3. project \in Seq(Blocks) /\ at.t \in DOMAIN project
  BY <1>1 DEF Placed, SameBlocks
<1>4. u \in DOMAIN project
  BY <1>2, <1>3, ImportsClosed
<1>5. PICK x \in ItemsOf(u) : x.op = "ref" /\ x.name = Item.name
  BY <1>1, <1>2 DEF Named
<1>6. Lookup(Item.name) # 0 => Lookup(Item.name) \in DOMAIN project
  BY LookupFinds DEF Targets
<1>7. Lookup(Item.name) # 0 => Lookup(Item.name) \in RefersTo[u]
  BY <1>4, <1>5, <1>6 DEF RefersTo
<1>8. QED
  BY <1>2, <1>4, <1>5, <1>7

\* What an import brings comes from blocks that the target imports.
LEMMA ImportOrigins ==
  ASSUME Placed, Origins, Import, phase' = "resolve_sourcesref"
  PROVE  Placed' /\ Origins'
<1> DEFINE v == Lookup(Item.name)
           copies == Copies(v)
           d == WithItem(None)
<1>1. /\ Placed' /\ SameBlocks(doc', doc) /\ UNCHANGED <<project, phase>>
      /\ \A u \in DOMAIN doc : u # at.t => doc'[u] = doc[u]
      /\ at.t \in DOMAIN doc /\ AtItem /\ Item.op = "ref" /\ doc[at.t].kind # "toplevel"
  BY ImportPlaced
<1>2. v # 0 /\ doc' = Grown(d, at.t, copies)
  BY DEF Import, Undefined, Grown
<1>3. /\ at \in Spots(doc) /\ doc \in Seq(Blocks) /\ project \in Seq(Blocks)
      /\ DOMAIN doc = DOMAIN project /\ at.t \in DOMAIN project
  BY <1>1, AtSpot DEF Placed, SameBlocks
<1>4. v \in DOMAIN doc /\ v \in Imports(at.t)
  <2>1. PICK u \in Imports(at.t) : v \in RefersTo[u]
    BY <1>1, <1>2, WantedFrom
  <2>2. RefersTo[u] \subseteq Imports(at.t)
    BY <1>3, <2>1, ImportsClosed
  <2>3. QED
    BY <1>2, <2>1, <2>2, LookupFinds
<1>5. None \in Plain /\ None.op = "none"
  BY DEF None, Plain
<1>6. d = WithItem(None)
  OBVIOUS
<1> HIDE DEF d, v
<1>7. copies \in Seq(Sections) /\
      Range(copies) = {doc[v].body[k] : k \in {k \in DOMAIN doc[v].body : doc[v].body[k].own}}
  BY <1>3, <1>4, CopiesAre
<1> HIDE DEF copies
<1>8. d \in Seq(Blocks) /\ SameOutline(d, doc) /\ LessIn(d, doc)
  BY <1>1, <1>3, <1>5, <1>6, ItemReplaced, LessItem
<1>9. at.t \in DOMAIN d /\ DOMAIN d = DOMAIN doc /\ DOMAIN doc' = DOMAIN doc
  BY <1>1, <1>8 DEF SameOutline, SameBlocks
<1>10. MoreIn(doc', d, at.t, copies)
  BY <1>2, <1>7, <1>8, <1>9, BodyGrows
<1>11. ASSUME NEW s \in DOMAIN doc'[at.t].body
       PROVE  \E u \in DOMAIN doc : \E r \in DOMAIN doc[u].body :
                 u \in Imports(at.t) /\ NoMore(doc'[at.t].body[s].items, doc[u].body[r].items)
  <2>1. CASE s \in DOMAIN d[at.t].body
    <3>1. doc'[at.t].body[s] = d[at.t].body[s]
      BY <1>10, <2>1 DEF MoreIn
    <3>2. s \in DOMAIN doc[at.t].body /\ NoMore(d[at.t].body[s].items, doc[at.t].body[s].items)
      BY <1>1, <1>8, <2>1 DEF LessIn
    <3>3. at.t \in Imports(at.t)
      BY <1>3, ImportsClosed
    <3>4. QED
      BY <1>1, <3>1, <3>2, <3>3
  <2>2. CASE doc'[at.t].body[s] \in Range(copies)
    <3>1. PICK k \in DOMAIN doc[v].body : doc'[at.t].body[s] = doc[v].body[k]
      BY <1>7, <2>2
    <3>2. QED
      BY <1>4, <3>1 DEF NoMore
  <2>3. QED
    BY <1>10, <2>1, <2>2 DEF MoreIn
<1>12. \A t : Imports(t)' = Imports(t)
  BY <1>1, SameImports
<1>13. \A t : Named(t)' = Named(t) /\ ItemsOf(t)' = ItemsOf(t)
  BY <1>1 DEF Named, ItemsOf, ListsOf
<1>14. \A l : Wants(l)' = Wants(l)
  OBVIOUS
<1>15. ASSUME NEW t \in DOMAIN doc PROVE Origin(t)'
  <2>1. CASE t # at.t
    <3>1. doc'[t] = doc[t] /\ Origin(t)
      BY <1>1, <2>1 DEF Origins
    <3>2. QED
      BY <1>12, <1>13, <3>1 DEF Origin
  <2>2. CASE t = at.t
    <3>1. doc'[t].kind # "toplevel"
      BY <1>1, <2>2 DEF SameBlocks
    <3>2. ASSUME NEW s \in DOMAIN doc'[t].body
          PROVE  \E u \in Imports(t) : Wants(doc'[t].body[s].items) \subseteq Named(u)
      <4> DEFINE l == doc'[t].body[s].items
      <4>1. PICK u \in DOMAIN doc :
              \E r \in DOMAIN doc[u].body : u \in Imports(t) /\ NoMore(l, doc[u].body[r].items)
        BY <1>11, <2>2
      <4> HIDE DEF l
      <4>2. \E w \in Imports(t) : Wants(l) \subseteq Named(w)
        BY <1>3, <4>1, OriginKept
      <4>3. QED
        BY <4>2 DEF l
    <3>3. QED
      BY <1>12, <1>13, <3>1, <3>2 DEF Origin
  <2>3. QED
    BY <2>1, <2>2
<1>16. QED
  BY <1>1, <1>9, <1>15 DEF Origins
\* An exclude takes files out of the sections of its target, and itself.
LEMMA ExcludeOrigins ==
  ASSUME Placed, Origins, Exclude, phase' = "exclude", at.j = 0
  PROVE  Placed' /\ Origins' /\ at'.j = 0
<1>1. /\ Placed' /\ UNCHANGED <<project, phase>> /\ at' = [at EXCEPT !.i = at.i + 1]
      /\ doc \in Seq(Blocks) /\ at \in Positions /\ SameBlocks(doc', doc)
      /\ at.t \in DOMAIN doc /\ Cleaned(doc'[at.t].body)
      /\ \A u \in DOMAIN doc : u # at.t => doc'[u] = doc[u]
  BY ExcludeCleans
<1>2. ASSUME NEW t \in DOMAIN doc, NEW s \in DOMAIN doc'[t].body
      PROVE  s \in DOMAIN doc[t].body /\ NoMore(doc'[t].body[s].items, doc[t].body[s].items)
  <2>1. CASE t # at.t
    BY <1>1, <2>1 DEF NoMore
  <2>2. CASE t = at.t
    <3> DEFINE l == doc'[t].body[s].items
               m == doc[t].body[s].items
    <3>1. /\ s \in DOMAIN doc[t].body /\ DOMAIN l = DOMAIN m
          /\ \A k \in DOMAIN m : l[k] = None \/ l[k] = m[k]
      BY <1>1, <2>2 DEF Cleaned, Remains
    <3> HIDE DEF l, m
    <3>2. \A k \in DOMAIN l : l[k].op \in {"wild", "ref", "exclude"} => l[k] = m[k]
      BY <3>1 DEF None
    <3>3. Wants(l) \subseteq Wants(m)
      BY <3>1, <3>2 DEF Wants, Refs
    <3>4. NoMore(l, m)
      BY <3>1, <3>2, <3>3 DEF NoMore
    <3>5. QED
      BY <3>1, <3>4 DEF l, m
  <2>3. QED
    BY <2>1, <2>2
<1>3. LessIn(doc', doc)
  BY <1>2 DEF LessIn
<1>4. at'.j = 0
  BY <1>1 DEF Positions
<1>5. QED
  BY <1>1, <1>3, <1>4, OriginsKept

-----------------------------------------------------------------------------
\* What a program dies of.
Fatal ==
  \/ Circular
  \/ \E t \in DOMAIN project : \E x \in ItemsOf(t) :
       \/ x.op = "ref" /\ (Lookup(x.name) = 0 \/ project[t].kind = "toplevel")
       \/ x.op = "exclude" /\ project[t].kind = "toplevel"

\* It stays so as long as the blocks do.
LEMMA SameFatal ==
  ASSUME UNCHANGED project, SameBlocks(doc', doc)
  PROVE  Fatal' <=> Fatal
<1>1. RefersTo' = RefersTo /\ \A t : Imports(t)' = Imports(t)
  BY SameImports
<1>2. \A n : Lookup(n)' = Lookup(n)
  BY SameLookup
<1>3. \A t : ItemsOf(t)' = ItemsOf(t)
  BY DEF ItemsOf, ListsOf
<1>4. Circular' <=> Circular
  BY <1>1 DEF Circular
<1>5. QED
  BY <1>2, <1>3, <1>4 DEF Fatal

\* The crash of an import.
LEMMA ImportFatal ==
  ASSUME Placed, Origins, ImportCrashes
  PROVE  Fatal
<1>1. AtItem /\ Item.op = "ref"
  BY DEF ImportCrashes
<1>2. PICK u \in Imports(at.t) :
        /\ u \in DOMAIN project
        /\ \E x \in ItemsOf(u) : x.op = "ref" /\ x.name = Item.name
        /\ Lookup(Item.name) # 0 => Lookup(Item.name) \in RefersTo[u]
  BY <1>1, WantedFrom
<1>3. /\ at.t \in DOMAIN doc /\ at.s \in DOMAIN doc[at.t].body
      /\ Item.name \in Wants(doc[at.t].body[at.s].items)
  BY <1>1, ItemWanted
<1>4. at.t \in DOMAIN project /\ doc[at.t].kind = project[at.t].kind
  BY <1>3 DEF Placed, SameBlocks
<1>5. CASE Lookup(Item.name) = 0
  BY <1>2, <1>5 DEF Fatal
<1>6. CASE doc[at.t].kind = "toplevel"
  <2>1. Item.name \in Named(at.t)
    BY <1>3, <1>6 DEF Origins, Origin
  <2>2. QED
    BY <1>4, <1>6, <2>1 DEF Named, Fatal
<1>7. CASE Lookup(Item.name) = at.t /\ Lookup(Item.name) # 0
  <2>1. Circular
    BY <1>2, <1>4, <1>7 DEF Circular
  <2>2. QED
    BY <2>1 DEF Fatal
<1>8. QED
  BY <1>5, <1>6, <1>7 DEF ImportCrashes, Undefined

\* The crash of an exclude.
LEMMA ExcludeFatal ==
  ASSUME Placed, Origins, Exclude, at.j = 0, phase' = "crashed"
  PROVE  Fatal
<1>1. AtItem /\ Item.op = "exclude" /\ doc[at.t].kind = "toplevel" /\ ~Nested
  BY DEF Exclude, Nested
<1>2. at \in Spots(doc) /\ at.t \in DOMAIN doc
  BY <1>1, AtSpot
<1>3. /\ at.s \in DOMAIN doc[at.t].body /\ at.i \in DOMAIN doc[at.t].body[at.s].items
      /\ doc[at.t].body[at.s].items[at.i].op = "exclude"
  BY <1>1, <1>2 DEF Spots, Item, List, Here, Outer
<1>4. \E x \in ItemsOf(at.t) : x.op = "exclude"
  BY <1>1, <1>2, <1>3 DEF Origins, Origin
<1>5. at.t \in DOMAIN project /\ project[at.t].kind = "toplevel"
  BY <1>1, <1>2 DEF Placed, SameBlocks
<1>6. QED
  BY <1>4, <1>5 DEF Fatal

-----------------------------------------------------------------------------
\* In all phases what is left of the document can be traced to what was
\* written.
Traced ==
  /\ Running => Placed
  /\ phase \in {"resolve_sources", "resolve_wildcards"} => LessIn(doc, project)
  /\ phase = "resolve_sources" => wildcards = << >> /\ sourceFiles = << >>
  /\ phase = "resolve_wildcards" => Collected
  /\ phase \in {"resolve_sourcesref", "exclude"} => Origins
  /\ phase = "exclude" => at.j = 0

Reasons == ThrowsForAReason /\ CrashesForAReason

EInv == SInv /\ Traced /\ Reasons

\* A step in which nothing happens.
LEMMA StaysTraced ==
  ASSUME Traced, UNCHANGED vars
  PROVE  Traced'
<1>1. Placed' <=> Placed
  BY DEF Placed, SameBlocks, Spots, Outer, vars
<1>2. Collected' <=> Collected
  BY DEF Collected, Nested, Outer, vars
<1>3. LessIn(doc, project)' <=> LessIn(doc, project)
  BY DEF vars
<1>4. Origins => Origins'
  <2> SUFFICES ASSUME Origins PROVE Origins'
    OBVIOUS
  <2>1. UNCHANGED project /\ SameBlocks(doc', doc) /\ doc' = doc
    BY DEF SameBlocks, vars
  <2>2. \A t : Imports(t)' = Imports(t)
    BY <2>1, SameImports
  <2>3. \A t : Named(t)' = Named(t) /\ ItemsOf(t)' = ItemsOf(t)
    BY <2>1 DEF Named, ItemsOf, ListsOf
  <2>4. \A t : Origin(t)' <=> Origin(t)
    BY <2>1, <2>2, <2>3 DEF Origin
  <2>5. QED
    BY <2>1, <2>4 DEF Origins
<1>5. QED
  BY <1>1, <1>2, <1>3, <1>4 DEF Traced, Running, vars

\* A phase that ends.
LEMMA NextPhaseTraced ==
  ASSUME Traced, NextPhase, Running
  PROVE  Traced'
<1>1. /\ at' = Start /\ UNCHANGED <<project, doc, wildcards, sourceFiles>> /\ Placed
      /\ phase' \in Phases
  BY DEF NextPhase, Phases, Traced
<1>2. Start \in Positions /\ at'.j = 0 /\ at'.i = 0
  BY <1>1 DEF Start, Positions
<1>3. Placed'
  <2>1. Seat(at')
    BY <1>1, <1>2 DEF Seat
  <2>2. QED
    BY <1>1, <2>1, PlacedMoves
<1>4. CASE phase = "resolve_sources"
  <2>1. LessIn(doc', project') /\ wildcards' = << >> /\ sourceFiles' = << >>
    BY <1>1, <1>4 DEF Traced
  <2>2. Collected'
    BY <2>1, EmptySeq DEF Collected
  <2>3. phase' \in {"resolve_wildcards", "failed"}
    BY <1>4 DEF NextPhase
  <2>4. QED
    BY <1>3, <2>1, <2>2, <2>3 DEF Traced, Running
<1>5. CASE phase = "resolve_wildcards"
  <2>1. LessIn(doc, project)
    BY <1>5 DEF Traced
  <2>2. project' \in Seq(Blocks) /\ SameBlocks(doc', project') /\ LessIn(doc', project')
    BY <1>1, <2>1 DEF Placed
  <2>3. Origins
    BY <1>1, <2>1, OriginsStart DEF Placed
  <2>4. SameBlocks(doc', doc) /\ LessIn(doc', doc)
    BY <1>1, LessThanSelf DEF SameBlocks
  <2>5. Origins'
    BY <1>1, <2>3, <2>4, OriginsKept
  <2>6. phase' = "resolve_sourcesref"
    BY <1>5 DEF NextPhase
  <2>7. QED
    BY <1>3, <2>5, <2>6 DEF Traced, Running
<1>6. CASE phase \in {"resolve_sourcesref", "exclude"}
  <2>1. SameBlocks(doc', doc) /\ LessIn(doc', doc)
    BY <1>1, LessThanSelf DEF SameBlocks
  <2>2. Origins'
    BY <1>1, <1>6, <2>1, OriginsKept DEF Traced
  <2>3. phase' \in {"exclude", "done"}
    BY <1>6 DEF NextPhase
  <2>4. QED
    BY <1>2, <1>3, <2>2, <2>3 DEF Traced, Running
<1>7. QED
  BY <1>4, <1>5, <1>6 DEF Running

\* Every step.
LEMMA StepTraced ==
  ASSUME SInv, Traced, [Next]_vars
  PROVE  Traced'
<1>1. CASE UNCHANGED vars
  BY <1>1, StaysTraced
<1>2. CASE ~Running'
  BY <1>2 DEF Traced, Running
<1>3. CASE NextPhase /\ Running
  BY <1>3, NextPhaseTraced
<1>4. CASE ~NextPhase /\ phase = "resolve_sources" /\ Next
  <2>1. Placed /\ Resolving /\ LessIn(doc, project) /\ wildcards = << >> /\ sourceFiles = << >>
    BY <1>4 DEF SInv, IInv, Traced
  <2>2. NextBlock \/ Pass \/ ResolveFile \/ ResolveList
    BY <1>4 DEF Next, PassList, Collect, EnterList, LeaveList, Import, ImportCrashes, Exclude
  <2>3. Placed'
    BY <1>4, <2>1, <2>2, NextBlockResolves, PassResolves, ResolveFileResolves, ResolveListResolves
  <2>4. /\ UNCHANGED <<project, phase, wildcards, sourceFiles>> /\ (UNCHANGED doc \/ ResolveFile)
    BY <2>2 DEF NextBlock, Pass, ResolveFile, ResolveList
  <2>5. LessIn(doc', project')
    BY <2>1, <2>4, ResolvedLess
  <2>6. QED
    BY <1>4, <2>1, <2>3, <2>4, <2>5 DEF Traced
<1>5. CASE ~NextPhase /\ phase = "resolve_wildcards" /\ Next /\ Running'
  <2>1. Placed /\ LessIn(doc, project) /\ Collected
    BY <1>5 DEF Traced, Running
  <2>2. /\ Pass \/ NextBlock \/ Collect \/ EnterList \/ LeaveList
        /\ phase' = phase
    BY <1>5 DEF Next, NextBlock, Pass, PassList, ResolveFile, ResolveList, Collect, EnterList,
                LeaveList, Import, ImportCrashes, Exclude, Running
  <2>3. Placed' /\ LessIn(doc', project') /\ Collected'
    BY <1>5, <2>1, <2>2, WildcardsGoOn
  <2>4. QED
    BY <1>5, <2>2, <2>3 DEF Traced
<1>6. CASE ~NextPhase /\ phase \in {"resolve_sourcesref", "exclude"} /\ Next /\ Running'
  <2>1. Placed /\ Origins /\ (phase = "exclude" => at.j = 0)
    BY <1>6 DEF Traced, Running
  <2>2. /\ \/ Pass \/ PassList \/ NextBlock
           \/ Import /\ phase = "resolve_sourcesref"
           \/ Exclude /\ phase = "exclude"
        /\ phase' = phase
    BY <1>6 DEF Next, NextBlock, Pass, PassList, ResolveFile, ResolveList, Collect, EnterList,
                LeaveList, Import, ImportCrashes, Exclude, Running
  <2>3. CASE Pass \/ PassList \/ NextBlock
    <3>1. Placed' /\ UNCHANGED <<project, doc>> /\ (phase = "exclude" => at'.j = 0)
      BY <1>6, <2>1, <2>3, WalkOn
    <3>2. SameBlocks(doc', doc) /\ LessIn(doc', doc)
      BY <3>1, LessThanSelf DEF SameBlocks
    <3>3. Origins'
      BY <2>1, <3>1, <3>2, OriginsKept
    <3>4. QED
      BY <1>6, <2>2, <3>1, <3>3 DEF Traced
  <2>4. CASE Import /\ phase = "resolve_sourcesref"
    <3>1. Placed' /\ Origins'
      BY <2>1, <2>2, <2>4, ImportOrigins
    <3>2. QED
      BY <2>2, <2>4, <3>1 DEF Traced
  <2>5. CASE Exclude /\ phase = "exclude"
    <3>1. Placed' /\ Origins' /\ at'.j = 0
      BY <2>1, <2>2, <2>5, ExcludeOrigins
    <3>2. QED
      BY <2>2, <2>5, <3>1 DEF Traced
  <2>6. QED
    BY <2>2, <2>3, <2>4, <2>5
<1>7. Next => Running
  BY DEF Next, NextPhase, NextBlock, Pass, PassList, ResolveFile, ResolveList, Collect, EnterList,
         LeaveList, Import, ImportCrashes, Exclude, Running
<1>8. QED
  BY <1>1, <1>2, <1>3, <1>4, <1>5, <1>6, <1>7 DEF Running

\* The steps that end the program.
LEMMA StepReasons ==
  ASSUME Traced, Reasons, [Next]_vars
  PROVE  Reasons'
<1>1. CASE UNCHANGED vars
  <2>1. \A t : ListsOf(t)' = ListsOf(t)
    BY <1>1 DEF ListsOf, vars
  <2>2. Fatal' <=> Fatal
    BY <1>1, SameFatal DEF SameBlocks, vars
  <2>3. ThrowsForAReason'
    BY <1>1, <2>1 DEF Reasons, ThrowsForAReason, Precedes, vars
  <2>4. CrashesForAReason'
    BY <1>1, <2>2 DEF Reasons, CrashesForAReason, Fatal, vars
  <2>5. QED
    BY <2>3, <2>4 DEF Reasons
<1>2. CASE Next
  <2>1. UNCHANGED project
    BY <1>2 DEF Next, NextPhase, NextBlock, Pass, PassList, ResolveFile, ResolveList, Collect,
                EnterList, LeaveList, Import, ImportCrashes, Exclude
  <2>2. ASSUME phase' = "thrown"
        PROVE  \E t \in DOMAIN project : \E l \in ListsOf(t) : Precedes(l, "wild", "exclude")
    <3>1. EnterList /\ phase = "resolve_wildcards"
      BY <1>2, <2>2 DEF Next, NextPhase, NextBlock, Pass, PassList, ResolveFile, ResolveList, Collect,
                  EnterList, LeaveList, Import, ImportCrashes, Exclude, Running
    <3>2. Placed /\ LessIn(doc, project) /\ Collected
      BY <3>1 DEF Traced, Running
    <3>3. QED
      BY <2>2, <3>1, <3>2, ThrownForThis
  <2>3. ASSUME phase' = "crashed"
        PROVE  Fatal /\ SameBlocks(doc', doc)
    <3>1. /\ ImportCrashes \/ (Exclude /\ phase = "exclude")
          /\ phase \in {"resolve_sourcesref", "exclude"} /\ UNCHANGED doc
      BY <1>2, <2>3 DEF Next, NextPhase, NextBlock, Pass, PassList, ResolveFile, ResolveList, Collect,
                  EnterList, LeaveList, Import, ImportCrashes, Exclude, Running
    <3>2. Placed /\ Origins /\ (phase = "exclude" => at.j = 0)
      BY <3>1 DEF Traced, Running
    <3>3. SameBlocks(doc', doc)
      BY <3>1 DEF SameBlocks
    <3>4. QED
      BY <2>3, <3>1, <3>2, <3>3, ImportFatal, ExcludeFatal
  <2>4. \A t : ListsOf(t)' = ListsOf(t)
    BY <2>1 DEF ListsOf
  <2>5. ThrowsForAReason'
    BY <2>1, <2>2, <2>4 DEF ThrowsForAReason, Precedes
  <2>6. CrashesForAReason'
    BY <2>1, <2>3, SameFatal DEF CrashesForAReason, Fatal
  <2>7. QED
    BY <2>5, <2>6 DEF Reasons
<1>3. QED
  BY <1>1, <1>2

\* An exception needs a list with a wildcard before an exclude, and a crash an
\* import that names no program or library, an import or an exclude outside of
\* targets, or a circle of imports (resolve_wildcards.cpp:165-171,
\* resolve_sourcesref.cpp:33-42, exclude.cpp:21-36).
THEOREM SourcesEndForAReason == Spec => [](ThrowsForAReason /\ CrashesForAReason)
<1>1. Init => EInv
  <2> SUFFICES ASSUME Init PROVE EInv
    OBVIOUS
  <2>1. phase = "resolve_sources" /\ wildcards = << >> /\ sourceFiles = << >> /\ doc = project
    BY DEF Init
  <2>2. SInv /\ Placed
    BY <2>1, StartResolves DEF SInv, IInv, FailsIfMissed, Phases
  <2>3. LessIn(doc, project)
    BY <2>1, LessThanSelf
  <2>4. QED
    BY <2>1, <2>2, <2>3 DEF EInv, Traced, Reasons, ThrowsForAReason, CrashesForAReason
<1>2. EInv /\ [Next]_vars => EInv'
  BY StepFails, StepTraced, StepReasons DEF EInv
<1>3. EInv => ThrowsForAReason /\ CrashesForAReason
  BY DEF EInv, Reasons
<1>4. QED
  BY <1>1, <1>2, <1>3, PTL DEF Spec
=============================================================================
