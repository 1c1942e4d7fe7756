-------------------------- MODULE VariablesProofs ----------------------------
(***************************************************************************)
(* Theorems of the variables, for all documents: that the bodies do not    *)
(* change when they have been visited, and that they end up with what they *)
(* mean.                                                                   *)
(***************************************************************************)
EXTENDS Variables, SetInduction

USE SymbolAssumption, DocumentAssumption

Word == Text \union Name

\* The links of some texts: one for each element, to a body or to nothing.
IsLinked(links, text) ==
  /\ text \in [Symbol -> Seq(Word)]
  /\ \A d \in Symbol : /\ DOMAIN links[d] = DOMAIN text[d]
                       /\ \A i \in DOMAIN text[d] : links[d][i] \in Symbol \union {NoSymbol}

-----------------------------------------------------------------------------
LEMMA RefersToBodies ==
  ASSUME NEW links, NEW text, IsLinked(links, text), NEW d \in Symbol
  PROVE  RefersTo(links, d) \subseteq Symbol
BY DEF RefersTo, IsLinked, Range

\* Below has what a body refers to, is closed, and is the least such set.
LEMMA BelowClosed ==
  ASSUME NEW links, NEW text, IsLinked(links, text), NEW d \in Symbol
  PROVE  /\ Below(links, d) \in SUBSET Symbol
         /\ RefersTo(links, d) \subseteq Below(links, d)
         /\ \A e \in Below(links, d) : RefersTo(links, e) \subseteq Below(links, d)
         /\ \A X \in SUBSET Symbol :
              RefersTo(links, d) \subseteq X /\ (\A e \in X : RefersTo(links, e) \subseteq X)
                => Below(links, d) \subseteq X
<1> DEFINE next == [e \in Symbol |-> RefersTo(links, e)]
           start == RefersTo(links, d)
<1>1. /\ next \in [Symbol -> SUBSET Symbol] /\ start \in SUBSET Symbol
      /\ start = RefersTo(links, d) /\ IsFiniteSet(Symbol)
  BY RefersToBodies
<1>2. \A e \in Symbol : next[e] = RefersTo(links, e)
  OBVIOUS
<1>3. Below(links, d) = Reach(Symbol, start, next)
  BY DEF Below
<1> HIDE DEF next, start
<1>4. /\ Below(links, d) \in SUBSET Symbol
      /\ start \subseteq Below(links, d)
      /\ \A e \in Below(links, d) : next[e] \subseteq Below(links, d)
      /\ \A X \in SUBSET Symbol :
           start \subseteq X /\ (\A e \in X : next[e] \subseteq X)
             => Below(links, d) \subseteq X
  BY <1>1, <1>3, ReachLeast
<1>5. \A e \in Below(links, d) : RefersTo(links, e) \subseteq Below(links, d)
  BY <1>2, <1>4
<1>6. ASSUME NEW X \in SUBSET Symbol, RefersTo(links, d) \subseteq X,
             \A e \in X : RefersTo(links, e) \subseteq X
      PROVE  Below(links, d) \subseteq X
  <2>1. \A e \in X : next[e] \subseteq X
    BY <1>2, <1>6
  <2>2. QED
    BY <1>1, <1>4, <1>6, <2>1
<1>7. QED
  BY <1>1, <1>4, <1>5, <1>6

-----------------------------------------------------------------------------
\* How much a body refers to, however indirectly.
Depth(links, d) == Cardinality(Below(links, d))

\* Without circles that is less for what it refers to, and less than all.
LEMMA DepthFalls ==
  ASSUME NEW links, NEW text, IsLinked(links, text), Acyclic(links), NEW d \in Symbol
  PROVE  /\ Depth(links, d) \in Nat
         /\ Depth(links, d) < Cardinality(Symbol)
         /\ Cardinality(Symbol) \in Nat
         /\ \A e \in RefersTo(links, d) : e \in Symbol /\ Depth(links, e) < Depth(links, d)
<1>1. \A e \in Symbol : /\ Below(links, e) \in SUBSET Symbol
                        /\ e \notin Below(links, e)
                        /\ IsFiniteSet(Below(links, e))
                        /\ Depth(links, e) \in Nat
  <2>1. TAKE e \in Symbol
  <2>2. Below(links, e) \in SUBSET Symbol
    BY BelowClosed
  <2>3. IsFiniteSet(Below(links, e))
    BY <2>2, FS_Subset
  <2>4. Depth(links, e) \in Nat
    BY <2>3, FS_CardinalityType DEF Depth
  <2>5. QED
    BY <2>2, <2>3, <2>4 DEF Acyclic
<1>2. Cardinality(Symbol) \in Nat
  BY FS_CardinalityType
<1>3. Depth(links, d) < Cardinality(Symbol)
  <2>1. Below(links, d) \in SUBSET Symbol /\ Below(links, d) # Symbol
    BY <1>1
  <2>2. /\ Cardinality(Below(links, d)) <= Cardinality(Symbol)
        /\ Cardinality(Below(links, d)) # Cardinality(Symbol)
    BY <2>1, FS_Subset
  <2>3. QED
    BY <1>1, <1>2, <2>2 DEF Depth
<1>4. ASSUME NEW e \in RefersTo(links, d) PROVE e \in Symbol /\ Depth(links, e) < Depth(links, d)
  <2>1. e \in Symbol /\ e \in Below(links, d)
    BY BelowClosed, RefersToBodies
  <2>2. /\ RefersTo(links, e) \subseteq Below(links, d)
        /\ \A f \in Below(links, d) : RefersTo(links, f) \subseteq Below(links, d)
        /\ Below(links, d) \in SUBSET Symbol
    BY <2>1, BelowClosed
  <2>3. Below(links, e) \subseteq Below(links, d)
    BY <2>1, <2>2, BelowClosed
  <2>4. Below(links, e) \in SUBSET Below(links, d) /\ Below(links, e) # Below(links, d)
    BY <1>1, <2>1, <2>3
  <2>5. IsFiniteSet(Below(links, d))
    BY <1>1
  <2>6. /\ Cardinality(Below(links, e)) <= Cardinality(Below(links, d))
        /\ Cardinality(Below(links, e)) # Cardinality(Below(links, d))
    BY <2>4, <2>5, FS_Subset
  <2>7. Depth(links, e) \in Nat /\ Depth(links, d) \in Nat
    BY <1>1, <2>1
  <2>8. QED
    BY <2>1, <2>6, <2>7 DEF Depth
<1>5. QED
  BY <1>1, <1>2, <1>3, <1>4

-----------------------------------------------------------------------------
\* The text of d when each reference in it is replaced by what m has for it.
Unfold(links, text, m, d) ==
  FlattenSeq([i \in DOMAIN text[d] |->
    IF links[d][i] = NoSymbol THEN <<text[d][i]>> ELSE m[links[d][i]]])

LEMMA UnfoldType ==
  ASSUME NEW links, NEW text, IsLinked(links, text), NEW m \in [Symbol -> Seq(Word)],
         NEW d \in Symbol
  PROVE  Unfold(links, text, m, d) \in Seq(Word)
<1> DEFINE row == [i \in DOMAIN text[d] |->
                    IF links[d][i] = NoSymbol THEN <<text[d][i]>> ELSE m[links[d][i]]]
<1>1. text[d] \in Seq(Word)
  BY DEF IsLinked
<1>2. Len(text[d]) \in Nat /\ DOMAIN text[d] = 1..Len(text[d])
  BY <1>1, LenProperties
<1>3. ASSUME NEW i \in DOMAIN text[d] PROVE row[i] \in Seq(Word)
  <2>1. text[d][i] \in Word
    BY <1>1, <1>2, ElementOfSeq
  <2>2. CASE links[d][i] = NoSymbol
    BY <2>1, <2>2
  <2>3. CASE links[d][i] # NoSymbol
    BY <2>3 DEF IsLinked
  <2>4. QED
    BY <2>2, <2>3
<1>4. row = [i \in 1..Len(text[d]) |-> row[i]]
  BY <1>2
<1> DEFINE V == Seq(Word)
<1> HIDE DEF row, V
<1>5. row \in [1..Len(text[d]) -> V]
  BY <1>2, <1>3, <1>4 DEF V
<1>6. row \in Seq(V)
  BY <1>2, <1>5, SeqDef
<1>7. FlattenSeq(row) \in Seq(Word)
  BY <1>6, FlattenType DEF V
<1>8. QED
  BY <1>7 DEF Unfold, row

\* Only what d refers to matters.
LEMMA UnfoldLocal ==
  ASSUME NEW links, NEW text, IsLinked(links, text), NEW m, NEW n, NEW d \in Symbol,
         \A e \in RefersTo(links, d) : m[e] = n[e]
  PROVE  Unfold(links, text, m, d) = Unfold(links, text, n, d)
<1>1. \A i \in DOMAIN text[d] : links[d][i] # NoSymbol => links[d][i] \in RefersTo(links, d)
  BY DEF IsLinked, RefersTo, Range
<1>2. \A i \in DOMAIN text[d] : links[d][i] # NoSymbol => m[links[d][i]] = n[links[d][i]]
  BY <1>1
<1>3. [i \in DOMAIN text[d] |->
        IF links[d][i] = NoSymbol THEN <<text[d][i]>> ELSE m[links[d][i]]]
      = [i \in DOMAIN text[d] |->
          IF links[d][i] = NoSymbol THEN <<text[d][i]>> ELSE n[links[d][i]]]
  BY <1>2
<1>4. QED
  BY <1>3 DEF Unfold

\* Without circles Meaning replaces the references by their meanings.
LEMMA MeaningUnfolds ==
  ASSUME NEW links, NEW text, IsLinked(links, text), Acyclic(links), NEW d \in Symbol
  PROVE  Meaning(links, text, d)
           = Unfold(links, text, [e \in Symbol |-> Meaning(links, text, e)], d)
<1> DEFINE N == Cardinality(Symbol)
           V == [Symbol -> Seq(Word)]
           Step(m) == [e \in Symbol |-> Unfold(links, text, m, e)]
           G == [k \in Nat |-> [m \in V |-> Step(m)]]
           mean == CHOOSE u : u = [n \in 0..Cardinality(Symbol) |->
                     [e \in Symbol |->
                       IF n = 0 THEN text[e]
                       ELSE FlattenSeq([i \in DOMAIN text[e] |->
                              IF links[e][i] = NoSymbol THEN <<text[e][i]>>
                              ELSE u[n - 1][links[e][i]]])]]
<1>1. N \in Nat /\ N >= 1
  BY DepthFalls
<1>2. \A m \in V : Step(m) \in V
  BY UnfoldType
<1>3. text \in V
  BY DEF IsLinked
<1>4. \A m : \A e \in Symbol : Step(m)[e] = Unfold(links, text, m, e)
  OBVIOUS
<1>5. mean = CHOOSE u : u = [n \in 0..N |-> [e \in Symbol |-> IF n = 0 THEN text[e]
                                                              ELSE Unfold(links, text, u[n - 1], e)]]
  BY DEF Unfold
<1> HIDE DEF mean, N
<1>6. G \in [Nat -> [V -> V]] /\ \A k \in Nat, m \in V : G[k][m] = Step(m)
  <2> HIDE DEF V, Step
  <2>1. [m \in V |-> Step(m)] \in [V -> V]
    BY <1>2
  <2>2. QED
    BY <2>1
<1> HIDE DEF G, V
<1>7. PICK g : g \in Course(V, text, G)
  BY <1>3, <1>6, CourseExists
<1>8. g \in [Nat -> V] /\ g[0] = text /\ \A k \in Nat : g[k + 1] = Step(g[k])
  <2> HIDE DEF Step
  <2>1. QED
    BY <1>6, <1>7 DEF Course
<1>9. \A k \in Nat, e \in Symbol : g[k + 1][e] = Unfold(links, text, g[k], e)
  BY <1>4, <1>8
<1> DEFINE Line(u, n) == [e \in Symbol |-> IF n = 0 THEN text[e]
                                           ELSE Unfold(links, text, u[n - 1], e)]
<1>10. text = [e \in Symbol |-> text[e]]
  BY DEF IsLinked
<1>11. \A u : Line(u, 0) = text
  <2>1. TAKE u
  <2>2. Line(u, 0) = [e \in Symbol |-> text[e]]
    OBVIOUS
  <2>3. QED
    BY <1>10, <2>2
<1>12. \A u : \A n \in Nat : n # 0 => Line(u, n) = Step(u[n - 1])
  OBVIOUS
<1>13. mean = CHOOSE u : u = [n \in 0..N |-> Line(u, n)]
  BY <1>5
<1> HIDE DEF Line, Step
<1>14. \E u : u = [n \in 0..N |-> Line(u, n)]
  <2> DEFINE u == [n \in 0..N |-> g[n]]
  <2>1. ASSUME NEW k \in 0..N PROVE u[k] = Line(u, k)
    <3>1. CASE k = 0
      BY <1>8, <1>11, <3>1
    <3>2. CASE k # 0
      <4>1. k - 1 \in Nat /\ k - 1 \in 0..N /\ (k - 1) + 1 = k /\ k \in Nat
        BY <1>1, <3>2
      <4>2. u[k] = g[k] /\ u[k - 1] = g[k - 1]
        BY <4>1
      <4> HIDE DEF u
      <4>3. g[k] = Step(g[k - 1])
        BY <1>8, <4>1
      <4>4. Line(u, k) = Step(u[k - 1])
        BY <1>12, <3>2, <4>1
      <4>5. QED
        BY <4>2, <4>3, <4>4
    <3>3. QED
      BY <3>1, <3>2
  <2>2. u = [k \in 0..N |-> u[k]]
    OBVIOUS
  <2> HIDE DEF u
  <2>3. u = [k \in 0..N |-> Line(u, k)]
    BY <2>1, <2>2, Zenon
  <2>4. QED
    BY <2>3, Zenon
<1>15. mean = [n \in 0..N |-> Line(mean, n)]
  BY <1>13, <1>14, Zenon
<1>16. \A n \in 0..N : mean[n] = Line(mean, n)
  <2>1. TAKE n \in 0..N
  <2>2. QED
    BY <1>15, Zenon
<1>17. mean[N] = g[N]
  <2> DEFINE S == {k \in Nat : k <= N => mean[k] = g[k]}
  <2>1. 0 \in S
    <3>1. 0 \in 0..N
      BY <1>1
    <3>2. QED
      BY <1>8, <1>11, <1>16, <3>1
  <2>2. ASSUME NEW k \in Nat, k \in S PROVE k + 1 \in S
    <3> SUFFICES ASSUME k + 1 <= N PROVE mean[k + 1] = g[k + 1]
      OBVIOUS
    <3>1. mean[k] = g[k] /\ k + 1 \in 0..N /\ k + 1 # 0 /\ (k + 1) - 1 = k /\ k + 1 \in Nat
      BY <1>1, <2>2
    <3>2. mean[k + 1] = Step(mean[(k + 1) - 1])
      BY <1>12, <1>16, <3>1
    <3>3. g[k + 1] = Step(g[k])
      BY <1>8
    <3>4. QED
      BY <3>1, <3>2, <3>3
  <2> HIDE DEF S
  <2>3. N \in S
    BY <1>1, <2>1, <2>2, SetInduction
  <2>4. QED
    BY <1>1, <2>3 DEF S
<1>18. \A e \in Symbol : Meaning(links, text, e) = g[N][e]
  <2>1. TAKE e \in Symbol
  <2>2. Meaning(links, text, e) = mean[N][e]
    BY DEF Meaning, mean, N
  <2>3. QED
    BY <1>17, <2>2
<1> DEFINE Settled == {k \in Nat : \A e \in Symbol : Depth(links, e) < k => g[k + 1][e] = g[k][e]}
<1>19. 0 \in Settled
  BY DepthFalls
<1>20. ASSUME NEW k \in Nat, k \in Settled PROVE k + 1 \in Settled
  <2> SUFFICES ASSUME NEW e \in Symbol, Depth(links, e) < k + 1
               PROVE  g[(k + 1) + 1][e] = g[k + 1][e]
    BY <1>20
  <2>1. ASSUME NEW f \in RefersTo(links, e) PROVE g[k + 1][f] = g[k][f]
    <3>1. f \in Symbol /\ Depth(links, f) < Depth(links, e)
      BY DepthFalls
    <3>2. Depth(links, f) \in Nat /\ Depth(links, e) \in Nat
      BY <3>1, DepthFalls
    <3>3. Depth(links, f) < k
      BY <3>1, <3>2
    <3>4. QED
      BY <1>20, <3>1, <3>3
  <2>2. Unfold(links, text, g[k + 1], e) = Unfold(links, text, g[k], e)
    BY <2>1, UnfoldLocal
  <2>3. k + 1 \in Nat
    OBVIOUS
  <2>4. QED
    BY <1>9, <2>2, <2>3
<1>21. N - 1 \in Settled /\ N - 1 \in Nat /\ (N - 1) + 1 = N
  <2> HIDE DEF Settled
  <2>1. N - 1 \in Nat /\ (N - 1) + 1 = N
    BY <1>1
  <2>2. QED
    BY <1>19, <1>20, <2>1, SetInduction
<1>22. ASSUME NEW e \in RefersTo(links, d) PROVE g[N - 1][e] = Meaning(links, text, e) /\ e \in Symbol
  <2>1. /\ e \in Symbol /\ Depth(links, e) < Depth(links, d) /\ Depth(links, d) < N
        /\ Depth(links, d) \in Nat /\ N \in Nat
    BY DepthFalls DEF N
  <2>2. Depth(links, e) \in Nat
    BY <2>1, DepthFalls
  <2>3. Depth(links, e) < N - 1
    BY <2>1, <2>2
  <2>4. QED
    BY <1>18, <1>21, <2>1, <2>3
<1>23. Unfold(links, text, g[N - 1], d)
         = Unfold(links, text, [e \in Symbol |-> Meaning(links, text, e)], d)
  <2> DEFINE m == [e \in Symbol |-> Meaning(links, text, e)]
  <2>1. \A e \in RefersTo(links, d) : g[N - 1][e] = m[e]
    BY <1>22
  <2> HIDE DEF m
  <2>2. Unfold(links, text, g[N - 1], d) = Unfold(links, text, m, d)
    BY <2>1, UnfoldLocal
  <2>3. QED
    BY <2>2 DEF m
<1>24. Meaning(links, text, d) = Unfold(links, text, g[N - 1], d)
  BY <1>9, <1>18, <1>21
<1>25. QED
  BY <1>23, <1>24

-----------------------------------------------------------------------------
Entry == [body : Symbol, at : Nat \ {0}]
DocItem == [name : Name \union {NoName}, body : Symbol]

\* The variables have their types; a body keeps its length.
Typed ==
  /\ doc \in Documents /\ source \in Bodies
  /\ phase \in {"insert_vardecl_syms", "expand_vars", "failed", "done"}
  /\ block \in Nat \ {0} /\ item \in Nat \ {0}
  /\ scopes \in [Scopes -> [Type \X Name -> Symbol \union {NoSymbol}]]
  /\ marked \in SUBSET Symbol
  /\ visits \in Seq(Entry)
  /\ body \in [Symbol -> Seq(Seq(Word))]
  /\ \A d \in Symbol : Len(body[d]) = Len(source[d])

\* The visitor is outside of the targets, or in the one its block stands for.
Stacked == stack = <<Global>> \/ (AtBlock /\ Here # Global /\ stack = <<Global, Here>>)

\* The bodies that are visited are marked, and none of them is visited twice.
Trail ==
  /\ visits # << >> => phase = "expand_vars" /\ InBlock
  /\ \A i \in DOMAIN visits : visits[i].body \in marked
  /\ \A i, j \in DOMAIN visits : visits[i].body = visits[j].body => i = j

VInv == Typed /\ Stacked /\ Trail

LEMMA SourceTyped ==
  ASSUME Typed
  PROVE  /\ source \in [Symbol -> Seq(Word)]
         /\ \A d \in Symbol : /\ Len(source[d]) \in Nat
                              /\ DOMAIN source[d] = 1..Len(source[d])
                              /\ DOMAIN body[d] = DOMAIN source[d]
                              /\ body[d] \in Seq(Seq(Word))
                              /\ \A i \in DOMAIN source[d] :
                                   source[d][i] \in Word /\ body[d][i] \in Seq(Word)
<1>1. source \in [Symbol -> Seq(Word)]
  BY DEF Typed, Word
<1>2. ASSUME NEW d \in Symbol
      PROVE  /\ Len(source[d]) \in Nat
             /\ DOMAIN source[d] = 1..Len(source[d])
             /\ DOMAIN body[d] = DOMAIN source[d]
             /\ body[d] \in Seq(Seq(Word))
             /\ \A i \in DOMAIN source[d] : source[d][i] \in Word /\ body[d][i] \in Seq(Word)
  <2>1. source[d] \in Seq(Word) /\ body[d] \in Seq(Seq(Word)) /\ Len(body[d]) = Len(source[d])
    BY <1>1 DEF Typed
  <2>2. /\ Len(source[d]) \in Nat /\ DOMAIN source[d] = 1..Len(source[d])
        /\ DOMAIN body[d] = 1..Len(body[d])
    BY <2>1, LenProperties
  <2>3. QED
    BY <2>1, <2>2, ElementOfSeq
<1>3. QED
  BY <1>1, <1>2

LEMMA DocumentTyped ==
  ASSUME Typed
  PROVE  /\ Len(doc) \in Nat /\ DOMAIN doc = 1..Len(doc)
         /\ \A b \in DOMAIN doc :
              /\ doc[b].scope \in Scopes
              /\ Len(doc[b].items) \in Nat
              /\ DOMAIN doc[b].items = 1..Len(doc[b].items)
              /\ \A i \in DOMAIN doc[b].items :
                   /\ doc[b].items[i].body \in Symbol
                   /\ doc[b].items[i].name \in Name \union {NoName}
<1> DEFINE Block == [scope : Scopes, items : Seq(DocItem)]
<1>1. doc \in Seq(Block)
  BY DEF Typed, DocItem
<1>2. Len(doc) \in Nat /\ DOMAIN doc = 1..Len(doc)
  BY <1>1, LenProperties
<1>3. ASSUME NEW b \in DOMAIN doc
      PROVE  /\ doc[b].scope \in Scopes
             /\ Len(doc[b].items) \in Nat
             /\ DOMAIN doc[b].items = 1..Len(doc[b].items)
             /\ \A i \in DOMAIN doc[b].items : /\ doc[b].items[i].body \in Symbol
                                               /\ doc[b].items[i].name \in Name \union {NoName}
  <2>1. doc[b] \in Block
    BY <1>1, <1>2, ElementOfSeq
  <2>2. doc[b].scope \in Scopes /\ doc[b].items \in Seq(DocItem)
    BY <2>1
  <2>3. Len(doc[b].items) \in Nat /\ DOMAIN doc[b].items = 1..Len(doc[b].items)
    BY <2>2, LenProperties
  <2>4. \A i \in DOMAIN doc[b].items : doc[b].items[i] \in DocItem
    BY <2>2, <2>3, ElementOfSeq
  <2>5. QED
    BY <2>2, <2>3, <2>4 DEF DocItem
<1>4. QED
  BY <1>2, <1>3

\* The block and the item the visitor has come to.
LEMMA HereTyped ==
  ASSUME Typed, AtBlock
  PROVE  /\ block \in DOMAIN doc /\ Here \in Scopes
         /\ Len(Items) \in Nat /\ DOMAIN Items = 1..Len(Items)
         /\ item <= Len(Items) => /\ item \in DOMAIN Items
                                  /\ Items[item].body \in Symbol
                                  /\ Items[item].name \in Name \union {NoName}
<1>1. block \in DOMAIN doc
  BY DocumentTyped DEF Typed, AtBlock
<1>2. /\ doc[block].scope \in Scopes
      /\ Len(doc[block].items) \in Nat
      /\ DOMAIN doc[block].items = 1..Len(doc[block].items)
      /\ \A i \in DOMAIN doc[block].items : /\ doc[block].items[i].body \in Symbol
                                            /\ doc[block].items[i].name \in Name \union {NoName}
  BY <1>1, DocumentTyped
<1>3. item <= Len(doc[block].items) => item \in DOMAIN doc[block].items
  BY <1>2 DEF Typed
<1>4. QED
  BY <1>1, <1>2, <1>3 DEF Here, Items

LEMMA StackTop ==
  ASSUME Typed, Stacked
  PROVE  /\ Last(stack) \in Scopes
         /\ Last(stack) = IF stack = <<Global>> THEN Global ELSE Here
         /\ stack # <<Global>> => AtBlock /\ Here # Global /\ stack = <<Global, Here>>
         /\ InBlock => (stack = <<Global>> <=> Here = Global)
<1>1. CASE stack = <<Global>>
  <2>1. Last(stack) = Global
    BY <1>1 DEF Last
  <2>2. Global \in Scopes
    BY DEF Scopes
  <2>3. QED
    BY <1>1, <2>1, <2>2 DEF InBlock
<1>2. CASE stack # <<Global>>
  <2>1. AtBlock /\ Here # Global /\ stack = <<Global, Here>>
    BY <1>2 DEF Stacked
  <2>2. Last(stack) = Here
    BY <2>1 DEF Last
  <2>3. QED
    BY <1>2, <2>1, <2>2, HereTyped
<1>3. QED
  BY <1>1, <1>2

\* A lookup finds what the static meaning of a name in the innermost scope is.
LEMMA LookupIsStatic ==
  ASSUME Typed, Stacked, NEW x \in Name
  PROVE  /\ Lookup(Variable, x) = Static(Last(stack), x)
         /\ Lookup(Variable, x) \in Symbol \union {NoSymbol}
<1> DEFINE k == <<Variable, x>>
           L == Levels(Variable, x)
<1>1. \A s \in Scopes : scopes[s][k] \in Symbol \union {NoSymbol}
  BY DEF Typed
<1>2. Global \in Scopes
  BY DEF Scopes
<1> HIDE DEF k
<1>3. CASE stack = <<Global>>
  <2>1. Last(stack) = Global /\ DOMAIN stack = {1} /\ stack[1] = Global
    BY <1>3, StackTop
  <2>2. L = {i \in {1} : scopes[Global][k] # NoSymbol}
    BY <2>1 DEF Levels, k
  <2>3. CASE scopes[Global][k] = NoSymbol
    BY <2>1, <2>2, <2>3 DEF Lookup, Static, k
  <2>4. CASE scopes[Global][k] # NoSymbol
    <3>1. L = {1}
      BY <2>2, <2>4
    <3>2. Max(L) = 1
      BY <3>1 DEF Max
    <3>3. QED
      BY <1>1, <1>2, <2>1, <2>4, <3>1, <3>2 DEF Lookup, Static, k
  <2>5. QED
    BY <2>3, <2>4
<1>4. CASE stack # <<Global>>
  <2>1. /\ Last(stack) = Here /\ Here \in Scopes
        /\ DOMAIN stack = {1, 2} /\ stack[1] = Global /\ stack[2] = Here
    BY <1>4, StackTop
  <2>2. L = {i \in {1, 2} : scopes[stack[i]][k] # NoSymbol}
    BY <2>1 DEF Levels, k
  <2> HIDE DEF L
  <2>3. CASE scopes[Here][k] # NoSymbol
    <3>1. 2 \in L /\ L \subseteq {1, 2}
      BY <2>1, <2>2, <2>3
    <3>2. Max(L) = 2
      <4>1. L = {2} \/ L = {1, 2}
        BY <3>1
      <4>2. Max({2}) = 2 /\ Max({1, 2}) = 2
        BY DEF Max
      <4>3. QED
        BY <4>1, <4>2
    <3>3. QED
      BY <1>1, <2>1, <2>3, <3>1, <3>2 DEF Lookup, Static, k, L
  <2>4. CASE scopes[Here][k] = NoSymbol /\ scopes[Global][k] # NoSymbol
    <3>1. L = {1}
      BY <2>1, <2>2, <2>4
    <3>2. Max(L) = 1
      BY <3>1 DEF Max
    <3>3. QED
      BY <1>1, <1>2, <2>1, <2>4, <3>1, <3>2 DEF Lookup, Static, k, L
  <2>5. CASE scopes[Here][k] = NoSymbol /\ scopes[Global][k] = NoSymbol
    <3>1. L = {}
      BY <2>1, <2>2, <2>5
    <3>2. QED
      BY <2>1, <2>5, <3>1 DEF Lookup, Static, k, L
  <2>6. QED
    BY <2>3, <2>4, <2>5
<1>5. QED
  BY <1>3, <1>4

\* The body that is visited, and what its element refers to.
LEMMA TopTyped ==
  ASSUME Typed, Stacked, visits # << >>
  PROVE  /\ Len(visits) \in Nat \ {0} /\ DOMAIN visits = 1..Len(visits)
         /\ \A i \in DOMAIN visits : visits[i].body \in Symbol /\ visits[i].at \in Nat \ {0}
         /\ Top = visits[Len(visits)] /\ Top.body \in Symbol /\ Top.at \in Nat \ {0}
         /\ Symbols \subseteq Symbol
<1>1. Len(visits) \in Nat \ {0} /\ DOMAIN visits = 1..Len(visits)
  BY LenProperties, EmptySeq DEF Typed
<1>2. \A i \in DOMAIN visits : visits[i] \in Entry
  <2>1. visits \in Seq(Entry)
    BY DEF Typed
  <2>2. QED
    BY <1>1, <2>1, ElementOfSeq
<1>3. Top = visits[Len(visits)]
  BY DEF Top, Last
<1>4. Symbols \subseteq Symbol
  BY LookupIsStatic DEF Symbols
<1>5. QED
  BY <1>1, <1>2, <1>3, <1>4 DEF Entry

-----------------------------------------------------------------------------
\* What the steps of the expansion do to the row of visits.
LEMMA Pushes ==
  ASSUME VInv, NEW d \in Symbol, visits' = Append(visits, [body |-> d, at |-> 1])
  PROVE  /\ visits' \in Seq(Entry) /\ visits' # << >> /\ Len(visits) \in Nat
         /\ DOMAIN visits = 1..Len(visits)
         /\ Len(visits') = Len(visits) + 1 /\ DOMAIN visits' = 1..(Len(visits) + 1)
         /\ \A i \in DOMAIN visits : visits'[i] = visits[i]
         /\ visits'[Len(visits) + 1] = [body |-> d, at |-> 1]
         /\ Visiting' = Visiting \union {d}
<1> DEFINE e == [body |-> d, at |-> 1]
<1>1. visits \in Seq(Entry) /\ e \in Entry /\ e.body = d
  BY DEF VInv, Typed, Entry
<1>2. Len(visits) \in Nat /\ DOMAIN visits = 1..Len(visits)
  BY <1>1, LenProperties
<1> HIDE DEF e
<1>3. /\ visits' \in Seq(Entry) /\ visits' # << >> /\ Len(visits') = Len(visits) + 1
      /\ \A i \in 1..Len(visits) : visits'[i] = visits[i]
      /\ visits'[Len(visits) + 1] = e
  BY <1>1, AppendProperties DEF e
<1>4. DOMAIN visits' = 1..(Len(visits) + 1)
  BY <1>3, LenProperties
<1>5. Visiting' = Visiting \union {d}
  <2>1. ASSUME NEW x \in Visiting' PROVE x \in Visiting \union {d}
    <3>1. PICK i \in 1..(Len(visits) + 1) : x = visits'[i].body
      BY <1>4 DEF Visiting
    <3>2. i \in 1..Len(visits) \/ i = Len(visits) + 1
      BY <1>2
    <3>3. QED
      BY <1>1, <1>2, <1>3, <3>1, <3>2 DEF Visiting
  <2>2. ASSUME NEW x \in Visiting \union {d} PROVE x \in Visiting'
    <3>1. CASE x = d
      <4>1. Len(visits) + 1 \in DOMAIN visits'
        BY <1>2, <1>4
      <4>2. QED
        BY <1>1, <1>3, <3>1, <4>1 DEF Visiting
    <3>2. CASE x \in Visiting
      <4>1. PICK i \in 1..Len(visits) : x = visits[i].body
        BY <1>2, <3>2 DEF Visiting
      <4>2. i \in DOMAIN visits' /\ x = visits'[i].body
        BY <1>2, <1>3, <1>4, <4>1
      <4>3. QED
        BY <4>2 DEF Visiting
    <3>3. QED
      BY <3>1, <3>2
  <2>3. QED
    BY <2>1, <2>2
<1>6. QED
  BY <1>2, <1>3, <1>4, <1>5 DEF e

LEMMA Advances ==
  ASSUME VInv, visits # << >>, Advance
  PROVE  /\ visits' \in Seq(Entry) /\ visits' # << >>
         /\ Len(visits') = Len(visits) /\ DOMAIN visits' = DOMAIN visits
         /\ \A i \in DOMAIN visits :
              /\ visits'[i].body = visits[i].body
              /\ visits'[i].at = IF i = Len(visits) THEN Top.at + 1 ELSE visits[i].at
         /\ Visiting' = Visiting
<1> DEFINE L == Len(visits)
           e == [visits[L] EXCEPT !.at = @ + 1]
<1>1. /\ L \in Nat \ {0} /\ DOMAIN visits = 1..L /\ visits \in Seq(Entry)
      /\ visits[L] \in Entry /\ Top = visits[L]
  <2>1. visits \in Seq(Entry)
    BY DEF VInv, Typed
  <2>2. L \in Nat \ {0} /\ DOMAIN visits = 1..L /\ Top = visits[L]
    BY TopTyped DEF VInv
  <2>3. visits[L] \in Entry
    BY <2>1, <2>2, ElementOfSeq
  <2>4. QED
    BY <2>1, <2>2, <2>3
<1>2. e \in Entry /\ e.body = visits[L].body /\ e.at = Top.at + 1
  BY <1>1 DEF Entry
<1>3. visits' = [visits EXCEPT ![L] = e]
  BY DEF Advance
<1> HIDE DEF e, L
<1>4. L \in 1..Len(visits) /\ L = Len(visits)
  BY <1>1 DEF L
<1>5. /\ visits' \in Seq(Entry) /\ Len(visits') = Len(visits)
      /\ \A i \in 1..Len(visits) : visits'[i] = IF i = L THEN e ELSE visits[i]
  BY <1>1, <1>2, <1>3, <1>4, ExceptSeq
<1>6. DOMAIN visits' = DOMAIN visits
  BY <1>1, <1>4, <1>5, LenProperties
<1>7. visits' # << >>
  BY <1>1, <1>4, <1>5, EmptySeq
<1>8. \A i \in DOMAIN visits :
        /\ visits'[i].body = visits[i].body
        /\ visits'[i].at = IF i = L THEN Top.at + 1 ELSE visits[i].at
  BY <1>1, <1>2, <1>4, <1>5
<1>9. Visiting' = Visiting
  BY <1>6, <1>8 DEF Visiting
<1>10. QED
  BY <1>4, <1>5, <1>6, <1>7, <1>8, <1>9

LEMMA Returns ==
  ASSUME VInv, visits # << >>, visits' = Front(visits)
  PROVE  /\ visits' \in Seq(Entry)
         /\ Len(visits') = Len(visits) - 1 /\ DOMAIN visits' = 1..(Len(visits) - 1)
         /\ \A i \in 1..(Len(visits) - 1) : i \in DOMAIN visits /\ visits'[i] = visits[i]
         /\ Visiting' = Visiting \ {Top.body}
<1> DEFINE L == Len(visits)
<1>1. /\ L \in Nat \ {0} /\ DOMAIN visits = 1..L /\ visits \in Seq(Entry)
      /\ Top = visits[L]
  BY TopTyped DEF VInv, Typed
<1>2. \A i \in 1..(L - 1) : visits[i] \in Entry
  BY <1>1, ElementOfSeq
<1>3. /\ 1 \in Int /\ L - 1 \in Int /\ (L - 1) - 1 + 1 = L - 1
      /\ \A i \in 1..(L - 1) : i \in 1..L /\ 1 + i - 1 = i
  BY <1>1
<1> HIDE DEF L
<1>4. visits' = SubSeq(visits, 1, L - 1)
  BY DEF Front, L
<1>5. /\ visits' \in Seq(Entry) /\ Len(visits') = IF 1 <= L - 1 THEN (L - 1) - 1 + 1 ELSE 0
      /\ \A i \in 1..((L - 1) - 1 + 1) : visits'[i] = visits[1 + i - 1]
  BY <1>2, <1>3, <1>4, SubSeqProperties
<1>6. /\ Len(visits') = L - 1
      /\ \A i \in 1..(L - 1) : i \in DOMAIN visits /\ visits'[i] = visits[i]
  BY <1>1, <1>3, <1>5
<1>7. DOMAIN visits' = 1..(L - 1)
  BY <1>5, <1>6, LenProperties
<1>8. Visiting' = Visiting \ {Top.body}
  <2>1. ASSUME NEW x \in Visiting' PROVE x \in Visiting \ {Top.body}
    <3>1. PICK i \in 1..(L - 1) : x = visits'[i].body
      BY <1>7 DEF Visiting
    <3>2. i \in 1..L /\ x = visits[i].body /\ i # L /\ L \in 1..L
      BY <1>1, <1>6, <3>1
    <3>3. x # visits[L].body
      BY <1>1, <3>2 DEF VInv, Trail
    <3>4. QED
      BY <1>1, <3>2, <3>3 DEF Visiting
  <2>2. ASSUME NEW x \in Visiting \ {Top.body} PROVE x \in Visiting'
    <3>1. PICK i \in 1..L : x = visits[i].body
      BY <1>1 DEF Visiting
    <3>2. i # L
      BY <1>1, <3>1
    <3>3. i \in 1..(L - 1)
      BY <1>1, <3>2
    <3>4. QED
      BY <1>6, <1>7, <3>1, <3>3 DEF Visiting
  <2>3. QED
    BY <2>1, <2>2
<1>9. QED
  BY <1>5, <1>6, <1>7, <1>8 DEF L

-----------------------------------------------------------------------------
\* What FinalWhenVisited says of a step, and what is shown of each.
Final == \A d \in marked \ Visiting : d \notin Visiting' /\ body'[d] = body[d]

Kept == VInv' /\ Final

\* A pair of scopes, made and unmade.
LEMMA Pairs ==
  ASSUME NEW a, NEW b
  PROVE  Append(<<a>>, b) = <<a, b>> /\ Front(<<a, b>>) = <<a>>
<1> DEFINE T == {a, b}
           one == <<a>>
           two == <<a, b>>
<1>1. /\ one \in Seq(T) /\ Len(one) = 1 /\ one[1] = a
      /\ two \in Seq(T) /\ Len(two) = 2 /\ two[1] = a /\ two[2] = b
      /\ a \in T /\ b \in T
  OBVIOUS
<1> HIDE DEF one, two, T
<1>2. Append(one, b) = two
  <2> SUFFICES ASSUME NEW row, row = Append(one, b) PROVE row = two
    OBVIOUS
  <2>1. /\ row \in Seq(T) /\ Len(row) = Len(one) + 1
        /\ \A i \in 1..Len(one) : row[i] = one[i]
        /\ row[Len(one) + 1] = b
    BY <1>1, AppendProperties
  <2>2. Len(row) = 2 /\ row[1] = a /\ row[2] = b
    BY <1>1, <2>1
  <2>3. \A i \in 1..Len(two) : row[i] = two[i]
    BY <1>1, <2>2
  <2>4. QED
    BY <1>1, <2>1, <2>2, <2>3, SeqEqual
<1>3. Front(two) = one
  <2>1. Front(two) = SubSeq(two, 1, 1)
    BY <1>1 DEF Front
  <2>2. 1 \in Int /\ 1 - 1 + 1 = 1 /\ 1 <= 1 /\ \A i \in 1..1 : two[i] \in T
    BY <1>1
  <2>3. /\ SubSeq(two, 1, 1) \in Seq(T) /\ Len(SubSeq(two, 1, 1)) = 1
        /\ SubSeq(two, 1, 1)[1] = a
    BY <1>1, <2>2, SubSeqProperties
  <2>4. \A i \in 1..Len(one) : SubSeq(two, 1, 1)[i] = one[i]
    BY <1>1, <2>3
  <2>5. QED
    BY <1>1, <2>1, <2>3, <2>4, SeqEqual
<1>4. QED
  BY <1>2, <1>3 DEF one, two

\* The steps that leave the bodies as they are keep the types.
LEMMA TypedStays ==
  ASSUME Typed, UNCHANGED <<doc, source, body>>,
         phase' \in {"insert_vardecl_syms", "expand_vars", "failed", "done"},
         block' \in Nat \ {0}, item' \in Nat \ {0},
         scopes' \in [Scopes -> [Type \X Name -> Symbol \union {NoSymbol}]],
         marked' \in SUBSET Symbol, visits' \in Seq(Entry)
  PROVE  Typed'
<1>1. doc' \in Documents /\ source' \in Bodies
  BY DEF Typed
<1>2. body' \in [Symbol -> Seq(Seq(Word))]
  BY DEF Typed
<1>3. \A d \in Symbol : Len(body'[d]) = Len(source'[d])
  BY DEF Typed
<1>4. QED
  BY <1>1, <1>2, <1>3 DEF Typed

\* Steps of the visitor and the phases leave the bodies alone.
LEMMA EnterKeeps == VInv /\ Enter => Kept /\ visits = << >>
<1> SUFFICES ASSUME VInv, Enter PROVE Kept /\ visits = << >>
  OBVIOUS
<1>1. /\ AtBlock /\ Here # Global /\ stack = <<Global>>
      /\ stack' = Append(stack, Here)
      /\ UNCHANGED <<scopes, doc, source, phase, block, item, body, marked, visits>>
  BY DEF Enter, EnterScope, place
<1>2. visits = << >>
  BY <1>1, StackTop DEF VInv, Trail, InBlock
<1>3. stack' = <<Global, Here>> /\ Here' = Here /\ AtBlock'
  BY <1>1, Pairs DEF Here, AtBlock
<1>4. Stacked'
  BY <1>1, <1>3 DEF Stacked
<1>5. Typed'
  BY <1>1 DEF VInv, Typed
<1>6. Trail'
  BY <1>1, <1>2 DEF VInv, Trail
<1>7. Final
  BY <1>1 DEF Final, Visiting
<1>8. QED
  BY <1>2, <1>4, <1>5, <1>6, <1>7 DEF Kept, VInv

LEMMA LeaveKeeps == VInv /\ Leave => Kept /\ visits = << >>
<1> SUFFICES ASSUME VInv, Leave PROVE Kept /\ visits = << >>
  OBVIOUS
<1>1. /\ visits = << >> /\ InBlock
      /\ IF Here = Global THEN UNCHANGED <<scopes, stack>> ELSE LeaveScope
      /\ block' = block + 1 /\ item' = 1
      /\ UNCHANGED <<doc, source, phase, body, marked, visits>>
  BY DEF Leave
<1>2. scopes' = scopes
  BY <1>1 DEF LeaveScope
<1>3. stack' = <<Global>>
  <2>1. CASE Here = Global
    BY <1>1, <2>1, StackTop DEF VInv
  <2>2. CASE Here # Global
    <3>1. stack = <<Global, Here>> /\ stack' = Front(stack)
      BY <1>1, <2>2, StackTop DEF VInv, LeaveScope
    <3>2. Front(<<Global, Here>>) = <<Global>>
      BY Pairs
    <3>3. QED
      BY <3>1, <3>2
  <2>3. QED
    BY <2>1, <2>2
<1>4. Stacked'
  BY <1>3 DEF Stacked
<1>5. Typed'
  <2>1. block' \in Nat \ {0} /\ item' \in Nat \ {0}
    BY <1>1 DEF VInv, Typed
  <2>2. QED
    BY <1>1, <1>2, <2>1, TypedStays DEF VInv, Typed
<1>6. Trail'
  BY <1>1 DEF VInv, Trail
<1>7. Final
  BY <1>1 DEF Final, Visiting
<1>8. QED
  BY <1>1, <1>4, <1>5, <1>6, <1>7 DEF Kept, VInv

LEMMA DeclareKeeps == VInv /\ Declare => Kept /\ visits = << >>
<1> SUFFICES ASSUME VInv, Declare PROVE Kept /\ visits = << >>
  OBVIOUS
<1>1. /\ phase = "insert_vardecl_syms" /\ InBlock /\ item <= Len(Items)
      /\ UNCHANGED <<stack, doc, source, phase, block, body, marked, visits>>
      /\ item' = item + 1
  BY DEF Declare, Insert
<1>2. visits = << >>
  BY <1>1 DEF VInv, Trail
<1>3. scopes' \in [Scopes -> [Type \X Name -> Symbol \union {NoSymbol}]]
  <2> DEFINE decl == Items[item]
             s == Last(stack)
             k == <<Variable, decl.name>>
  <2>1. CASE scopes' = scopes
    BY <2>1 DEF VInv, Typed
  <2>2. CASE scopes' # scopes
    <3>1. decl.name # NoName /\ scopes' = [scopes EXCEPT ![s][k] = decl.body]
      BY <2>2 DEF Declare, Insert
    <3>2. decl.name \in Name \union {NoName} /\ decl.body \in Symbol /\ s \in Scopes
      BY <1>1, HereTyped, StackTop DEF VInv, InBlock
    <3>3. k \in Type \X Name
      BY <3>1, <3>2
    <3> HIDE DEF decl, s, k
    <3>4. scopes[s] \in [Type \X Name -> Symbol \union {NoSymbol}]
      BY <3>2 DEF VInv, Typed
    <3>5. [scopes[s] EXCEPT ![k] = decl.body] \in [Type \X Name -> Symbol \union {NoSymbol}]
      BY <3>2, <3>3, <3>4
    <3>6. scopes' = [scopes EXCEPT ![s] = [scopes[s] EXCEPT ![k] = decl.body]]
      BY <3>1, <3>2, <3>4
    <3>7. QED
      BY <3>2, <3>5, <3>6 DEF VInv, Typed
  <2>3. QED
    BY <2>1, <2>2
<1>4. Typed'
  <2>1. item' \in Nat \ {0}
    BY <1>1 DEF VInv, Typed
  <2>2. QED
    BY <1>1, <1>3, <2>1, TypedStays DEF VInv, Typed
<1>5. Stacked' /\ Trail'
  BY <1>1, <1>2 DEF VInv, Stacked, Trail, AtBlock, Here
<1>6. Final
  BY <1>1 DEF Final, Visiting
<1>7. QED
  BY <1>2, <1>4, <1>5, <1>6 DEF Kept, VInv

LEMMA NextPhaseKeeps == VInv /\ NextPhase => Kept /\ visits = << >>
<1> SUFFICES ASSUME VInv, NextPhase PROVE Kept /\ visits = << >>
  OBVIOUS
<1>1. /\ ~AtBlock /\ block' = 1 /\ item' = 1
      /\ UNCHANGED <<scopes, stack, doc, source, body, marked, visits>>
      /\ phase' \in {"insert_vardecl_syms", "expand_vars", "failed", "done"}
  BY DEF NextPhase
<1>2. visits = << >>
  BY <1>1 DEF VInv, Trail, InBlock
<1>3. stack = <<Global>>
  BY <1>1 DEF VInv, Stacked
<1>4. Typed'
  <2>1. block' \in Nat \ {0} /\ item' \in Nat \ {0}
    BY <1>1
  <2>2. QED
    BY <1>1, <2>1, TypedStays DEF VInv, Typed
<1>5. Stacked' /\ Trail'
  BY <1>1, <1>2, <1>3 DEF VInv, Stacked, Trail
<1>6. Final
  BY <1>1 DEF Final, Visiting
<1>7. QED
  BY <1>2, <1>4, <1>5, <1>6 DEF Kept, VInv

\* A body that is not marked comes to the row of visits, and none changes.
LEMMA PushKeeps ==
  ASSUME VInv, NEW d \in Symbol \ marked, phase = "expand_vars", InBlock,
         UNCHANGED <<scopes, stack, doc, source, phase, block, body>>,
         item' \in {item, item + 1},
         marked' = marked \union {d}, visits' = Append(visits, [body |-> d, at |-> 1])
  PROVE  Kept
<1>1. /\ visits' \in Seq(Entry) /\ visits' # << >> /\ Len(visits) \in Nat
      /\ DOMAIN visits = 1..Len(visits)
      /\ DOMAIN visits' = 1..(Len(visits) + 1)
      /\ \A i \in DOMAIN visits : visits'[i] = visits[i]
      /\ visits'[Len(visits) + 1] = [body |-> d, at |-> 1]
      /\ Visiting' = Visiting \union {d}
  BY Pushes
<1>2. Typed'
  <2>1. item' \in Nat \ {0}
    BY DEF VInv, Typed
  <2>2. marked' \in SUBSET Symbol
    BY DEF VInv, Typed
  <2>3. QED
    BY <1>1, <2>1, <2>2, TypedStays DEF VInv, Typed
<1>3. Stacked'
  BY DEF VInv, Stacked, AtBlock, Here
<1>4. Trail'
  <2>1. phase' = "expand_vars" /\ InBlock'
    BY DEF InBlock, AtBlock, Here
  <2>2. \A i \in DOMAIN visits' : i \in DOMAIN visits \/ i = Len(visits) + 1
    BY <1>1
  <2>3. \A i \in DOMAIN visits : visits'[i].body \in marked
    BY <1>1 DEF VInv, Trail
  <2>4. visits'[Len(visits) + 1].body = d
    BY <1>1
  <2>5. \A i \in DOMAIN visits' : visits'[i].body \in marked'
    BY <2>2, <2>3, <2>4
  <2>6. \A i, j \in DOMAIN visits' : visits'[i].body = visits'[j].body => i = j
    BY <1>1, <2>2, <2>3, <2>4 DEF VInv, Trail
  <2>7. QED
    BY <2>1, <2>5, <2>6 DEF Trail
<1>5. Final
  BY <1>1 DEF Final
<1>6. QED
  BY <1>2, <1>3, <1>4, <1>5 DEF Kept, VInv

\* The body that is visited goes on by an element, and only it may change.
LEMMA AdvanceKeeps ==
  ASSUME VInv, visits # << >>, Advance, body' \in [Symbol -> Seq(Seq(Word))],
         \A d \in Symbol : Len(body'[d]) = Len(source[d]),
         \A d \in Symbol : d # Top.body => body'[d] = body[d],
         UNCHANGED <<scopes, stack, doc, source, phase, block, item, marked>>
  PROVE  Kept
<1>1. /\ visits' \in Seq(Entry) /\ visits' # << >>
      /\ DOMAIN visits' = DOMAIN visits
      /\ \A i \in DOMAIN visits : visits'[i].body = visits[i].body
      /\ Visiting' = Visiting
  BY Advances
<1>2. Typed'
  BY <1>1 DEF VInv, Typed
<1>3. Stacked'
  BY DEF VInv, Stacked, AtBlock, Here
<1>4. Trail'
  <2>1. phase' = "expand_vars" /\ InBlock'
    BY DEF VInv, Trail, InBlock, AtBlock, Here
  <2>2. QED
    BY <1>1, <2>1 DEF VInv, Trail
<1>5. Final
  <2>1. Top.body \in Visiting
    <3>1. Len(visits) \in DOMAIN visits /\ Top = visits[Len(visits)]
      BY TopTyped DEF VInv
    <3>2. QED
      BY <3>1 DEF Visiting
  <2>2. marked \subseteq Symbol
    BY DEF VInv, Typed
  <2>3. QED
    BY <1>1, <2>1, <2>2 DEF Final
<1>6. QED
  BY <1>2, <1>3, <1>4, <1>5 DEF Kept, VInv

LEMMA VisitItemKeeps == VInv /\ VisitItem => Kept
<1> SUFFICES ASSUME VInv, VisitItem PROVE Kept
  OBVIOUS
<1> DEFINE d == Items[item].body
<1>1. /\ phase = "expand_vars" /\ visits = << >> /\ InBlock /\ Visit(d)
      /\ UNCHANGED <<scopes, stack, doc, source, phase, block, body>>
      /\ item' = item + 1
  BY DEF VisitItem
<1>2. d \in Symbol
  BY HereTyped DEF VInv, VisitItem, InBlock
<1> HIDE DEF d
<1>3. CASE d \notin marked
  BY <1>1, <1>2, <1>3, PushKeeps DEF Visit
<1>4. CASE d \in marked
  <2>1. UNCHANGED <<marked, visits>>
    BY <1>1, <1>4 DEF Visit
  <2>2. Typed'
    <3>1. item' \in Nat \ {0}
      BY <1>1 DEF VInv, Typed
    <3>2. QED
      BY <1>1, <2>1, <3>1, TypedStays DEF VInv, Typed
  <2>3. Stacked' /\ Trail'
    BY <1>1, <2>1 DEF VInv, Stacked, Trail, AtBlock, Here
  <2>4. Final
    BY <1>1, <2>1 DEF Final, Visiting
  <2>5. QED
    BY <2>2, <2>3, <2>4 DEF Kept, VInv
<1>5. QED
  BY <1>3, <1>4

LEMMA DescendKeeps == VInv /\ Descend => Kept
<1> SUFFICES ASSUME VInv, Descend PROVE Kept
  OBVIOUS
<1>1. /\ visits # << >>
      /\ UNCHANGED <<scopes, stack, doc, source, phase, block, item, body>>
  BY DEF Descend, place
<1>2. PICK d \in Symbols : d \notin marked /\ Visit(d)
  BY DEF Descend
<1>3. d \in Symbol
  BY <1>1, TopTyped DEF VInv
<1>4. phase = "expand_vars" /\ InBlock
  BY <1>1 DEF VInv, Trail
<1>5. QED
  BY <1>1, <1>2, <1>3, <1>4, PushKeeps DEF Visit

LEMMA KeepKeeps == VInv /\ Keep => Kept
<1> SUFFICES ASSUME VInv, Keep PROVE Kept
  OBVIOUS
<1>1. /\ visits # << >> /\ Advance
      /\ UNCHANGED <<scopes, stack, doc, source, phase, block, item, body, marked>>
  BY DEF Keep, place
<1>2. /\ body' \in [Symbol -> Seq(Seq(Word))]
      /\ \A d \in Symbol : Len(body'[d]) = Len(source[d]) /\ body'[d] = body[d]
  BY <1>1 DEF VInv, Typed
<1>3. QED
  BY <1>1, <1>2, AdvanceKeeps

\* What a clone is made into.
LEMMA Substituted ==
  ASSUME VInv, Substitute
  PROVE  \E d \in Symbols \intersect marked :
           LET b == Top.body
           IN  /\ b \in Symbol /\ Top.at \in DOMAIN source[b]
               /\ body' = [body EXCEPT ![b] = [body[b] EXCEPT ![Top.at] = Flat(d)]]
               /\ Flat(d) \in Seq(Word)
<1>1. visits # << >> /\ Top.at <= Len(source[Top.body])
  BY DEF Substitute
<1>2. PICK d \in Symbols : d \in marked /\ body' = [body EXCEPT ![Top.body][Top.at] = Clone(d)]
  BY DEF Substitute
<1>3. d \in Symbol /\ Top.body \in Symbol /\ Top.at \in Nat \ {0}
  BY <1>1, TopTyped DEF VInv
<1>4. Top.at \in DOMAIN source[Top.body]
  BY <1>1, <1>3, SourceTyped DEF VInv
<1>5. Flat(d) \in Seq(Word)
  BY <1>3, SourceTyped, FlattenType DEF VInv, Flat
<1> DEFINE b == Top.body
           a == Top.at
<1>6. body' = [body EXCEPT ![b] = [body[b] EXCEPT ![a] = Flat(d)]]
  <2>1. body' = [body EXCEPT ![b][a] = Flat(d)]
    BY <1>2 DEF Clone
  <2> HIDE DEF b, a
  <2>2. QED
    BY <2>1
<1>7. QED
  BY <1>2, <1>3, <1>4, <1>5, <1>6

LEMMA SubstituteKeeps == VInv /\ Substitute => Kept
<1> SUFFICES ASSUME VInv, Substitute PROVE Kept
  OBVIOUS
<1> DEFINE b == Top.body
           a == Top.at
           row(d) == [body[b] EXCEPT ![a] = Flat(d)]
<1>1. /\ visits # << >> /\ Advance
      /\ UNCHANGED <<scopes, stack, doc, source, phase, block, item, marked>>
  BY DEF Substitute, place
<1>2. PICK d \in Symbols \intersect marked :
        /\ b \in Symbol /\ a \in DOMAIN source[b]
        /\ body' = [body EXCEPT ![b] = row(d)]
        /\ Flat(d) \in Seq(Word)
  BY Substituted
<1>3. body \in [Symbol -> Seq(Seq(Word))] /\ \A e \in Symbol : Len(body[e]) = Len(source[e])
  BY DEF VInv, Typed
<1> DEFINE V == Seq(Word)
<1>4. row(d) \in Seq(V) /\ Len(row(d)) = Len(body[b])
  <2>1. body[b] \in Seq(V) /\ Flat(d) \in V
    BY <1>2, <1>3
  <2>2. a \in 1..Len(body[b])
    BY <1>2, <1>3, SourceTyped DEF VInv
  <2> HIDE DEF V, a, b
  <2>3. QED
    BY <2>1, <2>2, ExceptSeq
<1> HIDE DEF row
<1>5. body' \in [Symbol -> Seq(V)]
  BY <1>2, <1>3, <1>4
<1>6. \A e \in Symbol : Len(body'[e]) = Len(source[e])
  BY <1>2, <1>3, <1>4
<1>7. \A e \in Symbol : e # b => body'[e] = body[e]
  BY <1>2, <1>3
<1>8. QED
  BY <1>1, <1>5, <1>6, <1>7, AdvanceKeeps

LEMMA ReturnKeeps == VInv /\ Return => Kept
<1> SUFFICES ASSUME VInv, Return PROVE Kept
  OBVIOUS
<1>1. /\ visits # << >> /\ visits' = Front(visits)
      /\ UNCHANGED <<scopes, stack, doc, source, phase, block, item, body, marked>>
  BY DEF Return, place
<1>2. /\ visits' \in Seq(Entry)
      /\ DOMAIN visits' = 1..(Len(visits) - 1)
      /\ \A i \in 1..(Len(visits) - 1) : i \in DOMAIN visits /\ visits'[i] = visits[i]
      /\ Visiting' = Visiting \ {Top.body}
  BY <1>1, Returns
<1>3. Typed'
  BY <1>1, <1>2 DEF VInv, Typed
<1>4. Stacked'
  BY <1>1 DEF VInv, Stacked, AtBlock, Here
<1>5. Trail'
  <2>1. phase' = "expand_vars" /\ InBlock'
    BY <1>1 DEF VInv, Trail, InBlock, AtBlock, Here
  <2>2. QED
    BY <1>1, <1>2, <2>1 DEF VInv, Trail
<1>6. Final
  BY <1>1, <1>2 DEF Final
<1>7. QED
  BY <1>3, <1>4, <1>5, <1>6 DEF Kept, VInv

LEMMA InitOfVariables == Init => VInv
<1> SUFFICES ASSUME Init PROVE VInv
  OBVIOUS
<1>1. source \in [Symbol -> Seq(Word)]
  BY DEF Init, Word
<1>2. ASSUME NEW d \in Symbol
      PROVE  /\ [i \in DOMAIN source[d] |-> <<source[d][i]>>] \in Seq(Seq(Word))
             /\ Len([i \in DOMAIN source[d] |-> <<source[d][i]>>]) = Len(source[d])
  <2> DEFINE row == [i \in DOMAIN source[d] |-> <<source[d][i]>>]
             V == Seq(Word)
  <2>1. Len(source[d]) \in Nat /\ DOMAIN source[d] = 1..Len(source[d])
    BY <1>1, LenProperties
  <2>2. \A i \in 1..Len(source[d]) : <<source[d][i]>> \in V
    BY <1>1, ElementOfSeq
  <2> HIDE DEF V
  <2>3. row \in [1..Len(source[d]) -> V]
    BY <2>1, <2>2
  <2> HIDE DEF row
  <2>4. row \in Seq(V)
    BY <2>1, <2>3, SeqDef
  <2>5. Len(row) = Len(source[d])
    BY <2>1, <2>3, <2>4, LenProperties
  <2>6. QED
    BY <2>4, <2>5 DEF V, row
<1>3. body = [d \in Symbol |-> [i \in DOMAIN source[d] |-> <<source[d][i]>>]]
  BY DEF Init
<1>4. body \in [Symbol -> Seq(Seq(Word))] /\ \A d \in Symbol : Len(body[d]) = Len(source[d])
  BY <1>2, <1>3
<1>5. scopes \in [Scopes -> [Type \X Name -> Symbol \union {NoSymbol}]]
  BY DEF Init, SymbolTableInit
<1>6. visits \in Seq(Entry) /\ visits = << >> /\ DOMAIN << >> = {}
  BY EmptySeq DEF Init
<1>7. QED
  BY <1>4, <1>5, <1>6 DEF Init, SymbolTableInit, VInv, Typed, Stacked, Trail

LEMMA StepOfVariables == VInv /\ [Next]_vars => Kept
<1> SUFFICES ASSUME VInv, [Next]_vars PROVE Kept
  OBVIOUS
<1>1. CASE UNCHANGED vars
  <2>1. VInv'
    BY <1>1 DEF vars, VInv, Typed, Stacked, Trail, InBlock, AtBlock, Here
  <2>2. Final
    BY <1>1 DEF vars, Final, Visiting
  <2>3. QED
    BY <2>1, <2>2 DEF Kept
<1>2. CASE Next
  BY <1>2, EnterKeeps, LeaveKeeps, DeclareKeeps, NextPhaseKeeps, VisitItemKeeps, KeepKeeps,
     DescendKeeps, SubstituteKeeps, ReturnKeeps DEF Next
<1>3. QED
  BY <1>1, <1>2

LEMMA VInvHolds == Spec => []VInv
<1>1. VInv /\ [Next]_vars => VInv'
  BY StepOfVariables DEF Kept
<1>2. QED
  BY <1>1, InitOfVariables, PTL DEF Spec

\* A body that has been visited is not visited again and does not change: all
\* the clones that are made of it are alike, in documents of any size, and
\* also when variables refer to each other in a circle.
THEOREM BodiesAreFinal == Spec => FinalWhenVisited
<1>1. VInv /\ [Next]_vars => [Final]_vars
  BY StepOfVariables DEF Kept
<1>2. QED
  BY <1>1, VInvHolds, PTL DEF Spec, FinalWhenVisited, Final
-----------------------------------------------------------------------------
\* The symbols are in the tables of the scopes their declarations are in.
Declared ==
  \A s \in Scopes, n \in Name : scopes[s][<<Variable, n>>] # NoSymbol =>
    \E b \in DOMAIN doc : \E i \in DOMAIN doc[b].items :
      /\ doc[b].scope = s
      /\ doc[b].items[i].body = scopes[s][<<Variable, n>>]

\* Nothing has been replaced in a body that was not visited.
Fresh ==
  /\ phase = "insert_vardecl_syms" => marked = {}
  /\ \A d \in Symbol \ marked : \A i \in DOMAIN source[d] : body[d][i] = <<source[d][i]>>

\* The bodies of the items that the visitor has passed are marked.
Covered ==
  /\ phase = "expand_vars" =>
       \A b \in DOMAIN doc : \A i \in DOMAIN doc[b].items :
         b < block \/ (b = block /\ i < item) => doc[b].items[i].body \in marked
  /\ phase = "done" =>
       /\ visits = << >>
       /\ \A b \in DOMAIN doc : \A i \in DOMAIN doc[b].items : doc[b].items[i].body \in marked

\* The visitor is where d is written, or d is global and means the same
\* everywhere.
InSight(d) == ScopeOf(d) = Here \/ d \in DeclaredIn(Global)

\* What element i of d is to become.
Value(d, i) ==
  IF Links[d][i] = NoSymbol THEN <<source[d][i]>> ELSE Meaning(Links, source, Links[d][i])

\* Each body on the way refers to the next one, is replaced up to its
\* element, and has its meaning when the visit is over.
Replaced(d, at) ==
  \A j \in DOMAIN source[d] :
    body[d][j] = IF j < at THEN Value(d, j) ELSE <<source[d][j]>>

Way ==
  /\ \A i \in DOMAIN visits, d \in Symbol, at \in Nat :
       visits[i].body = d /\ visits[i].at = at => InSight(d) /\ Replaced(d, at)
  /\ \A i \in DOMAIN visits : i + 1 \in DOMAIN visits =>
       visits[i + 1].body \in RefersTo(Links, visits[i].body)
  /\ \A d \in marked \ Visiting : Flat(d) = Meaning(Links, source, d)

Plain == Acyclic(Links) /\ NoCapture

Meant == Plain => Way

MInv == VInv /\ Declared /\ Fresh /\ Covered /\ Meant

\* A body that an item has is written in the scope of its block.
LEMMA ScopeOfItem ==
  ASSUME Typed, NEW b \in DOMAIN doc, NEW i \in DOMAIN doc[b].items
  PROVE  ScopeOf(doc[b].items[i].body) = doc[b].scope
<1> DEFINE d == doc[b].items[i].body
           at == {c \in DOMAIN doc : \E j \in DOMAIN doc[c].items : doc[c].items[j].body = d}
<1>1. b \in at
  OBVIOUS
<1>2. \A c \in at : c = b
  BY PlaceAssumption DEF Typed
<1>3. at = {b}
  BY <1>1, <1>2
<1> HIDE DEF at
<1>4. (CHOOSE c \in at : TRUE) = b
  BY <1>3
<1>5. ScopeOf(d) = IF at = {} THEN Global ELSE doc[CHOOSE c \in at : TRUE].scope
  BY DEF ScopeOf, at
<1>6. QED
  BY <1>3, <1>4, <1>5

LEMMA ScopeTyped ==
  ASSUME Typed, NEW d \in Symbol
  PROVE  ScopeOf(d) \in Scopes
<1> DEFINE at == {c \in DOMAIN doc : \E j \in DOMAIN doc[c].items : doc[c].items[j].body = d}
<1>1. ScopeOf(d) = IF at = {} THEN Global ELSE doc[CHOOSE c \in at : TRUE].scope
  BY DEF ScopeOf
<1>2. \A c \in at : doc[c].scope \in Scopes
  BY DocumentTyped
<1>3. Global \in Scopes
  BY DEF Scopes
<1> HIDE DEF at
<1>4. at # {} => (CHOOSE c \in at : TRUE) \in at
  OBVIOUS
<1>5. QED
  BY <1>1, <1>2, <1>3, <1>4

LEMMA LinksTyped == Typed => IsLinked(Links, source)
<1> SUFFICES ASSUME Typed PROVE IsLinked(Links, source)
  OBVIOUS
<1>1. source \in [Symbol -> Seq(Word)]
  BY SourceTyped
<1>2. ASSUME NEW d \in Symbol
      PROVE  /\ DOMAIN Links[d] = DOMAIN source[d]
             /\ \A i \in DOMAIN source[d] : Links[d][i] \in Symbol \union {NoSymbol}
  <2>1. Links[d] = [i \in DOMAIN source[d] |->
                     IF source[d][i] \in Name THEN Static(ScopeOf(d), source[d][i]) ELSE NoSymbol]
    BY DEF Links
  <2>2. ASSUME NEW x \in Name PROVE Static(ScopeOf(d), x) \in Symbol \union {NoSymbol}
    <3>1. ScopeOf(d) \in Scopes /\ Global \in Scopes
      BY ScopeTyped DEF Scopes
    <3>2. <<Variable, x>> \in Type \X Name
      OBVIOUS
    <3>3. \A s \in Scopes : scopes[s][<<Variable, x>>] \in Symbol \union {NoSymbol}
      BY <3>2 DEF Typed
    <3>4. QED
      BY <3>1, <3>3 DEF Static
  <2>3. QED
    BY <2>1, <2>2
<1>3. QED
  BY <1>1, <1>2 DEF IsLinked

\* The meanings do not change as long as the symbols do not.
LEMMA MeaningStays ==
  ASSUME UNCHANGED <<doc, source, scopes>>
  PROVE  /\ Links' = Links /\ (Plain' <=> Plain)
         /\ \A d \in Symbol : ScopeOf(d)' = ScopeOf(d)
         /\ DeclaredIn(Global)' = DeclaredIn(Global)
         /\ \A d \in Symbol : /\ block' = block => (InSight(d)' <=> InSight(d))
                              /\ \A j : Value(d, j)' = Value(d, j)
                              /\ body'[d] = body[d] =>
                                   \A at : Replaced(d, at)' <=> Replaced(d, at)
<1>1. \A d \in Symbol : ScopeOf(d)' = ScopeOf(d)
  BY DEF ScopeOf
<1>2. Links' = Links
  BY <1>1 DEF Links, Static
<1>3. NoCapture' <=> NoCapture
  BY DEF NoCapture, DeclaredIn
<1>4. Acyclic(Links)' <=> Acyclic(Links)
  BY <1>2
<1>5. DeclaredIn(Global)' = DeclaredIn(Global)
  BY DEF DeclaredIn
<1>6. ASSUME NEW d \in Symbol, block' = block PROVE InSight(d)' <=> InSight(d)
  BY <1>1, <1>5, <1>6 DEF InSight, Here
<1>7. ASSUME NEW d \in Symbol, NEW j PROVE Value(d, j)' = Value(d, j)
  BY <1>2 DEF Value
<1>8. ASSUME NEW d \in Symbol, body'[d] = body[d], NEW at PROVE Replaced(d, at)' <=> Replaced(d, at)
  BY <1>7, <1>8 DEF Replaced
<1>9. QED
  BY <1>1, <1>2, <1>3, <1>4, <1>5, <1>6, <1>7, <1>8 DEF Plain

\* What is found for the element is what it is linked to, and the visitor
\* sees what it refers to in the same light.
LEMMA FindsItsLink ==
  ASSUME VInv, Declared, NoCapture, visits # << >>, InSight(Top.body),
         Top.at <= Len(source[Top.body])
  PROVE  /\ Top.at \in DOMAIN source[Top.body]
         /\ Symbols = {Links[Top.body][Top.at]} \ {NoSymbol}
         /\ \A e \in Symbols : InSight(e)
<1> DEFINE d == Top.body
           x == source[d][Top.at]
<1>1. /\ d \in Symbol /\ Top.at \in DOMAIN source[d] /\ Element = x
  BY TopTyped, SourceTyped DEF VInv, Element
<1>2. InBlock /\ Last(stack) = Here /\ Here \in Scopes /\ Global \in Scopes
  BY HereTyped DEF VInv, Trail, InBlock, Scopes
<1>3. Links[d][Top.at] = IF x \in Name THEN Static(ScopeOf(d), x) ELSE NoSymbol
  BY <1>1 DEF Links
<1>4. x \in Range(source[d])
  BY <1>1 DEF Range
<1> HIDE DEF x, d
<1>5. CASE x \notin Name
  BY <1>1, <1>3, <1>5 DEF Symbols, d
<1>6. CASE x \in Name
  <2>1. Symbols = {Static(Here, x)} \ {NoSymbol}
    BY <1>1, <1>2, <1>6, LookupIsStatic DEF Symbols, VInv
  <2>2. Static(Here, x) = Static(ScopeOf(d), x)
    <3>1. CASE ScopeOf(d) = Here
      BY <3>1
    <3>2. CASE d \in DeclaredIn(Global)
      <4>1. PICK n \in Name : scopes[Global][<<Variable, n>>] = d
        BY <3>2 DEF DeclaredIn
      <4>2. d # NoSymbol
        BY <1>1
      <4>3. PICK b \in DOMAIN doc : \E i \in DOMAIN doc[b].items :
              doc[b].scope = Global /\ doc[b].items[i].body = d
        BY <1>2, <4>1, <4>2 DEF Declared
      <4>4. ScopeOf(d) = Global
        BY <4>3, ScopeOfItem DEF VInv
      <4>5. \A s \in Scope : scopes[s][<<Variable, x>>] = NoSymbol
        BY <1>4, <1>6, <3>2 DEF NoCapture
      <4>6. Here = Global \/ Here \in Scope
        BY <1>2 DEF Scopes
      <4>7. QED
        BY <4>4, <4>5, <4>6 DEF Static
    <3>3. QED
      BY <3>1, <3>2 DEF InSight, d
  <2>3. ASSUME NEW e \in Symbols PROVE InSight(e)
    <3>1. e = Static(Here, x) /\ e # NoSymbol /\ e \in Symbol
      BY <2>1, TopTyped DEF VInv
    <3>2. CASE e = scopes[Here][<<Variable, x>>]
      <4>1. PICK b \in DOMAIN doc : \E i \in DOMAIN doc[b].items :
              doc[b].scope = Here /\ doc[b].items[i].body = e
        BY <1>2, <1>6, <3>1, <3>2 DEF Declared
      <4>2. ScopeOf(e) = Here
        BY <4>1, ScopeOfItem DEF VInv
      <4>3. QED
        BY <4>2 DEF InSight
    <3>3. CASE e = scopes[Global][<<Variable, x>>]
      BY <1>6, <3>1, <3>3 DEF InSight, DeclaredIn
    <3>4. QED
      BY <3>1, <3>2, <3>3 DEF Static
  <2>4. QED
    BY <1>1, <1>3, <1>6, <2>1, <2>2, <2>3 DEF d
<1>7. QED
  BY <1>5, <1>6

\* Without circles nothing on the way is come to again.
LEMMA NotOnTheWay ==
  ASSUME VInv, Acyclic(Links), Way, visits # << >>
  PROVE  \A e \in RefersTo(Links, Top.body) : e \notin Visiting
<1> SUFFICES ASSUME NEW i \in DOMAIN visits, visits[i].body \in RefersTo(Links, Top.body)
             PROVE  FALSE
  BY DEF Visiting
<1> DEFINE L == Len(visits)
           e == visits[i].body
           S == {k \in Nat : i + k + 1 <= L => visits[i + k + 1].body \in Below(Links, e)}
<1>1. /\ L \in Nat \ {0} /\ DOMAIN visits = 1..L /\ i \in 1..L
      /\ \A k \in DOMAIN visits : visits[k].body \in Symbol
      /\ Top = visits[L]
  BY TopTyped DEF VInv
<1>2. e \in Symbol /\ IsLinked(Links, source)
  BY <1>1, LinksTyped DEF VInv
<1>3. /\ RefersTo(Links, e) \subseteq Below(Links, e)
      /\ \A f \in Below(Links, e) : RefersTo(Links, f) \subseteq Below(Links, e)
  BY <1>2, BelowClosed
<1>4. e \notin Below(Links, e)
  BY <1>2 DEF Acyclic
<1> HIDE DEF L
<1>5. 0 \in S
  <2> SUFFICES ASSUME i + 0 + 1 <= L PROVE visits[i + 0 + 1].body \in Below(Links, e)
    OBVIOUS
  <2>1. i + 0 + 1 = i + 1 /\ i + 1 \in DOMAIN visits
    BY <1>1
  <2>2. visits[i + 1].body \in RefersTo(Links, e)
    BY <2>1 DEF Way
  <2>3. QED
    BY <1>3, <2>1, <2>2
<1>6. ASSUME NEW k \in Nat, k \in S PROVE k + 1 \in S
  <2> SUFFICES ASSUME i + (k + 1) + 1 <= L
               PROVE  visits[i + (k + 1) + 1].body \in Below(Links, e)
    OBVIOUS
  <2>1. /\ i + (k + 1) + 1 = (i + k + 1) + 1
        /\ i + k + 1 \in DOMAIN visits /\ (i + k + 1) + 1 \in DOMAIN visits
        /\ i + k + 1 <= L
    BY <1>1
  <2>2. visits[i + k + 1].body \in Below(Links, e)
    BY <1>6, <2>1
  <2>3. visits[(i + k + 1) + 1].body \in RefersTo(Links, visits[i + k + 1].body)
    BY <2>1 DEF Way
  <2>4. QED
    BY <1>3, <2>1, <2>2, <2>3
<1>7. CASE i = L
  BY <1>1, <1>3, <1>4, <1>7
<1>8. CASE i # L
  <2>1. L - i - 1 \in Nat /\ i + (L - i - 1) + 1 = L
    BY <1>1, <1>8
  <2>2. L - i - 1 \in S
    <3> HIDE DEF S
    <3>1. QED
      BY <1>5, <1>6, <2>1, SetInduction
  <2>3. Top.body \in Below(Links, e)
    BY <1>1, <2>1, <2>2
  <2>4. QED
    BY <1>3, <1>4, <2>3
<1>9. QED
  BY <1>7, <1>8
-----------------------------------------------------------------------------
Means == Declared' /\ Fresh' /\ Covered' /\ Meant'

\* Steps that do not visit bodies.
LEMMA OutsideMeans ==
  ASSUME MInv, visits = << >>, UNCHANGED <<scopes, doc, source, body, marked, visits>>
  PROVE  Declared' /\ Meant'
<1>1. Declared'
  BY DEF MInv, Declared
<1>2. Links' = Links /\ (Plain' <=> Plain)
  BY MeaningStays
<1>3. ASSUME Plain PROVE Way'
  <2>1. \A d \in marked \ Visiting : Flat(d) = Meaning(Links, source, d)
    BY <1>3 DEF MInv, Meant, Way
  <2>2. \A d \in (marked \ Visiting)' : Flat(d)' = Meaning(Links, source, d)'
    BY <1>2, <2>1 DEF Visiting, Flat
  <2>3. DOMAIN visits' = {}
    BY EmptySeq
  <2>4. QED
    BY <2>2, <2>3 DEF Way
<1>4. QED
  BY <1>1, <1>2, <1>3 DEF Meant

LEMMA EnterMeans == MInv /\ Enter => Means
<1> SUFFICES ASSUME MInv, Enter PROVE Means
  OBVIOUS
<1>1. /\ visits = << >>
      /\ UNCHANGED <<scopes, doc, source, phase, block, item, body, marked, visits>>
  BY EnterKeeps DEF Enter, EnterScope, place, MInv
<1>2. Fresh' /\ Covered'
  BY <1>1 DEF MInv, Fresh, Covered
<1>3. QED
  BY <1>1, <1>2, OutsideMeans DEF Means

LEMMA LeaveMeans == MInv /\ Leave => Means
<1> SUFFICES ASSUME MInv, Leave PROVE Means
  OBVIOUS
<1>1. /\ visits = << >> /\ InBlock /\ item > Len(Items)
      /\ phase \in {"insert_vardecl_syms", "expand_vars"}
      /\ block' = block + 1 /\ item' = 1
      /\ UNCHANGED <<scopes, doc, source, phase, body, marked, visits>>
  BY DEF Leave, LeaveScope
<1>2. Fresh'
  BY <1>1 DEF MInv, Fresh
<1>3. Covered'
  <2> SUFFICES ASSUME phase = "expand_vars", NEW b \in DOMAIN doc, NEW i \in DOMAIN doc[b].items,
                      b < block + 1 \/ (b = block + 1 /\ i < 1)
               PROVE  doc[b].items[i].body \in marked
    BY <1>1 DEF Covered
  <2>1. b \in Nat /\ i \in Nat \ {0} /\ block \in Nat /\ item \in Nat
    BY DocumentTyped DEF MInv, VInv, Typed
  <2>2. b < block \/ b = block
    BY <2>1
  <2>3. b = block => i < item
    <3> SUFFICES ASSUME b = block PROVE i < item
      OBVIOUS
    <3>1. Len(Items) \in Nat /\ i \in 1..Len(Items)
      BY <1>1, HereTyped DEF MInv, VInv, InBlock, Items
    <3>2. QED
      BY <1>1, <2>1, <3>1
  <2>4. QED
    BY <2>2, <2>3 DEF MInv, Covered
<1>4. QED
  BY <1>1, <1>2, <1>3, OutsideMeans DEF Means

LEMMA NextPhaseMeans == MInv /\ NextPhase => Means
<1> SUFFICES ASSUME MInv, NextPhase PROVE Means
  OBVIOUS
<1>1. /\ visits = << >> /\ ~AtBlock /\ block' = 1 /\ item' = 1
      /\ UNCHANGED <<scopes, doc, source, body, marked, visits>>
      /\ phase' \in {"expand_vars", "failed", "done"}
      /\ phase' = "done" => phase = "expand_vars"
  BY NextPhaseKeeps DEF NextPhase, MInv
<1>2. Fresh'
  BY <1>1 DEF MInv, Fresh
<1>3. \A b \in DOMAIN doc : b \in Nat \ {0} /\ \A i \in DOMAIN doc[b].items : i \in Nat \ {0}
  BY DocumentTyped DEF MInv, VInv
<1>4. CASE phase' = "done"
  <2>1. \A b \in DOMAIN doc : b < block
    BY <1>1, DocumentTyped DEF MInv, VInv, Typed, AtBlock
  <2>2. \A b \in DOMAIN doc : \A i \in DOMAIN doc[b].items : doc[b].items[i].body \in marked
    BY <1>1, <1>4, <2>1 DEF MInv, Covered
  <2>3. Covered'
    BY <1>1, <1>4, <2>2 DEF Covered
  <2>4. QED
    BY <1>1, <1>2, <2>3, OutsideMeans DEF Means
<1>5. CASE phase' # "done"
  <2>1. \A b \in DOMAIN doc : \A i \in DOMAIN doc[b].items : ~(b < 1 \/ (b = 1 /\ i < 1))
    BY <1>3
  <2>2. Covered'
    BY <1>1, <1>5, <2>1 DEF Covered
  <2>3. QED
    BY <1>1, <1>2, <2>2, OutsideMeans DEF Means
<1>6. QED
  BY <1>4, <1>5

LEMMA DeclareMeans == MInv /\ Declare => Means
<1> SUFFICES ASSUME MInv, Declare PROVE Means
  OBVIOUS
<1>1. /\ visits = << >> /\ phase = "insert_vardecl_syms" /\ InBlock /\ item <= Len(Items)
      /\ UNCHANGED <<doc, source, phase, body, marked, visits>>
  BY DeclareKeeps DEF Declare, MInv
<1>2. marked = {}
  BY <1>1 DEF MInv, Fresh
<1>3. Fresh' /\ Covered'
  BY <1>1 DEF MInv, Fresh, Covered
<1>4. Meant'
  BY <1>1, <1>2, EmptySeq DEF Meant, Way
<1>5. Declared'
  <2> DEFINE decl == Items[item]
             s == Last(stack)
             k == <<Variable, decl.name>>
  <2>1. CASE scopes' = scopes
    BY <1>1, <2>1 DEF MInv, Declared
  <2>2. CASE scopes' # scopes
    <3>1. decl.name # NoName /\ scopes' = [scopes EXCEPT ![s][k] = decl.body]
      BY <2>2 DEF Declare, Insert
    <3>2. /\ decl.name \in Name /\ s \in Scopes /\ s = Here
          /\ block \in DOMAIN doc /\ item \in DOMAIN doc[block].items
      BY <1>1, <3>1, HereTyped, StackTop DEF MInv, VInv, InBlock, Items
    <3>3. k \in Type \X Name
      BY <3>2
    <3>4. doc[block].scope = s /\ doc[block].items[item].body = decl.body
      BY <3>2 DEF Here, Items
    <3> HIDE DEF decl, k, s
    <3>5. \A t \in Scopes, n \in Name :
            scopes'[t][<<Variable, n>>]
              = IF t = s /\ <<Variable, n>> = k THEN decl.body ELSE scopes[t][<<Variable, n>>]
      <4>1. scopes \in [Scopes -> [Type \X Name -> Symbol \union {NoSymbol}]]
        BY DEF MInv, VInv, Typed
      <4>2. \A n \in Name : <<Variable, n>> \in Type \X Name
        OBVIOUS
      <4>3. scopes' = [scopes EXCEPT ![s] = [scopes[s] EXCEPT ![k] = decl.body]]
        BY <3>1, <4>1
      <4>4. QED
        BY <3>2, <3>3, <4>1, <4>2, <4>3
    <3>6. ASSUME NEW t \in Scopes, NEW n \in Name, scopes'[t][<<Variable, n>>] # NoSymbol
          PROVE  \E b \in DOMAIN doc : \E i \in DOMAIN doc[b].items :
                   /\ doc[b].scope = t
                   /\ doc[b].items[i].body = scopes'[t][<<Variable, n>>]
      <4>1. CASE t = s /\ <<Variable, n>> = k
        BY <3>2, <3>4, <3>5, <4>1
      <4>2. CASE ~(t = s /\ <<Variable, n>> = k)
        <5>1. scopes'[t][<<Variable, n>>] = scopes[t][<<Variable, n>>]
          BY <3>5, <4>2
        <5>2. QED
          BY <3>6, <5>1 DEF MInv, Declared
      <4>3. QED
        BY <4>1, <4>2
    <3>7. QED
      BY <1>1, <3>6 DEF Declared
  <2>3. QED
    BY <2>1, <2>2
<1>6. QED
  BY <1>3, <1>4, <1>5 DEF Means

\* Steps that begin to visit a body, which is in sight and is referred to.
LEMMA PushMeans ==
  ASSUME MInv, NEW d \in Symbol \ marked, phase = "expand_vars",
         UNCHANGED <<scopes, doc, source, phase, block, body>>,
         marked' = marked \union {d}, visits' = Append(visits, [body |-> d, at |-> 1]),
         Plain => InSight(d) /\ (visits # << >> => d \in RefersTo(Links, Top.body))
  PROVE  Declared' /\ Fresh' /\ Meant'
<1> DEFINE L == Len(visits)
<1>1. /\ L \in Nat /\ DOMAIN visits = 1..L /\ DOMAIN visits' = 1..(L + 1)
      /\ \A i \in DOMAIN visits : visits'[i] = visits[i]
      /\ visits'[L + 1] = [body |-> d, at |-> 1]
      /\ Visiting' = Visiting \union {d}
  BY Pushes DEF MInv
<1>2. Declared'
  BY DEF MInv, Declared
<1>3. Fresh'
  BY DEF MInv, Fresh
<1>4. /\ Links' = Links /\ (Plain' <=> Plain)
      /\ \A e \in Symbol : InSight(e)' <=> InSight(e)
      /\ \A e \in Symbol, at \in Nat : Replaced(e, at)' <=> Replaced(e, at)
  BY MeaningStays
<1>5. ASSUME Plain PROVE Way'
  <2>1. Way
    BY <1>5 DEF MInv, Meant
  <2>2. \A i \in DOMAIN visits : visits[i].body \in Symbol
    BY DEF MInv, VInv, Trail, Typed
  <2>3. \A j \in DOMAIN source[d] : body[d][j] = <<source[d][j]>> /\ j \in Nat \ {0}
    BY SourceTyped DEF MInv, VInv, Fresh
  <2>4. ASSUME NEW i \in DOMAIN visits', NEW e \in Symbol, NEW at \in Nat,
               visits'[i].body = e, visits'[i].at = at
        PROVE  InSight(e)' /\ Replaced(e, at)'
    <3>1. CASE i \in DOMAIN visits
      <4>1. InSight(e) /\ Replaced(e, at)
        BY <1>1, <2>1, <2>4, <3>1 DEF Way
      <4>2. QED
        BY <1>4, <4>1
    <3>2. CASE i = L + 1
      <4>1. e = d /\ at = 1
        BY <1>1, <2>4, <3>2
      <4>2. \A j \in DOMAIN source[d] : ~(j < 1)
        BY <2>3
      <4>3. Replaced(e, at)
        BY <2>3, <4>1, <4>2 DEF Replaced
      <4>4. QED
        BY <1>4, <1>5, <4>1, <4>3
    <3>3. QED
      BY <1>1, <3>1, <3>2
  <2>5. ASSUME NEW i \in DOMAIN visits', i + 1 \in DOMAIN visits'
        PROVE  visits'[i + 1].body \in RefersTo(Links, visits'[i].body)
    <3>1. i \in DOMAIN visits /\ (i + 1 \in DOMAIN visits \/ i = L)
      BY <1>1, <2>5
    <3>2. CASE i + 1 \in DOMAIN visits
      BY <1>1, <2>1, <3>1, <3>2 DEF Way
    <3>3. CASE i = L
      <4>1. visits # << >> /\ Top = visits[L]
        BY <3>1, <3>3, EmptySeq, TopTyped DEF MInv, VInv
      <4>2. visits'[i + 1].body = d /\ visits'[i].body = Top.body
        BY <1>1, <3>1, <3>3, <4>1
      <4>3. QED
        BY <1>5, <4>1, <4>2
    <3>4. QED
      BY <3>1, <3>2, <3>3
  <2>6. ASSUME NEW e \in (marked \ Visiting)' PROVE Flat(e)' = Meaning(Links, source, e)'
    <3>1. e \in marked \ Visiting
      BY <1>1
    <3>2. Flat(e) = Meaning(Links, source, e)
      BY <2>1, <3>1 DEF Way
    <3>3. QED
      BY <1>4, <3>2 DEF Flat
  <2>7. QED
    BY <1>4, <2>4, <2>5, <2>6 DEF Way
<1>6. QED
  BY <1>2, <1>3, <1>4, <1>5 DEF Meant

LEMMA VisitItemMeans == MInv /\ VisitItem => Means
<1> SUFFICES ASSUME MInv, VisitItem PROVE Means
  OBVIOUS
<1> DEFINE d == Items[item].body
<1>1. /\ phase = "expand_vars" /\ visits = << >> /\ InBlock /\ item <= Len(Items) /\ Visit(d)
      /\ UNCHANGED <<scopes, doc, source, phase, block, body>>
      /\ item' = item + 1
  BY DEF VisitItem
<1>2. /\ block \in DOMAIN doc /\ item \in DOMAIN doc[block].items
      /\ d = doc[block].items[item].body /\ d \in Symbol
  BY <1>1, HereTyped DEF MInv, VInv, InBlock, Items
<1>3. InSight(d)
  BY <1>2, ScopeOfItem DEF MInv, VInv, InSight, Here
<1> HIDE DEF d
<1>4. d \in marked' /\ marked \subseteq marked'
  BY <1>1 DEF Visit
<1>5. Covered'
  <2> SUFFICES ASSUME NEW b \in DOMAIN doc, NEW i \in DOMAIN doc[b].items,
                      b < block \/ (b = block /\ i < item + 1)
               PROVE  doc[b].items[i].body \in marked'
    BY <1>1 DEF Covered
  <2>1. i \in Nat /\ item \in Nat
    <3>1. i \in 1..Len(doc[b].items) /\ Len(doc[b].items) \in Nat
      BY DocumentTyped DEF MInv, VInv
    <3>2. QED
      BY <3>1 DEF MInv, VInv, Typed
  <2>2. CASE b = block /\ i = item
    BY <1>2, <1>4, <2>2
  <2>3. CASE b < block \/ (b = block /\ i < item)
    BY <1>1, <1>4, <2>3 DEF MInv, Covered
  <2>4. QED
    BY <2>1, <2>2, <2>3
<1>6. CASE d \notin marked
  <2>1. marked' = marked \union {d} /\ visits' = Append(visits, [body |-> d, at |-> 1])
    BY <1>1, <1>6 DEF Visit
  <2>2. Declared' /\ Fresh' /\ Meant'
    BY <1>1, <1>2, <1>3, <1>6, <2>1, PushMeans
  <2>3. QED
    BY <1>5, <2>2 DEF Means
<1>7. CASE d \in marked
  <2>1. UNCHANGED <<marked, visits>>
    BY <1>1, <1>7 DEF Visit
  <2>2. Declared' /\ Meant'
    BY <1>1, <2>1, OutsideMeans
  <2>3. Fresh'
    BY <1>1, <2>1 DEF MInv, Fresh
  <2>4. QED
    BY <1>5, <2>2, <2>3 DEF Means
<1>8. QED
  BY <1>6, <1>7

\* In a visit no items are passed.
LEMMA CoveredStays ==
  ASSUME MInv, visits # << >>, UNCHANGED <<doc, phase, block, item>>, marked \subseteq marked'
  PROVE  Covered'
BY DEF MInv, VInv, Trail, Covered

LEMMA DescendMeans == MInv /\ Descend => Means
<1> SUFFICES ASSUME MInv, Descend PROVE Means
  OBVIOUS
<1>1. /\ visits # << >> /\ Top.at <= Len(source[Top.body])
      /\ UNCHANGED <<scopes, doc, source, phase, block, item, body>>
  BY DEF Descend, place
<1>2. PICK d \in Symbols : d \notin marked /\ Visit(d)
  BY DEF Descend
<1>3. /\ d \in Symbol /\ marked' = marked \union {d}
      /\ visits' = Append(visits, [body |-> d, at |-> 1])
  BY <1>1, <1>2, TopTyped DEF MInv, VInv, Visit
<1>4. phase = "expand_vars"
  BY <1>1 DEF MInv, VInv, Trail
<1>5. ASSUME Plain PROVE InSight(d) /\ d \in RefersTo(Links, Top.body)
  <2>1. /\ Len(visits) \in DOMAIN visits /\ Top = visits[Len(visits)]
        /\ Top.body \in Symbol /\ Top.at \in Nat
    BY <1>1, TopTyped DEF MInv, VInv
  <2>2. InSight(Top.body)
    BY <1>5, <2>1 DEF MInv, Meant, Way
  <2>3. /\ Top.at \in DOMAIN source[Top.body]
        /\ Symbols = {Links[Top.body][Top.at]} \ {NoSymbol}
        /\ InSight(d)
    BY <1>1, <1>2, <1>5, <2>2, FindsItsLink DEF MInv, Plain
  <2>4. Top.at \in DOMAIN Links[Top.body]
    BY <2>1, <2>3, LinksTyped DEF MInv, VInv, IsLinked
  <2>5. QED
    BY <1>2, <2>3, <2>4 DEF RefersTo, Range
<1>6. Covered'
  BY <1>1, <1>3, CoveredStays
<1>7. QED
  BY <1>1, <1>2, <1>3, <1>4, <1>5, <1>6, PushMeans DEF Means

\* Steps that finish an element of the body that is visited.
LEMMA AdvanceMeans ==
  ASSUME MInv, visits # << >>, Advance, Top.at <= Len(source[Top.body]),
         UNCHANGED <<scopes, doc, source, phase, block, item, marked>>,
         \A e \in Symbol : e # Top.body => body'[e] = body[e],
         Plain => \A j \in DOMAIN source[Top.body] :
                    body'[Top.body][j] = IF j = Top.at THEN Value(Top.body, j) ELSE body[Top.body][j]
  PROVE  Means
<1> DEFINE L == Len(visits)
           d == Top.body
<1>1. /\ DOMAIN visits' = DOMAIN visits
      /\ \A i \in DOMAIN visits :
           /\ visits'[i].body = visits[i].body
           /\ visits'[i].at = IF i = L THEN Top.at + 1 ELSE visits[i].at
      /\ Visiting' = Visiting
  BY Advances DEF MInv
<1>2. /\ L \in DOMAIN visits /\ Top = visits[L] /\ d \in Symbol /\ Top.at \in Nat \ {0}
      /\ \A i \in DOMAIN visits : visits[i].body \in Symbol
  BY TopTyped DEF MInv, VInv
<1>3. d \in Visiting /\ d \in marked
  BY <1>2 DEF MInv, VInv, Trail, Visiting
<1>4. /\ Links' = Links /\ (Plain' <=> Plain)
      /\ \A e \in Symbol : InSight(e)' <=> InSight(e)
  BY MeaningStays
<1>5. Covered'
  BY CoveredStays
<1>6. Declared'
  BY DEF MInv, Declared
<1>7. Fresh'
  BY <1>3 DEF MInv, Fresh
<1> HIDE DEF d
<1>8. ASSUME Plain PROVE Way'
  <2>1. Way
    BY <1>8 DEF MInv, Meant
  <2>2. ASSUME NEW i \in DOMAIN visits', NEW e \in Symbol, NEW at \in Nat,
               visits'[i].body = e, visits'[i].at = at
        PROVE  InSight(e)' /\ Replaced(e, at)'
    <3>1. i \in DOMAIN visits /\ visits[i].body = e
      BY <1>1, <2>2
    <3>2. CASE i = L
      <4>1. at = Top.at + 1 /\ e = d
        BY <1>1, <1>2, <2>2, <3>1, <3>2 DEF d
      <4>2. InSight(d) /\ Replaced(d, Top.at)
        BY <1>2, <2>1 DEF Way, d
      <4>3. ASSUME NEW j \in DOMAIN source[d]
            PROVE  body'[d][j] = IF j < at THEN Value(d, j) ELSE <<source[d][j]>>
        <5>1. j \in Nat
          BY <1>2, SourceTyped DEF MInv, VInv, d
        <5>2. body[d][j] = IF j < Top.at THEN Value(d, j) ELSE <<source[d][j]>>
          BY <4>2 DEF Replaced
        <5>3. body'[d][j] = IF j = Top.at THEN Value(d, j) ELSE body[d][j]
          BY <1>8 DEF d
        <5>4. j < at <=> j < Top.at \/ j = Top.at
          BY <1>2, <4>1, <5>1
        <5>5. QED
          BY <5>2, <5>3, <5>4
      <4>4. \A j : Value(e, j)' = Value(e, j)
        BY MeaningStays
      <4>5. \A j \in DOMAIN source[e] :
              body'[e][j] = IF j < at THEN Value(e, j) ELSE <<source[e][j]>>
        BY <4>1, <4>3
      <4>6. Replaced(e, at)'
        BY <4>4, <4>5 DEF Replaced
      <4>7. InSight(e)
        BY <4>1, <4>2
      <4>8. QED
        BY <1>4, <4>6, <4>7
    <3>3. CASE i # L
      <4>1. e # d
        BY <1>2, <3>1, <3>3 DEF MInv, VInv, Trail, d
      <4>2. body'[e] = body[e] /\ visits[i].at = at
        BY <1>1, <2>2, <3>1, <3>3, <4>1 DEF d
      <4>3. InSight(e) /\ Replaced(e, at)
        BY <2>1, <3>1, <4>2 DEF Way
      <4>4. QED
        BY <4>2, <4>3, MeaningStays
    <3>4. QED
      BY <3>2, <3>3
  <2>3. \A i \in DOMAIN visits' : i + 1 \in DOMAIN visits' =>
          visits'[i + 1].body \in RefersTo(Links, visits'[i].body)
    BY <1>1, <2>1 DEF Way
  <2>4. ASSUME NEW e \in (marked \ Visiting)' PROVE Flat(e)' = Meaning(Links, source, e)'
    <3>1. e \in marked \ Visiting /\ e \in Symbol /\ e # d
      BY <1>1, <1>3 DEF MInv, VInv, Typed
    <3>2. Flat(e) = Meaning(Links, source, e) /\ body'[e] = body[e]
      BY <2>1, <3>1 DEF Way, d
    <3>3. QED
      BY <1>4, <3>2 DEF Flat
  <2>5. QED
    BY <1>4, <2>2, <2>3, <2>4 DEF Way
<1>9. QED
  BY <1>4, <1>5, <1>6, <1>7, <1>8 DEF Means, Meant

\* What is known of the element that is come to.
LEMMA AtElement ==
  ASSUME MInv, Plain, visits # << >>, Top.at <= Len(source[Top.body])
  PROVE  LET d == Top.body
         IN  /\ d \in Symbol /\ Top.at \in DOMAIN source[d]
             /\ Symbols = {Links[d][Top.at]} \ {NoSymbol}
             /\ body[d][Top.at] = <<source[d][Top.at]>>
             /\ \A e \in Symbols : e \notin Visiting
<1> DEFINE d == Top.body
<1>1. /\ Len(visits) \in DOMAIN visits /\ Top = visits[Len(visits)]
      /\ d \in Symbol /\ Top.at \in Nat
  BY TopTyped DEF MInv, VInv
<1>2. InSight(d) /\ Replaced(d, Top.at)
  BY <1>1 DEF MInv, Meant, Way
<1>3. Top.at \in DOMAIN source[d] /\ Symbols = {Links[d][Top.at]} \ {NoSymbol}
  BY <1>2, FindsItsLink DEF MInv, Plain
<1>4. body[d][Top.at] = <<source[d][Top.at]>>
  <2>1. ~(Top.at < Top.at)
    BY <1>1
  <2>2. QED
    BY <1>2, <1>3, <2>1 DEF Replaced
<1>5. Top.at \in DOMAIN Links[d]
  BY <1>1, <1>3, LinksTyped DEF MInv, VInv, IsLinked
<1>6. \A e \in Symbols : e \in RefersTo(Links, d)
  BY <1>3, <1>5 DEF RefersTo, Range
<1>7. \A e \in Symbols : e \notin Visiting
  BY <1>6, NotOnTheWay DEF MInv, Meant, Plain
<1>8. QED
  BY <1>1, <1>3, <1>4, <1>7

LEMMA KeepMeans == MInv /\ Keep => Means
<1> SUFFICES ASSUME MInv, Keep PROVE Means
  OBVIOUS
<1>1. /\ visits # << >> /\ Advance /\ Top.at <= Len(source[Top.body]) /\ Symbols = {}
      /\ UNCHANGED <<scopes, doc, source, phase, block, item, body, marked>>
  BY DEF Keep, place
<1> DEFINE d == Top.body
<1>2. ASSUME Plain, NEW j \in DOMAIN source[d]
      PROVE  body'[d][j] = IF j = Top.at THEN Value(d, j) ELSE body[d][j]
  <2>1. /\ Symbols = {Links[d][Top.at]} \ {NoSymbol}
        /\ body[d][Top.at] = <<source[d][Top.at]>>
    BY <1>1, <1>2, AtElement
  <2>2. Links[d][Top.at] = NoSymbol
    BY <1>1, <2>1
  <2>3. QED
    BY <1>1, <2>1, <2>2 DEF Value
<1>3. \A e \in Symbol : body'[e] = body[e]
  BY <1>1
<1>4. QED
  BY <1>1, <1>2, <1>3, AdvanceMeans

LEMMA SubstituteMeans == MInv /\ Substitute => Means
<1> SUFFICES ASSUME MInv, Substitute PROVE Means
  OBVIOUS
<1> DEFINE d == Top.body
           a == Top.at
<1>1. /\ visits # << >> /\ Advance /\ Top.at <= Len(source[Top.body])
      /\ UNCHANGED <<scopes, doc, source, phase, block, item, marked>>
  BY DEF Substitute, place
<1>2. PICK e \in Symbols \intersect marked :
        /\ d \in Symbol /\ a \in DOMAIN source[d]
        /\ body' = [body EXCEPT ![d] = [body[d] EXCEPT ![a] = Flat(e)]]
  BY Substituted DEF MInv
<1>3. /\ body \in [Symbol -> Seq(Seq(Word))]
      /\ DOMAIN body[d] = DOMAIN source[d] /\ body[d] \in Seq(Seq(Word))
  BY <1>2, SourceTyped DEF MInv, VInv, Typed
<1>4. \A f \in Symbol : f # d => body'[f] = body[f]
  BY <1>2, <1>3
<1>5. \A j \in DOMAIN source[d] : body'[d][j] = IF j = a THEN Flat(e) ELSE body[d][j]
  <2> DEFINE row == [body[d] EXCEPT ![a] = Flat(e)]
  <2>1. body'[d] = row
    BY <1>2, <1>3
  <2>2. \A j \in DOMAIN body[d] : row[j] = IF j = a THEN Flat(e) ELSE body[d][j]
    OBVIOUS
  <2>3. QED
    BY <1>3, <2>1, <2>2
<1>6. ASSUME Plain PROVE Flat(e) = Value(d, a)
  <2>1. /\ Symbols = {Links[d][a]} \ {NoSymbol}
        /\ e \notin Visiting
    BY <1>1, <1>2, <1>6, AtElement
  <2>2. e = Links[d][a] /\ e # NoSymbol
    BY <1>2, <2>1
  <2>3. Flat(e) = Meaning(Links, source, e)
    BY <1>2, <1>6, <2>1 DEF MInv, Meant, Way
  <2>4. QED
    BY <2>2, <2>3 DEF Value
<1>7. ASSUME Plain
      PROVE  \A j \in DOMAIN source[d] : body'[d][j] = IF j = a THEN Value(d, j) ELSE body[d][j]
  BY <1>5, <1>6, <1>7
<1>8. QED
  BY <1>1, <1>4, <1>7, AdvanceMeans

LEMMA ReturnMeans == MInv /\ Return => Means
<1> SUFFICES ASSUME MInv, Return PROVE Means
  OBVIOUS
<1> DEFINE L == Len(visits)
<1>1. /\ visits # << >> /\ Top.at > Len(source[Top.body]) /\ visits' = Front(visits)
      /\ UNCHANGED <<scopes, doc, source, phase, block, item, body, marked>>
  BY DEF Return, place
<1>2. /\ DOMAIN visits' = 1..(L - 1)
      /\ \A i \in 1..(L - 1) : i \in DOMAIN visits /\ visits'[i] = visits[i]
      /\ Visiting' = Visiting \ {Top.body}
  BY <1>1, Returns DEF MInv
<1>3. Covered'
  BY <1>1, CoveredStays
<1>4. Declared' /\ Fresh'
  BY <1>1 DEF MInv, Declared, Fresh
<1>5. /\ Links' = Links /\ (Plain' <=> Plain)
      /\ \A e \in Symbol : InSight(e)' <=> InSight(e)
      /\ \A e \in Symbol : \A at : Replaced(e, at)' <=> Replaced(e, at)
  BY <1>1, MeaningStays
<1>6. ASSUME Plain PROVE Flat(Top.body) = Meaning(Links, source, Top.body)
  <2> DEFINE d == Top.body
             m == [e \in Symbol |-> Meaning(Links, source, e)]
  <2>1. L \in DOMAIN visits /\ Top = visits[L] /\ d \in Symbol /\ Top.at \in Nat
    BY <1>1, TopTyped DEF MInv, VInv
  <2>2. Replaced(d, Top.at)
    BY <1>6, <2>1 DEF MInv, Meant, Way
  <2>3. /\ DOMAIN source[d] = 1..Len(source[d]) /\ Len(source[d]) \in Nat
        /\ DOMAIN body[d] = DOMAIN source[d] /\ body[d] \in Seq(Seq(Word))
    BY <2>1, SourceTyped DEF MInv, VInv
  <2>4. \A j \in DOMAIN source[d] : j < Top.at
    BY <1>1, <2>1, <2>3
  <2>5. \A j \in DOMAIN source[d] : body[d][j] = Value(d, j)
    BY <2>2, <2>4 DEF Replaced
  <2>6. IsLinked(Links, source) /\ Acyclic(Links)
    BY <1>6, LinksTyped DEF MInv, VInv, Plain
  <2>7. \A j \in DOMAIN source[d] : Links[d][j] \in Symbol \union {NoSymbol}
    BY <2>1, <2>6 DEF IsLinked
  <2>8. \A e \in Symbol : m[e] = Meaning(Links, source, e)
    OBVIOUS
  <2> HIDE DEF m, d
  <2>9. \A j \in DOMAIN source[d] :
          Value(d, j) = IF Links[d][j] = NoSymbol THEN <<source[d][j]>> ELSE m[Links[d][j]]
    BY <2>7, <2>8 DEF Value
  <2>10. body[d] = [j \in DOMAIN body[d] |-> body[d][j]]
    <3> DEFINE V == Seq(Word)
    <3>1. body[d] \in Seq(V)
      BY <2>3
    <3> HIDE DEF V
    <3>2. \A s \in Seq(V) : s = [j \in DOMAIN s |-> s[j]]
      BY SeqDef
    <3>3. QED
      BY <3>1, <3>2
  <2>11. body[d] = [j \in DOMAIN source[d] |->
                     IF Links[d][j] = NoSymbol THEN <<source[d][j]>> ELSE m[Links[d][j]]]
    BY <2>3, <2>5, <2>9, <2>10
  <2>12. Flat(d) = Unfold(Links, source, m, d)
    BY <2>11 DEF Flat, Unfold
  <2>13. Meaning(Links, source, d) = Unfold(Links, source, m, d)
    BY <2>1, <2>6, MeaningUnfolds DEF m
  <2>14. QED
    BY <2>12, <2>13 DEF d
<1>7. ASSUME Plain PROVE Way'
  <2>1. Way
    BY <1>7 DEF MInv, Meant
  <2>2. ASSUME NEW i \in DOMAIN visits', NEW e \in Symbol, NEW at \in Nat,
               visits'[i].body = e, visits'[i].at = at
        PROVE  InSight(e)' /\ Replaced(e, at)'
    <3>1. InSight(e) /\ Replaced(e, at)
      BY <1>2, <2>1, <2>2 DEF Way
    <3>2. QED
      BY <1>5, <3>1
  <2>3. \A i \in DOMAIN visits' : i + 1 \in DOMAIN visits' =>
          visits'[i + 1].body \in RefersTo(Links, visits'[i].body)
    BY <1>2, <2>1 DEF Way
  <2>4. ASSUME NEW e \in (marked \ Visiting)' PROVE Flat(e)' = Meaning(Links, source, e)'
    <3>1. e \in marked \ Visiting \/ e = Top.body
      BY <1>1, <1>2
    <3>2. Flat(e) = Meaning(Links, source, e)
      BY <1>6, <1>7, <2>1, <3>1 DEF Way
    <3>3. QED
      BY <1>1, <1>5, <3>2 DEF Flat
  <2>5. QED
    BY <1>5, <2>2, <2>3, <2>4 DEF Way
<1>8. QED
  BY <1>3, <1>4, <1>5, <1>7 DEF Means, Meant

LEMMA InitMeans == Init => MInv
<1> SUFFICES ASSUME Init PROVE MInv
  OBVIOUS
<1>1. /\ \A s \in Scopes, n \in Name : scopes[s][<<Variable, n>>] = NoSymbol
      /\ phase = "insert_vardecl_syms" /\ marked = {} /\ visits = << >>
      /\ body = [d \in Symbol |-> [i \in DOMAIN source[d] |-> <<source[d][i]>>]]
  BY DEF Init, SymbolTableInit
<1>2. Declared /\ Fresh /\ Covered
  BY <1>1 DEF Declared, Fresh, Covered
<1>3. Meant
  BY <1>1, EmptySeq DEF Meant, Way
<1>4. QED
  BY <1>2, <1>3, InitOfVariables DEF MInv

LEMMA StepMeans == MInv /\ [Next]_vars => MInv'
<1> SUFFICES ASSUME MInv, [Next]_vars PROVE MInv'
  OBVIOUS
<1>1. VInv'
  BY StepOfVariables DEF MInv, Kept
<1>2. CASE UNCHANGED vars
  <2>1. /\ Links' = Links /\ (Plain' <=> Plain)
        /\ \A e \in Symbol : InSight(e)' <=> InSight(e)
        /\ \A e \in Symbol : \A at : Replaced(e, at)' <=> Replaced(e, at)
    BY <1>2, MeaningStays DEF vars
  <2>2. Declared' /\ Fresh' /\ Covered'
    BY <1>2 DEF vars, MInv, Declared, Fresh, Covered
  <2>3. ASSUME Way PROVE Way'
    <3>1. /\ visits' = visits /\ marked' = marked /\ Visiting' = Visiting
          /\ \A e : Flat(e)' = Flat(e) /\ Meaning(Links, source, e)' = Meaning(Links, source, e)
      BY <1>2, <2>1 DEF vars, Flat, Visiting
    <3>2. \A i \in DOMAIN visits', e \in Symbol, at \in Nat :
            visits'[i].body = e /\ visits'[i].at = at => InSight(e)' /\ Replaced(e, at)'
      BY <2>1, <2>3, <3>1 DEF Way
    <3>3. \A i \in DOMAIN visits' : i + 1 \in DOMAIN visits' =>
            visits'[i + 1].body \in RefersTo(Links, visits'[i].body)
      BY <2>3, <3>1 DEF Way
    <3>4. \A e \in (marked \ Visiting)' : Flat(e)' = Meaning(Links, source, e)'
      BY <2>3, <3>1 DEF Way
    <3>5. QED
      BY <2>1, <3>2, <3>3, <3>4 DEF Way
  <2>4. QED
    BY <1>1, <2>1, <2>2, <2>3 DEF MInv, Meant
<1>3. CASE Next
  <2>1. Means
    BY <1>3, EnterMeans, LeaveMeans, DeclareMeans, NextPhaseMeans, VisitItemMeans, KeepMeans,
       DescendMeans, SubstituteMeans, ReturnMeans DEF Next
  <2>2. QED
    BY <1>1, <2>1 DEF Means, MInv
<1>4. QED
  BY <1>2, <1>3

\* In a project whose variables do not go in circles, and whose global
\* declarations use no name that a target declares, all that is written has
\* its static meaning in the end, in documents of any size and in any order.
THEOREM BodiesGetTheirMeaning == Spec => []ExpandsToMeaning
<1>1. MInv => ExpandsToMeaning
  <2> SUFFICES ASSUME MInv, phase = "done", Plain,
                      NEW b \in DOMAIN doc, NEW i \in DOMAIN doc[b].items
               PROVE  Flat(doc[b].items[i].body) = Meaning(Links, source, doc[b].items[i].body)
    BY DEF ExpandsToMeaning, Plain
  <2>1. doc[b].items[i].body \in marked /\ Visiting = {}
    BY EmptySeq DEF MInv, Covered, Visiting
  <2>2. QED
    BY <2>1 DEF MInv, Meant, Way
<1>2. QED
  BY <1>1, InitMeans, StepMeans, PTL DEF Spec
=============================================================================
