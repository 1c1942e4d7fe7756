--------------------------- MODULE MakefileProofs ----------------------------
(***************************************************************************)
(* Theorems of Makefile, for all documents: what is printed is readable,   *)
(* and what comes to an exception or to the end does so for a reason.      *)
(*                                                                         *)
(* Rows of lines first: how many conditions are open behind each, and when *)
(* a text may follow them.  Then the document, which keeps its shape while *)
(* the phases of Targets and merge_blocks edit it; what the visitors of    *)
(* emit print for a section; the invariant, with a lemma for each action.  *)
(* For the reasons: rows by rank, with which libraries that are not linked *)
(* in a circle are sorted; the sections of flags that the merger of a      *)
(* target remembers; and the rule files that the visitor of imports has    *)
(* yet to come to.                                                         *)
(***************************************************************************)
EXTENDS Makefile, SetInduction

\* A sequence, whatever it is of.
IsRow(s) == s \in Seq(Range(s))

\* Rows are sequences of what is in them, and so are two of them joined.
LEMMA RowOf ==
  ASSUME NEW T, NEW s \in Seq(T)
  PROVE  IsRow(s) /\ Len(s) \in Nat /\ DOMAIN s = 1..Len(s)
BY SeqOfRange, LenProperties DEF IsRow

LEMMA RowsJoined ==
  ASSUME NEW s, NEW t, IsRow(s), IsRow(t)
  PROVE  /\ IsRow(s \o t) /\ Len(s \o t) = Len(s) + Len(t)
         /\ Len(s) \in Nat /\ Len(t) \in Nat /\ DOMAIN s = 1..Len(s) /\ DOMAIN t = 1..Len(t)
         /\ DOMAIN (s \o t) = 1..(Len(s) + Len(t))
         /\ \A i \in 1..Len(s) : (s \o t)[i] = s[i]
         /\ \A i \in 1..Len(t) : (s \o t)[Len(s) + i] = t[i]
         /\ Range(s \o t) = Range(s) \union Range(t)
<1> DEFINE T == Range(s) \union Range(t)
<1>1. s \in Seq(T) /\ t \in Seq(T)
  <2>1. s \in Seq(Range(s)) /\ Range(s) \subseteq T
    BY DEF IsRow
  <2>2. t \in Seq(Range(t)) /\ Range(t) \subseteq T
    BY DEF IsRow
  <2> HIDE DEF T
  <2>3. QED
    BY <2>1, <2>2, SeqMonotonic
<1>2. Range(s \o t) = Range(s) \union Range(t)
  <2> HIDE DEF T
  <2>1. QED
    BY <1>1, RangeConcatenation
<1> HIDE DEF T
<1>3. /\ s \o t \in Seq(T) /\ Len(s \o t) = Len(s) + Len(t)
      /\ \A i \in 1..(Len(s) + Len(t)) :
           (s \o t)[i] = IF i <= Len(s) THEN s[i] ELSE t[i - Len(s)]
  BY <1>1, ConcatProperties
<1>4. Len(s) \in Nat /\ Len(t) \in Nat /\ DOMAIN s = 1..Len(s) /\ DOMAIN t = 1..Len(t)
  BY <1>1, LenProperties
<1>5. IsRow(s \o t) /\ DOMAIN (s \o t) = 1..(Len(s) + Len(t))
  BY <1>3, RowOf
<1>6. \A i \in 1..Len(s) : (s \o t)[i] = s[i]
  BY <1>3, <1>4
<1>7. ASSUME NEW i \in 1..Len(t) PROVE (s \o t)[Len(s) + i] = t[i]
  <2>1. Len(s) + i \in 1..(Len(s) + Len(t)) /\ ~(Len(s) + i <= Len(s)) /\ Len(s) + i - Len(s) = i
    BY <1>4
  <2>2. QED
    BY <1>3, <2>1
<1>8. QED
  BY <1>2, <1>3, <1>4, <1>5, <1>6, <1>7

\* Rows of none and of one.
LEMMA ShortRows ==
  ASSUME NEW x
  PROVE  /\ IsRow(<< >>) /\ Len(<< >>) = 0 /\ Range(<< >>) = {} /\ DOMAIN << >> = {}
         /\ IsRow(<<x>>) /\ Len(<<x>>) = 1 /\ Range(<<x>>) = {x} /\ DOMAIN <<x>> = {1} /\ <<x>>[1] = x
<1>1. << >> \in Seq({}) /\ <<x>> \in Seq({x})
  OBVIOUS
<1>2. IsRow(<< >>) /\ IsRow(<<x>>)
  BY <1>1, RowOf
<1>3. QED
  BY <1>2 DEF Range

\* Joining rows is associative.
LEMMA RowsRegrouped ==
  ASSUME NEW s, NEW t, NEW u, IsRow(s), IsRow(t), IsRow(u)
  PROVE  (s \o t) \o u = s \o (t \o u) /\ s \o << >> = s /\ << >> \o s = s
<1> DEFINE T == Range(s) \union Range(t) \union Range(u)
<1>1. /\ s \in Seq(Range(s)) /\ Range(s) \subseteq T
      /\ t \in Seq(Range(t)) /\ Range(t) \subseteq T
      /\ u \in Seq(Range(u)) /\ Range(u) \subseteq T
  BY DEF IsRow
<1> HIDE DEF T
<1>2. s \in Seq(T) /\ t \in Seq(T) /\ u \in Seq(T)
  BY <1>1, SeqMonotonic
<1>3. QED
  BY <1>2, ConcatAssociative, ConcatEmptySeq
LEMMA RowAlone ==
  ASSUME NEW s, IsRow(s)
  PROVE  s \o << >> = s /\ << >> \o s = s
BY RowsRegrouped

-----------------------------------------------------------------------------
\* How many of the first k lines are of kind op, and how many conditions are
\* open behind them.
Count(ls, op, k) == Cardinality({i \in 1..k : ls[i].op = op})
Depth(ls, k) == Count(ls, "if", k) - Count(ls, "endif", k)

\* No condition is closed that is not open, and n are open in the end.
Level(ls, n) ==
  /\ \A k \in 1..Len(ls) : Depth(ls, k) >= 0
  /\ Depth(ls, Len(ls)) = n

LEMMA CountType ==
  ASSUME NEW ls, NEW op, NEW k \in Nat
  PROVE  Count(ls, op, k) \in Nat /\ Depth(ls, k) \in Int /\ Count(ls, op, 0) = 0 /\ Depth(ls, 0) = 0
<1>1. ASSUME NEW o PROVE Count(ls, o, k) \in Nat /\ Count(ls, o, 0) = 0
  <2>1. IsFiniteSet(1..k)
    BY FS_Interval
  <2>2. IsFiniteSet({i \in 1..k : ls[i].op = o})
    BY <2>1, FS_Subset
  <2>3. {i \in 1..0 : ls[i].op = o} = {}
    OBVIOUS
  <2>4. QED
    BY <2>2, <2>3, FS_CardinalityType, FS_EmptySet DEF Count
<1>2. QED
  BY <1>1 DEF Depth

\* Counting in a row that two have been joined to.
LEMMA CountJoined ==
  ASSUME NEW s, NEW t, IsRow(s), IsRow(t), NEW op
  PROVE  /\ \A k \in 0..Len(s) : Count(s \o t, op, k) = Count(s, op, k)
         /\ \A k \in 0..Len(t) :
              Count(s \o t, op, Len(s) + k) = Count(s, op, Len(s)) + Count(t, op, k)
<1> DEFINE st == s \o t
           n == Len(s)
<1>1. /\ Len(s) \in Nat /\ Len(t) \in Nat
      /\ \A i \in 1..n : st[i] = s[i]
      /\ \A i \in 1..Len(t) : st[n + i] = t[i]
  BY RowsJoined
<1> HIDE DEF st, n
<1>2. n = Len(s) /\ n \in Nat /\ st = s \o t
  BY <1>1 DEF st, n
<1>3. ASSUME NEW k \in 0..n PROVE Count(st, op, k) = Count(s, op, k)
  <2>1. {i \in 1..k : st[i].op = op} = {i \in 1..k : s[i].op = op}
    BY <1>1, <1>2
  <2>2. QED
    BY <2>1 DEF Count
<1>4. ASSUME NEW k \in 0..Len(t)
      PROVE  Count(st, op, n + k) = Count(s, op, n) + Count(t, op, k)
  <2> DEFINE A == {i \in 1..n : s[i].op = op}
             B == {i \in 1..k : t[i].op = op}
             C == {i \in (n + 1)..(n + k) : st[i].op = op}
             f == [i \in B |-> n + i]
  <2>1. {i \in 1..(n + k) : st[i].op = op} = A \union C /\ A \intersect C = {}
    BY <1>1, <1>2
  <2>2. IsFiniteSet(A) /\ IsFiniteSet(B) /\ IsFiniteSet(C)
    <3>1. IsFiniteSet(1..n) /\ IsFiniteSet(1..k) /\ IsFiniteSet((n + 1)..(n + k))
      BY <1>2, FS_Interval
    <3>2. QED
      BY <3>1, FS_Subset
  <2>3. f \in Bijection(B, C)
    <3>1. \A i \in B : n + i \in C
      BY <1>1, <1>2
    <3>2. ASSUME NEW j \in C PROVE j - n \in B /\ n + (j - n) = j
      <4>1. j - n \in 1..Len(t) /\ j - n \in 1..k /\ n + (j - n) = j
        BY <1>2
      <4>2. t[j - n] = st[j]
        BY <1>1, <4>1
      <4>3. QED
        BY <4>1, <4>2
    <3>3. B \subseteq Nat
      OBVIOUS
    <3>4. f \in [B -> C]
      BY <3>1
    <3>5. \A i, j \in B : f[i] = f[j] => i = j
      BY <3>3, <1>2
    <3>6. \A j \in C : \E i \in B : f[i] = j
      BY <3>2
    <3> HIDE DEF f, B, C
    <3>7. QED
      BY <3>4, <3>5, <3>6 DEF Bijection, Injection, Surjection, IsInjective
  <2>4. ExistsBijection(B, C)
    BY <2>3 DEF ExistsBijection
  <2> HIDE DEF A, B, C, f
  <2>5. Cardinality(C) = Cardinality(B)
    BY <2>2, <2>4, FS_Bijection
  <2>6. Cardinality(A \union C) = Cardinality(A) + Cardinality(C)
    <3>1. Cardinality(A \union C) = Cardinality(A) + Cardinality(C) - Cardinality(A \intersect C)
      BY <2>2, FS_Union
    <3>2. Cardinality(A \intersect C) = 0 /\ Cardinality(A) \in Nat /\ Cardinality(C) \in Nat
      BY <2>1, <2>2, FS_EmptySet, FS_CardinalityType
    <3>3. QED
      BY <3>1, <3>2
  <2>7. Count(st, op, n + k) = Cardinality(A \union C)
    BY <2>1 DEF Count
  <2>8. QED
    BY <2>5, <2>6, <2>7 DEF Count, A, B
<1>5. QED
  BY <1>2, <1>3, <1>4

\* What may come behind a row with n open conditions.
LEMMA LevelThen ==
  ASSUME NEW a, NEW b, IsRow(a), IsRow(b), NEW n \in Int, Level(a, n),
         \A k \in 1..Len(b) : n + Depth(b, k) >= 0
  PROVE  IsRow(a \o b) /\ Level(a \o b, n + Depth(b, Len(b)))
<1>1. /\ IsRow(a \o b) /\ Len(a \o b) = Len(a) + Len(b)
      /\ Len(a) \in Nat /\ Len(b) \in Nat
  BY RowsJoined
<1>2. \A k \in 1..Len(a) : Depth(a \o b, k) = Depth(a, k)
  <2>1. \A k \in 1..Len(a) : k \in 0..Len(a)
    BY <1>1
  <2>2. \A k \in 0..Len(a) : /\ Count(a \o b, "if", k) = Count(a, "if", k)
                             /\ Count(a \o b, "endif", k) = Count(a, "endif", k)
    BY CountJoined
  <2>3. QED
    BY <2>1, <2>2 DEF Depth
<1>3. ASSUME NEW k \in 0..Len(b)
      PROVE  Depth(a \o b, Len(a) + k) = n + Depth(b, k)
  <2>1. /\ Count(a \o b, "if", Len(a) + k) = Count(a, "if", Len(a)) + Count(b, "if", k)
        /\ Count(a \o b, "endif", Len(a) + k) = Count(a, "endif", Len(a)) + Count(b, "endif", k)
    BY CountJoined
  <2>2. /\ Count(a, "if", Len(a)) \in Nat /\ Count(a, "endif", Len(a)) \in Nat
        /\ Count(b, "if", k) \in Nat /\ Count(b, "endif", k) \in Nat
    BY <1>1, CountType
  <2>3. n = Count(a, "if", Len(a)) - Count(a, "endif", Len(a))
    BY DEF Level, Depth
  <2>4. QED
    BY <2>1, <2>2, <2>3 DEF Depth
<1>4. ASSUME NEW k \in 1..(Len(a) + Len(b)) PROVE Depth(a \o b, k) >= 0
  <2>1. CASE k \in 1..Len(a)
    BY <2>1, <1>2 DEF Level
  <2>2. CASE k \notin 1..Len(a)
    <3>1. k - Len(a) \in 1..Len(b) /\ Len(a) + (k - Len(a)) = k
      BY <1>1, <2>2
    <3>2. Depth(a \o b, k) = n + Depth(b, k - Len(a))
      BY <1>1, <1>3, <3>1
    <3>3. QED
      BY <3>1, <3>2
  <2>3. QED
    BY <2>1, <2>2
<1>5. QED
  BY <1>1, <1>3, <1>4 DEF Level

\* The depth of a row of one line.
LEMMA DepthOfLine ==
  ASSUME NEW l
  PROVE  Depth(<<l>>, 1) = IF l.op = "if" THEN 1 ELSE IF l.op = "endif" THEN 0 - 1 ELSE 0
<1>1. ASSUME NEW o PROVE Count(<<l>>, o, 1) = IF l.op = o THEN 1 ELSE 0
  <2>1. {i \in 1..1 : <<l>>[i].op = o} = IF l.op = o THEN {1} ELSE {}
    OBVIOUS
  <2>2. Cardinality({1}) = 1 /\ Cardinality({}) = 0
    BY FS_Singleton, FS_EmptySet
  <2>3. QED
    BY <2>1, <2>2 DEF Count
<1>2. QED
  BY <1>1 DEF Depth

\* A line that comes behind.
LEMMA LevelLine ==
  ASSUME NEW a, IsRow(a), NEW n \in Nat, Level(a, n), NEW l, NEW m \in Nat,
         m = IF l.op = "if" THEN n + 1 ELSE IF l.op = "endif" THEN n - 1 ELSE n
  PROVE  IsRow(a \o <<l>>) /\ Level(a \o <<l>>, m)
<1>1. /\ IsRow(<<l>>) /\ Len(<<l>>) = 1
      /\ Depth(<<l>>, 1) = IF l.op = "if" THEN 1 ELSE IF l.op = "endif" THEN 0 - 1 ELSE 0
  BY ShortRows, DepthOfLine
<1>2. n + Depth(<<l>>, 1) = m
  BY <1>1
<1>3. \A k \in 1..Len(<<l>>) : n + Depth(<<l>>, k) >= 0
  BY <1>1, <1>2
<1>4. IsRow(a \o <<l>>) /\ Level(a \o <<l>>, n + Depth(<<l>>, Len(<<l>>)))
  <2> DEFINE b == <<l>>
  <2>1. IsRow(b) /\ n \in Int /\ \A k \in 1..Len(b) : n + Depth(b, k) >= 0
    BY <1>1, <1>3
  <2> HIDE DEF b
  <2>2. IsRow(a \o b) /\ Level(a \o b, n + Depth(b, Len(b)))
    BY <2>1, LevelThen
  <2>3. QED
    BY <2>2 DEF b
<1>5. QED
  BY <1>1, <1>2, <1>4

\* How many conditions cond is.
Conds1(cond) == IF cond = "" THEN 0 ELSE 1

LEMMA LevelIf ==
  ASSUME NEW a, IsRow(a), Level(a, 0), NEW cond
  PROVE  IsRow(a \o If(cond)) /\ Level(a \o If(cond), Conds1(cond)) /\ IsRow(If(cond))
<1>1. CASE cond = ""
  BY <1>1, RowAlone, ShortRows DEF If, Conds1
<1>2. CASE cond # ""
  <2> DEFINE l == [op |-> "if", var |-> <<"", cond>>, vals |-> << >>]
  <2>1. If(cond) = <<l>> /\ l.op = "if" /\ Conds1(cond) = 1
    BY <1>2 DEF If, Conds1
  <2> HIDE DEF l
  <2>2. IsRow(a \o <<l>>) /\ Level(a \o <<l>>, 1)
    BY <2>1, LevelLine
  <2>3. QED
    BY <2>1, <2>2, ShortRows
<1>3. QED
  BY <1>1, <1>2

LEMMA LevelEndif ==
  ASSUME NEW a, NEW cond, IsRow(a), Level(a, Conds1(cond))
  PROVE  IsRow(a \o Endif(cond)) /\ Level(a \o Endif(cond), 0) /\ IsRow(Endif(cond))
<1>1. CASE cond = ""
  BY <1>1, RowAlone, ShortRows DEF Endif, Conds1
<1>2. CASE cond # ""
  <2> DEFINE l == [op |-> "endif", var |-> <<"", cond>>, vals |-> << >>]
  <2>1. Endif(cond) = <<l>> /\ l.op = "endif" /\ Level(a, 1)
    BY <1>2 DEF Endif, Conds1
  <2> HIDE DEF l
  <2>2. IsRow(a \o <<l>>) /\ Level(a \o <<l>>, 0)
    BY <2>1, LevelLine
  <2>3. QED
    BY <2>1, <2>2, ShortRows
<1>3. QED
  BY <1>1, <1>2

LEMMA LevelNone == Level(<< >>, 0) /\ IsRow(<< >>)
<1>1. Len(<< >>) = 0 /\ IsRow(<< >>)
  BY ShortRows
<1>2. Depth(<< >>, 0) = 0
  BY CountType
<1>3. QED
  BY <1>1, <1>2 DEF Level

LEMMA LevelRow ==
  ASSUME NEW a, NEW b, IsRow(a), IsRow(b), NEW n \in Nat, Level(a, n), Level(b, 0)
  PROVE  IsRow(a \o b) /\ Level(a \o b, n)
<1>1. Len(b) \in Nat
  BY RowsJoined
<1>2. ASSUME NEW k \in 1..Len(b) PROVE Depth(b, k) \in Int /\ Depth(b, k) >= 0
  <2>1. k \in Nat
    BY <1>1
  <2>2. QED
    BY <2>1, CountType DEF Level
<1>3. \A k \in 1..Len(b) : n + Depth(b, k) >= 0
  BY <1>2
<1>4. IsRow(a \o b) /\ Level(a \o b, n + Depth(b, Len(b)))
  BY <1>3, LevelThen
<1>5. QED
  BY <1>4 DEF Level

LEMMA LevelShort ==
  ASSUME NEW l, l.op \notin {"if", "endif"}
  PROVE  Level(<< >>, 0) /\ Level(<<l>>, 0)
<1>1. Level(<< >>, 0)
  BY LevelNone
<1>2. IsRow(<< >>) /\ IsRow(<<l>>)
  BY ShortRows
<1>3. Level(<< >> \o <<l>>, 0)
  BY <1>1, <1>2, LevelLine
<1>4. << >> \o <<l>> = <<l>>
  BY <1>2, RowAlone
<1>5. QED
  BY <1>1, <1>3, <1>4

\* What is under a condition is still paired.
LEMMA LevelUnder ==
  ASSUME NEW cond, NEW ls, IsRow(ls), Level(ls, 0)
  PROVE  IsRow(Under(cond, ls)) /\ Level(Under(cond, ls), 0)
<1>1. IsRow(<< >>) /\ Level(<< >>, 0)
  BY LevelNone
<1>2. IsRow(<< >> \o If(cond)) /\ Level(<< >> \o If(cond), Conds1(cond)) /\ IsRow(If(cond))
  BY <1>1, LevelIf
<1>3. << >> \o If(cond) = If(cond)
  BY <1>2, RowAlone
<1>4. IsRow(If(cond) \o ls) /\ Level(If(cond) \o ls, Conds1(cond))
  BY <1>2, <1>3, LevelRow DEF Conds1
<1>5. QED
  BY <1>4, LevelEndif DEF Under
-----------------------------------------------------------------------------
\* A variable is set before it is added to, and not set again.
Signed(ls) ==
  \A k \in DOMAIN ls : ls[k].op \in {"=", "+="} =>
    IF \A i \in 1..(k - 1) : ls[i].var # ls[k].var THEN ls[k].op = "="
    ELSE ls[k].op = "+=" \/ ls[k].var = <<"EXTRA_DIST", "">>

Readable(ls) == IsRow(ls) /\ Level(ls, 0) /\ Signed(ls)

\* "if" and "endif", which name no variable.
Nameless(l) == l.var[1] = ""
IsMark(l) == l.op \in {"if", "endif"} /\ Nameless(l)

\* Line l, and no other but marks.
Only(t, l) ==
  IsRow(t) /\ \E k \in DOMAIN t : t[k] = l /\ \A j \in DOMAIN t : j # k => IsMark(t[j])

LEMMA OnlyAmongMarks ==
  ASSUME NEW t, NEW l, Only(t, l), NEW u, IsRow(u), \A x \in Range(u) : IsMark(x)
  PROVE  Only(u \o t, l) /\ Only(t \o u, l)
<1>1. PICK k \in DOMAIN t : t[k] = l /\ \A j \in DOMAIN t : j # k => IsMark(t[j])
  BY DEF Only
<1>2. IsRow(t)
  BY DEF Only
<1>3. \A j \in DOMAIN u : IsMark(u[j])
  BY DEF Range
<1>4. Only(u \o t, l)
  <2> DEFINE w == u \o t
             n == Len(u)
  <2>1. /\ IsRow(w) /\ Len(u) \in Nat /\ Len(t) \in Nat /\ DOMAIN u = 1..Len(u) /\ DOMAIN t = 1..Len(t)
        /\ DOMAIN w = 1..(Len(u) + Len(t))
        /\ \A i \in 1..Len(u) : w[i] = u[i]
        /\ \A i \in 1..Len(t) : w[n + i] = t[i]
    BY <1>2, RowsJoined
  <2> HIDE DEF w
  <2>2. ASSUME NEW j \in DOMAIN w, j # n + k PROVE IsMark(w[j])
    <3>1. CASE j \in 1..Len(u)
      BY <2>1, <3>1, <1>3
    <3>2. CASE j \notin 1..Len(u)
      <4>1. j - n \in 1..Len(t) /\ n + (j - n) = j /\ j - n # k
        BY <2>1, <2>2, <3>2
      <4>2. w[j] = t[j - n]
        BY <2>1, <4>1
      <4>3. QED
        BY <2>1, <1>1, <4>1, <4>2
    <3>3. QED
      BY <3>1, <3>2
  <2>3. n + k \in DOMAIN w /\ w[n + k] = l
    BY <2>1, <1>1
  <2>4. Only(w, l)
    BY <2>1, <2>2, <2>3 DEF Only
  <2>5. QED
    BY <2>4 DEF w
<1>5. Only(t \o u, l)
  <2> DEFINE w == t \o u
             n == Len(t)
  <2>1. /\ IsRow(w) /\ Len(u) \in Nat /\ Len(t) \in Nat /\ DOMAIN u = 1..Len(u) /\ DOMAIN t = 1..Len(t)
        /\ DOMAIN w = 1..(Len(t) + Len(u))
        /\ \A i \in 1..Len(t) : w[i] = t[i]
        /\ \A i \in 1..Len(u) : w[n + i] = u[i]
    BY <1>2, RowsJoined
  <2> HIDE DEF w
  <2>2. ASSUME NEW j \in DOMAIN w, j # k PROVE IsMark(w[j])
    <3>1. CASE j \in 1..Len(t)
      BY <2>1, <2>2, <3>1, <1>1
    <3>2. CASE j \notin 1..Len(t)
      <4>1. j - n \in 1..Len(u) /\ n + (j - n) = j
        BY <2>1, <2>2, <3>2
      <4>2. w[j] = u[j - n]
        BY <2>1, <4>1
      <4>3. QED
        BY <2>1, <1>3, <4>1, <4>2
    <3>3. QED
      BY <3>1, <3>2
  <2>3. k \in DOMAIN w /\ w[k] = l
    BY <2>1, <1>1
  <2>4. Only(w, l)
    BY <2>1, <2>2, <2>3 DEF Only
  <2>5. QED
    BY <2>4 DEF w
<1>6. QED
  BY <1>4, <1>5

LEMMA Marks ==
  ASSUME NEW cond
  PROVE  /\ IsRow(If(cond)) /\ \A x \in Range(If(cond)) : IsMark(x)
         /\ IsRow(Endif(cond)) /\ \A x \in Range(Endif(cond)) : IsMark(x)
<1>1. CASE cond = ""
  BY <1>1, ShortRows DEF If, Endif
<1>2. CASE cond # ""
  <2> DEFINE l == [op |-> "if", var |-> <<"", cond>>, vals |-> << >>]
             m == [op |-> "endif", var |-> <<"", cond>>, vals |-> << >>]
  <2>1. If(cond) = <<l>> /\ Endif(cond) = <<m>> /\ IsMark(l) /\ IsMark(m)
    BY <1>2 DEF If, Endif, IsMark, Nameless
  <2> HIDE DEF l, m
  <2>2. QED
    BY <2>1, ShortRows
<1>3. QED
  BY <1>1, <1>2

\* A line under conditions is paired.
Paired(t, l) == Only(t, l) /\ Level(t, 0)

LEMMA PairedUnder ==
  ASSUME NEW t, NEW l, Paired(t, l), NEW cond
  PROVE  Paired(Under(cond, t), l)
<1>1. Only(If(cond) \o t, l)
  BY OnlyAmongMarks, Marks DEF Paired
<1>2. Only((If(cond) \o t) \o Endif(cond), l)
  BY <1>1, OnlyAmongMarks, Marks
<1>3. Level(Under(cond, t), 0)
  BY LevelUnder DEF Paired, Only
<1>4. QED
  BY <1>2, <1>3 DEF Paired, Under

LEMMA PairedLine ==
  ASSUME NEW l, l.op \notin {"if", "endif"}
  PROVE  Paired(<<l>>, l)
BY LevelShort, ShortRows DEF Paired, Only

RightSign(l, ls) == l.op = Sign(l.var, ls) \/ (l.op = "=" /\ l.var = <<"EXTRA_DIST", "">>)

\* A text with one line of the right sign.
LEMMA SignedText ==
  ASSUME NEW a, IsRow(a), Signed(a), NEW t, NEW l, Only(t, l),
         RightSign(l, a), ~Nameless(l) \/ Len(t) = 1
  PROVE  /\ IsRow(a \o t) /\ Signed(a \o t)
         /\ \A x \in Range(a \o t) : x \in Range(a) \/ x.var = l.var \/ Nameless(x)
<1> DEFINE w == a \o t
<1>1. IsRow(a) /\ IsRow(t) /\ Signed(a)
  BY DEF Only
<1>2. IsRow(w)
  BY <1>1, RowsJoined
<1>3. PICK k \in DOMAIN t : t[k] = l /\ \A j \in DOMAIN t : j # k => IsMark(t[j])
  BY DEF Only
<1>4. /\ Len(a) \in Nat /\ Len(t) \in Nat /\ DOMAIN a = 1..Len(a) /\ DOMAIN t = 1..Len(t)
      /\ DOMAIN w = 1..(Len(a) + Len(t))
      /\ \A i \in 1..Len(a) : w[i] = a[i]
      /\ \A i \in 1..Len(t) : w[Len(a) + i] = t[i]
      /\ Range(w) = Range(a) \union Range(t)
  BY <1>1, RowsJoined
<1> HIDE DEF w
<1> DEFINE n == Len(a)
<1> HIDE DEF n
<1>n. n = Len(a)
  BY DEF n
<1>5. \A x \in Range(t) : x.var = l.var \/ Nameless(x)
  BY <1>3 DEF Range, IsMark
<1>6. ASSUME NEW p \in DOMAIN w, w[p].op \in {"=", "+="}
      PROVE  IF \A i \in 1..(p - 1) : w[i].var # w[p].var THEN w[p].op = "="
             ELSE w[p].op = "+=" \/ w[p].var = <<"EXTRA_DIST", "">>
  <2>1. CASE p \in 1..n
    <3>1. w[p] = a[p] /\ \A i \in 1..(p - 1) : w[i] = a[i]
      BY <1>4, <1>n, <2>1
    <3>2. p \in DOMAIN a
      BY <1>4, <1>n, <2>1
    <3>3. QED
      BY <1>1, <1>6, <3>1, <3>2 DEF Signed
  <2>2. CASE p \notin 1..n
    <3>1. p - n \in 1..Len(t) /\ n + (p - n) = p
      BY <1>4, <1>n, <2>2
    <3>2. w[p] = t[p - n]
      BY <1>4, <1>n, <3>1
    <3>3. p - n = k /\ w[p] = l
      BY <1>3, <1>4, <1>n, <1>6, <3>1, <3>2 DEF IsMark
    <3>4. p = n + k
      BY <1>4, <1>n, <3>1, <3>3
    <3>5. ASSUME NEW i \in 1..(p - 1), w[i].var = l.var
          PROVE  i \in 1..n
      <4> SUFFICES ASSUME i \notin 1..n PROVE FALSE
        OBVIOUS
      <4>1. i - n \in 1..Len(t) /\ n + (i - n) = i /\ i - n # k /\ i - n < k
        BY <1>4, <1>n, <3>4
      <4>2. w[i] = t[i - n]
        BY <1>4, <1>n, <4>1
      <4>3. Nameless(l)
        <5>1. IsMark(t[i - n]) /\ t[i - n].var = l.var
          BY <1>3, <1>4, <3>5, <4>1, <4>2
        <5>2. QED
          BY <5>1 DEF IsMark, Nameless
      <4>4. Len(t) = 1
        BY <4>3
      <4>5. QED
        BY <1>4, <1>n, <4>1, <4>4
    <3>6. (\A i \in 1..(p - 1) : w[i].var # l.var) <=> (\A x \in Range(a) : x.var # l.var)
      <4>1. 1..n \subseteq 1..(p - 1)
        BY <1>4, <1>n, <3>4
      <4>2. (\A i \in 1..(p - 1) : w[i].var # l.var) <=> (\A i \in 1..n : w[i].var # l.var)
        BY <3>5, <4>1
      <4>3. (\A i \in 1..n : w[i].var # l.var) <=> (\A x \in Range(a) : x.var # l.var)
        BY <1>4, <1>n DEF Range
      <4>4. QED
        BY <4>2, <4>3
    <3>7. CASE \A x \in Range(a) : x.var # l.var
      BY <3>3, <3>6, <3>7 DEF Sign, RightSign
    <3>8. CASE \E x \in Range(a) : x.var = l.var
      BY <3>3, <3>6, <3>8 DEF Sign, RightSign
    <3>9. QED
      BY <3>7, <3>8
  <2>3. QED
    BY <2>1, <2>2
<1>7. Signed(w)
  BY <1>6 DEF Signed
<1>8. QED
  BY <1>2, <1>4, <1>5, <1>7 DEF w

\* Marks alone do not disturb the signs.
LEMMA SignedMarks ==
  ASSUME NEW a, IsRow(a), Signed(a), NEW t, IsRow(t), \A x \in Range(t) : IsMark(x)
  PROVE  /\ IsRow(a \o t) /\ Signed(a \o t)
         /\ \A x \in Range(a \o t) : x \in Range(a) \/ Nameless(x)
         /\ Range(a) \subseteq Range(a \o t)
<1> DEFINE w == a \o t
<1>1. /\ IsRow(w) /\ Len(a) \in Nat /\ Len(t) \in Nat /\ DOMAIN a = 1..Len(a) /\ DOMAIN t = 1..Len(t)
      /\ DOMAIN w = 1..(Len(a) + Len(t))
      /\ \A i \in 1..Len(a) : w[i] = a[i]
      /\ \A i \in 1..Len(t) : w[Len(a) + i] = t[i]
      /\ Range(w) = Range(a) \union Range(t)
  BY RowsJoined
<1> HIDE DEF w
<1>2. ASSUME NEW p \in DOMAIN w, w[p].op \in {"=", "+="}
      PROVE  IF \A i \in 1..(p - 1) : w[i].var # w[p].var THEN w[p].op = "="
             ELSE w[p].op = "+=" \/ w[p].var = <<"EXTRA_DIST", "">>
  <2>1. p \in DOMAIN a
    <3> SUFFICES ASSUME p \notin 1..Len(a) PROVE FALSE
      BY <1>1
    <3>1. p - Len(a) \in 1..Len(t) /\ Len(a) + (p - Len(a)) = p
      BY <1>1
    <3>2. w[p] = t[p - Len(a)]
      BY <1>1, <3>1
    <3>3. w[p] \in Range(t)
      BY <1>1, <3>1, <3>2 DEF Range
    <3>4. QED
      BY <1>2, <3>3 DEF IsMark
  <2>2. w[p] = a[p] /\ \A i \in 1..(p - 1) : w[i] = a[i]
    BY <1>1, <2>1
  <2>3. QED
    BY <1>2, <2>1, <2>2 DEF Signed
<1>3. Signed(w)
  BY <1>2 DEF Signed
<1>4. QED
  BY <1>1, <1>3 DEF w, IsMark

\* A text with one line of the right sign goes behind what is readable.
LEMMA ReadableText ==
  ASSUME NEW a, Readable(a), NEW t, NEW l, Paired(t, l),
         RightSign(l, a), ~Nameless(l) \/ Len(t) = 1
  PROVE  /\ Readable(a \o t)
         /\ \A x \in Range(a \o t) : x \in Range(a) \/ x.var = l.var \/ Nameless(x)
<1>1. IsRow(a) /\ IsRow(t) /\ Level(a, 0) /\ Level(t, 0) /\ Signed(a) /\ Only(t, l)
  BY DEF Readable, Paired, Only
<1>2. IsRow(a \o t) /\ Level(a \o t, 0)
  BY <1>1, LevelRow
<1>3. QED
  BY <1>1, <1>2, SignedText DEF Readable

\* Two rows of what "if" and "endif" are turn one condition into another.
Turn(old, new) == IF new = old THEN << >> ELSE Endif(old) \o If(new)

LEMMA TurnKeeps ==
  ASSUME NEW a, IsRow(a), Signed(a), NEW old, NEW new, Level(a, Conds1(old))
  PROVE  /\ IsRow(Turn(old, new)) /\ IsRow(a \o Turn(old, new)) /\ Signed(a \o Turn(old, new))
         /\ Level(a \o Turn(old, new), Conds1(new))
         /\ \A x \in Range(a \o Turn(old, new)) : x \in Range(a) \/ Nameless(x)
         /\ Range(a) \subseteq Range(a \o Turn(old, new))
<1>1. CASE new = old
  BY <1>1, RowAlone, LevelNone DEF Turn
<1>2. CASE new # old
  <2>1. /\ IsRow(Endif(old)) /\ IsRow(If(new))
        /\ (\A x \in Range(Endif(old)) : IsMark(x)) /\ (\A x \in Range(If(new)) : IsMark(x))
    BY Marks
  <2>2. /\ IsRow(a \o Endif(old)) /\ Level(a \o Endif(old), 0)
    BY LevelEndif
  <2>3. Level((a \o Endif(old)) \o If(new), Conds1(new))
    BY <2>2, LevelIf
  <2>4. /\ IsRow(Endif(old) \o If(new))
        /\ Range(Endif(old) \o If(new)) = Range(Endif(old)) \union Range(If(new))
    BY <2>1, RowsJoined
  <2>5. (a \o Endif(old)) \o If(new) = a \o (Endif(old) \o If(new))
    BY <2>1, RowsRegrouped
  <2> DEFINE t == Endif(old) \o If(new)
  <2>6. IsRow(t) /\ (\A x \in Range(t) : IsMark(x)) /\ Level(a \o t, Conds1(new)) /\ Turn(old, new) = t
    BY <1>2, <2>1, <2>3, <2>4, <2>5 DEF Turn
  <2> HIDE DEF t
  <2>7. QED
    BY <2>6, SignedMarks
<1>3. QED
  BY <1>1, <1>2
-----------------------------------------------------------------------------
Joins(z, s, t) == z = s \o t

LEMMA FourRows ==
  ASSUME NEW a, NEW b, NEW c, NEW d, IsRow(a), IsRow(b), IsRow(c), IsRow(d),
         NEW cd, Joins(cd, c, d), NEW e, Joins(e, b, cd),
         NEW ab, Joins(ab, a, b), NEW w, Joins(w, ab, c), NEW z, Joins(z, a, e)
  PROVE  Joins(z, w, d)
<1> DEFINE T == Range(a) \union Range(b) \union Range(c) \union Range(d)
<1>1. /\ a \in Seq(Range(a)) /\ Range(a) \subseteq T
      /\ b \in Seq(Range(b)) /\ Range(b) \subseteq T
      /\ c \in Seq(Range(c)) /\ Range(c) \subseteq T
      /\ d \in Seq(Range(d)) /\ Range(d) \subseteq T
  BY DEF IsRow
<1> HIDE DEF T
<1>2. a \in Seq(T) /\ b \in Seq(T) /\ c \in Seq(T) /\ d \in Seq(T)
  BY <1>1, SeqMonotonic
<1>3. a \o (b \o (c \o d)) = ((a \o b) \o c) \o d
  BY ONLY <1>2
<1>4. QED
  BY <1>3 DEF Joins

\* What print_targets prints for a directory is readable behind what has no
\* line for this directory.
LEMMA ListingReadable ==
  ASSUME NEW var, \A x : x.var = var => ~Nameless(x), NEW group, IsRow(group),
         NEW a, Readable(a), \A x \in Range(a) : x.var # var
  PROVE  /\ Readable(a \o Listing(var, group))
         /\ \A x \in Range(a \o Listing(var, group)) : x \in Range(a) \/ x.var = var \/ Nameless(x)
<1> DEFINE n == Len(group)
           cond(k) == IF k \in DOMAIN group THEN group[k].cond ELSE ""
           entry(k) == [op |-> IF k = 1 THEN "=" ELSE "+=", var |-> var, vals |-> <<group[k].name>>]
           line(k) == IF k \in DOMAIN group THEN <<entry(k)>> ELSE << >>
           chunk(k) == Turn(cond(k - 1), cond(k)) \o line(k)
           rows == [k \in 1..(n + 1) |-> chunk(k)]
           T == UNION {Range(rows[k]) : k \in 1..(n + 1)}
<1>1. Listing(var, group) = FlattenSeq(rows)
  BY DEF Listing, Turn
<1>2. n \in Nat /\ DOMAIN group = 1..n
  BY RowOf DEF IsRow
<1>3. \A k : entry(k).var = var /\ entry(k).op = IF k = 1 THEN "=" ELSE "+="
  OBVIOUS
<1>4. ASSUME NEW k \in 1..n PROVE line(k) = <<entry(k)>>
  BY <1>2
<1>5. line(n + 1) = << >> /\ cond(0) = "" /\ cond(n + 1) = ""
  BY <1>2
<1> HIDE DEF entry
<1>6. ASSUME NEW k \in 1..(n + 1) PROVE IsRow(line(k))
  BY ShortRows
<1> HIDE DEF line, cond
<1>7. ASSUME NEW old, NEW new PROVE IsRow(Turn(old, new))
  <2>1. IsRow(Endif(old)) /\ IsRow(If(new)) /\ IsRow(<< >>)
    BY Marks, ShortRows
  <2>2. QED
    BY <2>1, RowsJoined DEF Turn
<1>8. ASSUME NEW k \in 1..(n + 1) PROVE IsRow(chunk(k))
  BY <1>6, <1>7, RowsJoined
<1>9. \A k \in 1..(n + 1) : rows[k] = chunk(k)
  OBVIOUS
<1> HIDE DEF chunk
<1>10. rows \in Seq(Seq(T)) /\ Len(rows) = n + 1
  <2>1. ASSUME NEW k \in 1..(n + 1) PROVE rows[k] \in Seq(T)
    <3>1. rows[k] \in Seq(Range(rows[k])) /\ Range(rows[k]) \subseteq T
      BY <1>8, <1>9 DEF IsRow
    <3> HIDE DEF T, rows
    <3>2. QED
      BY <3>1, SeqMonotonic
  <2>2. rows \in [1..(n + 1) -> Seq(T)]
    <3> HIDE DEF T
    <3>1. QED
      BY <2>1, <1>9
  <2> HIDE DEF T, rows
  <2>3. n + 1 \in Nat
    BY <1>2
  <2>4. rows \in Seq(Seq(T))
    BY <2>2, <2>3, SeqDef
  <2>5. DOMAIN rows = 1..(n + 1) /\ DOMAIN rows = 1..Len(rows) /\ Len(rows) \in Nat
    BY <2>2, <2>4, LenProperties
  <2>6. QED
    BY <1>2, <2>4, <2>5
<1> HIDE DEF rows, T
<1>11. PICK g \in Joined(T, rows) : FlattenSeq(rows) = g[Len(rows)]
  BY <1>10, FlattenSteps
<1>12. /\ g \in [Nat -> Seq(T)] /\ g[0] = << >>
       /\ \A k \in Nat : k < n + 1 => g[k + 1] = g[k] \o chunk(k + 1)
  <2>1. /\ g \in [Nat -> Seq(T)] /\ g[0] = << >>
        /\ \A k \in Nat : k < n + 1 => g[k + 1] = g[k] \o rows[k + 1]
    BY <1>10, <1>11 DEF Joined
  <2>2. \A k \in Nat : k < n + 1 => rows[k + 1] = chunk(k + 1)
    BY <1>2, <1>9
  <2>3. QED
    BY <2>1, <2>2
<1> DEFINE Fits(k) ==
             /\ IsRow(a \o g[k]) /\ Signed(a \o g[k]) /\ Level(a \o g[k], Conds1(cond(k)))
             /\ \A x \in Range(a \o g[k]) : x \in Range(a) \/ x.var = var \/ Nameless(x)
             /\ (\E x \in Range(a \o g[k]) : x.var = var) <=> k \in 1..n \/ (k = n + 1 /\ n > 0)
           S == {k \in Nat : k <= n + 1 => Fits(k)}
<1>13. IsRow(a) /\ Signed(a) /\ Level(a, 0)
  BY DEF Readable
<1>14. 0 \in S
  <2>1. a \o g[0] = a
    BY <1>12, <1>13, RowAlone
  <2>2. Conds1(cond(0)) = 0
    BY <1>5 DEF Conds1
  <2>3. (\E x \in Range(a \o g[0]) : x.var = var) <=> 0 \in 1..n \/ (0 = n + 1 /\ n > 0)
    BY <1>2, <2>1
  <2>4. Fits(0)
    BY <1>13, <2>1, <2>2, <2>3
  <2> HIDE DEF Fits
  <2>5. QED
    BY <2>4
<1>15. ASSUME NEW k \in Nat, k <= n, Fits(k) PROVE Fits(k + 1)
  <2> DEFINE u == a \o g[k]
             v == u \o Turn(cond(k), cond(k + 1))
  <2>1. IsRow(g[k]) /\ k + 1 \in 1..(n + 1) /\ k + 1 - 1 = k
    BY <1>2, <1>12, <1>15, RowOf
  <2>2. /\ IsRow(v) /\ Signed(v) /\ Level(v, Conds1(cond(k + 1)))
        /\ \A x \in Range(v) : x \in Range(u) \/ Nameless(x)
        /\ Range(u) \subseteq Range(v)
    BY <1>15, TurnKeeps
  <2>3. a \o g[k + 1] = v \o line(k + 1)
    <3> DEFINE turn == Turn(cond(k), cond(k + 1))
    <3>0. g[k + 1] = g[k] \o chunk(k + 1)
      <4>1. k \in Nat /\ k < n + 1
        BY <1>2, <1>15
      <4>2. QED
        BY <1>12, <4>1
    <3>1. chunk(k + 1) = turn \o line(k + 1)
      BY <2>1 DEF chunk
    <3>2. IsRow(turn) /\ IsRow(line(k + 1))
      BY <1>6, <1>7, <2>1
    <3> DEFINE gk == g[k]
               end == line(k + 1)
               next == g[k + 1]
               tail == turn \o end
               z == a \o next
    <3>3. Joins(tail, turn, end) /\ Joins(next, gk, tail) /\ Joins(u, a, gk) /\ Joins(v, u, turn)
          /\ Joins(z, a, next)
      BY <3>0, <3>1 DEF Joins, turn
    <3>4. IsRow(gk) /\ IsRow(end)
      BY <2>1, <3>2
    <3> HIDE DEF turn, gk, end, next, tail, z, u, v
    <3>5. Joins(z, v, end)
      BY <1>13, <3>2, <3>3, <3>4, FourRows
    <3>6. QED
      BY <3>5 DEF Joins, z, next, end
  <2>4. \A x \in Range(v) : x \in Range(a) \/ x.var = var \/ Nameless(x)
    BY <1>15, <2>2
  <2>5. (\E x \in Range(v) : x.var = var) <=> k \in 1..n
    <3>1. (\E x \in Range(u) : x.var = var) <=> k \in 1..n
      BY <1>15, <1>2
    <3>2. QED
      BY <2>2, <3>1
  <2> HIDE DEF u, v
  <2>6. CASE k = n
    <3>1. v \o line(k + 1) = v
      BY <1>5, <2>2, <2>6, RowAlone
    <3>2. (k \in 1..n) <=> (k + 1 \in 1..n \/ (k + 1 = n + 1 /\ n > 0))
      BY <1>2, <2>6
    <3>3. QED
      BY <2>2, <2>3, <2>4, <2>5, <3>1, <3>2
  <2>7. CASE k # n
    <3> DEFINE l == entry(k + 1)
    <3>1. /\ k + 1 \in 1..n /\ line(k + 1) = <<l>> /\ l.var = var
          /\ l.op = IF k = 0 THEN "=" ELSE "+="
      BY <1>2, <1>3, <1>4, <1>15, <2>7
    <3> HIDE DEF l
    <3>2. (k \in 1..n) <=> k # 0
      BY <1>2, <1>15
    <3>3. RightSign(l, v)
      BY <2>5, <3>1, <3>2 DEF RightSign, Sign
    <3>4. Only(<<l>>, l) /\ Len(<<l>>) = 1 /\ IsRow(<<l>>) /\ Range(<<l>>) = {l}
      BY ShortRows DEF Only
    <3>5. /\ IsRow(v \o <<l>>) /\ Signed(v \o <<l>>)
          /\ \A x \in Range(v \o <<l>>) : x \in Range(v) \/ x.var = l.var \/ Nameless(x)
      BY <2>2, <3>3, <3>4, SignedText
    <3>6. Range(v \o <<l>>) = Range(v) \union {l}
      BY <2>2, <3>4, RowsJoined
    <3>7. Level(v \o <<l>>, Conds1(cond(k + 1)))
      <4>1. Conds1(cond(k + 1)) \in Nat /\ l.op \notin {"if", "endif"}
        BY <3>1 DEF Conds1
      <4>2. QED
        BY <2>2, <4>1, LevelLine
    <3>8. QED
      BY <2>3, <2>4, <3>1, <3>5, <3>6, <3>7
  <2>8. QED
    BY <2>6, <2>7
<1>16. ASSUME NEW k \in Nat, k \in S PROVE k + 1 \in S
  <2>1. CASE k + 1 <= n + 1
    <3>1. Fits(k)
      BY <1>2, <1>16, <2>1
    <3>2. Fits(k + 1)
      BY <1>2, <1>15, <2>1, <3>1
    <3> HIDE DEF Fits
    <3>3. QED
      BY <3>2
  <2>2. CASE ~(k + 1 <= n + 1)
    BY <2>2
  <2>3. QED
    BY <2>1, <2>2
<1>17. Nat \subseteq S
  <2> HIDE DEF S
  <2>1. QED
    BY <1>14, <1>16, SetInduction
<1>18. Fits(n + 1)
  <2> HIDE DEF Fits
  <2>1. n + 1 \in S
    BY <1>2, <1>17
  <2>2. QED
    BY <1>2, <2>1
<1>19. Conds1(cond(n + 1)) = 0 /\ g[n + 1] = Listing(var, group)
  BY <1>1, <1>5, <1>10, <1>11 DEF Conds1
<1>20. QED
  BY <1>18, <1>19 DEF Readable

-----------------------------------------------------------------------------
\* STRING, and the literals of the code: that these are strings is beyond the
\* provers.  Items, Sections and Blocks with such words in them.
Words == STRING \union {"", "include", "bin", "lib", "cppflags", "top_srcdir", "top_builddir"}

WordItems ==
  [op : {"plain", "lib", "global"}, name : Words] \union
  [op : {"import"}, tool : Words, from : Words]

WordSections ==
  [kind : {"sources", "nodist", "link", "flags", "extra", "test", "none"}, key : Words,
   cond : Words, items : Seq(WordItems), linked : BOOLEAN] \union
  [kind : {"built"}, key : {""}, cond : {""}, items : Seq(WordItems), linked : BOOLEAN] \union
  [kind : {"install"}, key : Words \X {"HEADERS", "DATA", "SCRIPTS"},
   cond : Words, items : Seq(WordItems), linked : BOOLEAN]

WordBlocks ==
  [kind : {"program", "library", "template", "toplevel", "extern", "none"}, name : Words,
   base : Words, cond : Words, dest : Words, body : Seq(WordSections)]

LEMMA AllWords ==
  /\ {"", "include", "bin", "lib", "cppflags", "top_srcdir", "top_builddir"} \subseteq Words
  /\ STRING \subseteq Words
BY DEF Words

LEMMA BlocksOfWords ==
  Items \subseteq WordItems /\ Sections \subseteq WordSections /\ Blocks \subseteq WordBlocks
<1>1. Items \subseteq WordItems
  BY AllWords DEF Items, WordItems
<1>2. Seq(Items) \subseteq Seq(WordItems)
  BY <1>1, SeqMonotonic
<1> DEFINE V == Seq(Items)
           W == Seq(WordItems)
           Types == {"HEADERS", "DATA", "SCRIPTS"}
           Rest == {"sources", "nodist", "link", "flags", "extra", "test", "none"}
<1>3. V \subseteq W
  BY <1>2
<1> HIDE DEF V, W
<1>4. /\ [kind : Rest, key : STRING, cond : STRING, items : V, linked : BOOLEAN]
           \subseteq [kind : Rest, key : Words, cond : Words, items : W, linked : BOOLEAN]
      /\ [kind : {"built"}, key : {""}, cond : {""}, items : V, linked : BOOLEAN]
           \subseteq [kind : {"built"}, key : {""}, cond : {""}, items : W, linked : BOOLEAN]
      /\ [kind : {"install"}, key : STRING \X Types, cond : STRING, items : V, linked : BOOLEAN]
           \subseteq [kind : {"install"}, key : Words \X Types, cond : Words, items : W, linked : BOOLEAN]
  <2>1. STRING \subseteq Words
    BY AllWords
  <2> DEFINE X == STRING \X Types
             Y == Words \X Types
  <2>2. X \subseteq Y
    BY <2>1
  <2> HIDE DEF X, Y
  <2>3. QED
    BY <1>3, <2>1, <2>2, Zenon DEF X, Y
<1>5. Sections \subseteq WordSections
  BY <1>4, Zenon DEF Sections, WordSections, V, W
<1>6. Seq(Sections) \subseteq Seq(WordSections)
  BY <1>5, SeqMonotonic
<1>7. Blocks \subseteq WordBlocks
  <2> DEFINE R == Seq(Sections)
             S == Seq(WordSections)
  <2>1. R \subseteq S /\ STRING \subseteq Words
    BY <1>6, AllWords
  <2> HIDE DEF R, S
  <2>2. QED
    BY <2>1 DEF Blocks, WordBlocks, R, S
<1>8. QED
  BY <1>1, <1>5, <1>7

\* What the phases make of sections and of blocks are sections and blocks.
LEMMA SectionFields ==
  ASSUME NEW sec \in WordSections
  PROVE  /\ sec.items \in Seq(WordItems) /\ sec.linked \in BOOLEAN /\ sec.cond \in Words
         /\ sec.kind \in {"sources", "nodist", "link", "flags", "extra", "test", "none", "built", "install"}
         /\ sec.kind = "install" =>
              /\ sec.key \in Words \X {"HEADERS", "DATA", "SCRIPTS"}
              /\ sec.key[2] \in {"HEADERS", "DATA", "SCRIPTS"}
         /\ sec.kind = "built" => sec.key = "" /\ sec.cond = ""
         /\ sec.kind # "install" => sec.key \in Words
<1> DEFINE V == Seq(WordItems)
           Types == {"HEADERS", "DATA", "SCRIPTS"}
           Rest == {"sources", "nodist", "link", "flags", "extra", "test", "none"}
<1>1. \/ sec \in [kind : Rest, key : Words, cond : Words, items : V, linked : BOOLEAN]
      \/ sec \in [kind : {"built"}, key : {""}, cond : {""}, items : V, linked : BOOLEAN]
      \/ sec \in [kind : {"install"}, key : Words \X Types, cond : Words, items : V,
                  linked : BOOLEAN]
  BY DEF WordSections
<1> HIDE DEF V
<1>2. CASE sec \in [kind : Rest, key : Words, cond : Words, items : V, linked : BOOLEAN]
  <2>1. sec.items \in V /\ sec.cond \in Words /\ sec.kind \in Rest /\ sec.key \in Words
    BY <1>2
  <2>2. sec.linked \in BOOLEAN
    BY <1>2
  <2>3. QED
    BY <2>1, <2>2 DEF V
<1>3. CASE sec \in [kind : {"built"}, key : {""}, cond : {""}, items : V, linked : BOOLEAN]
  <2>1. sec.items \in V /\ sec.cond = "" /\ sec.kind = "built" /\ sec.key = ""
    BY <1>3
  <2>2. sec.linked \in BOOLEAN
    BY <1>3
  <2>3. QED
    BY <2>1, <2>2, AllWords DEF V
<1>4. CASE sec \in [kind : {"install"}, key : Words \X Types, cond : Words, items : V,
                   linked : BOOLEAN]
  <2>1. sec.items \in V /\ sec.cond \in Words /\ sec.kind = "install" /\ sec.key \in Words \X Types
    BY <1>4
  <2>2. sec.linked \in BOOLEAN
    BY <1>4
  <2>3. sec.key[2] \in Types
    BY <2>1
  <2>4. QED
    BY <2>1, <2>2, <2>3 DEF V
<1>5. QED
  BY <1>1, <1>2, <1>3, <1>4

LEMMA SectionNewItems ==
  ASSUME NEW sec \in WordSections, NEW items \in Seq(WordItems)
  PROVE  /\ [sec EXCEPT !.items = items] \in WordSections
         /\ [sec EXCEPT !.items = items].kind = sec.kind
         /\ [sec EXCEPT !.items = items].items = items
<1> DEFINE new == [sec EXCEPT !.items = items]
           V == Seq(WordItems)
<1>1. sec.items \in V /\ items \in V
  BY SectionFields
<1> HIDE DEF V
<1>2. QED
  BY <1>1 DEF WordSections, V

LEMMA SectionUnlinked ==
  ASSUME NEW sec \in WordSections
  PROVE  [sec EXCEPT !.linked = FALSE] \in WordSections /\ [sec EXCEPT !.linked = FALSE].kind = sec.kind
<1> DEFINE V == Seq(WordItems)
           Types == {"HEADERS", "DATA", "SCRIPTS"}
           Rest == {"sources", "nodist", "link", "flags", "extra", "test", "none"}
           new == [sec EXCEPT !.linked = FALSE]
<1>1. \/ sec \in [kind : Rest, key : Words, cond : Words, items : V, linked : BOOLEAN]
      \/ sec \in [kind : {"built"}, key : {""}, cond : {""}, items : V, linked : BOOLEAN]
      \/ sec \in [kind : {"install"}, key : Words \X Types, cond : Words, items : V,
                  linked : BOOLEAN]
  BY DEF WordSections
<1> HIDE DEF V
<1>2. ASSUME NEW K, NEW Y, NEW C,
             sec \in [kind : K, key : Y, cond : C, items : V, linked : BOOLEAN]
      PROVE  new \in [kind : K, key : Y, cond : C, items : V, linked : BOOLEAN] /\ new.kind = sec.kind
  BY <1>2, Zenon
<1> HIDE DEF new
<1>3. /\ new.kind = sec.kind
      /\ \/ new \in [kind : Rest, key : Words, cond : Words, items : V, linked : BOOLEAN]
         \/ new \in [kind : {"built"}, key : {""}, cond : {""}, items : V, linked : BOOLEAN]
         \/ new \in [kind : {"install"}, key : Words \X Types, cond : Words, items : V,
                     linked : BOOLEAN]
  BY <1>1, <1>2, Zenon
<1>4. new \in WordSections
  BY <1>3 DEF WordSections, V
<1>5. QED
  BY <1>3, <1>4 DEF new

LEMMA SectionRemoved ==
  ASSUME NEW sec \in WordSections, sec.kind # "install"
  PROVE  [sec EXCEPT !.kind = "none"] \in WordSections /\ [sec EXCEPT !.kind = "none"].kind = "none"
<1> DEFINE V == Seq(WordItems)
<1>1. sec.items \in V
  BY SectionFields
<1> HIDE DEF V
<1>2. QED
  BY <1>1, AllWords DEF WordSections, V

LEMMA SectionCloned ==
  ASSUME NEW sec \in WordSections
  PROVE  Clone(sec) \in WordSections
<1>1. << >> \in Seq(WordItems)
  OBVIOUS
<1>2. QED
  BY <1>1, SectionNewItems DEF Clone

LEMMA PairChanged ==
  ASSUME NEW pair, NEW x, NEW y, pair = <<x, y>>, NEW z
  PROVE  [pair EXCEPT ![1] = z] = <<z, y>>
OBVIOUS

LEMMA SectionInstalled ==
  ASSUME NEW sec \in WordSections
  PROVE  Installed(sec) \in WordSections /\ Installed(sec).kind = sec.kind
<1> DEFINE V == Seq(WordItems)
           Types == {"HEADERS", "DATA", "SCRIPTS"}
<1>1. sec.items \in V
  BY SectionFields
<1> HIDE DEF V
<1>2. ASSUME sec.kind = "install", NEW key \in Words \X Types
      PROVE  [sec EXCEPT !.key = key] \in WordSections /\ [sec EXCEPT !.key = key].kind = sec.kind
  BY <1>1, <1>2 DEF WordSections, V
<1>3. ASSUME sec.kind = "install", NEW dir \in Words
      PROVE  [sec EXCEPT !.key[1] = dir] \in WordSections /\ [sec EXCEPT !.key[1] = dir].kind = sec.kind
  <2>1. sec.key \in Words \X Types
    BY <1>3, SectionFields
  <2>2. PICK x \in Words, y \in Types : sec.key = <<x, y>>
    BY <2>1
  <2> DEFINE key == [sec.key EXCEPT ![1] = dir]
  <2>3. key = <<dir, y>>
    BY <2>2, PairChanged
  <2>4. [sec EXCEPT !.key[1] = dir] = [sec EXCEPT !.key = key]
    OBVIOUS
  <2> HIDE DEF key
  <2>5. key \in Words \X Types
    BY <2>3
  <2>6. QED
    BY <1>2, <1>3, <2>4, <2>5
<1>4. /\ "include" \in Words /\ "bin" \in Words
  BY AllWords
<1>5. CASE sec.kind = "install" /\ sec.key = <<"", "HEADERS">>
  <2>1. \A x, y, z : <<x, y>> = <<x, z>> => y = z
    OBVIOUS
  <2>2. <<"", "HEADERS">> # <<"", "SCRIPTS">>
    BY <2>1, "HEADERS" # "SCRIPTS", Zenon
  <2>3. Installed(sec) = [sec EXCEPT !.key[1] = "include"]
    BY <1>5, <2>2, Zenon DEF Installed
  <2>4. QED
    BY <1>3, <1>4, <1>5, <2>3, Zenon
<1>6. CASE sec.kind = "install" /\ sec.key = <<"", "SCRIPTS">> /\ sec.key # <<"", "HEADERS">>
  <2>1. Installed(sec) = [sec EXCEPT !.key[1] = "bin"]
    BY <1>6, Zenon DEF Installed
  <2>2. QED
    BY <1>3, <1>4, <1>6, <2>1, Zenon
<1>7. CASE ~(sec.kind = "install" /\ (sec.key = <<"", "HEADERS">> \/ sec.key = <<"", "SCRIPTS">>))
  <2>1. Installed(sec) = sec
    BY <1>7, Zenon DEF Installed
  <2>2. QED
    BY <2>1
<1>8. QED
  BY <1>5, <1>6, <1>7

Bodies == Seq(WordSections)

LEMMA BlockFields ==
  ASSUME NEW b \in WordBlocks
  PROVE  /\ b.body \in Bodies /\ b.body \in Seq(WordSections)
         /\ b.kind \in {"program", "library", "template", "toplevel", "extern", "none"}
         /\ b.name \in Words /\ b.base \in Words /\ b.cond \in Words /\ b.dest \in Words
         /\ DOMAIN b.body = 1..Len(b.body) /\ Len(b.body) \in Nat
         /\ \A s \in DOMAIN b.body : b.body[s] \in WordSections
<1>1. b.body \in Seq(WordSections)
  BY DEF WordBlocks
<1>2. b.body \in Bodies
  BY <1>1 DEF Bodies
<1>3. /\ DOMAIN b.body = 1..Len(b.body) /\ Len(b.body) \in Nat
      /\ \A s \in DOMAIN b.body : b.body[s] \in WordSections
  BY <1>1, LenProperties, ElementOfSeq
<1> HIDE DEF Bodies
<1>4. QED
  BY <1>1, <1>2, <1>3 DEF WordBlocks, Bodies

\* A block with another body.
LEMMA BlockNewBody ==
  ASSUME NEW b \in WordBlocks, NEW body \in Bodies
  PROVE  /\ [b EXCEPT !.body = body] \in WordBlocks
         /\ [b EXCEPT !.body = body].body = body
         /\ [b EXCEPT !.body = body].kind = b.kind
         /\ [b EXCEPT !.body = body].name = b.name
         /\ [b EXCEPT !.body = body].base = b.base
<1> DEFINE V == Bodies
<1>1. b.body \in V /\ body \in V
  BY BlockFields
<1> HIDE DEF V
<1>2. QED
  BY <1>1 DEF WordBlocks, Bodies, V

-----------------------------------------------------------------------------
\* Documents.
Docs == Seq(WordBlocks)

LEMMA DocFields ==
  ASSUME NEW d \in Docs
  PROVE  /\ Len(d) \in Nat /\ DOMAIN d = 1..Len(d)
         /\ \A t \in DOMAIN d : d[t] \in WordBlocks
<1>1. d \in Seq(WordBlocks)
  BY DEF Docs
<1>2. Len(d) \in Nat /\ DOMAIN d = 1..Len(d)
  BY <1>1, LenProperties
<1>3. QED
  BY <1>1, <1>2, ElementOfSeq

LEMMA DocNewBlock ==
  ASSUME NEW d \in Docs, NEW t \in DOMAIN d, NEW b \in WordBlocks
  PROVE  /\ [d EXCEPT ![t] = b] \in Docs
         /\ DOMAIN [d EXCEPT ![t] = b] = DOMAIN d /\ Len([d EXCEPT ![t] = b]) = Len(d)
         /\ \A u \in DOMAIN d : [d EXCEPT ![t] = b][u] = IF u = t THEN b ELSE d[u]
<1>1. d \in Seq(WordBlocks) /\ t \in 1..Len(d)
  BY DocFields DEF Docs
<1>2. QED
  BY <1>1, ExceptSeq DEF Docs

LEMMA BodyNewSection ==
  ASSUME NEW body \in Bodies, NEW s \in DOMAIN body, NEW sec \in WordSections
  PROVE  /\ [body EXCEPT ![s] = sec] \in Bodies
         /\ DOMAIN [body EXCEPT ![s] = sec] = DOMAIN body
         /\ \A r \in DOMAIN body : [body EXCEPT ![s] = sec][r] = IF r = s THEN sec ELSE body[r]
<1>1. body \in Seq(WordSections)
  BY DEF Bodies
<1>2. s \in 1..Len(body)
  BY <1>1, LenProperties
<1>3. QED
  BY <1>1, <1>2, ExceptSeq DEF Bodies

\* One section replaced.
Changed(d, t, s, sec) == [d EXCEPT ![t] = [d[t] EXCEPT !.body = [d[t].body EXCEPT ![s] = sec]]]

LEMMA DocNewSection ==
  ASSUME NEW d \in Docs, NEW t \in DOMAIN d, NEW s \in DOMAIN d[t].body, NEW sec \in WordSections
  PROVE  /\ Changed(d, t, s, sec) \in Docs
         /\ DOMAIN Changed(d, t, s, sec) = DOMAIN d
         /\ Len(Changed(d, t, s, sec)) = Len(d)
         /\ \A u \in DOMAIN d : DOMAIN Changed(d, t, s, sec)[u].body = DOMAIN d[u].body
         /\ \A u \in DOMAIN d : \A r \in DOMAIN d[u].body :
              Changed(d, t, s, sec)[u].body[r] = IF u = t /\ r = s THEN sec ELSE d[u].body[r]
<1> DEFINE body == [d[t].body EXCEPT ![s] = sec]
           b == [d[t] EXCEPT !.body = body]
<1>1. d[t] \in WordBlocks /\ d[t].body \in Bodies
  BY DocFields, BlockFields
<1>2. /\ body \in Bodies /\ DOMAIN body = DOMAIN d[t].body
      /\ \A r \in DOMAIN d[t].body : body[r] = IF r = s THEN sec ELSE d[t].body[r]
  BY <1>1, BodyNewSection
<1>3. Changed(d, t, s, sec) = [d EXCEPT ![t] = b]
  BY DEF Changed
<1> HIDE DEF body
<1>4. b \in WordBlocks /\ b.body = body
  BY <1>1, <1>2, BlockNewBody
<1> HIDE DEF b
<1> DEFINE new == [d EXCEPT ![t] = b]
<1>5. /\ new \in Docs
      /\ DOMAIN new = DOMAIN d /\ Len(new) = Len(d)
      /\ \A u \in DOMAIN d : new[u] = IF u = t THEN b ELSE d[u]
  BY <1>4, DocNewBlock
<1>6. Changed(d, t, s, sec) = new
  BY <1>3
<1> HIDE DEF new
<1>7. QED
  BY <1>2, <1>4, <1>5, <1>6

-----------------------------------------------------------------------------
\* The completed targets are targets, from phase to phase.
Positions == [t : Nat \ {0}, s : Nat \ {0}, i : Nat \ {0}]

\* Base, of document d.
BaseOf(d, t) ==
  LET found == Named(d, "template", d[t].base)
  IN  IF found = {} THEN 0 ELSE CHOOSE b \in found : TRUE

\* A call that waits for its base has one.
CallsHaveBases ==
  /\ calls \in Seq([block : DOMAIN doc, waits : BOOLEAN])
  /\ \A k \in 1..Len(calls) : calls[k].waits => BaseOf(doc, calls[k].block) \in DOMAIN doc

Typed ==
  /\ doc \in Docs
  /\ at \in Positions
  /\ phase = "inheritance" => CallsHaveBases

LEMMA PositionFields ==
  ASSUME at \in Positions
  PROVE  /\ at.t \in Nat \ {0} /\ at.s \in Nat \ {0} /\ at.i \in Nat \ {0}
         /\ Start \in Positions /\ NextBlock \in Positions /\ NextSection \in Positions
         /\ [at EXCEPT !.i = @ + 1] \in Positions /\ [at EXCEPT !.t = @ + 1] \in Positions
         /\ [at EXCEPT !.i = 2] \in Positions /\ [Start EXCEPT !.s = 2] \in Positions
<1>1. at.t \in Nat \ {0} /\ at.s \in Nat \ {0} /\ at.i \in Nat \ {0}
  BY DEF Positions
<1>2. Start \in Positions /\ NextBlock \in Positions
  BY <1>1 DEF Positions, Start, NextBlock
<1>3. NextSection \in Positions
  <2> DEFINE p == [at EXCEPT !.s = @ + 1]
  <2>1. p \in Positions
    BY <1>1 DEF Positions
  <2>2. NextSection = [p EXCEPT !.i = 1]
    BY DEF NextSection, Positions
  <2> HIDE DEF p
  <2>3. QED
    BY <2>1, <2>2 DEF Positions
<1>4. [at EXCEPT !.i = @ + 1] \in Positions /\ [at EXCEPT !.i = 2] \in Positions
  BY <1>1 DEF Positions
<1>5. [at EXCEPT !.t = @ + 1] \in Positions
  BY <1>1 DEF Positions
<1>6. [Start EXCEPT !.s = 2] \in Positions
  BY DEF Positions, Start
<1>7. QED
  BY <1>1, <1>2, <1>3, <1>4, <1>5, <1>6

LEMMA SomeBase ==
  ASSUME NEW t
  PROVE  Base(t) = BaseOf(doc, t) /\ (Base(t) # 0 => Base(t) \in DOMAIN doc)
BY DEF Base, BaseOf, Named

\* The block and the section at the position.
LEMMA Here ==
  ASSUME doc \in Docs, at \in Positions
  PROVE  /\ InDocument => at.t \in DOMAIN doc /\ Block \in WordBlocks /\ Block = doc[at.t]
         /\ InSection => /\ InDocument /\ at.s \in DOMAIN Block.body /\ at.s \in DOMAIN doc[at.t].body
                         /\ Section \in WordSections /\ Section = doc[at.t].body[at.s]
<1>1. at.t \in Nat \ {0} /\ at.s \in Nat \ {0}
  BY PositionFields
<1>2. ASSUME InDocument
      PROVE  at.t \in DOMAIN doc /\ Block \in WordBlocks /\ Block = doc[at.t]
  BY <1>1, <1>2, DocFields DEF InDocument, Block
<1>3. ASSUME InSection
      PROVE  /\ InDocument /\ at.s \in DOMAIN Block.body /\ at.s \in DOMAIN doc[at.t].body
             /\ Section \in WordSections /\ Section = doc[at.t].body[at.s]
  BY <1>1, <1>2, <1>3, BlockFields DEF InSection, Section, Block
<1>4. QED
  BY <1>2, <1>3

LEMMA ImportTyped ==
  ASSUME Typed, ImportFile
  PROVE  doc' \in Docs
<1>1. doc \in Seq(WordBlocks) /\ at.t \in Nat \ {0} /\ at.t <= Len(doc)
  BY PositionFields DEF Typed, Docs, ImportFile, InDocument
<1>2. Block.name \in DOMAIN RuleFiles
  BY DEF ImportFile
<1> DEFINE decls == RuleFiles[Block.name]
<1>3. decls \in Seq(Blocks) /\ Seq(Blocks) \subseteq Seq(WordBlocks)
  BY <1>2, TargetsAssumption, BlocksOfWords, SeqMonotonic
<1> HIDE DEF decls
<1>4. /\ SubSeq(doc, 1, at.t - 1) \in Seq(WordBlocks)
      /\ SubSeq(doc, at.t + 1, Len(doc)) \in Seq(WordBlocks)
  BY <1>1, SubSeqProperties, LenProperties, ElementOfSeq
<1>5. Spliced(decls) \in Seq(WordBlocks)
  BY <1>3, <1>4, ConcatProperties DEF Spliced
<1>6. doc' = doc \/ doc' = Spliced(decls)
  BY DEF ImportFile, decls
<1>7. QED
  BY <1>1, <1>5, <1>6 DEF Docs

LEMMA DefaultFlagsTyped == DefaultFlags \in WordBlocks
<1>1. /\ [op |-> "plain", name |-> "top_srcdir"] \in WordItems
      /\ [op |-> "plain", name |-> "top_builddir"] \in WordItems
  BY AllWords DEF WordItems
<1>2. IncludePaths \in Seq(WordItems)
  BY <1>1 DEF IncludePaths
<1> DEFINE V == Seq(WordItems)
<1>3. IncludePaths \in V /\ "" \in Words /\ "cppflags" \in Words /\ TRUE \in BOOLEAN
  BY <1>2, AllWords
<1> HIDE DEF V
<1> DEFINE sec == [kind |-> "flags", key |-> "cppflags", cond |-> "", items |-> IncludePaths, linked |-> TRUE]
<1>4. sec \in WordSections
  BY <1>3 DEF WordSections, V
<1> HIDE DEF sec
<1>5. <<sec>> \in Seq(WordSections)
  BY <1>4
<1> DEFINE B == Seq(WordSections)
           body == <<sec>>
<1>6. body \in B
  BY <1>5
<1> HIDE DEF B, body
<1>7. [kind |-> "toplevel", name |-> "", base |-> "", cond |-> "", dest |-> "", body |-> body] \in WordBlocks
  BY <1>3, <1>6 DEF WordBlocks, B
<1>8. QED
  BY <1>7 DEF DefaultFlags, body, sec

-----------------------------------------------------------------------------
\* Inheritance.
Frames(d) == [block : DOMAIN d, waits : BOOLEAN]

LEMMA CallsFields ==
  ASSUME CallsHaveBases, calls # << >>
  PROVE  /\ calls \in Seq(Frames(doc)) /\ Len(calls) \in Nat /\ Len(calls) >= 1
         /\ DOMAIN calls = 1..Len(calls) /\ Len(calls) \in 1..Len(calls)
         /\ Top = calls[Len(calls)] /\ Top \in Frames(doc) /\ Top.block \in DOMAIN doc
         /\ Top.waits => Base(Top.block) \in DOMAIN doc
<1>1. calls \in Seq(Frames(doc))
  BY DEF CallsHaveBases, Frames
<1>2. /\ Len(calls) \in Nat /\ Len(calls) >= 1
      /\ DOMAIN calls = 1..Len(calls) /\ Len(calls) \in 1..Len(calls)
  BY <1>1, LenProperties, EmptySeq
<1>3. Top = calls[Len(calls)] /\ Top \in Frames(doc)
  BY <1>1, <1>2, ElementOfSeq DEF Top, Last
<1>4. Top.block \in DOMAIN doc
  BY <1>3 DEF Frames
<1>5. Top.waits => Base(Top.block) \in DOMAIN doc
  BY <1>2, <1>3, SomeBase DEF CallsHaveBases
<1>6. QED
  BY <1>1, <1>2, <1>3, <1>4, <1>5

LEMMA FrontOfCalls ==
  ASSUME CallsHaveBases, calls # << >>
  PROVE  /\ Front(calls) \in Seq(Frames(doc)) /\ Len(Front(calls)) = Len(calls) - 1
         /\ \A k \in 1..(Len(calls) - 1) : Front(calls)[k] = calls[k]
<1>1. calls \in Seq(Frames(doc)) /\ Len(calls) \in Nat /\ Len(calls) >= 1
  BY CallsFields
<1>2. \A k \in 1..(Len(calls) - 1) : calls[k] \in Frames(doc)
  BY <1>1, ElementOfSeq
<1> DEFINE n == Len(calls) - 1
           S == Frames(doc)
<1>3. n \in Int /\ 1 \in Int /\ n - 1 + 1 = n /\ Len(calls) >= 1 /\ \A k \in 1..n : calls[k] \in S
  BY <1>1, <1>2
<1>4. Front(calls) = SubSeq(calls, 1, n)
  BY DEF Front
<1>5. n >= 0
  BY <1>1
<1> HIDE DEF n, S
<1>6. /\ SubSeq(calls, 1, n) \in Seq(S)
      /\ Len(SubSeq(calls, 1, n)) = IF 1 <= n THEN n - 1 + 1 ELSE 0
      /\ \A k \in 1..(n - 1 + 1) : SubSeq(calls, 1, n)[k] = calls[1 + k - 1]
  BY <1>3, SubSeqProperties
<1>7. Len(SubSeq(calls, 1, n)) = n
  BY <1>3, <1>5, <1>6
<1>8. \A k \in 1..n : 1 + k - 1 = k
  BY <1>3
<1>9. \A k \in 1..n : SubSeq(calls, 1, n)[k] = calls[k]
  BY <1>3, <1>6, <1>8
<1>10. QED
  BY <1>4, <1>6, <1>7, <1>9 DEF n, S

\* What a target inherits changes neither what it is nor what it is called
\* nor what it inherits from.
LEMMA InheritedTyped ==
  ASSUME doc \in Docs, NEW t \in DOMAIN doc, NEW b \in WordBlocks
  PROVE  /\ Inherited(t, b) \in Docs
         /\ DOMAIN Inherited(t, b) = DOMAIN doc
         /\ \A u \in DOMAIN doc : /\ Inherited(t, b)[u].kind = doc[u].kind
                                  /\ Inherited(t, b)[u].name = doc[u].name
                                  /\ Inherited(t, b)[u].base = doc[u].base
<1> DEFINE old == doc[t]
           cond == IF b.cond = "" THEN old.cond ELSE b.cond
           dest == IF b.dest = "" THEN old.dest ELSE b.dest
           body == old.body \o b.body
           V == Seq(WordSections)
           new == [old EXCEPT !.cond = cond, !.dest = dest, !.body = body]
<1>1. old \in WordBlocks
  BY DocFields
<1>2. Inherited(t, b) = [doc EXCEPT ![t] = new]
  BY DEF Inherited
<1>3. cond \in Words /\ dest \in Words /\ old.name \in Words /\ old.base \in Words /\ old.body \in V
  BY <1>1, BlockFields
<1>4. body \in V
  <2>1. old.body \in Seq(WordSections) /\ b.body \in Seq(WordSections)
    BY <1>1, BlockFields
  <2>2. QED
    BY <2>1, ConcatProperties
<1> HIDE DEF old, cond, dest, body, V
<1>5. new \in WordBlocks /\ new.kind = old.kind /\ new.name = old.name /\ new.base = old.base
  BY <1>1, <1>3, <1>4 DEF WordBlocks, V
<1> HIDE DEF new
<1> DEFINE d == [doc EXCEPT ![t] = new]
<1>6. d \in Docs /\ DOMAIN d = DOMAIN doc /\ \A u \in DOMAIN doc : d[u] = IF u = t THEN new ELSE doc[u]
  BY <1>5, DocNewBlock
<1> HIDE DEF d
<1>7. QED
  BY <1>2, <1>5, <1>6 DEF d, old

LEMMA SameBase ==
  ASSUME NEW d, NEW e, DOMAIN e = DOMAIN d,
         \A u \in DOMAIN d : e[u].kind = d[u].kind /\ e[u].name = d[u].name /\ e[u].base = d[u].base,
         NEW t \in DOMAIN d
  PROVE  BaseOf(e, t) = BaseOf(d, t)
<1>1. ASSUME NEW name PROVE Named(e, "template", name) = Named(d, "template", name)
  BY DEF Named
<1>2. e[t].base = d[t].base
  OBVIOUS
<1>3. Named(e, "template", e[t].base) = Named(d, "template", d[t].base)
  BY <1>1, <1>2
<1> DEFINE some(found) == IF found = {} THEN 0 ELSE CHOOSE b \in found : TRUE
<1>4. /\ BaseOf(e, t) = some(Named(e, "template", e[t].base))
      /\ BaseOf(d, t) = some(Named(d, "template", d[t].base))
  BY DEF BaseOf
<1> HIDE DEF some
<1>5. QED
  BY <1>3, <1>4

LEMMA CopyTyped ==
  ASSUME Typed, CopyBase
  PROVE  doc' \in Docs /\ (phase' = "inheritance" => CallsHaveBases')
<1> DEFINE t == Top.block
           b == doc[Base(t)]
<1>1. CallsHaveBases /\ calls # << >> /\ Top.waits /\ doc \in Docs
  BY DEF Typed, CopyBase
<1>2. t \in DOMAIN doc /\ Base(t) \in DOMAIN doc
  BY <1>1, CallsFields
<1>3. b \in WordBlocks
  BY <1>1, <1>2, DocFields
<1>4. CASE phase' = "aborted" /\ doc' = doc
  BY <1>1, <1>4
<1>5. CASE doc' = Inherited(t, b) /\ calls' = Front(calls)
  <2>1. /\ doc' \in Docs /\ DOMAIN doc' = DOMAIN doc
        /\ \A u \in DOMAIN doc : /\ doc'[u].kind = doc[u].kind /\ doc'[u].name = doc[u].name
                                 /\ doc'[u].base = doc[u].base
    BY <1>1, <1>2, <1>3, <1>5, InheritedTyped
  <2>2. \A u \in DOMAIN doc : BaseOf(doc', u) = BaseOf(doc, u)
    BY <2>1, SameBase
  <2>3. Len(calls') = Len(calls) - 1 /\ Len(calls) \in Nat /\ calls' \in Seq(Frames(doc))
    BY <1>1, <1>5, CallsFields, FrontOfCalls
  <2>4. ASSUME NEW k \in 1..Len(calls'), calls'[k].waits
        PROVE  BaseOf(doc', calls'[k].block) \in DOMAIN doc
    <3>1. k \in 1..Len(calls) /\ k \in 1..(Len(calls) - 1)
      BY <2>3
    <3>2. calls'[k] = calls[k]
      BY <1>1, <1>5, <3>1, FrontOfCalls
    <3>3. calls[k] \in Frames(doc)
      BY <1>1, <3>1, CallsFields, ElementOfSeq
    <3>4. BaseOf(doc, calls[k].block) \in DOMAIN doc /\ calls[k].block \in DOMAIN doc
      BY <1>1, <2>4, <3>1, <3>2, <3>3 DEF CallsHaveBases, Frames
    <3>5. QED
      BY <2>2, <3>2, <3>4
  <2>5. CallsHaveBases'
    BY <2>1, <2>3, <2>4 DEF CallsHaveBases, Frames
  <2>6. QED
    BY <2>1, <2>5
<1>6. (phase' = "aborted" /\ doc' = doc) \/ (doc' = Inherited(t, b) /\ calls' = Front(calls))
  BY DEF CopyBase
<1>7. QED
  BY <1>4, <1>5, <1>6

LEMMA VisitTyped ==
  ASSUME Typed, VisitBase
  PROVE  CallsHaveBases'
<1> DEFINE t == Top.block
           n == Len(calls)
           top == [calls[n] EXCEPT !.waits = TRUE]
           now == [calls EXCEPT ![n] = top]
           frame == Frame(Base(t))
           S == Frames(doc)
<1>1. CallsHaveBases /\ calls # << >> /\ doc' = doc
  BY DEF Typed, VisitBase
<1>2. /\ t \in DOMAIN doc /\ calls \in Seq(S) /\ n \in Nat /\ n >= 1 /\ n \in 1..Len(calls)
      /\ calls[n] \in S /\ calls[n].block = t
  BY <1>1, CallsFields
<1>3. \A u : BaseOf(doc', u) = BaseOf(doc, u)
  BY <1>1
<1>4. CASE calls' = Front(calls)
  <2>1. Len(calls') = n - 1 /\ calls' \in Seq(S) /\ \A k \in 1..(n - 1) : calls'[k] = calls[k]
    BY <1>1, <1>4, FrontOfCalls
  <2>2. \A k \in 1..Len(calls') : k \in 1..n /\ calls'[k] = calls[k]
    BY <1>2, <2>1
  <2>3. QED
    BY <1>1, <1>3, <2>1, <2>2 DEF CallsHaveBases, Frames
<1>5. CASE calls' = Append(now, frame) /\ Base(t) # 0
  <2>1. Base(t) \in DOMAIN doc /\ BaseOf(doc, t) = Base(t)
    BY <1>5, SomeBase
  <2>2. frame \in S /\ frame.waits = FALSE
    <3>1. FALSE \in BOOLEAN
      OBVIOUS
    <3>2. QED
      BY <2>1, <3>1 DEF Frame, Frames
  <2>3. top \in S /\ top.block = t
    <3>1. TRUE \in BOOLEAN
      OBVIOUS
    <3>2. QED
      BY <1>2, <3>1 DEF Frames
  <2> HIDE DEF top, frame, S
  <2>4. now \in Seq(S) /\ Len(now) = n /\ \A k \in 1..n : now[k] = IF k = n THEN top ELSE calls[k]
    BY <1>2, <2>3, ExceptSeq
  <2> HIDE DEF now
  <2>5. /\ calls' \in Seq(S) /\ Len(calls') = n + 1
        /\ \A k \in 1..n : calls'[k] = now[k]
        /\ calls'[n + 1] = frame
    BY <1>2, <1>5, <2>2, <2>4, AppendProperties
  <2>6. ASSUME NEW k \in 1..Len(calls'), calls'[k].waits
        PROVE  BaseOf(doc, calls'[k].block) \in DOMAIN doc
    <3>1. CASE k = n + 1
      BY <2>2, <2>5, <2>6, <3>1
    <3>2. CASE k = n
      <4>1. calls'[k] = top
        BY <1>2, <2>4, <2>5, <3>2
      <4>2. QED
        BY <2>1, <2>3, <4>1
    <3>3. CASE k \in 1..(n - 1)
      <4>1. calls'[k] = calls[k] /\ k \in 1..Len(calls)
        BY <1>2, <2>4, <2>5, <3>3
      <4>2. QED
        BY <1>1, <2>6, <4>1 DEF CallsHaveBases
    <3>4. QED
      BY <1>2, <2>5, <3>1, <3>2, <3>3
  <2>7. QED
    BY <1>1, <1>3, <2>5, <2>6 DEF CallsHaveBases, S, Frames
<1>6. calls' = Front(calls) \/ (calls' = Append(now, frame) /\ Base(t) # 0)
  BY <1>2 DEF VisitBase
<1>7. QED
  BY <1>4, <1>5, <1>6

-----------------------------------------------------------------------------
\* Flags, directories and templates.
LEMMA FlagsOfTyped ==
  ASSUME doc \in Docs, NEW t \in DOMAIN doc, NEW tool
  PROVE  FlagsOf(t, tool) \in Seq(WordSections)
<1> DEFINE body == doc[t].body
           row(s) == IF body[s].kind = "flags" /\ body[s].key = tool THEN <<body[s]>> ELSE << >>
           rows == [s \in DOMAIN body |-> row(s)]
           V == Seq(WordSections)
<1>1. FlagsOf(t, tool) = FlattenSeq(rows)
  BY DEF FlagsOf
<1>2. Len(body) \in Nat /\ DOMAIN body = 1..Len(body) /\ \A s \in DOMAIN body : body[s] \in WordSections
  BY DocFields, BlockFields
<1>3. ASSUME NEW sec \in WordSections PROVE <<sec>> \in V /\ << >> \in V
  OBVIOUS
<1> HIDE DEF V, body
<1>4. \A s \in DOMAIN body : row(s) \in V
  BY <1>2, <1>3
<1>5. rows \in [1..Len(body) -> V]
  BY <1>2, <1>4
<1> HIDE DEF rows
<1>6. rows \in Seq(V)
  BY <1>2, <1>5, SeqDef
<1>7. QED
  BY <1>1, <1>6, FlattenType DEF V

LEMMA SomeTarget ==
  ASSUME NEW name, Lookup(name) # 0
  PROVE  Lookup(name) \in DOMAIN doc
BY DEF Lookup, Named

LEMMA FlagsTyped ==
  ASSUME Typed, ImportFlags
  PROVE  doc' \in Docs
<1>1. /\ doc \in Docs /\ at \in Positions /\ InSection /\ at.i <= Len(Section.items) /\ at.i \in Nat \ {0}
      /\ Section.kind = "flags"
  BY PositionFields DEF Typed, ImportFlags, InFlags
<1> DEFINE t == at.t
           s == at.s
           sec == doc[t].body[s]
<1>2. /\ t \in DOMAIN doc /\ s \in DOMAIN doc[t].body /\ sec \in WordSections /\ Section = sec
      /\ Block = doc[t]
  BY <1>1, Here
<1>3. CASE doc' = doc
  BY <1>1, <1>3
<1>4. CASE ImportGlobal /\ doc' = [doc EXCEPT ![at.t].body[at.s].items[at.i] = GlobalFlags(Flag.tool)]
  <2> DEFINE items == [sec.items EXCEPT ![at.i] = GlobalFlags(Flag.tool)]
             new == [sec EXCEPT !.items = items]
  <2>1. doc' = Changed(doc, t, s, new)
    BY <1>4 DEF Changed
  <2>2. sec.items \in Seq(WordItems) /\ at.i \in 1..Len(sec.items)
    <3>1. sec.items \in Seq(WordItems)
      BY <1>2, SectionFields
    <3>2. Len(sec.items) \in Nat /\ at.i <= Len(sec.items)
      BY <1>1, <1>2, <3>1, LenProperties
    <3>3. QED
      BY <1>1, <3>1, <3>2
  <2>3. Flag.tool \in Words
    <3>1. Flag.tool = sec.key /\ sec.kind = "flags"
      BY <1>1, <1>2, <1>4 DEF ImportGlobal
    <3>2. QED
      BY <1>2, <3>1, SectionFields
  <2>4. GlobalFlags(Flag.tool) \in WordItems
    BY <2>3 DEF GlobalFlags, WordItems
  <2>5. items \in Seq(WordItems)
    BY <2>2, <2>4, ExceptSeq
  <2> HIDE DEF items
  <2>6. new \in WordSections
    BY <1>2, <2>5, SectionNewItems
  <2> HIDE DEF new
  <2>7. QED
    BY <1>1, <1>2, <2>1, <2>6, DocNewSection
<1>5. ASSUME NEW copies, copies = FlagsOf(Lookup(Flag.from), Flag.tool), Lookup(Flag.from) # 0,
             doc' = [doc EXCEPT ![at.t].body =
                      [@ EXCEPT ![at.s].linked = FALSE] \o [k \in DOMAIN copies |-> Clone(copies[k])]]
      PROVE  doc' \in Docs
  <2> DEFINE left == [sec EXCEPT !.linked = FALSE]
             rest == [doc[t].body EXCEPT ![s] = left]
             clones == [k \in DOMAIN copies |-> Clone(copies[k])]
             body == rest \o clones
             b == [doc[t] EXCEPT !.body = body]
             d == [doc EXCEPT ![t] = b]
  <2>1. doc' = d
    BY <1>5
  <2>2. left \in WordSections
    BY <1>2, SectionUnlinked
  <2> HIDE DEF left
  <2>3. rest \in Seq(WordSections)
    BY <1>1, <1>2, <2>2, DocFields, BlockFields, BodyNewSection DEF Bodies
  <2>4. copies \in Seq(WordSections)
    BY <1>1, <1>5, SomeTarget, FlagsOfTyped
  <2>5. clones \in Seq(WordSections)
    <3> DEFINE C == WordSections
    <3>1. Len(copies) \in Nat /\ DOMAIN copies = 1..Len(copies)
      BY <2>4, LenProperties
    <3>2. ASSUME NEW k \in DOMAIN copies PROVE Clone(copies[k]) \in C
      BY <2>4, <3>1, ElementOfSeq, SectionCloned
    <3> HIDE DEF C
    <3>3. clones \in [1..Len(copies) -> C]
      BY <3>1, <3>2
    <3> HIDE DEF clones
    <3>4. QED
      BY <3>1, <3>3, SeqDef DEF C
  <2> HIDE DEF rest, clones
  <2>6. body \in Bodies
    BY <2>3, <2>5, ConcatProperties DEF Bodies
  <2> HIDE DEF body
  <2>7. b \in WordBlocks
    BY <1>1, <1>2, <2>6, DocFields, BlockNewBody
  <2> HIDE DEF b
  <2>8. QED
    BY <1>1, <1>2, <2>1, <2>7, DocNewBlock
<1>6. ~ImportGlobal => Lookup(Flag.from) # 0
  BY DEF ImportFlags, Undefined
<1>7. CASE ImportGlobal
  <2>1. doc' = [doc EXCEPT ![at.t].body[at.s].items[at.i] = GlobalFlags(Flag.tool)]
    BY <1>7, Zenon DEF ImportFlags
  <2>2. QED
    BY <1>4, <1>7, <2>1, Zenon
<1>8. CASE ~ImportGlobal
  <2> DEFINE copies == FlagsOf(Lookup(Flag.from), Flag.tool)
             after == [doc EXCEPT ![at.t].body =
                        [@ EXCEPT ![at.s].linked = FALSE] \o [k \in DOMAIN copies |-> Clone(copies[k])]]
  <2>1. doc' = doc \/ doc' = after
    BY <1>8 DEF ImportFlags
  <2>2. CASE doc' = after
    <3>1. copies = FlagsOf(Lookup(Flag.from), Flag.tool) /\ Lookup(Flag.from) # 0
      BY <1>6, <1>8
    <3> HIDE DEF copies
    <3>2. QED
      BY <1>5, <2>2, <3>1
  <2>3. QED
    BY <1>3, <2>1, <2>2
<1>9. QED
  BY <1>7, <1>8

LEMMA DestTyped ==
  ASSUME Typed, DefaultDest
  PROVE  doc' \in Docs
<1>1. doc \in Docs /\ at.t \in DOMAIN doc /\ Block \in WordBlocks /\ Block = doc[at.t]
  BY Here DEF Typed, DefaultDest
<1>2. PICK dir \in Defaults :
        doc' = [doc EXCEPT ![at.t] =
                 [Block EXCEPT !.dest = dir,
                               !.body = [s \in DOMAIN Block.body |-> Installed(Block.body[s])]]]
  BY DEF DefaultDest
<1> DEFINE body == [s \in DOMAIN Block.body |-> Installed(Block.body[s])]
           b == [Block EXCEPT !.dest = dir, !.body = body]
           C == WordSections
           V == Seq(C)
<1>3. dir \in Words
  <2>1. Defaults \in {{Block.dest}, {"bin"}, {"lib"}, {""}, {"", "bin", "lib"}}
    BY DEF Defaults
  <2>2. dir \in {Block.dest, "bin", "lib", ""}
    BY <2>1
  <2>3. Block.dest \in Words
    BY <1>1, BlockFields
  <2>4. QED
    BY <2>2, <2>3, AllWords
<1>4. body \in V
  <2>1. /\ Len(Block.body) \in Nat /\ DOMAIN Block.body = 1..Len(Block.body)
        /\ \A s \in DOMAIN Block.body : Block.body[s] \in C
    BY <1>1, BlockFields
  <2>2. \A s \in DOMAIN Block.body : Installed(Block.body[s]) \in C
    BY <2>1, SectionInstalled
  <2> HIDE DEF C
  <2>3. body \in [1..Len(Block.body) -> C]
    BY <2>1, <2>2
  <2> HIDE DEF body
  <2>4. QED
    BY <2>1, <2>3, SeqDef
<1>5. Block.body \in V /\ Block.name \in Words /\ Block.base \in Words /\ Block.cond \in Words
  BY <1>1, BlockFields
<1> HIDE DEF V, body
<1>6. b \in WordBlocks
  BY <1>1, <1>3, <1>4, <1>5 DEF WordBlocks, V
<1>7. doc' = [doc EXCEPT ![at.t] = b]
  BY <1>2 DEF body
<1> HIDE DEF b
<1>8. QED
  BY <1>1, <1>6, <1>7, DocNewBlock

LEMMA RemoveTyped ==
  ASSUME Typed, RemoveTemplate
  PROVE  doc' \in Docs
<1>1. doc \in Docs /\ at.t \in DOMAIN doc /\ doc[at.t] \in WordBlocks
  BY Here DEF Typed, RemoveTemplate
<1> DEFINE old == doc[at.t]
           b == [old EXCEPT !.kind = "none", !.body = << >>]
           V == Seq(WordSections)
<1>2. << >> \in V /\ old.name \in Words /\ old.base \in Words /\ old.cond \in Words /\ old.dest \in Words
      /\ old.body \in V
  BY <1>1, BlockFields
<1>3. doc' = doc \/ doc' = [doc EXCEPT ![at.t] = b]
  BY DEF RemoveTemplate
<1> HIDE DEF V, old
<1>4. b \in WordBlocks
  <2>1. old \in WordBlocks
    BY <1>1 DEF old
  <2>2. QED
    BY <1>2, <2>1 DEF WordBlocks, V
<1> HIDE DEF b
<1>5. QED
  BY <1>1, <1>3, <1>4, DocNewBlock

LEMMA TargetsTyped ==
  ASSUME Typed, TargetsNext
  PROVE  Typed'
<1>1. doc \in Docs /\ at \in Positions
  BY DEF Typed
<1>2. /\ Start \in Positions /\ NextBlock \in Positions /\ NextSection \in Positions
      /\ [at EXCEPT !.i = @ + 1] \in Positions
  BY <1>1, PositionFields
<1>3. CASE ImportFile
  BY <1>2, <1>3, ImportTyped DEF Typed, ImportFile
<1>4. CASE PassDeclaration
  BY <1>1, <1>2, <1>4 DEF Typed, PassDeclaration
<1>5. CASE ImportFails
  BY <1>1, <1>5 DEF Typed, ImportFails
<1>6. CASE AddDefaultFlags
  <2>1. phase' = "insert_global_syms"
    BY <1>6 DEF AddDefaultFlags, After
  <2>2. doc \in Seq(WordBlocks) /\ doc' = Append(doc, DefaultFlags) /\ at' = Start
    BY <1>1, <1>6 DEF Docs, AddDefaultFlags
  <2>3. doc' \in Docs
    BY <2>2, DefaultFlagsTyped, AppendProperties DEF Docs
  <2>4. QED
    BY <1>2, <2>1, <2>2, <2>3 DEF Typed
<1>7. CASE NextTargetPhase
  <2>1. calls' = << >> /\ doc' = doc /\ at' = Start
    BY <1>7 DEF NextTargetPhase
  <2>2. << >> \in Seq(Frames(doc)) /\ Len(<< >>) = 0
    OBVIOUS
  <2>3. CallsHaveBases'
    BY <2>1, <2>2 DEF CallsHaveBases, Frames
  <2>4. QED
    BY <1>1, <1>2, <2>1, <2>3 DEF Typed
<1>8. CASE InsertGlobal
  BY <1>1, <1>2, <1>8 DEF Typed, InsertGlobal
<1>9. CASE VisitBlock
  <2>1. doc' = doc /\ at' = NextBlock /\ (calls' = <<Frame(at.t)>> \/ calls' = << >>) /\ at.t \in DOMAIN doc
    BY <1>1, <1>9, Here DEF VisitBlock
  <2> DEFINE frame == Frame(at.t)
  <2>2. frame \in Frames(doc) /\ frame.waits = FALSE
    <3>1. FALSE \in BOOLEAN
      OBVIOUS
    <3>2. QED
      BY <2>1, <3>1 DEF Frame, Frames
  <2> HIDE DEF frame
  <2>3. /\ << >> \in Seq(Frames(doc)) /\ Len(<< >>) = 0
        /\ <<frame>> \in Seq(Frames(doc)) /\ Len(<<frame>>) = 1 /\ <<frame>>[1] = frame
    BY <2>2
  <2>4. CASE calls' = << >>
    <3>1. CallsHaveBases'
      BY <2>1, <2>3, <2>4 DEF CallsHaveBases, Frames
    <3>2. QED
      BY <1>1, <1>2, <2>1, <3>1 DEF Typed
  <2>5. CASE calls' = <<frame>>
    <3>1. \A k \in 1..Len(calls') : ~calls'[k].waits
      BY <2>2, <2>3, <2>5
    <3>2. CallsHaveBases'
      BY <2>1, <2>3, <2>5, <3>1 DEF CallsHaveBases, Frames
    <3>3. QED
      BY <1>1, <1>2, <2>1, <3>2 DEF Typed
  <2>6. QED
    BY <2>1, <2>4, <2>5 DEF frame
<1>10. CASE VisitBase
  <2>1. CallsHaveBases' /\ doc' = doc /\ at' = at
    BY <1>10, VisitTyped DEF VisitBase
  <2>2. QED
    BY <1>1, <2>1 DEF Typed
<1>11. CASE CopyBase
  <2>1. doc' \in Docs /\ (phase' = "inheritance" => CallsHaveBases') /\ at' = at
    BY <1>11, CopyTyped DEF CopyBase
  <2>2. QED
    BY <1>1, <2>1 DEF Typed
<1>12. CASE CopyMovingBase
  BY <1>1, <1>12 DEF Typed, CopyMovingBase
<1>13. CASE PassFlags
  BY <1>1, <1>2, <1>13 DEF Typed, PassFlags
<1>14. CASE ImportFlags
  <2>1. doc' \in Docs /\ at' \in Positions
    BY <1>2, <1>14, FlagsTyped DEF ImportFlags
  <2>2. phase' # "inheritance"
    BY <1>14 DEF ImportFlags
  <2>3. QED
    BY <2>1, <2>2 DEF Typed
<1>15. CASE ImportFlagsCrashes
  BY <1>1, <1>15 DEF Typed, ImportFlagsCrashes
<1>16. CASE DefaultDest
  BY <1>2, <1>16, DestTyped DEF Typed, DefaultDest
<1>17. CASE RemoveTemplate
  BY <1>2, <1>17, RemoveTyped DEF Typed, RemoveTemplate
<1>18. QED
  BY <1>3, <1>4, <1>5, <1>6, <1>7, <1>8, <1>9, <1>10, <1>11, <1>12, <1>13, <1>14, <1>15, <1>16,
     <1>17 DEF TargetsNext

-----------------------------------------------------------------------------
\* Merging: a section may lose its kind, its items may grow.
Without(d, t, s) == [d EXCEPT ![t].body[s].kind = "none"]
Grown(d, t, s, items) == [d EXCEPT ![t].body[s].items = @ \o items]

LEMMA RemovedFrom ==
  ASSUME NEW d \in Docs, NEW t \in DOMAIN d, NEW s \in DOMAIN d[t].body, d[t].body[s].kind # "install",
         NEW new, new = Without(d, t, s)
  PROVE  /\ new \in Docs /\ DOMAIN new = DOMAIN d /\ Len(new) = Len(d)
         /\ \A u \in DOMAIN d : DOMAIN new[u].body = DOMAIN d[u].body
         /\ \A u \in DOMAIN d : \A r \in DOMAIN d[u].body :
              new[u].body[r].kind = IF u = t /\ r = s THEN "none" ELSE d[u].body[r].kind
<1> DEFINE old == d[t].body[s]
           sec == [old EXCEPT !.kind = "none"]
<1>1. new = Changed(d, t, s, sec)
  BY DEF Changed, Without, Grown
<1>2. old \in WordSections
  BY DocFields, BlockFields
<1> HIDE DEF old
<1>3. sec \in WordSections /\ sec.kind = "none"
  BY <1>2, SectionRemoved DEF old
<1> HIDE DEF sec
<1>4. /\ Changed(d, t, s, sec) \in Docs
      /\ DOMAIN Changed(d, t, s, sec) = DOMAIN d
      /\ Len(Changed(d, t, s, sec)) = Len(d)
      /\ \A u \in DOMAIN d : DOMAIN Changed(d, t, s, sec)[u].body = DOMAIN d[u].body
      /\ \A u \in DOMAIN d : \A r \in DOMAIN d[u].body :
           Changed(d, t, s, sec)[u].body[r] = IF u = t /\ r = s THEN sec ELSE d[u].body[r]
  BY <1>3, DocNewSection
<1>5. /\ new \in Docs /\ DOMAIN new = DOMAIN d /\ Len(new) = Len(d)
      /\ \A u \in DOMAIN d : DOMAIN new[u].body = DOMAIN d[u].body
      /\ \A u \in DOMAIN d : \A r \in DOMAIN d[u].body :
           new[u].body[r].kind = IF u = t /\ r = s THEN "none" ELSE d[u].body[r].kind
  BY <1>1, <1>3, <1>4
<1>6. QED
  BY <1>5

LEMMA GrownBy ==
  ASSUME NEW d \in Docs, NEW t \in DOMAIN d, NEW s \in DOMAIN d[t].body, NEW items \in Seq(WordItems),
         NEW new, new = Grown(d, t, s, items)
  PROVE  /\ new \in Docs /\ DOMAIN new = DOMAIN d /\ Len(new) = Len(d)
         /\ \A u \in DOMAIN d : DOMAIN new[u].body = DOMAIN d[u].body
         /\ \A u \in DOMAIN d : \A r \in DOMAIN d[u].body :
              new[u].body[r].kind = d[u].body[r].kind
<1> DEFINE old == d[t].body[s]
           all == old.items \o items
           sec == [old EXCEPT !.items = all]
<1>1. new = Changed(d, t, s, sec)
  BY DEF Changed, Without, Grown
<1>2. old \in WordSections
  BY DocFields, BlockFields
<1> HIDE DEF old
<1>3. all \in Seq(WordItems)
  BY <1>2, SectionFields, ConcatProperties
<1> HIDE DEF all
<1>4. sec \in WordSections /\ sec.kind = old.kind
  BY <1>2, <1>3, SectionNewItems
<1> HIDE DEF sec
<1>5. /\ Changed(d, t, s, sec) \in Docs
      /\ DOMAIN Changed(d, t, s, sec) = DOMAIN d
      /\ Len(Changed(d, t, s, sec)) = Len(d)
      /\ \A u \in DOMAIN d : DOMAIN Changed(d, t, s, sec)[u].body = DOMAIN d[u].body
      /\ \A u \in DOMAIN d : \A r \in DOMAIN d[u].body :
           Changed(d, t, s, sec)[u].body[r] = IF u = t /\ r = s THEN sec ELSE d[u].body[r]
  BY <1>4, DocNewSection
<1>6. /\ new \in Docs /\ DOMAIN new = DOMAIN d /\ Len(new) = Len(d)
      /\ \A u \in DOMAIN d : DOMAIN new[u].body = DOMAIN d[u].body
      /\ \A u \in DOMAIN d : \A r \in DOMAIN d[u].body :
           new[u].body[r].kind = d[u].body[r].kind
  BY <1>1, <1>4, <1>5 DEF old
<1>7. QED
  BY <1>6

LEMMA MergedTyped ==
  ASSUME doc \in Docs, at \in Positions, InSection, Section.kind # "install",
         NEW into, into[1] \in DOMAIN doc, into[2] \in DOMAIN doc[into[1]].body
  PROVE  /\ Merged(into) \in Docs /\ DOMAIN Merged(into) = DOMAIN doc /\ Len(Merged(into)) = Len(doc)
         /\ \A u \in DOMAIN doc : DOMAIN Merged(into)[u].body = DOMAIN doc[u].body
         /\ \A u \in DOMAIN doc : \A r \in DOMAIN doc[u].body :
              Merged(into)[u].body[r].kind =
                IF u = at.t /\ r = at.s THEN "none" ELSE doc[u].body[r].kind
<1>1. /\ at.t \in DOMAIN doc /\ at.s \in DOMAIN doc[at.t].body
      /\ Section \in WordSections /\ Section = doc[at.t].body[at.s]
  BY Here
<1>2. Section.items \in Seq(WordItems)
  BY <1>1, SectionFields
<1> DEFINE more == Section.items
           t == at.t
           s == at.s
           v == into[1]
           w == into[2]
           d == Grown(doc, v, w, more)
           e == Without(d, t, s)
<1>3. Merged(into) = e
  BY DEF Merged, Grown, Without
<1>4. more \in Seq(WordItems) /\ v \in DOMAIN doc /\ w \in DOMAIN doc[v].body
  BY <1>2
<1> HIDE DEF more, v, w
<1>5. d = Grown(doc, v, w, more)
  OBVIOUS
<1> HIDE DEF d
<1>6. /\ d \in Docs /\ DOMAIN d = DOMAIN doc /\ Len(d) = Len(doc)
      /\ \A u \in DOMAIN doc : DOMAIN d[u].body = DOMAIN doc[u].body
      /\ \A u \in DOMAIN doc : \A r \in DOMAIN doc[u].body :
           d[u].body[r].kind = doc[u].body[r].kind
  BY <1>4, <1>5, GrownBy
<1>7. t \in DOMAIN doc /\ s \in DOMAIN doc[t].body /\ doc[t].body[s].kind # "install"
  BY <1>1
<1> HIDE DEF t, s
<1>8. t \in DOMAIN d /\ s \in DOMAIN d[t].body /\ d[t].body[s].kind # "install"
  BY <1>6, <1>7
<1>9. e = Without(d, t, s)
  OBVIOUS
<1> HIDE DEF e
<1>10. /\ e \in Docs /\ DOMAIN e = DOMAIN d /\ Len(e) = Len(d)
       /\ \A u \in DOMAIN d : DOMAIN e[u].body = DOMAIN d[u].body
       /\ \A u \in DOMAIN d : \A r \in DOMAIN d[u].body :
            e[u].body[r].kind = IF u = t /\ r = s THEN "none" ELSE d[u].body[r].kind
  BY <1>6, <1>8, <1>9, RemovedFrom
<1>11. QED
  BY <1>3, <1>6, <1>10 DEF t, s

-----------------------------------------------------------------------------
\* What the visitors of emit print for a section: nothing, or one line of the
\* right sign among "if" and "endif".
Name(l) == l.var[1]

Fine(t, l) == Paired(t, l) /\ RightSign(l, lines) /\ (~Nameless(l) \/ Len(t) = 1)

LEMMA NameOfVar ==
  ASSUME NEW l, NEW x, NEW y, l.var = <<x, y>>
  PROVE  Name(l) = x /\ (Nameless(l) <=> x = "")
BY DEF Name, Nameless

LEMMA FineLine ==
  ASSUME NEW l, l.op \in {"=", "+="}, RightSign(l, lines)
  PROVE  Fine(<<l>>, l)
<1>1. Paired(<<l>>, l)
  BY PairedLine
<1>2. Len(<<l>>) = 1
  OBVIOUS
<1>3. QED
  BY <1>1, <1>2 DEF Fine

LEMMA FinePut ==
  ASSUME NEW x, NEW y, NEW vals
  PROVE  \E l : Fine(Put(<<x, y>>, vals), l) /\ Name(l) = x /\ (Nameless(l) <=> x = "")
<1> DEFINE var == <<x, y>>
           sign == Sign(var, lines)
           l == [op |-> sign, var |-> var, vals |-> vals]
<1>1. Put(var, vals) = <<l>>
  BY DEF Put
<1>2. sign \in {"=", "+="}
  BY DEF Sign
<1>3. l.var = <<x, y>> /\ l.op = Sign(l.var, lines) /\ l.op \in {"=", "+="}
  BY <1>2
<1> HIDE DEF l
<1>4. Fine(<<l>>, l)
  <2>1. RightSign(l, lines)
    BY <1>3 DEF RightSign
  <2>2. l.op \in {"=", "+="}
    BY <1>3
  <2> HIDE DEF var, sign
  <2>3. QED
    BY <2>1, <2>2, FineLine
<1>5. Name(l) = x /\ (Nameless(l) <=> x = "")
  BY <1>3, NameOfVar
<1>6. QED
  BY <1>1, <1>4, <1>5

LEMMA FineUnder ==
  ASSUME NEW t, NEW l, Fine(t, l), ~Nameless(l), NEW cond
  PROVE  Fine(Under(cond, t), l)
BY PairedUnder DEF Fine

IsExtraDist(var) == var = <<"EXTRA_DIST", "">>

LEMMA FineSet ==
  ASSUME NEW x, NEW y, NEW vals,
         IsExtraDist(<<x, y>>) \/ \A k \in Range(lines) : Name(k) # x
  PROVE  \E l : Fine(Set(<<x, y>>, vals), l) /\ Name(l) = x
<1> DEFINE var == <<x, y>>
           l == [op |-> "=", var |-> var, vals |-> vals]
<1>1. Set(var, vals) = <<l>>
  BY DEF Set
<1>2. l.var = var /\ l.op = "="
  OBVIOUS
<1> HIDE DEF l
<1>3. RightSign(l, lines)
  <2>1. CASE IsExtraDist(var)
    BY <1>2, <2>1 DEF RightSign, IsExtraDist
  <2>2. CASE \A k \in Range(lines) : Name(k) # x
    <3>1. \A k \in Range(lines) : k.var = <<x, y>> => Name(k) = x
      BY NameOfVar
    <3>2. ~\E k \in Range(lines) : k.var = var
      BY <2>2, <3>1
    <3> HIDE DEF var
    <3>3. Sign(var, lines) = "="
      BY <3>2 DEF Sign
    <3>4. QED
      BY <1>2, <3>3 DEF RightSign
  <2>3. QED
    BY <2>1, <2>2
<1>4. Fine(<<l>>, l)
  <2>1. l.op \in {"=", "+="}
    BY <1>2
  <2> HIDE DEF var
  <2>2. QED
    BY <1>3, <2>1, FineLine
<1>5. Name(l) = x
  BY <1>2, NameOfVar
<1>6. QED
  BY <1>1, <1>4, <1>5

Types == {"HEADERS", "DATA", "SCRIPTS"}

LEMMA TextShape ==
  ASSUME Emitting, doc \in Docs, at \in Positions, InSection,
         phase = "emit_built_sources" /\ Section.kind = "built" =>
           \A k \in Range(lines) : Name(k) # "BUILT_SOURCES"
  PROVE  Text = << >> \/ \E l : /\ Fine(Text, l)
                                /\ phase = "emit_test" => Name(l) = "TESTS"
                                /\ phase = "emit_headers" => Name(l) \in Types
                                /\ phase = "emit_built_sources" =>
                                     Name(l) = "BUILT_SOURCES" /\ Section.kind = "built"
<1>1. Section \in WordSections
  BY Here
<1>2. CASE phase = "emit_test" /\ Section.kind = "test"
  <2>1. Text = TestText
    BY <1>2 DEF Text
  <2>2. PICK l : Fine(Put(<<"TESTS", Section.key>>, Section.items), l) /\ Name(l) = "TESTS" /\ ~Nameless(l)
    BY FinePut
  <2>3. Fine(TestText, l)
    BY <2>2, FineUnder DEF TestText
  <2>4. QED
    BY <1>2, <2>1, <2>2, <2>3
<1>3. CASE phase = "emit_headers" /\ Section.kind = "install"
  <2>1. Text = InstallText
    BY <1>3 DEF Text
  <2> DEFINE type == Section.key[2]
             dir == Section.key[1]
  <2>2. type \in Types
    BY <1>1, <1>3, SectionFields DEF Types
  <2> HIDE DEF type, dir
  <2>3. PICK l : Fine(Put(<<type, dir>>, Section.items), l) /\ Name(l) = type /\ (Nameless(l) <=> type = "")
    BY FinePut
  <2>4. ~Nameless(l)
    BY <2>2, <2>3 DEF Types
  <2>5. InstallVar(Section) = <<type, dir>>
    BY DEF InstallVar, type, dir
  <2>6. Fine(InstallText, l)
    BY <2>3, <2>4, <2>5, FineUnder DEF InstallText
  <2>7. QED
    BY <1>3, <2>1, <2>2, <2>3, <2>6
<1>4. CASE phase = "emit_built_sources" /\ Section.kind = "built"
  <2>1. Text = Set(<<"BUILT_SOURCES", "">>, Section.items)
    BY <1>4 DEF Text, BuiltText
  <2>2. \A k \in Range(lines) : Name(k) # "BUILT_SOURCES"
    BY <1>4
  <2>3. \E l : Fine(Set(<<"BUILT_SOURCES", "">>, Section.items), l) /\ Name(l) = "BUILT_SOURCES"
    BY <2>2, FineSet
  <2>4. QED
    BY <1>4, <2>1, <2>3
<1>5. CASE phase = "emit_link" /\ Section.kind = "link"
  <2>1. Text = LinkText
    BY <1>5 DEF Text
  <2> DEFINE x == IF Block.kind = "program" THEN "LDADD" ELSE "LIBADD"
             y == NameOf(Block)
  <2>2. LinkVar(Block) = <<x, y>> /\ x # ""
    BY DEF LinkVar
  <2> HIDE DEF x, y
  <2>3. PICK l : Fine(Put(<<x, y>>, Section.items), l) /\ Name(l) = x /\ ~Nameless(l)
    BY <2>2, FinePut
  <2>4. Fine(LinkText, l)
    BY <2>2, <2>3, FineUnder DEF LinkText
  <2>5. QED
    BY <1>5, <2>1, <2>4
<1>6. CASE phase = "emit_flags" /\ Section.kind = "flags"
  <2>1. Text = FlagsText
    BY <1>6 DEF Text
  <2> DEFINE x == Section.key
             y == IF Outside(Block) THEN "AM" ELSE NameOf(Block)
  <2>2. FlagsVar(Block, Section.key) = <<x, y>>
    BY DEF FlagsVar
  <2> HIDE DEF x, y
  <2>3. PICK l : Fine(Put(<<x, y>>, Section.items), l) /\ Name(l) = x
    BY FinePut
  <2>4. Fine(FlagsText, l)
    BY <2>2, <2>3 DEF FlagsText
  <2>5. QED
    BY <1>6, <2>1, <2>4
<1>7. CASE phase = "emit_SOURCES" /\ Section.kind = "sources"
  <2>1. Text = SourcesText
    BY <1>7 DEF Text
  <2>2. PICK l : Fine(Put(<<"SOURCES", NameOf(Block)>>, Section.items), l)
                /\ Name(l) = "SOURCES" /\ ~Nameless(l)
    BY FinePut
  <2>3. Fine(SourcesText, l)
    BY <2>2, FineUnder DEF SourcesText
  <2>4. QED
    BY <1>7, <2>1, <2>3
<1>8. CASE phase = "emit_SOURCES" /\ Section.kind = "nodist"
  <2>1. Text = NodistText
    BY <1>8 DEF Text
  <2>2. \E l : Fine(NodistText, l)
    BY FinePut DEF NodistText
  <2>3. QED
    BY <1>8, <2>1, <2>2
<1>9. CASE phase = "emit_SOURCES" /\ Section.kind = "extra"
  <2>1. Text = ExtraText
    BY <1>9 DEF Text
  <2>2. \E l : Fine(ExtraText, l)
    BY FineSet DEF ExtraText, IsExtraDist
  <2>3. QED
    BY <1>9, <2>1, <2>2
<1>10. CASE ~\/ phase = "emit_test" /\ Section.kind = "test"
             \/ phase = "emit_headers" /\ Section.kind = "install"
             \/ phase = "emit_built_sources" /\ Section.kind = "built"
             \/ phase = "emit_link" /\ Section.kind = "link"
             \/ phase = "emit_flags" /\ Section.kind = "flags"
             \/ phase = "emit_SOURCES" /\ Section.kind = "sources"
             \/ phase = "emit_SOURCES" /\ Section.kind = "nodist"
             \/ phase = "emit_SOURCES" /\ Section.kind = "extra"
  <2>1. Text = << >>
    BY <1>10 DEF Text
  <2>2. QED
    BY <2>1
<1>11. QED
  BY Zenon, <1>2, <1>3, <1>4, <1>5, <1>6, <1>7, <1>8, <1>9, <1>10

-----------------------------------------------------------------------------
\* The inductive invariant.  The section that a merger remembers is there.
Mergers ==
  /\ phase \in TargetPhases => blocks = << >>
  /\ phase = "merge_blocks" =>
       \A b \in DOMAIN blocks :
         blocks[b][1] \in DOMAIN doc /\ blocks[b][2] \in DOMAIN doc[blocks[b][1]].body

\* All sections of files to build first are merged into the one that the
\* merger remembers: behind the position they are as they were.
BuiltSlot == <<"built", "", "">>
Remembered(b, t, s) == BuiltSlot \in DOMAIN b /\ b[BuiltSlot] = <<t, s>>
Before(p, t, s) == t < p.t \/ (t = p.t /\ s < p.s)

OneBuilt ==
  \A t \in DOMAIN doc : \A s \in DOMAIN doc[t].body :
    /\ doc[t].body[s].kind = "built"
    /\ \/ phase = "merge_blocks" /\ Before(at, t, s)
       \/ phase \in {"emit_test", "emit_headers", "emit_built_sources"}
    => Remembered(blocks, t, s)

\* What has been printed so far, and what has not.
EmitPhases == {"emit_test", "emit_headers", "emit_built_sources", "emit_targets", "emit_link",
               "emit_flags", "emit_SOURCES", "done"}

BuiltBehind ==
  \E t \in DOMAIN doc : \E s \in DOMAIN doc[t].body : doc[t].body[s].kind = "built" /\ Before(at, t, s)

DirBehind(name, l) == \E k \in 1..Len(Dirs) : k < at.t /\ l.var = <<name, Dirs[k]>>

Unprinted ==
  \A l \in Range(lines) :
    /\ phase \in {"emit_test", "emit_headers"} => Name(l) # "BUILT_SOURCES"
    /\ phase \in {"emit_test", "emit_headers", "emit_built_sources"} =>
         Name(l) # "PROGRAMS" /\ Name(l) # "LTLIBRARIES"
    /\ phase = "emit_built_sources" /\ Name(l) = "BUILT_SOURCES" => BuiltBehind
    /\ phase = "emit_targets" /\ at.s = 1 =>
         Name(l) # "LTLIBRARIES" /\ (Name(l) = "PROGRAMS" => DirBehind("PROGRAMS", l))
    /\ phase = "emit_targets" /\ at.s # 1 /\ Name(l) = "LTLIBRARIES" => DirBehind("LTLIBRARIES", l)

Emitted == phase \in EmitPhases => Readable(lines)

MInv == Typed /\ Mergers /\ OneBuilt /\ Unprinted /\ Emitted

Ends == {"failed", "aborted", "thrown", "crashed", "exhausted"}

LEMMA TargetsPhases ==
  ASSUME TargetsNext
  PROVE  /\ phase \in TargetPhases
         /\ \/ phase' \in TargetPhases \union Ends
            \/ phase' = "merge_blocks" /\ at' = Start
<1>1. CASE NextTargetPhase
  <2>1. phase \in TargetPhases /\ at' = Start /\ (phase' = After(phase) \/ phase' = "failed")
        /\ phase # "default_flags"
    BY <1>1 DEF NextTargetPhase
  <2>2. After(phase) \in TargetPhases \union {"merge_blocks"}
    BY <2>1 DEF After, TargetPhases
  <2>3. QED
    BY <2>1, <2>2 DEF Ends
<1>2. CASE AddDefaultFlags
  BY <1>2 DEF AddDefaultFlags, After, TargetPhases
<1>3. CASE ImportFile \/ PassDeclaration \/ ImportFails \/ InsertGlobal \/ VisitBlock \/ VisitBase
  BY <1>3 DEF ImportFile, PassDeclaration, ImportFails, InsertGlobal, VisitBlock, VisitBase,
              TargetPhases, Ends
<1>4. CASE CopyBase
  BY <1>4 DEF CopyBase, TargetPhases, Ends
<1>5. CASE CopyMovingBase \/ PassFlags \/ ImportFlagsCrashes
  BY <1>5 DEF CopyMovingBase, PassFlags, ImportFlagsCrashes, TargetPhases, Ends
<1>6. CASE ImportFlags
  <2>1. phase = "resolve_flagsref" /\ phase' \in {phase, "exhausted"}
    BY <1>6 DEF ImportFlags
  <2>2. QED
    BY <2>1 DEF TargetPhases, Ends
<1>7. CASE DefaultDest \/ RemoveTemplate
  BY <1>7 DEF DefaultDest, RemoveTemplate, TargetPhases, Ends
<1>8. QED
  BY <1>1, <1>2, <1>3, <1>4, <1>5, <1>6, <1>7 DEF TargetsNext

LEMMA PhasesDiffer ==
  /\ "merge_blocks" \notin TargetPhases \union Ends \union EmitPhases
  /\ \A p \in TargetPhases \union Ends : p \notin EmitPhases
  /\ \A p \in EmitPhases : p \notin TargetPhases \union Ends
  /\ \A p \in Ends : p \notin TargetPhases
BY DEF TargetPhases, Ends, EmitPhases

\* In the phases of targets and at the end nothing is asked of what is printed.
LEMMA NothingPrinted ==
  ASSUME phase' \notin EmitPhases
  PROVE  Unprinted' /\ Emitted'
BY DEF Unprinted, Emitted, EmitPhases

LEMMA TargetsKeep ==
  ASSUME MInv, TargetsNext, UNCHANGED <<blocks, lines>>
  PROVE  MInv'
<1>1. Typed'
  BY TargetsTyped DEF MInv
<1>2. /\ phase \in TargetPhases
      /\ \/ phase' \in TargetPhases \union Ends
         \/ phase' = "merge_blocks" /\ at' = Start
  BY TargetsPhases
<1>3. blocks' = << >> /\ DOMAIN blocks' = {}
  <2>1. blocks = << >>
    BY <1>2 DEF MInv, Mergers
  <2>2. DOMAIN << >> = {}
    OBVIOUS
  <2>3. QED
    BY <2>1, <2>2
<1>4. Mergers'
  BY <1>3 DEF Mergers
<1>5. OneBuilt'
  <2>1. phase' \notin {"emit_test", "emit_headers", "emit_built_sources"}
    BY <1>2, PhasesDiffer DEF EmitPhases
  <2>2. phase' = "merge_blocks" => at' = Start
    BY <1>2, PhasesDiffer
  <2>3. ASSUME NEW t \in DOMAIN doc', NEW s \in DOMAIN doc'[t].body, phase' = "merge_blocks"
        PROVE  ~Before(at', t, s)
    <3>1. doc' \in Docs /\ at' = Start
      BY <1>1, <2>2, <2>3 DEF Typed
    <3>2. t \in Nat \ {0} /\ s \in Nat \ {0}
      <4>1. t \in 1..Len(doc') /\ doc'[t] \in WordBlocks
        BY <3>1, DocFields
      <4>2. s \in 1..Len(doc'[t].body)
        BY <4>1, BlockFields
      <4>3. QED
        BY <4>1, <4>2
    <3>3. QED
      BY <3>1, <3>2 DEF Before, Start
  <2>4. QED
    BY <2>1, <2>3 DEF OneBuilt
<1>6. phase' \notin EmitPhases
  BY <1>2, PhasesDiffer
<1>7. QED
  BY <1>1, <1>4, <1>5, <1>6, NothingPrinted DEF MInv

-----------------------------------------------------------------------------
\* The steps of merge_blocks.
LEMMA Indices ==
  ASSUME doc \in Docs, NEW t \in DOMAIN doc, NEW s \in DOMAIN doc[t].body
  PROVE  t \in Nat \ {0} /\ s \in Nat \ {0} /\ t \in 1..Len(doc) /\ s \in 1..Len(doc[t].body)
         /\ Len(doc) \in Nat /\ Len(doc[t].body) \in Nat /\ doc[t].body[s] \in WordSections
<1>1. t \in 1..Len(doc) /\ Len(doc) \in Nat /\ doc[t] \in WordBlocks
  BY DocFields
<1>2. s \in 1..Len(doc[t].body) /\ Len(doc[t].body) \in Nat /\ doc[t].body[s] \in WordSections
  BY <1>1, BlockFields
<1>3. QED
  BY <1>1, <1>2

LEMMA BehindSection ==
  ASSUME doc \in Docs, at \in Positions, InSection,
         NEW t \in DOMAIN doc, NEW s \in DOMAIN doc[t].body
  PROVE  Before(NextSection, t, s) <=> Before(at, t, s) \/ (t = at.t /\ s = at.s)
<1>1. at.t \in Nat /\ at.s \in Nat /\ t \in Nat /\ s \in Nat
  BY PositionFields, Indices
<1>2. NextSection.t = at.t /\ NextSection.s = at.s + 1
  BY DEF NextSection, Positions
<1>3. QED
  BY <1>1, <1>2 DEF Before

LEMMA BehindBlock ==
  ASSUME doc \in Docs, at \in Positions, InDocument, ~InSection,
         NEW t \in DOMAIN doc, NEW s \in DOMAIN doc[t].body
  PROVE  Before(NextBlock, t, s) <=> Before(at, t, s)
<1>1. at.t \in Nat /\ at.s \in Nat /\ t \in Nat \ {0} /\ s \in Nat \ {0}
      /\ s \in 1..Len(doc[t].body) /\ Len(doc[t].body) \in Nat
  BY PositionFields, Indices
<1>2. NextBlock.t = at.t + 1 /\ NextBlock.s = 1
  BY DEF NextBlock, Start
<1>3. t = at.t => s < at.s
  <2>1. Block = doc[at.t] /\ ~(at.s <= Len(Block.body))
    BY Here DEF InSection
  <2>2. QED
    BY <1>1, <2>1
<1>4. QED
  BY <1>1, <1>2, <1>3 DEF Before

LEMMA EnterKeeps ==
  ASSUME MInv, EnterBlock
  PROVE  MInv'
<1>1. /\ doc \in Docs /\ at \in Positions /\ phase = "merge_blocks"
      /\ doc' = doc /\ phase' = phase /\ at' = [at EXCEPT !.i = 2] /\ calls' = calls
  BY DEF MInv, Typed, EnterBlock
<1>2. Typed'
  BY <1>1, PositionFields DEF Typed
<1>3. /\ DOMAIN blocks' \subseteq DOMAIN blocks
      /\ \A b \in DOMAIN blocks' : blocks'[b] = blocks[b]
      /\ \A b \in DOMAIN blocks : Kept(b[1]) => b \in DOMAIN blocks'
  BY DEF EnterBlock
<1>4. Mergers'
  <2>1. \A b \in DOMAIN blocks' :
          blocks'[b][1] \in DOMAIN doc /\ blocks'[b][2] \in DOMAIN doc[blocks'[b][1]].body
    BY <1>1, <1>3 DEF MInv, Mergers
  <2>2. phase \notin TargetPhases
    BY <1>1, PhasesDiffer
  <2>3. QED
    BY <1>1, <2>1, <2>2 DEF Mergers
<1>5. OneBuilt'
  <2>1. Kept(BuiltSlot[1])
    BY DEF Kept, BuiltSlot
  <2>2. \A t, s : Remembered(blocks, t, s) => Remembered(blocks', t, s)
    BY <1>3, <2>1 DEF Remembered
  <2>3. \A t, s : Before(at', t, s) <=> Before(at, t, s)
    BY <1>1 DEF Before, Positions
  <2>4. QED
    BY <1>1, <2>2, <2>3 DEF MInv, OneBuilt
<1>6. phase' \notin EmitPhases
  BY <1>1, PhasesDiffer
<1>7. QED
  BY <1>2, <1>4, <1>5, <1>6, NothingPrinted DEF MInv

LEMMA LeaveKeeps ==
  ASSUME MInv, LeaveBlock
  PROVE  MInv'
<1>1. /\ doc \in Docs /\ at \in Positions /\ phase = "merge_blocks" /\ InDocument /\ ~InSection
      /\ doc' = doc /\ phase' = phase /\ at' = NextBlock /\ calls' = calls /\ blocks' = blocks
  BY DEF MInv, Typed, LeaveBlock, Entered
<1>2. Typed'
  BY <1>1, PositionFields DEF Typed
<1>3. Mergers'
  BY <1>1 DEF MInv, Mergers
<1>4. OneBuilt'
  <2>1. \A t \in DOMAIN doc : \A s \in DOMAIN doc[t].body : Before(at', t, s) <=> Before(at, t, s)
    BY <1>1, BehindBlock
  <2>2. QED
    BY <1>1, <2>1 DEF MInv, OneBuilt
<1>5. phase' \notin EmitPhases
  BY <1>1, PhasesDiffer
<1>6. QED
  BY <1>2, <1>3, <1>4, <1>5, NothingPrinted DEF MInv

LEMMA PassKeeps ==
  ASSUME MInv, PassSection
  PROVE  MInv'
<1>1. /\ doc \in Docs /\ at \in Positions /\ phase = "merge_blocks" /\ InSection /\ LeftAlone
      /\ doc' = doc /\ phase' = phase /\ at' = NextSection /\ calls' = calls /\ blocks' = blocks
  BY DEF MInv, Typed, PassSection, Entered
<1>2. Typed'
  BY <1>1, PositionFields DEF Typed
<1>3. Mergers'
  BY <1>1 DEF MInv, Mergers
<1>4. OneBuilt'
  <2>1. \A t \in DOMAIN doc : \A s \in DOMAIN doc[t].body :
          Before(at', t, s) <=> Before(at, t, s) \/ (t = at.t /\ s = at.s)
    BY <1>1, BehindSection
  <2>2. doc[at.t].body[at.s].kind # "built"
    BY <1>1, Here DEF LeftAlone
  <2>3. QED
    BY <1>1, <2>1, <2>2 DEF MInv, OneBuilt
<1>5. phase' \notin EmitPhases
  BY <1>1, PhasesDiffer
<1>6. QED
  BY <1>2, <1>3, <1>4, <1>5, NothingPrinted DEF MInv

LEMMA DropKeeps ==
  ASSUME MInv, DropFlags
  PROVE  MInv'
<1>1. /\ doc \in Docs /\ at \in Positions /\ phase = "merge_blocks" /\ InSection
      /\ Section.kind = "flags" /\ doc' = Without(doc, at.t, at.s)
      /\ phase' = phase /\ at' = NextSection /\ calls' = calls /\ blocks' = blocks
  BY DEF MInv, Typed, DropFlags, Entered, Without
<1>2. at.t \in DOMAIN doc /\ at.s \in DOMAIN doc[at.t].body /\ doc[at.t].body[at.s].kind = "flags"
  BY <1>1, Here
<1>3. /\ doc' \in Docs /\ DOMAIN doc' = DOMAIN doc /\ Len(doc') = Len(doc)
      /\ \A u \in DOMAIN doc : DOMAIN doc'[u].body = DOMAIN doc[u].body
      /\ \A u \in DOMAIN doc : \A r \in DOMAIN doc[u].body :
           doc'[u].body[r].kind = IF u = at.t /\ r = at.s THEN "none" ELSE doc[u].body[r].kind
  BY <1>1, <1>2, RemovedFrom
<1>4. Typed'
  BY <1>1, <1>3, PositionFields DEF Typed
<1>5. Mergers'
  <2>1. \A b \in DOMAIN blocks :
          blocks[b][1] \in DOMAIN doc /\ blocks[b][2] \in DOMAIN doc[blocks[b][1]].body
    BY <1>1 DEF MInv, Mergers
  <2>2. phase \notin TargetPhases
    BY <1>1, PhasesDiffer
  <2>3. QED
    BY <1>1, <1>3, <2>1, <2>2 DEF Mergers
<1>6. OneBuilt'
  <2>1. ASSUME NEW t \in DOMAIN doc, NEW s \in DOMAIN doc[t].body,
               doc'[t].body[s].kind = "built", Before(at', t, s)
        PROVE  Remembered(blocks', t, s)
    <3>1. ~(t = at.t /\ s = at.s) /\ doc[t].body[s].kind = "built"
      BY <1>3, <2>1
    <3>2. Before(at, t, s)
      BY <1>1, <2>1, <3>1, BehindSection
    <3>3. QED
      BY <1>1, <3>1, <3>2 DEF MInv, OneBuilt
  <2>2. phase' = "merge_blocks"
    BY <1>1
  <2>3. QED
    BY <1>3, <2>1, <2>2 DEF OneBuilt
<1>7. phase' \notin EmitPhases
  BY <1>1, PhasesDiffer
<1>8. QED
  BY <1>4, <1>5, <1>6, <1>7, NothingPrinted DEF MInv

\* The slot of a section of files to build first.
LEMMA SlotOfBuilt ==
  ASSUME doc \in Docs, at \in Positions, InSection
  PROVE  (Section.kind = "built" => Slot = BuiltSlot) /\ (Slot = BuiltSlot => Section.kind = "built")
<1>1. Section \in WordSections
  BY Here
<1>2. Section.kind = "built" => Section.key = "" /\ Section.cond = ""
  BY <1>1, SectionFields
<1>3. QED
  BY <1>2 DEF Slot, BuiltSlot

LEMMA RememberKeeps ==
  ASSUME MInv, Remember
  PROVE  MInv'
<1> DEFINE here == <<at.t, at.s>>
<1>1. /\ doc \in Docs /\ at \in Positions /\ phase = "merge_blocks" /\ InSection
      /\ Slot \notin DOMAIN blocks
      /\ blocks' = [b \in DOMAIN blocks \union {Slot} |-> IF b = Slot THEN here ELSE blocks[b]]
      /\ doc' = doc /\ phase' = phase /\ at' = NextSection /\ calls' = calls
  BY DEF MInv, Typed, Remember, Mergeable, Entered
<1>2. at.t \in DOMAIN doc /\ at.s \in DOMAIN doc[at.t].body /\ Section = doc[at.t].body[at.s]
  BY <1>1, Here
<1> HIDE DEF here
<1>3. /\ DOMAIN blocks' = DOMAIN blocks \union {Slot}
      /\ blocks'[Slot] = here
      /\ \A b \in DOMAIN blocks : blocks'[b] = blocks[b]
  <2> DEFINE slot == Slot
  <2>1. slot \notin DOMAIN blocks
        /\ blocks' = [b \in DOMAIN blocks \union {slot} |-> IF b = slot THEN here ELSE blocks[b]]
    BY <1>1
  <2> HIDE DEF slot
  <2>2. /\ DOMAIN blocks' = DOMAIN blocks \union {slot}
        /\ blocks'[slot] = here
        /\ \A b \in DOMAIN blocks : blocks'[b] = blocks[b]
    BY <2>1
  <2>3. QED
    BY <2>2 DEF slot
<1>4. Typed'
  BY <1>1, PositionFields DEF Typed
<1>5. Mergers'
  <2>1. \A b \in DOMAIN blocks :
          blocks[b][1] \in DOMAIN doc /\ blocks[b][2] \in DOMAIN doc[blocks[b][1]].body
    BY <1>1 DEF MInv, Mergers
  <2>2. here[1] = at.t /\ here[2] = at.s
    BY DEF here
  <2>3. phase \notin TargetPhases
    BY <1>1, PhasesDiffer
  <2> DEFINE slot == Slot
  <2>4. ASSUME NEW b \in DOMAIN blocks'
        PROVE  blocks'[b][1] \in DOMAIN doc /\ blocks'[b][2] \in DOMAIN doc[blocks'[b][1]].body
    <3>1. CASE b = slot
      BY <1>2, <1>3, <2>2, <3>1
    <3>2. CASE b \in DOMAIN blocks
      BY <1>3, <2>1, <3>2
    <3>3. QED
      BY <1>3, <2>4, <3>1, <3>2
  <2>5. QED
    BY <1>1, <2>3, <2>4 DEF Mergers
<1>6. OneBuilt'
  <2>1. ASSUME NEW t \in DOMAIN doc, NEW s \in DOMAIN doc[t].body,
               doc[t].body[s].kind = "built", Before(at', t, s)
        PROVE  Remembered(blocks', t, s)
    <3>1. Before(at, t, s) \/ (t = at.t /\ s = at.s)
      BY <1>1, <2>1, BehindSection
    <3>2. CASE Before(at, t, s)
      <4>1. Remembered(blocks, t, s)
        BY <1>1, <2>1, <3>2 DEF MInv, OneBuilt
      <4>2. QED
        BY <1>3, <4>1 DEF Remembered
    <3>3. CASE t = at.t /\ s = at.s
      <4>1. Slot = BuiltSlot
        BY <1>1, <1>2, <2>1, <3>3, SlotOfBuilt
      <4>2. BuiltSlot \in DOMAIN blocks' /\ blocks'[BuiltSlot] = <<t, s>>
        BY <1>3, <3>3, <4>1 DEF here
      <4>3. QED
        BY <4>2 DEF Remembered
    <3>4. QED
      BY <3>1, <3>2, <3>3
  <2>2. QED
    BY <1>1, <2>1 DEF OneBuilt
<1>7. phase' \notin EmitPhases
  BY <1>1, PhasesDiffer
<1>8. QED
  BY <1>4, <1>5, <1>6, <1>7, NothingPrinted DEF MInv

LEMMA MergeKeeps ==
  ASSUME MInv, Merge
  PROVE  MInv'
<1> DEFINE into == blocks[Slot]
<1>1. /\ doc \in Docs /\ at \in Positions /\ phase = "merge_blocks" /\ InSection
      /\ Slot \in DOMAIN blocks /\ calls' = calls /\ blocks' = blocks /\ Section.kind # "install"
  BY DEF MInv, Typed, Merge, Mergeable, Entered, LeftAlone
<1>2. into[1] \in DOMAIN doc /\ into[2] \in DOMAIN doc[into[1]].body
  BY <1>1 DEF MInv, Mergers
<1>3. CASE phase' = "thrown" /\ doc' = doc /\ at' = at
  <2>1. Typed'
    BY <1>1, <1>3 DEF Typed
  <2>2. Mergers' /\ OneBuilt'
    BY <1>3, PhasesDiffer DEF Mergers, OneBuilt, Ends
  <2>3. phase' \notin EmitPhases
    BY <1>3, PhasesDiffer DEF Ends
  <2>4. QED
    BY <2>1, <2>2, <2>3, NothingPrinted DEF MInv
<1>4. CASE doc' = Merged(into) /\ at' = NextSection /\ phase' = phase
  <2> HIDE DEF into
  <2>1. /\ doc' \in Docs /\ DOMAIN doc' = DOMAIN doc /\ Len(doc') = Len(doc)
        /\ \A u \in DOMAIN doc : DOMAIN doc'[u].body = DOMAIN doc[u].body
        /\ \A u \in DOMAIN doc : \A r \in DOMAIN doc[u].body :
             doc'[u].body[r].kind = IF u = at.t /\ r = at.s THEN "none" ELSE doc[u].body[r].kind
    BY <1>1, <1>2, <1>4, MergedTyped
  <2>2. Typed'
    BY <1>1, <1>4, <2>1, PositionFields DEF Typed
  <2>3. Mergers'
    <3>1. \A b \in DOMAIN blocks :
            blocks[b][1] \in DOMAIN doc /\ blocks[b][2] \in DOMAIN doc[blocks[b][1]].body
      BY <1>1 DEF MInv, Mergers
    <3>2. phase \notin TargetPhases
      BY <1>1, PhasesDiffer
    <3>3. QED
      BY <1>1, <1>4, <2>1, <3>1, <3>2 DEF Mergers
  <2>4. ASSUME NEW t \in DOMAIN doc, NEW s \in DOMAIN doc[t].body,
               doc'[t].body[s].kind = "built", Before(at', t, s)
        PROVE  Remembered(blocks', t, s)
    <3>1. ~(t = at.t /\ s = at.s) /\ doc[t].body[s].kind = "built"
      BY <2>1, <2>4
    <3>2. Before(at, t, s)
      BY <1>1, <1>4, <2>4, <3>1, BehindSection
    <3>3. QED
      BY <1>1, <3>1, <3>2 DEF MInv, OneBuilt
  <2>5. OneBuilt'
    BY <1>1, <1>4, <2>1, <2>4 DEF OneBuilt
  <2>6. phase' \notin EmitPhases
    BY <1>1, <1>4, PhasesDiffer
  <2>7. QED
    BY <2>2, <2>3, <2>5, <2>6, NothingPrinted DEF MInv
<1>5. \/ phase' = "thrown" /\ doc' = doc /\ at' = at
      \/ doc' = Merged(into) /\ at' = NextSection /\ phase' = phase
  BY DEF Merge
<1>6. QED
  BY <1>3, <1>4, <1>5

-----------------------------------------------------------------------------
\* The visitors of emit.
LEMMA Emits ==
  /\ Emitting <=> phase \in {"emit_test", "emit_headers", "emit_built_sources", "emit_link",
                             "emit_flags", "emit_SOURCES"}
  /\ Emitting => /\ phase \in EmitPhases
                 /\ phase \notin {"emit_targets", "merge_blocks", "inheritance", "done"} \union TargetPhases
<1>1. Range(EmitOrder) = {"merge_blocks", "emit_test", "emit_headers", "emit_built_sources",
                          "emit_targets", "emit_link", "emit_flags", "emit_SOURCES", "done"}
  <2>1. DOMAIN EmitOrder = {1, 2, 3, 4, 5, 6, 7, 8, 9}
    BY DEF EmitOrder
  <2>2. /\ EmitOrder[1] = "merge_blocks" /\ EmitOrder[2] = "emit_test" /\ EmitOrder[3] = "emit_headers"
        /\ EmitOrder[4] = "emit_built_sources" /\ EmitOrder[5] = "emit_targets"
        /\ EmitOrder[6] = "emit_link" /\ EmitOrder[7] = "emit_flags"
        /\ EmitOrder[8] = "emit_SOURCES" /\ EmitOrder[9] = "done"
    BY DEF EmitOrder
  <2>3. Range(EmitOrder) = {EmitOrder[k] : k \in {1, 2, 3, 4, 5, 6, 7, 8, 9}}
    BY <2>1 DEF Range
  <2>4. QED
    BY <2>2, <2>3
<1>2. Emitting <=> phase \in {"emit_test", "emit_headers", "emit_built_sources", "emit_link",
                              "emit_flags", "emit_SOURCES"}
  BY <1>1 DEF Emitting
<1>3. QED
  BY <1>2 DEF EmitPhases, TargetPhases

\* A variable has one name, and what has none is none of these.
LEMMA SameName ==
  ASSUME NEW x, NEW y
  PROVE  /\ x.var = y.var => Name(x) = Name(y)
         /\ Nameless(x) => Name(x) \notin {"BUILT_SOURCES", "PROGRAMS", "LTLIBRARIES"}
<1>1. "" # "BUILT_SOURCES" /\ "" # "PROGRAMS" /\ "" # "LTLIBRARIES"
  BY Zenon
<1>2. QED
  BY Zenon, <1>1 DEF Name, Nameless

\* A section that is printed.
LEMMA PrintKeeps ==
  ASSUME MInv, EmitSection, InSection, ~NoDirectory
  PROVE  MInv'
<1>1. /\ doc \in Docs /\ at \in Positions /\ Emitting /\ doc' = doc /\ phase' = phase
      /\ at' = NextSection /\ blocks' = blocks /\ lines' = lines \o Text
  BY DEF MInv, Typed, EmitSection
<1>2. /\ phase \in EmitPhases
      /\ phase \notin {"emit_targets", "merge_blocks", "inheritance", "done"} \union TargetPhases
  BY <1>1, Emits
<1>3. Typed'
  BY <1>1, <1>2, PositionFields DEF Typed
<1>4. Mergers'
  BY <1>1, <1>2 DEF Mergers
<1>5. OneBuilt'
  BY <1>1, <1>2 DEF MInv, OneBuilt
<1>6. at.t \in DOMAIN doc /\ at.s \in DOMAIN doc[at.t].body /\ Section = doc[at.t].body[at.s]
  BY <1>1, Here
<1>7. \A t \in DOMAIN doc : \A s \in DOMAIN doc[t].body :
        Before(at', t, s) <=> Before(at, t, s) \/ (t = at.t /\ s = at.s)
  BY <1>1, BehindSection
<1>8. Readable(lines)
  BY <1>2 DEF MInv, Emitted
<1>9. ASSUME phase = "emit_built_sources", Section.kind = "built"
      PROVE  \A k \in Range(lines) : Name(k) # "BUILT_SOURCES"
  <2> SUFFICES ASSUME BuiltBehind PROVE FALSE
    BY <1>9 DEF MInv, Unprinted
  <2>0. PICK t \in DOMAIN doc : \E s \in DOMAIN doc[t].body :
          doc[t].body[s].kind = "built" /\ Before(at, t, s)
    BY DEF BuiltBehind
  <2>1. PICK s \in DOMAIN doc[t].body : doc[t].body[s].kind = "built" /\ Before(at, t, s)
    BY <2>0
  <2>2. Remembered(blocks, t, s) /\ Remembered(blocks, at.t, at.s)
    BY <1>6, <1>9, <2>1 DEF MInv, OneBuilt
  <2>3. t = at.t /\ s = at.s
    BY <2>2 DEF Remembered
  <2>4. at.t \in Nat /\ at.s \in Nat
    BY <1>1, PositionFields
  <2>5. QED
    BY <2>1, <2>3, <2>4 DEF Before
<1>10. BuiltBehind => BuiltBehind'
  BY <1>1, <1>7 DEF BuiltBehind
<1>11. CASE Text = << >>
  <2>1. lines' = lines
    BY <1>1, <1>8, <1>11, RowAlone DEF Readable
  <2>2. Unprinted'
    BY <1>1, <1>2, <1>10, <2>1 DEF MInv, Unprinted
  <2>3. Emitted'
    BY <1>1, <1>8, <2>1 DEF Emitted
  <2>4. QED
    BY <1>3, <1>4, <1>5, <2>2, <2>3 DEF MInv
<1>12. ASSUME NEW l, Fine(Text, l), phase = "emit_test" => Name(l) = "TESTS",
              phase = "emit_headers" => Name(l) \in Types,
              phase = "emit_built_sources" => Name(l) = "BUILT_SOURCES" /\ Section.kind = "built"
       PROVE  MInv'
  <2>1. /\ Readable(lines \o Text)
        /\ \A x \in Range(lines \o Text) : x \in Range(lines) \/ x.var = l.var \/ Nameless(x)
    BY <1>8, <1>12, ReadableText DEF Fine
  <2>2. Emitted'
    BY <1>1, <2>1 DEF Emitted
  <2>3. \A x \in Range(lines') : x \in Range(lines) \/ Name(x) = Name(l)
         \/ Name(x) \notin {"BUILT_SOURCES", "PROGRAMS", "LTLIBRARIES"}
    BY <1>1, <2>1, SameName
  <2>4. phase = "emit_built_sources" => BuiltBehind'
    <3>1. Section.kind = "built" => BuiltBehind'
      BY <1>1, <1>6, <1>7 DEF BuiltBehind
    <3>2. QED
      BY <1>12, <3>1
  <2>5. ASSUME NEW x \in Range(lines')
        PROVE  /\ phase \in {"emit_test", "emit_headers"} => Name(x) # "BUILT_SOURCES"
               /\ phase \in {"emit_test", "emit_headers", "emit_built_sources"} =>
                    Name(x) # "PROGRAMS" /\ Name(x) # "LTLIBRARIES"
    <3>1. /\ phase \in {"emit_test", "emit_headers"} => Name(l) # "BUILT_SOURCES"
          /\ phase \in {"emit_test", "emit_headers", "emit_built_sources"} =>
               Name(l) # "PROGRAMS" /\ Name(l) # "LTLIBRARIES"
      BY <1>12 DEF Types
    <3>2. \A k \in Range(lines) :
            /\ phase \in {"emit_test", "emit_headers"} => Name(k) # "BUILT_SOURCES"
            /\ phase \in {"emit_test", "emit_headers", "emit_built_sources"} =>
                 Name(k) # "PROGRAMS" /\ Name(k) # "LTLIBRARIES"
      BY DEF MInv, Unprinted
    <3> DEFINE name == Name(l)
    <3>3. x \in Range(lines) \/ Name(x) = name
             \/ Name(x) \notin {"BUILT_SOURCES", "PROGRAMS", "LTLIBRARIES"}
      BY <2>3
    <3> HIDE DEF name
    <3>4. QED
      BY <3>1, <3>2, <3>3 DEF name
  <2>6. Unprinted'
    BY <1>1, <1>2, <2>4, <2>5 DEF Unprinted
  <2>7. QED
    BY <1>3, <1>4, <1>5, <2>2, <2>6 DEF MInv
<1>13. QED
  BY <1>1, <1>9, <1>11, <1>12, TextShape

LEMMA EmitKeeps ==
  ASSUME MInv, EmitSection
  PROVE  MInv'
<1>1. CASE InSection /\ ~NoDirectory
  BY <1>1, PrintKeeps
<1>2. CASE InSection /\ NoDirectory
  <2>1. doc' = doc /\ at' = at /\ phase' = "crashed"
    BY <1>2 DEF EmitSection
  <2>2. phase' \notin EmitPhases /\ phase' \notin TargetPhases \union {"merge_blocks", "inheritance"}
    BY <2>1 DEF EmitPhases, TargetPhases
  <2>3. Typed' /\ Mergers'
    BY <2>1, <2>2 DEF MInv, Typed, Mergers
  <2>4. OneBuilt'
    BY <2>1 DEF OneBuilt
  <2>5. QED
    BY <2>2, <2>3, <2>4, NothingPrinted DEF MInv
<1>3. CASE ~InSection
  <2>1. /\ doc \in Docs /\ at \in Positions /\ Emitting /\ InDocument /\ doc' = doc /\ phase' = phase
        /\ at' = NextBlock /\ blocks' = blocks /\ lines' = lines
    BY <1>3 DEF MInv, Typed, EmitSection
  <2>2. /\ phase \in EmitPhases
        /\ phase \notin {"emit_targets", "merge_blocks", "inheritance", "done"} \union TargetPhases
    BY <2>1, Emits
  <2>3. Typed' /\ Mergers'
    BY <2>1, <2>2, PositionFields DEF Typed, Mergers
  <2>4. OneBuilt'
    BY <2>1, <2>2 DEF MInv, OneBuilt
  <2>5. \A t \in DOMAIN doc : \A s \in DOMAIN doc[t].body : Before(at', t, s) <=> Before(at, t, s)
    BY <1>3, <2>1, BehindBlock
  <2>6. BuiltBehind => BuiltBehind'
    BY <2>1, <2>5 DEF BuiltBehind
  <2>7. Unprinted' /\ Emitted'
    BY <2>1, <2>2, <2>6 DEF MInv, Unprinted, Emitted
  <2>8. QED
    BY <2>3, <2>4, <2>7 DEF MInv
<1>4. QED
  BY <1>1, <1>2, <1>3

-----------------------------------------------------------------------------
\* From one visitor to the next.
LEMMA Successors ==
  ASSUME NextPhase
  PROVE  /\ phase = "merge_blocks" => phase' = "emit_test"
         /\ phase = "emit_test" => phase' = "emit_headers"
         /\ phase = "emit_headers" => phase' = "emit_built_sources"
         /\ phase = "emit_built_sources" => phase' = "emit_targets"
         /\ phase = "emit_link" => phase' = "emit_flags"
         /\ phase = "emit_flags" => phase' = "emit_SOURCES"
         /\ phase = "emit_SOURCES" => phase' = "done"
<1>1. DOMAIN EmitOrder = 1..9
  BY DEF EmitOrder
<1>2. /\ EmitOrder[1] = "merge_blocks" /\ EmitOrder[2] = "emit_test" /\ EmitOrder[3] = "emit_headers"
      /\ EmitOrder[4] = "emit_built_sources" /\ EmitOrder[5] = "emit_targets"
      /\ EmitOrder[6] = "emit_link" /\ EmitOrder[7] = "emit_flags"
      /\ EmitOrder[8] = "emit_SOURCES" /\ EmitOrder[9] = "done"
  BY DEF EmitOrder
<1> DEFINE order == EmitOrder
           k == CHOOSE k \in DOMAIN order : order[k] = phase
<1>3. phase' = order[1 + k]
  BY Zenon DEF NextPhase
<1> HIDE DEF order
<1>4. (\E j \in DOMAIN order : order[j] = phase) => k \in DOMAIN order /\ order[k] = phase
  OBVIOUS
<1> HIDE DEF k
<1>5. /\ DOMAIN order = 1..9
      /\ order[1] = "merge_blocks" /\ order[2] = "emit_test" /\ order[3] = "emit_headers"
      /\ order[4] = "emit_built_sources" /\ order[5] = "emit_targets"
      /\ order[6] = "emit_link" /\ order[7] = "emit_flags"
      /\ order[8] = "emit_SOURCES" /\ order[9] = "done"
  BY <1>1, <1>2 DEF order
<1>6. ASSUME NEW j \in 1..8, order[j] = phase PROVE phase' = order[j + 1]
  <2>1. k \in 1..9 /\ order[k] = order[j]
    BY <1>4, <1>5, <1>6
  <2>2. k = j
    BY <1>5, <2>1
  <2>3. QED
    BY <1>3, <2>2
<1>7. QED
  BY <1>5, <1>6

\* The lines that the constructor of emit_test prints.
LEMMA TwoLines ==
  ASSUME NEW x, x \notin {"BUILT_SOURCES", "PROGRAMS", "LTLIBRARIES"},
         NEW y, NEW z, y # z, NEW none
  PROVE  /\ Readable(Set(<<x, y>>, none) \o Set(<<x, z>>, none))
         /\ \A k \in Range(Set(<<x, y>>, none) \o Set(<<x, z>>, none)) :
              Name(k) \notin {"BUILT_SOURCES", "PROGRAMS", "LTLIBRARIES"}
<1> DEFINE v == <<x, y>>
           w == <<x, z>>
           l == [op |-> "=", var |-> v, vals |-> none]
           m == [op |-> "=", var |-> w, vals |-> none]
<1>1. Set(v, none) = <<l>> /\ Set(w, none) = <<m>>
  BY DEF Set
<1>2. l.op = "=" /\ m.op = "=" /\ l.var = v /\ m.var = w
  OBVIOUS
<1>3. v # w
  OBVIOUS
<1> HIDE DEF l, m
<1>4. Name(l) = x /\ Name(m) = x
  <2>1. l.var = <<x, y>> /\ m.var = <<x, z>>
    BY <1>2
  <2>2. Name(l) = x
    BY Zenon, <2>1, NameOfVar
  <2>3. Name(m) = x
    BY Zenon, <2>1, NameOfVar
  <2>4. QED
    BY <2>2, <2>3
<1> HIDE DEF v, w
<1>5. /\ IsRow(<< >>) /\ Range(<< >>) = {} /\ DOMAIN << >> = {}
      /\ IsRow(<<l>>) /\ Range(<<l>>) = {l} /\ Len(<<l>>) = 1
      /\ IsRow(<<m>>) /\ Range(<<m>>) = {m} /\ Len(<<m>>) = 1
  BY ShortRows
<1>6. Readable(<< >>)
  BY <1>5, LevelNone DEF Readable, Signed
<1>7. RightSign(l, << >>) /\ RightSign(m, <<l>>)
  <2>1. Sign(l.var, << >>) = "=" /\ Sign(m.var, <<l>>) = "="
    BY <1>2, <1>3, <1>5 DEF Sign
  <2>2. QED
    BY Zenon, <1>2, <2>1 DEF RightSign
<1>8. Paired(<<l>>, l) /\ Paired(<<m>>, m)
  BY <1>2, PairedLine
<1>9. Readable(<<l>>)
  <2>1. Readable(<< >> \o <<l>>)
    BY <1>5, <1>6, <1>7, <1>8, ReadableText
  <2>2. << >> \o <<l>> = <<l>>
    BY <1>5, RowAlone
  <2>3. QED
    BY <2>1, <2>2
<1>10. Readable(<<l>> \o <<m>>)
  BY <1>5, <1>7, <1>8, <1>9, ReadableText
<1>11. Range(<<l>> \o <<m>>) = {l} \union {m}
  BY <1>5, RowsJoined
<1>12. \A k \in Range(<<l>> \o <<m>>) : Name(k) = x
  BY <1>4, <1>11
<1>13. QED
  BY <1>1, <1>10, <1>12 DEF v, w

LEMMA NextKeeps ==
  ASSUME MInv, NextPhase
  PROVE  MInv'
<1>1. /\ doc \in Docs /\ at \in Positions /\ doc' = doc /\ at' = Start /\ blocks' = blocks
      /\ ~InDocument
      /\ Emitting \/ phase = "merge_blocks"
  BY Zenon DEF MInv, Typed, NextPhase
<1>2. phase \in {"merge_blocks", "emit_test", "emit_headers", "emit_built_sources", "emit_link",
                 "emit_flags", "emit_SOURCES"}
  BY <1>1, Emits
<1>3. /\ phase = "merge_blocks" => phase' = "emit_test"
      /\ phase = "emit_test" => phase' = "emit_headers"
      /\ phase = "emit_headers" => phase' = "emit_built_sources"
      /\ phase = "emit_built_sources" => phase' = "emit_targets"
      /\ phase \in {"emit_link", "emit_flags", "emit_SOURCES"} =>
           phase' \in {"emit_flags", "emit_SOURCES", "done"}
  BY Successors
<1>4. phase' \in EmitPhases /\ phase' \notin TargetPhases \union {"merge_blocks", "inheritance"}
  BY <1>2, <1>3 DEF EmitPhases, TargetPhases
<1>5. Typed' /\ Mergers'
  BY <1>1, <1>4, PositionFields DEF Typed, Mergers
<1>6. OneBuilt'
  <2>1. ASSUME NEW t \in DOMAIN doc, NEW s \in DOMAIN doc[t].body PROVE Before(at, t, s)
    <3>1. t \in 1..Len(doc) /\ Len(doc) \in Nat /\ at.t \in Nat
      BY <1>1, Indices, PositionFields
    <3>2. ~(at.t <= Len(doc))
      BY <1>1 DEF InDocument
    <3>3. QED
      BY <3>1, <3>2 DEF Before
  <2>2. CASE phase \in {"merge_blocks", "emit_test", "emit_headers"}
    BY <1>1, <1>4, <2>1, <2>2 DEF MInv, OneBuilt
  <2>3. CASE phase \notin {"merge_blocks", "emit_test", "emit_headers"}
    BY <1>2, <1>3, <2>3 DEF OneBuilt
  <2>4. QED
    BY <2>2, <2>3
<1>7. CASE phase = "merge_blocks"
  <2> DEFINE none == << >>
             two == Set(<<"TESTS", "">>, none) \o Set(<<"TESTS", "XFAIL">>, none)
  <2>1. lines' = two
    BY Zenon, <1>7 DEF NextPhase
  <2>2. "" # "XFAIL" /\ "TESTS" \notin {"BUILT_SOURCES", "PROGRAMS", "LTLIBRARIES"}
    BY Zenon
  <2> HIDE DEF none
  <2>3. Readable(two) /\ \A k \in Range(two) : Name(k) \notin {"BUILT_SOURCES", "PROGRAMS", "LTLIBRARIES"}
    BY Zenon, <2>2, TwoLines
  <2> HIDE DEF two
  <2>4. phase' = "emit_test"
    BY <1>3, <1>7
  <2>5. Unprinted' /\ Emitted'
    BY <2>1, <2>3, <2>4 DEF Unprinted, Emitted
  <2>6. QED
    BY <1>5, <1>6, <2>5 DEF MInv
<1>8. CASE phase # "merge_blocks"
  <2>1. lines' = lines
    BY <1>8 DEF NextPhase
  <2>2. phase \in EmitPhases
    BY <1>2, <1>8 DEF EmitPhases
  <2>3. Emitted'
    BY <2>1, <2>2 DEF MInv, Emitted
  <2>4. at'.s = 1
    BY <1>1 DEF Start
  <2>5. ASSUME NEW l \in Range(lines)
        PROVE  /\ phase' = "emit_headers" => Name(l) # "BUILT_SOURCES"
               /\ phase' = "emit_built_sources" => Name(l) # "BUILT_SOURCES"
               /\ phase' \in {"emit_headers", "emit_built_sources", "emit_targets"} =>
                    Name(l) # "PROGRAMS" /\ Name(l) # "LTLIBRARIES"
               /\ phase' # "emit_test"
    BY <1>2, <1>3, <1>8 DEF MInv, Unprinted
  <2>6. Unprinted'
    BY <2>1, <2>4, <2>5 DEF Unprinted
  <2>7. QED
    BY <1>5, <1>6, <2>3, <2>6 DEF MInv
<1>9. QED
  BY <1>7, <1>8

-----------------------------------------------------------------------------
\* What is listed is finite.
LEMMA FiniteRange ==
  ASSUME NEW D, IsFiniteSet(D), NEW T, NEW f \in [D -> T]
  PROVE  IsFiniteSet({f[x] : x \in D})
<1> DEFINE R == {f[x] : x \in D}
<1>1. f \in [D -> R] /\ \A y \in R : \E x \in D : f[x] = y
  OBVIOUS
<1> HIDE DEF R
<1>2. f \in Surjection(D, R)
  BY <1>1 DEF Surjection
<1>3. IsFiniteSet(R)
  BY <1>2, FS_Surjection
<1>4. QED
  BY <1>3 DEF R

LEMMA FiniteUnion ==
  ASSUME NEW D, IsFiniteSet(D), NEW T, NEW f \in [D -> T], \A x \in D : IsFiniteSet(f[x])
  PROVE  IsFiniteSet(UNION {f[x] : x \in D})
<1>1. IsFiniteSet({f[x] : x \in D})
  BY FiniteRange
<1>2. \A y \in {f[x] : x \in D} : IsFiniteSet(y)
  OBVIOUS
<1>3. QED
  BY <1>1, <1>2, FS_UNION

LEMMA FiniteRow ==
  ASSUME NEW T, NEW s \in Seq(T)
  PROVE  IsFiniteSet(Range(s))
<1>1. s \in [1..Len(s) -> T] /\ Len(s) \in Nat /\ DOMAIN s = 1..Len(s)
  BY LenProperties
<1>2. IsFiniteSet({s[k] : k \in 1..Len(s)})
  <2> DEFINE D == 1..Len(s)
  <2>1. IsFiniteSet(D) /\ s \in [D -> T]
    BY <1>1, FS_Interval
  <2> HIDE DEF D
  <2>2. IsFiniteSet({s[k] : k \in D})
    BY <2>1, FiniteRange
  <2>3. QED
    BY <2>2 DEF D
<1>3. QED
  BY <1>1, <1>2 DEF Range

LEMMA LinkedFinite ==
  ASSUME NEW b \in WordBlocks
  PROVE  IsFiniteSet(LinkedBy(b))
<1> DEFINE D == {s \in DOMAIN b.body : b.body[s].kind = "link"}
           items == [s \in D |-> Range(b.body[s].items)]
           T == {Range(b.body[s].items) : s \in D}
           all == UNION {Range(b.body[s].items) : s \in D}
           libs == {x \in all : x.op = "lib"}
           names == [x \in libs |-> x.name]
<1>1. /\ DOMAIN b.body = 1..Len(b.body) /\ Len(b.body) \in Nat
      /\ \A s \in DOMAIN b.body : b.body[s] \in WordSections
  BY BlockFields
<1>2. IsFiniteSet(D)
  <2>1. IsFiniteSet(1..Len(b.body))
    BY <1>1, FS_Interval
  <2>2. QED
    BY <1>1, <2>1, FS_Subset
<1>3. \A s \in D : IsFiniteSet(Range(b.body[s].items))
  <2>1. \A s \in D : b.body[s].items \in Seq(WordItems)
    BY Zenon, <1>1, SectionFields
  <2>2. QED
    BY <2>1, FiniteRow
<1>4. \A s \in D : items[s] = Range(b.body[s].items)
  OBVIOUS
<1>5. all = UNION {items[s] : s \in D}
  BY <1>4
<1>6. items \in [D -> T]
  OBVIOUS
<1>7. LinkedBy(b) = {x.name : x \in libs}
  BY DEF LinkedBy
<1> HIDE DEF D, items, T
<1>8. IsFiniteSet(all)
  <2>1. \A s \in D : IsFiniteSet(items[s])
    BY <1>3, <1>4
  <2> HIDE DEF all
  <2>2. QED
    BY <1>2, <1>5, <1>6, <2>1, FiniteUnion
<1> HIDE DEF all
<1>9. IsFiniteSet(libs)
  BY <1>8, FS_Subset
<1> DEFINE N == {x.name : x \in libs}
<1>10. N = {names[x] : x \in libs} /\ names \in [libs -> N]
  OBVIOUS
<1> HIDE DEF libs, names, N
<1>11. IsFiniteSet({names[x] : x \in libs})
  <2> DEFINE C == libs
  <2>1. IsFiniteSet(C) /\ names \in [C -> N]
    BY <1>9, <1>10
  <2> HIDE DEF C
  <2>2. IsFiniteSet({names[x] : x \in C})
    BY <2>1, FiniteRange
  <2>3. QED
    BY <2>2 DEF C
<1>12. QED
  BY <1>7, <1>10, <1>11 DEF N

\* The blocks that are listed for a directory, in any order.
LEMMA GroupType ==
  ASSUME doc \in Docs, NEW kind, NEW dir
  PROVE  Group(kind, dir) \in Docs
<1> DEFINE row(t) == IF doc[t].kind = kind /\ doc[t].dest = dir THEN <<doc[t]>> ELSE << >>
           rows == [t \in DOMAIN doc |-> row(t)]
           V == Seq(WordBlocks)
<1>1. Group(kind, dir) = FlattenSeq(rows)
  BY DEF Group
<1>2. Len(doc) \in Nat /\ DOMAIN doc = 1..Len(doc) /\ \A t \in DOMAIN doc : doc[t] \in WordBlocks
  BY DocFields
<1>3. ASSUME NEW b \in WordBlocks PROVE <<b>> \in V /\ << >> \in V
  OBVIOUS
<1> HIDE DEF V
<1>4. \A t \in DOMAIN doc : row(t) \in V
  BY <1>2, <1>3
<1>5. rows \in [1..Len(doc) -> V]
  BY <1>2, <1>4
<1> HIDE DEF rows
<1>6. rows \in Seq(V)
  BY <1>2, <1>5, SeqDef
<1>7. QED
  BY <1>1, <1>6, FlattenType DEF V, Docs

LEMMA NamesFinite ==
  ASSUME NEW group \in Docs
  PROVE  IsFiniteSet(UNION {{b.name} \union LinkedBy(b) : b \in Range(group)})
<1> DEFINE D == Range(group)
           names == [b \in D |-> {b.name} \union LinkedBy(b)]
           S == UNION {{b.name} \union LinkedBy(b) : b \in Range(group)}
           T == {{b.name} \union LinkedBy(b) : b \in D}
<1>1. IsFiniteSet(D) /\ \A b \in D : b \in WordBlocks
  BY FiniteRow, DocFields DEF Docs, Range
<1>2. ASSUME NEW b \in D PROVE IsFiniteSet(names[b])
  <2>1. IsFiniteSet({b.name}) /\ IsFiniteSet(LinkedBy(b))
    BY <1>1, FS_Singleton, LinkedFinite
  <2>2. QED
    BY <2>1, FS_Union
<1>3. S = UNION {names[b] : b \in D} /\ names \in [D -> T]
  OBVIOUS
<1> HIDE DEF D, names, T
<1>4. QED
  BY <1>1, <1>2, <1>3, FiniteUnion

LEMMA OrderedType ==
  ASSUME NEW group \in Docs, NEW o \in Orders(group)
  PROVE  IsRow(InOrder(group, o))
<1> DEFINE S == UNION {{b.name} \union LinkedBy(b) : b \in Range(group)}
           n == Cardinality(S)
<1>1. o \in SetToSeqs(S)
  BY DEF Orders
<1>2. IsFiniteSet(S)
  BY NamesFinite
<1> HIDE DEF S
<1>3. n \in Nat
  BY <1>2, FS_CardinalityType
<1>4. DOMAIN o = 1..n
  BY <1>1 DEF SetToSeqs
<1> DEFINE other == [name |-> "", cond |-> ""]
           block(k) == IF \E b \in Range(group) : b.name = o[k]
                       THEN CHOOSE b \in Range(group) : b.name = o[k] ELSE other
           row == [k \in DOMAIN o |-> block(k)]
           V == {block(k) : k \in DOMAIN o}
<1>5. InOrder(group, o) = row
  BY DEF InOrder
<1> HIDE DEF other
<1>6. \A k \in DOMAIN o : block(k) \in V
  OBVIOUS
<1> HIDE DEF block, n, V
<1>7. row \in [1..n -> V]
  BY <1>4, <1>6
<1> HIDE DEF row
<1>8. row \in Seq(V)
  BY <1>3, <1>7, SeqDef
<1>9. QED
  BY <1>5, <1>8, RowOf

-----------------------------------------------------------------------------
\* The programs or the libraries of the directory that is next.
LEMMA ListingKeeps ==
  ASSUME doc \in Docs, at \in Positions, Readable(lines),
         NEW name \in {"PROGRAMS", "LTLIBRARIES"}, NEW group, IsRow(group),
         at.t <= Len(Dirs), \A l \in Range(lines) : Name(l) = name => DirBehind(name, l),
         lines' = lines \o Listing(<<name, Dirs[at.t]>>, group), at' = [at EXCEPT !.t = @ + 1]
  PROVE  /\ Readable(lines') /\ at' \in Positions /\ at'.s = at.s
         /\ \A l \in Range(lines') :
              /\ Name(l) = name => DirBehind(name, l)'
              /\ \/ l \in Range(lines) \/ Name(l) = name
                 \/ Name(l) \notin {"BUILT_SOURCES", "PROGRAMS", "LTLIBRARIES"}
<1>1. /\ at.t \in Nat \ {0} /\ at' \in Positions /\ at'.t = at.t + 1 /\ at'.s = at.s
  BY PositionFields DEF Positions
<1>2. at.t \in DOMAIN Dirs /\ DOMAIN Dirs = 1..Len(Dirs) /\ Len(Dirs) \in Nat
  <2>1. DOMAIN Dirs = 1..Len(Dirs) /\ Len(Dirs) \in Nat
    BY DirsAssumption, LenProperties
  <2>2. QED
    BY <1>1, <2>1
<1> DEFINE dir == Dirs[at.t]
           var == <<name, dir>>
<1>3. name # ""
  BY Zenon
<1>4. \A x : x.var = var => Name(x) = name /\ ~Nameless(x)
  <2>1. ASSUME NEW x, x.var = <<name, dir>> PROVE Name(x) = name /\ ~Nameless(x)
    BY Zenon, <1>3, <2>1, NameOfVar
  <2>2. QED
    BY <2>1
<1>5. ASSUME NEW x \in Range(lines) PROVE x.var # var
  <2> SUFFICES ASSUME x.var = var PROVE FALSE
    OBVIOUS
  <2>1. DirBehind(name, x)
    BY <1>4
  <2>2. PICK k \in 1..Len(Dirs) : k < at.t /\ x.var = <<name, Dirs[k]>>
    BY <2>1 DEF DirBehind
  <2>3. Dirs[k] = Dirs[at.t]
    BY <2>2
  <2>4. k = at.t
    BY <1>2, <2>3, DirsAssumption DEF IsInjective
  <2>5. QED
    BY <1>1, <2>2, <2>4
<1>6. lines' = lines \o Listing(var, group)
  OBVIOUS
<1>7. \A x : x.var = var => DirBehind(name, x)'
  BY <1>1, <1>2 DEF DirBehind
<1> HIDE DEF var, dir
<1>8. /\ Readable(lines \o Listing(var, group))
      /\ \A x \in Range(lines \o Listing(var, group)) : x \in Range(lines) \/ x.var = var \/ Nameless(x)
  <2>1. \A x : x.var = var => ~Nameless(x)
    BY <1>4
  <2>2. QED
    BY <1>5, <2>1, ListingReadable
<1>9. \A x \in Range(lines) : Name(x) = name => DirBehind(name, x)'
  <2>1. ASSUME NEW x, DirBehind(name, x) PROVE DirBehind(name, x)'
    <3>1. PICK k \in 1..Len(Dirs) : k < at.t /\ x.var = <<name, Dirs[k]>>
      BY <2>1 DEF DirBehind
    <3>2. k < at'.t
      BY <1>1, <1>2, <3>1
    <3>3. QED
      BY <3>1, <3>2 DEF DirBehind
  <2>2. QED
    BY <2>1
<1>10. ASSUME NEW x \in Range(lines')
       PROVE  /\ Name(x) = name => DirBehind(name, x)'
              /\ \/ x \in Range(lines) \/ Name(x) = name
                 \/ Name(x) \notin {"BUILT_SOURCES", "PROGRAMS", "LTLIBRARIES"}
  <2>1. CASE x \in Range(lines)
    BY <1>9, <2>1
  <2>2. CASE x.var = var
    BY <1>4, <1>7, <2>2
  <2>3. CASE Nameless(x)
    BY <2>3, SameName
  <2>4. QED
    BY <1>6, <1>8, <2>1, <2>2, <2>3
<1>11. QED
  BY <1>1, <1>6, <1>8, <1>10

\* In emit_targets nothing is asked of what merge_blocks remembers.
LEMMA TargetsPrinted ==
  ASSUME MInv, phase = "emit_targets", doc' = doc, blocks' = blocks, at' \in Positions,
         phase' \in {"emit_targets", "emit_link", "thrown"}
  PROVE  Typed' /\ Mergers' /\ OneBuilt'
BY DEF MInv, Typed, Mergers, OneBuilt, TargetPhases

LEMMA ProgramsKeep ==
  ASSUME MInv, PrintPrograms
  PROVE  MInv'
<1>1. /\ doc \in Docs /\ at \in Positions /\ phase = "emit_targets" /\ phase' = phase /\ at.s = 1
      /\ doc' = doc /\ blocks' = blocks
  BY DEF MInv, Typed, PrintPrograms
<1>2. Readable(lines)
  BY <1>1 DEF MInv, Emitted, EmitPhases
<1>3. \A l \in Range(lines) : /\ Name(l) # "LTLIBRARIES"
                              /\ Name(l) = "PROGRAMS" => DirBehind("PROGRAMS", l)
  BY <1>1 DEF MInv, Unprinted
<1>4. CASE at.t <= Len(Dirs)
  <2> DEFINE group == Group("program", Dirs[at.t])
             name == "PROGRAMS"
  <2>1. lines' = lines \o Listing(<<name, Dirs[at.t]>>, group) /\ at' = [at EXCEPT !.t = @ + 1]
    BY <1>4 DEF PrintPrograms
  <2>2. IsRow(group)
    BY <1>1, GroupType, RowOf DEF Docs
  <2>3. name \in {"PROGRAMS", "LTLIBRARIES"} /\ \A l \in Range(lines) : Name(l) = name => DirBehind(name, l)
    BY <1>3
  <2> HIDE DEF group, name
  <2>4. /\ Readable(lines') /\ at' \in Positions /\ at'.s = at.s
        /\ \A l \in Range(lines') :
             /\ Name(l) = name => DirBehind(name, l)'
             /\ \/ l \in Range(lines) \/ Name(l) = name
                \/ Name(l) \notin {"BUILT_SOURCES", "PROGRAMS", "LTLIBRARIES"}
    BY <1>1, <1>2, <1>4, <2>1, <2>2, <2>3, ListingKeeps
  <2>5. \A l \in Range(lines') : /\ Name(l) # "LTLIBRARIES"
                                 /\ Name(l) = "PROGRAMS" => DirBehind("PROGRAMS", l)'
    BY <1>3, <2>4 DEF name
  <2>6. Unprinted' /\ Emitted'
    BY <1>1, <2>4, <2>5 DEF Unprinted, Emitted
  <2>7. QED
    BY <1>1, <2>4, <2>6, TargetsPrinted DEF MInv
<1>5. CASE ~(at.t <= Len(Dirs))
  <2>1. at' = [Start EXCEPT !.s = 2] /\ lines' = lines
    BY <1>5 DEF PrintPrograms
  <2>2. at' \in Positions /\ at'.s = 2
    BY <1>1, <2>1, PositionFields DEF Start
  <2>3. Unprinted' /\ Emitted'
    BY <1>1, <1>2, <1>3, <2>1, <2>2 DEF Unprinted, Emitted
  <2>4. QED
    BY <1>1, <2>2, <2>3, TargetsPrinted DEF MInv
<1>6. QED
  BY <1>4, <1>5

LEMMA LibrariesKeep ==
  ASSUME MInv, PrintLibraries
  PROVE  MInv'
<1>1. /\ doc \in Docs /\ at \in Positions /\ phase = "emit_targets" /\ at.s = 2 /\ at.t <= Len(Dirs)
      /\ doc' = doc /\ blocks' = blocks
  BY DEF MInv, Typed, PrintLibraries
<1>2. Readable(lines)
  BY <1>1 DEF MInv, Emitted, EmitPhases
<1>3. \A l \in Range(lines) : Name(l) = "LTLIBRARIES" => DirBehind("LTLIBRARIES", l)
  BY <1>1 DEF MInv, Unprinted
<1> DEFINE group == Group("library", Dirs[at.t])
<1>4. group \in Docs /\ IsRow(group)
  BY <1>1, GroupType, RowOf DEF Docs
<1>5. ASSUME NEW g, IsRow(g), lines' = lines \o Listing(<<"LTLIBRARIES", Dirs[at.t]>>, g),
             at' = [at EXCEPT !.t = @ + 1], phase' = phase
      PROVE  MInv'
  <2> DEFINE name == "LTLIBRARIES"
  <2>1. /\ name \in {"PROGRAMS", "LTLIBRARIES"}
        /\ \A l \in Range(lines) : Name(l) = name => DirBehind(name, l)
        /\ lines' = lines \o Listing(<<name, Dirs[at.t]>>, g)
    BY <1>3, <1>5
  <2> HIDE DEF name
  <2>2. /\ Readable(lines') /\ at' \in Positions /\ at'.s = at.s
        /\ \A l \in Range(lines') : Name(l) = name => DirBehind(name, l)'
    BY <1>1, <1>2, <1>5, <2>1, ListingKeeps
  <2>3. \A l \in Range(lines') : Name(l) = "LTLIBRARIES" => DirBehind("LTLIBRARIES", l)'
    BY <2>2 DEF name
  <2>4. Unprinted' /\ Emitted'
    <3>1. phase' = "emit_targets" /\ at'.s = 2
      BY <1>1, <1>5, <2>2
    <3>2. Unprinted'
      BY <3>1, <2>3 DEF Unprinted
    <3>3. QED
      BY <2>2, <3>2 DEF Emitted
  <2>5. QED
    BY <1>1, <1>5, <2>2, <2>4, TargetsPrinted DEF MInv
<1>6. CASE phase' = "thrown" /\ at' = at /\ lines' = lines
  <2>1. phase' \notin EmitPhases
    BY <1>6 DEF EmitPhases
  <2>2. QED
    BY <1>1, <1>6, <2>1, NothingPrinted, TargetsPrinted DEF MInv
<1>7. \/ phase' = "thrown" /\ at' = at /\ lines' = lines
      \/ \E g \in {group} \union {InOrder(group, o) : o \in Orders(group)} :
           /\ lines' = lines \o Listing(<<"LTLIBRARIES", Dirs[at.t]>>, g)
           /\ at' = [at EXCEPT !.t = @ + 1] /\ phase' = phase
  BY DEF PrintLibraries
<1> HIDE DEF group
<1>8. \A g \in {group} \union {InOrder(group, o) : o \in Orders(group)} : IsRow(g)
  BY <1>4, OrderedType
<1>9. QED
  BY <1>5, <1>6, <1>7, <1>8

LEMMA FinishKeeps ==
  ASSUME MInv, FinishTargets
  PROVE  MInv'
<1>1. /\ doc \in Docs /\ at \in Positions /\ phase = "emit_targets" /\ phase' = "emit_link"
      /\ at' = Start /\ doc' = doc /\ blocks' = blocks /\ lines' = lines
  BY DEF MInv, Typed, FinishTargets
<1>2. Typed' /\ Mergers' /\ OneBuilt'
  BY <1>1, PositionFields, TargetsPrinted
<1>3. Readable(lines)
  BY <1>1 DEF MInv, Emitted, EmitPhases
<1>4. Unprinted' /\ Emitted'
  BY <1>1, <1>3 DEF Unprinted, Emitted
<1>5. QED
  BY <1>2, <1>4 DEF MInv

-----------------------------------------------------------------------------
LEMMA InvAtFirst == Init => MInv
<1> SUFFICES ASSUME Init PROVE MInv
  OBVIOUS
<1>1. doc \in Projects /\ phase = "imports" /\ at = Start /\ blocks = << >> /\ lines = << >>
  BY DEF Init, TargetsInit
<1>2. doc \in Docs
  <2>1. doc \in Seq(Blocks)
    BY <1>1, TargetsAssumption
  <2>2. QED
    BY <2>1, BlocksOfWords, SeqMonotonic DEF Docs
<1>3. at \in Positions
  BY <1>1 DEF Start, Positions
<1>4. Typed /\ Mergers /\ OneBuilt
  BY <1>1, <1>2, <1>3 DEF Typed, Mergers, OneBuilt
<1>5. Unprinted /\ Emitted
  <2>1. Range(lines) = {}
    BY <1>1, ShortRows
  <2>2. QED
    BY <1>1, <2>1 DEF Unprinted, Emitted, EmitPhases
<1>6. QED
  BY <1>4, <1>5 DEF MInv

LEMMA InvGoesOn == MInv /\ [Next]_vars => MInv'
<1> SUFFICES ASSUME MInv, [Next]_vars PROVE MInv'
  OBVIOUS
<1>1. CASE TargetsNext /\ UNCHANGED <<blocks, lines>>
  BY <1>1, TargetsKeep
<1>2. CASE EnterBlock \/ LeaveBlock \/ PassSection \/ DropFlags
  BY <1>2, EnterKeeps, LeaveKeeps, PassKeeps, DropKeeps
<1>3. CASE Remember \/ Merge
  BY <1>3, RememberKeeps, MergeKeeps
<1>4. CASE EmitSection \/ NextPhase
  BY <1>4, EmitKeeps, NextKeeps
<1>5. CASE PrintPrograms \/ PrintLibraries \/ FinishTargets
  BY <1>5, ProgramsKeep, LibrariesKeep, FinishKeeps
<1>6. CASE UNCHANGED vars
  <2>1. doc' = doc /\ at' = at /\ phase' = phase /\ calls' = calls /\ blocks' = blocks /\ lines' = lines
    BY <1>6 DEF vars
  <2>2. Typed' /\ Mergers' /\ OneBuilt'
    BY <2>1 DEF MInv, Typed, CallsHaveBases, Mergers, OneBuilt
  <2>3. Unprinted' /\ Emitted'
    BY <2>1 DEF MInv, Unprinted, BuiltBehind, DirBehind, Emitted
  <2>4. QED
    BY <2>2, <2>3 DEF MInv
<1>7. QED
  BY <1>1, <1>2, <1>3, <1>4, <1>5, <1>6 DEF Next

\* What is readable in terms of lines is so in terms of the property.
LEMMA MadeReadable == MInv => ReadableMakefile
<1> SUFFICES ASSUME MInv, phase = "done" PROVE ReadableMakefile
  BY Zenon DEF ReadableMakefile
<1> DEFINE depth(k) == Cardinality({i \in 1..k : lines[i].op = "if"})
                         - Cardinality({i \in 1..k : lines[i].op = "endif"})
<1>1. IsRow(lines) /\ Level(lines, 0) /\ Signed(lines)
  BY DEF MInv, Emitted, EmitPhases, Readable
<1>2. DOMAIN lines = 1..Len(lines)
  BY <1>1, RowOf DEF IsRow
<1>3. \A k : depth(k) = Depth(lines, k)
  BY DEF Depth, Count
<1> HIDE DEF depth
<1>4. (\A k \in DOMAIN lines : depth(k) >= 0) /\ depth(Len(lines)) = 0
  BY <1>1, <1>2, <1>3 DEF Level
<1>5. \A k \in DOMAIN lines : lines[k].op \in {"=", "+="} =>
        LET first == \A i \in 1..(k - 1) : lines[i].var # lines[k].var
        IN  IF first THEN lines[k].op = "="
            ELSE lines[k].op = "+=" \/ lines[k].var = <<"EXTRA_DIST", "">>
  BY Zenon, <1>1 DEF Signed
<1>6. QED
  BY Zenon, <1>4, <1>5 DEF ReadableMakefile, depth

\* Whatever the document declares and the visitors do with it: the document
\* keeps its shape (Typed), what merge_blocks remembers stays in it (Mergers),
\* it leaves one section of files to build first (OneBuilt), no visitor starts
\* with a variable that an earlier one has set (Unprinted), and from the first
\* visitor of emit on the lines are readable (Emitted).
THEOREM MakefileInvariant == Spec => []MInv
BY InvAtFirst, InvGoesOn, PTL DEF Spec

\* For every document, every set of rule files and every list of directories,
\* the Makefile that is printed pairs each "if" with an "endif" and sets a
\* variable before it is added to, and once, but for extra_dist (merge_blocks,
\* emit_tests.cpp to emit_SOURCES.cpp; plus_writer and the sets seen).
THEOREM MakefileIsReadable == Spec => []ReadableMakefile
BY MakefileInvariant, MadeReadable, PTL

-----------------------------------------------------------------------------
\* A finite set can be put into a row by rank.
ByRank(S, rank) ==
  {o \in SetToSeqs(S) : \A i, k \in DOMAIN o : rank[o[i]] < rank[o[k]] => i < k}

\* The row that ends with x, behind the row of the others.
LEMMA RankedLast ==
  ASSUME NEW S, IsFiniteSet(S), NEW rank \in [S -> Nat], NEW x \in S, \A y \in S : rank[y] <= rank[x],
         NEW o \in ByRank(S \ {x}, rank)
  PROVE  \E p : p \in ByRank(S, rank)
<1> DEFINE n == Cardinality(S \ {x})
           R == S \ {x}
<1>1. IsFiniteSet(R) /\ n \in Nat /\ Cardinality(S) = n + 1
  <2>1. IsFiniteSet(R) /\ n = Cardinality(S) - 1
    BY FS_RemoveElement
  <2>2. n \in Nat /\ Cardinality(S) \in Nat
    BY <2>1, FS_CardinalityType
  <2>3. QED
    BY <2>1, <2>2
<1>2. /\ o \in [1..n -> R] /\ \A i, k \in 1..n : i # k => o[i] # o[k]
      /\ \A i, k \in 1..n : rank[o[i]] < rank[o[k]] => i < k
  BY DEF ByRank, SetToSeqs
<1> HIDE DEF n
<1> DEFINE p == [k \in 1..(n + 1) |-> IF k = n + 1 THEN x ELSE o[k]]
<1>3. \A k \in 1..n : p[k] = o[k] /\ o[k] \in S /\ o[k] # x
  BY <1>1, <1>2
<1>4. p[n + 1] = x /\ p \in [1..(n + 1) -> S] /\ DOMAIN p = 1..(n + 1)
  <2>1. \A k \in 1..(n + 1) : k = n + 1 \/ k \in 1..n
    BY <1>1
  <2>2. n + 1 \in 1..(n + 1)
    BY <1>1
  <2>3. QED
    BY <1>2, <2>1, <2>2
<1> HIDE DEF p, R
<1>5. ASSUME NEW i \in 1..(n + 1), NEW k \in 1..(n + 1), i # k PROVE p[i] # p[k]
  <2>1. (i = n + 1 \/ i \in 1..n) /\ (k = n + 1 \/ k \in 1..n)
    BY <1>1
  <2>2. QED
    BY <1>2, <1>3, <1>4, <1>5, <2>1
<1>6. ASSUME NEW i \in 1..(n + 1), NEW k \in 1..(n + 1), rank[p[i]] < rank[p[k]] PROVE i < k
  <2>1. (i = n + 1 \/ i \in 1..n) /\ (k = n + 1 \/ k \in 1..n)
    BY <1>1
  <2>2. CASE i = n + 1
    <3>1. p[i] = x /\ p[k] \in S /\ rank[p[k]] <= rank[x] /\ rank[p[k]] \in Nat /\ rank[x] \in Nat
      BY <1>4, <2>2
    <3>2. QED
      BY <1>6, <3>1
  <2>3. CASE i \in 1..n /\ k = n + 1
    BY <1>1, <2>3
  <2>4. CASE i \in 1..n /\ k \in 1..n
    BY <1>2, <1>3, <1>6, <2>4
  <2>5. QED
    BY <2>1, <2>2, <2>3, <2>4
<1>7. p \in SetToSeqs(S)
  BY <1>1, <1>4, <1>5 DEF SetToSeqs
<1>8. QED
  BY <1>4, <1>6, <1>7 DEF ByRank

\* In a finite set some element has no lower rank than any other.
LEMMA HighestRank ==
  ASSUME NEW S, IsFiniteSet(S), S # {}, NEW rank \in [S -> Nat]
  PROVE  \E x \in S : \A y \in S : rank[y] <= rank[x]
<1> DEFINE N == {n \in Nat : \A T \in SUBSET S :
                   T # {} /\ Cardinality(T) = n => \E x \in T : \A y \in T : rank[y] <= rank[x]}
<1>1. 0 \in N
  <2>1. ASSUME NEW T \in SUBSET S, T # {}, Cardinality(T) = 0 PROVE FALSE
    BY <2>1, FS_Subset, FS_EmptySet
  <2>2. QED
    BY <2>1
<1>2. ASSUME NEW n \in Nat, n \in N PROVE n + 1 \in N
  <2> SUFFICES ASSUME NEW T \in SUBSET S, T # {}, Cardinality(T) = n + 1
               PROVE  \E x \in T : \A y \in T : rank[y] <= rank[x]
    OBVIOUS
  <2>1. PICK z \in T : TRUE
    OBVIOUS
  <2> DEFINE U == T \ {z}
  <2>2. IsFiniteSet(T) /\ U \in SUBSET S /\ Cardinality(U) = Cardinality(T) - 1
    BY <2>1, FS_Subset, FS_RemoveElement
  <2>3. CASE U = {}
    <3>1. \A y \in T : y = z
      BY <2>3
    <3>2. rank[z] \in Nat
      BY <2>1
    <3>3. QED
      BY <2>1, <3>1, <3>2
  <2>4. CASE U # {}
    <3>1. Cardinality(U) = n
      BY <2>2
    <3>2. PICK x \in U : \A y \in U : rank[y] <= rank[x]
      BY <1>2, <2>2, <2>4, <3>1
    <3>3. \A y \in T : y = z \/ y \in U
      OBVIOUS
    <3>4. x \in T /\ z \in T /\ rank[x] \in Nat /\ rank[z] \in Nat /\ \A y \in T : rank[y] \in Nat
      BY <2>1, <3>2
    <3> HIDE DEF U
    <3>5. CASE rank[z] <= rank[x]
      BY <3>2, <3>3, <3>4, <3>5
    <3>6. CASE ~(rank[z] <= rank[x])
      <4>1. ASSUME NEW y \in T PROVE rank[y] <= rank[z]
        BY <3>2, <3>3, <3>4, <3>6
      <4>2. QED
        BY <3>4, <4>1
    <3>7. QED
      BY <3>5, <3>6
  <2>5. QED
    BY <2>3, <2>4
<1> HIDE DEF N
<1>3. Cardinality(S) \in N
  BY <1>1, <1>2, SetInduction, FS_CardinalityType
<1>4. QED
  BY <1>3 DEF N

LEMMA RowByRank ==
  ASSUME NEW S, IsFiniteSet(S), NEW rank \in [S -> Nat]
  PROVE  \E o : o \in ByRank(S, rank)
<1> DEFINE N == {n \in Nat : \A T \in SUBSET S : Cardinality(T) = n => \E o : o \in ByRank(T, rank)}
<1>1. 0 \in N
  <2>1. ASSUME NEW T \in SUBSET S, Cardinality(T) = 0 PROVE \E o : o \in ByRank(T, rank)
    <3>1. T = {}
      BY <2>1, FS_Subset, FS_EmptySet
    <3> DEFINE o == [k \in 1..0 |-> {}]
    <3>2. o \in [1..0 -> T] /\ DOMAIN o = 1..0 /\ \A k \in 1..0 : FALSE
      OBVIOUS
    <3> HIDE DEF o
    <3>3. o \in SetToSeqs(T)
      BY <2>1, <3>2 DEF SetToSeqs
    <3>4. QED
      BY <3>2, <3>3 DEF ByRank
  <2>2. QED
    BY <2>1
<1>2. ASSUME NEW n \in Nat, n \in N PROVE n + 1 \in N
  <2> SUFFICES ASSUME NEW T \in SUBSET S, Cardinality(T) = n + 1 PROVE \E o : o \in ByRank(T, rank)
    OBVIOUS
  <2> DEFINE r == [y \in T |-> rank[y]]
  <2>1. IsFiniteSet(T) /\ T # {}
    BY FS_Subset, FS_EmptySet
  <2>2. r \in [T -> Nat] /\ \A y \in T : r[y] = rank[y]
    OBVIOUS
  <2> HIDE DEF r
  <2>3. PICK x \in T : \A y \in T : r[y] <= r[x]
    BY <2>1, <2>2, HighestRank
  <2>4. T \ {x} \in SUBSET S /\ Cardinality(T \ {x}) = n
    <3>1. T \ {x} \in SUBSET S /\ Cardinality(T \ {x}) = Cardinality(T) - 1
      BY <2>1, <2>3, FS_RemoveElement
    <3>2. QED
      BY <3>1
  <2>5. PICK o : o \in ByRank(T \ {x}, rank)
    BY <1>2, <2>4
  <2>6. o \in ByRank(T \ {x}, r)
    BY <2>2, <2>5 DEF ByRank, SetToSeqs
  <2>7. PICK p : p \in ByRank(T, r)
    BY <2>1, <2>2, <2>3, <2>6, RankedLast
  <2>8. p \in ByRank(T, rank)
    BY <2>2, <2>7 DEF ByRank, SetToSeqs
  <2>9. QED
    BY <2>8
<1> HIDE DEF N
<1>3. Cardinality(S) \in N
  BY <1>1, <1>2, SetInduction, FS_CardinalityType
<1>4. QED
  BY <1>3 DEF N

\* A row of a finite set has all of it.
LEMMA RowHasAll ==
  ASSUME NEW S, IsFiniteSet(S), NEW o \in SetToSeqs(S), NEW x \in S
  PROVE  \E k \in DOMAIN o : o[k] = x
<1> DEFINE n == Cardinality(S)
           D == 1..n
           R == {o[k] : k \in D}
<1>1. n \in Nat /\ o \in [D -> S] /\ (\A i, k \in D : i # k => o[i] # o[k]) /\ DOMAIN o = D
  BY FS_CardinalityType DEF SetToSeqs
<1>2. IsFiniteSet(D) /\ Cardinality(D) = n
  BY <1>1, FS_Interval
<1> HIDE DEF D
<1>3. R \in SUBSET S /\ o \in [D -> R] /\ \A y \in R : \E k \in D : o[k] = y
  BY <1>1
<1> HIDE DEF R
<1>4. IsFiniteSet(R)
  BY <1>3, FS_Subset
<1>5. o \in Injection(D, R)
  BY <1>1, <1>3 DEF Injection, IsInjective
<1>6. Cardinality(D) <= Cardinality(R)
  BY <1>4, <1>5, FS_Injection
<1>7. Cardinality(R) <= n /\ (Cardinality(R) = n => R = S) /\ Cardinality(R) \in Nat
  BY <1>3, <1>4, FS_Subset, FS_CardinalityType
<1>8. R = S
  BY <1>1, <1>2, <1>6, <1>7
<1>9. QED
  BY <1>1, <1>3, <1>8

-----------------------------------------------------------------------------
\* What Reached has: the least set with x that is closed under the edges.
LEMMA ReachedLeast ==
  ASSUME NEW edges, IsFiniteSet(edges), NEW x
  PROVE  /\ x \in Reached(edges, x)
         /\ \A e \in edges : e[1] \in Reached(edges, x) => e[2] \in Reached(edges, x)
         /\ Reached(edges, x) \subseteq {x} \union {e[2] : e \in edges}
         /\ IsFiniteSet(Reached(edges, x))
         /\ \A X : x \in X /\ (\A e \in edges : e[1] \in X => e[2] \in X) => Reached(edges, x) \subseteq X
<1> DEFINE targets == {e[2] : e \in edges}
           ends == {x} \union targets
           next == [y \in ends |-> {e[2] : e \in {e \in edges : e[1] = y}}]
           start == {x}
<1>1. IsFiniteSet(ends)
  <2> DEFINE f == [e \in edges |-> e[2]]
  <2>1. f \in [edges -> targets] /\ targets = {f[e] : e \in edges}
    OBVIOUS
  <2> HIDE DEF f, targets
  <2>2. IsFiniteSet({f[e] : e \in edges})
    BY <2>1, FiniteRange
  <2>3. QED
    BY <2>1, <2>2, FS_Singleton, FS_Union
<1>2. next \in [ends -> SUBSET ends] /\ start \in SUBSET ends /\ x \in start
  OBVIOUS
<1>3. \A e \in edges : e[1] \in ends => e[2] \in next[e[1]]
  OBVIOUS
<1>4. \A y \in ends : \A z \in next[y] : \E e \in edges : e[1] = y /\ e[2] = z
  OBVIOUS
<1>5. Reached(edges, x) = Reach(ends, start, next)
  BY DEF Reached
<1> HIDE DEF ends, next, start
<1> DEFINE all == Reach(ends, start, next)
<1>6. /\ all \in SUBSET ends /\ start \subseteq all
      /\ \A y \in all : next[y] \subseteq all
      /\ \A X \in SUBSET ends : start \subseteq X /\ (\A y \in X : next[y] \subseteq X) => all \subseteq X
  BY <1>1, <1>2, ReachLeast
<1> HIDE DEF all
<1>7. ASSUME NEW X, x \in X, \A e \in edges : e[1] \in X => e[2] \in X PROVE all \subseteq X
  <2> DEFINE Y == X \intersect ends
  <2>1. Y \in SUBSET ends
    OBVIOUS
  <2>2. start \subseteq Y
    BY <1>2, <1>7 DEF start
  <2>3. ASSUME NEW y \in Y PROVE next[y] \subseteq Y
    BY <1>2, <1>4, <1>7
  <2> HIDE DEF Y
  <2>4. all \subseteq Y
    BY <1>6, <2>1, <2>2, <2>3
  <2>5. QED
    BY <2>4 DEF Y
<1>8. Reached(edges, x) = all
  BY <1>5 DEF all
<1>9. x \in all /\ \A e \in edges : e[1] \in all => e[2] \in all
  BY <1>2, <1>3, <1>6
<1>10. IsFiniteSet(all)
  BY <1>1, <1>6, FS_Subset
<1>11. all \subseteq {x} \union {e[2] : e \in edges}
  BY <1>6 DEF ends
<1>12. QED
  BY <1>7, <1>8, <1>9, <1>10, <1>11

-----------------------------------------------------------------------------
\* The libraries of a directory can be sorted unless they are linked in a
\* circle: the more of them a library reaches, the later it comes.
LEMMA GroupRange ==
  ASSUME doc \in Docs, NEW kind, NEW dir, NEW b
  PROVE  b \in Range(Group(kind, dir)) <=>
           \E t \in DOMAIN doc : doc[t].kind = kind /\ doc[t].dest = dir /\ b = doc[t]
<1> DEFINE row(t) == IF doc[t].kind = kind /\ doc[t].dest = dir THEN <<doc[t]>> ELSE << >>
           rows == [t \in DOMAIN doc |-> row(t)]
           V == Seq(WordBlocks)
           n == Len(doc)
<1>1. Group(kind, dir) = FlattenSeq(rows)
  BY DEF Group
<1>2. n \in Nat /\ DOMAIN doc = 1..n /\ \A t \in DOMAIN doc : doc[t] \in WordBlocks
  BY DocFields
<1>3. ASSUME NEW x \in WordBlocks PROVE <<x>> \in V /\ << >> \in V
  OBVIOUS
<1>4. \A t \in 1..n : rows[t] = row(t)
  BY <1>2
<1>5. ASSUME NEW t \in 1..n
      PROVE  b \in Range(row(t)) <=> doc[t].kind = kind /\ doc[t].dest = dir /\ b = doc[t]
  BY ShortRows
<1> HIDE DEF V
<1>6. \A t \in DOMAIN doc : row(t) \in V
  BY <1>2, <1>3
<1>7. rows \in [1..n -> V]
  BY <1>2, <1>6
<1> HIDE DEF rows, n
<1>8. rows \in Seq(V) /\ Len(rows) = n
  BY <1>2, <1>7, SeqDef, LenProperties
<1> HIDE DEF row
<1>9. Range(FlattenSeq(rows)) = UNION {Range(rows[k]) : k \in 1..Len(rows)}
  <2>1. rows \in Seq(Seq(WordBlocks))
    BY <1>8 DEF V
  <2>2. QED
    BY ONLY <2>1, FlattenRange
<1>10. b \in Range(Group(kind, dir)) <=> \E t \in 1..n : b \in Range(row(t))
  BY <1>1, <1>4, <1>8, <1>9
<1>11. QED
  BY <1>2, <1>5, <1>10

LEMMA LinkedIsFinite ==
  ASSUME doc \in Docs
  PROVE  IsFiniteSet(Linked) /\ IsFiniteSet(DOMAIN doc)
<1>1. IsFiniteSet(DOMAIN doc)
  BY DocFields, FS_Interval
<1>2. IsFiniteSet((DOMAIN doc) \X (DOMAIN doc))
  BY <1>1, FS_Product
<1>3. QED
  BY <1>1, <1>2, FS_Subset DEF Linked

\* The libraries of directory dir with this name, and what they reach.
Called(dir, n) == {t \in DOMAIN doc : doc[t].kind = "library" /\ doc[t].dest = dir /\ doc[t].name = n}
ReachedBy(dir, n) == UNION {Reached(Linked, t) : t \in Called(dir, n)}

LEMMA ReachedByFinite ==
  ASSUME doc \in Docs, NEW dir, NEW n
  PROVE  IsFiniteSet(ReachedBy(dir, n)) /\ Cardinality(ReachedBy(dir, n)) \in Nat
<1>1. IsFiniteSet(Linked) /\ IsFiniteSet(DOMAIN doc)
  BY LinkedIsFinite
<1>2. ASSUME NEW t \in Called(dir, n) PROVE Reached(Linked, t) \subseteq DOMAIN doc
  <2>1. Reached(Linked, t) \subseteq {t} \union {e[2] : e \in Linked}
    BY <1>1, ReachedLeast
  <2>2. \A e \in Linked : e[2] \in DOMAIN doc
    BY DEF Linked
  <2>3. QED
    BY <2>1, <2>2 DEF Called
<1>3. ReachedBy(dir, n) \in SUBSET DOMAIN doc
  BY <1>2 DEF ReachedBy
<1>4. QED
  BY <1>1, <1>3, FS_Subset, FS_CardinalityType

LEMMA LinkedReachLess ==
  ASSUME doc \in Docs, NEW dir, ~Circle(Linked), NEW b \in Range(Group("library", dir)), NEW n \in LinkedBy(b)
  PROVE  Cardinality(ReachedBy(dir, n)) < Cardinality(ReachedBy(dir, b.name))
<1> DEFINE less == ReachedBy(dir, n)
           more == ReachedBy(dir, b.name)
<1>1. PICK t \in DOMAIN doc : doc[t].kind = "library" /\ doc[t].dest = dir /\ b = doc[t]
  BY GroupRange
<1>2. t \in Called(dir, b.name)
  BY <1>1 DEF Called
<1>3. IsFiniteSet(Linked)
  BY LinkedIsFinite
<1>4. t \in Reached(Linked, t) /\ t \in more
  BY <1>2, <1>3, ReachedLeast DEF ReachedBy
<1>5. ASSUME NEW u \in Called(dir, n)
      PROVE  Reached(Linked, u) \subseteq Reached(Linked, t) /\ t \notin Reached(Linked, u)
  <2> DEFINE e == <<t, u>>
  <2>1. e \in Linked /\ e[1] = t /\ e[2] = u
    BY <1>1 DEF Called, Linked
  <2> HIDE DEF e
  <2>2. u \in Reached(Linked, t)
    BY <1>3, <1>4, <2>1, ReachedLeast
  <2>3. Reached(Linked, u) \subseteq Reached(Linked, t)
    <3> DEFINE X == Reached(Linked, t)
    <3>1. u \in X /\ \A f \in Linked : f[1] \in X => f[2] \in X
      BY <1>3, <2>2, ReachedLeast
    <3> HIDE DEF X
    <3>2. Reached(Linked, u) \subseteq X
      BY <1>3, <3>1, ReachedLeast
    <3>3. QED
      BY <3>2 DEF X
  <2>4. QED
    BY <2>1, <2>3 DEF Circle
<1>6. less \subseteq more /\ t \notin less
  BY <1>2, <1>5 DEF ReachedBy
<1>7. /\ IsFiniteSet(more) /\ Cardinality(more) \in Nat
      /\ IsFiniteSet(less) /\ Cardinality(less) \in Nat
  BY ReachedByFinite
<1> HIDE DEF less, more
<1>8. Cardinality(less) <= Cardinality(more) /\ Cardinality(less) # Cardinality(more)
  BY <1>4, <1>6, <1>7, FS_Subset
<1>9. QED
  BY <1>7, <1>8 DEF less, more

LEMMA OrdersExist ==
  ASSUME doc \in Docs, NEW dir, ~Circle(Linked)
  PROVE  Orders(Group("library", dir)) # {}
<1> DEFINE group == Group("library", dir)
           S == UNION {{b.name} \union LinkedBy(b) : b \in Range(group)}
           rank == [n \in S |-> Cardinality(ReachedBy(dir, n))]
<1>1. group \in Docs
  BY GroupType
<1>2. IsFiniteSet(S)
  BY <1>1, NamesFinite
<1>3. \A b \in Range(group) : b.name \in S /\ LinkedBy(b) \subseteq S
  OBVIOUS
<1>4. rank \in [S -> Nat]
  BY ReachedByFinite
<1>5. ASSUME NEW b \in Range(group), NEW n \in LinkedBy(b) PROVE rank[n] < rank[b.name]
  BY <1>3, <1>5, LinkedReachLess
<1>6. Orders(group) =
        {o \in SetToSeqs(S) : \A b \in Range(group) : \A n \in LinkedBy(b) :
           \E i, k \in DOMAIN o : o[i] = n /\ o[k] = b.name /\ i < k}
  BY DEF Orders
<1> HIDE DEF rank, S, group
<1>7. PICK o : o \in ByRank(S, rank)
  BY <1>2, <1>4, RowByRank
<1>8. o \in SetToSeqs(S) /\ \A i, k \in DOMAIN o : rank[o[i]] < rank[o[k]] => i < k
  BY <1>7 DEF ByRank
<1>9. ASSUME NEW b \in Range(group), NEW n \in LinkedBy(b)
      PROVE  \E i, k \in DOMAIN o : o[i] = n /\ o[k] = b.name /\ i < k
  <2>1. n \in S /\ b.name \in S
    BY <1>3, <1>9
  <2>2. PICK i \in DOMAIN o : o[i] = n
    BY <1>2, <1>8, <2>1, RowHasAll
  <2>3. PICK k \in DOMAIN o : o[k] = b.name
    BY <1>2, <1>8, <2>1, RowHasAll
  <2>4. i < k
    BY <1>5, <1>8, <1>9, <2>2, <2>3
  <2>5. QED
    BY <2>2, <2>3, <2>4
<1>10. Orders(group) # {}
  BY <1>6, <1>8, <1>9
<1>11. QED
  BY <1>10 DEF group

-----------------------------------------------------------------------------
\* Two sections of flags of one target, with one tool and condition, meet when
\* the merger throws.
SameSlot(x, y) == x.kind = y.kind /\ x.key = y.key /\ x.cond = y.cond

LEMMA SlotNewItems ==
  ASSUME NEW sec \in WordSections, NEW items \in Seq(WordItems)
  PROVE  [sec EXCEPT !.items = items] \in WordSections /\ SameSlot([sec EXCEPT !.items = items], sec)
<1> DEFINE V == Seq(WordItems)
<1>1. sec.items \in V /\ items \in V
  BY SectionFields
<1> HIDE DEF V
<1>2. QED
  BY <1>1 DEF WordSections, V, SameSlot

LEMMA ChangedKeeps ==
  ASSUME NEW d \in Docs, NEW t \in DOMAIN d, NEW s \in DOMAIN d[t].body, NEW sec \in WordSections,
         NEW new, new = Changed(d, t, s, sec)
  PROVE  /\ new \in Docs /\ DOMAIN new = DOMAIN d
         /\ \A u \in DOMAIN d : new[u].kind = d[u].kind /\ DOMAIN new[u].body = DOMAIN d[u].body
         /\ \A u \in DOMAIN d : \A r \in DOMAIN d[u].body :
              new[u].body[r] = IF u = t /\ r = s THEN sec ELSE d[u].body[r]
<1> DEFINE body == [d[t].body EXCEPT ![s] = sec]
           b == [d[t] EXCEPT !.body = body]
<1>1. d[t] \in WordBlocks /\ d[t].body \in Bodies
  BY DocFields, BlockFields
<1>2. body \in Bodies
  BY <1>1, BodyNewSection
<1>3. new = [d EXCEPT ![t] = b]
  BY DEF Changed
<1>4. /\ new \in Docs /\ DOMAIN new = DOMAIN d
      /\ \A u \in DOMAIN d : DOMAIN new[u].body = DOMAIN d[u].body
      /\ \A u \in DOMAIN d : \A r \in DOMAIN d[u].body :
           new[u].body[r] = IF u = t /\ r = s THEN sec ELSE d[u].body[r]
  BY DocNewSection
<1> HIDE DEF body
<1>5. b \in WordBlocks /\ b.kind = d[t].kind
  BY <1>1, <1>2, BlockNewBody
<1> HIDE DEF b
<1>6. \A u \in DOMAIN d : [d EXCEPT ![t] = b][u] = IF u = t THEN b ELSE d[u]
  BY <1>5, DocNewBlock
<1>7. \A u \in DOMAIN d : new[u].kind = d[u].kind
  BY <1>3, <1>5, <1>6
<1>8. QED
  BY <1>4, <1>7

LEMMA WithoutKeeps ==
  ASSUME NEW d \in Docs, NEW t \in DOMAIN d, NEW s \in DOMAIN d[t].body, d[t].body[s].kind # "install",
         NEW new, new = Without(d, t, s)
  PROVE  /\ new \in Docs /\ DOMAIN new = DOMAIN d
         /\ \A u \in DOMAIN d : new[u].kind = d[u].kind /\ DOMAIN new[u].body = DOMAIN d[u].body
         /\ \A u \in DOMAIN d : \A r \in DOMAIN d[u].body :
              u # t \/ r # s => SameSlot(new[u].body[r], d[u].body[r])
<1> DEFINE old == d[t].body[s]
           sec == [old EXCEPT !.kind = "none"]
<1>1. new = Changed(d, t, s, sec)
  BY DEF Changed, Without
<1>2. old \in WordSections
  BY DocFields, BlockFields
<1> HIDE DEF old
<1>3. sec \in WordSections
  BY <1>2, SectionRemoved DEF old
<1> HIDE DEF sec
<1>4. /\ new \in Docs /\ DOMAIN new = DOMAIN d
      /\ \A u \in DOMAIN d : new[u].kind = d[u].kind /\ DOMAIN new[u].body = DOMAIN d[u].body
      /\ \A u \in DOMAIN d : \A r \in DOMAIN d[u].body :
           new[u].body[r] = IF u = t /\ r = s THEN sec ELSE d[u].body[r]
  BY <1>1, <1>3, ChangedKeeps
<1>5. QED
  BY <1>4 DEF SameSlot

LEMMA GrownKeeps ==
  ASSUME NEW d \in Docs, NEW t \in DOMAIN d, NEW s \in DOMAIN d[t].body, NEW items \in Seq(WordItems),
         NEW new, new = Grown(d, t, s, items)
  PROVE  /\ new \in Docs /\ DOMAIN new = DOMAIN d
         /\ \A u \in DOMAIN d : new[u].kind = d[u].kind /\ DOMAIN new[u].body = DOMAIN d[u].body
         /\ \A u \in DOMAIN d : \A r \in DOMAIN d[u].body : SameSlot(new[u].body[r], d[u].body[r])
<1> DEFINE old == d[t].body[s]
           all == old.items \o items
           sec == [old EXCEPT !.items = all]
<1>1. new = Changed(d, t, s, sec)
  BY DEF Changed, Grown
<1>2. old \in WordSections
  BY DocFields, BlockFields
<1> HIDE DEF old
<1>3. all \in Seq(WordItems)
  BY <1>2, SectionFields, ConcatProperties
<1> HIDE DEF all
<1>4. sec \in WordSections /\ SameSlot(sec, old)
  BY <1>2, <1>3, SlotNewItems
<1> HIDE DEF sec
<1>5. /\ new \in Docs /\ DOMAIN new = DOMAIN d
      /\ \A u \in DOMAIN d : new[u].kind = d[u].kind /\ DOMAIN new[u].body = DOMAIN d[u].body
      /\ \A u \in DOMAIN d : \A r \in DOMAIN d[u].body :
           new[u].body[r] = IF u = t /\ r = s THEN sec ELSE d[u].body[r]
  BY <1>1, <1>4, ChangedKeeps
<1>6. ASSUME NEW u \in DOMAIN d, NEW r \in DOMAIN d[u].body PROVE SameSlot(new[u].body[r], d[u].body[r])
  BY <1>4, <1>5 DEF SameSlot, old
<1>7. QED
  BY <1>5, <1>6

LEMMA MergedKeeps ==
  ASSUME doc \in Docs, at \in Positions, InSection, Section.kind # "install",
         NEW into, into[1] \in DOMAIN doc, into[2] \in DOMAIN doc[into[1]].body,
         NEW new, new = Merged(into)
  PROVE  /\ \A u \in DOMAIN doc : new[u].kind = doc[u].kind /\ DOMAIN new[u].body = DOMAIN doc[u].body
         /\ \A u \in DOMAIN doc : \A r \in DOMAIN doc[u].body :
              u # at.t \/ r # at.s => SameSlot(new[u].body[r], doc[u].body[r])
<1>1. /\ at.t \in DOMAIN doc /\ at.s \in DOMAIN doc[at.t].body
      /\ Section \in WordSections /\ Section = doc[at.t].body[at.s]
  BY Here
<1>2. Section.items \in Seq(WordItems)
  BY <1>1, SectionFields
<1> DEFINE more == Section.items
           t == at.t
           s == at.s
           v == into[1]
           w == into[2]
           d == Grown(doc, v, w, more)
<1>3. new = Without(d, t, s)
  BY DEF Merged, Grown, Without
<1>4. more \in Seq(WordItems) /\ v \in DOMAIN doc /\ w \in DOMAIN doc[v].body
  BY <1>2
<1> HIDE DEF more, v, w
<1>5. d = Grown(doc, v, w, more)
  OBVIOUS
<1> HIDE DEF d
<1>6. /\ d \in Docs /\ DOMAIN d = DOMAIN doc
      /\ \A u \in DOMAIN doc : d[u].kind = doc[u].kind /\ DOMAIN d[u].body = DOMAIN doc[u].body
      /\ \A u \in DOMAIN doc : \A r \in DOMAIN doc[u].body : SameSlot(d[u].body[r], doc[u].body[r])
  BY <1>4, <1>5, GrownKeeps
<1>7. t \in DOMAIN doc /\ s \in DOMAIN doc[t].body /\ doc[t].body[s].kind # "install"
  BY <1>1
<1> HIDE DEF t, s
<1>8. t \in DOMAIN d /\ s \in DOMAIN d[t].body /\ d[t].body[s].kind # "install"
  BY <1>6, <1>7 DEF SameSlot
<1>9. /\ \A u \in DOMAIN d : new[u].kind = d[u].kind /\ DOMAIN new[u].body = DOMAIN d[u].body
      /\ \A u \in DOMAIN d : \A r \in DOMAIN d[u].body :
           u # t \/ r # s => SameSlot(new[u].body[r], d[u].body[r])
  BY <1>3, <1>6, <1>8, WithoutKeeps
<1>10. ASSUME NEW u \in DOMAIN doc, NEW r \in DOMAIN doc[u].body, u # t \/ r # s
       PROVE  SameSlot(new[u].body[r], doc[u].body[r])
  <2>1. SameSlot(new[u].body[r], d[u].body[r]) /\ SameSlot(d[u].body[r], doc[u].body[r])
    BY <1>6, <1>9, <1>10
  <2>2. QED
    BY <2>1 DEF SameSlot
<1>11. QED
  BY <1>6, <1>9, <1>10 DEF t, s

\* In a target that has been entered, the sections of flags that are
\* remembered are those of the target, and behind the visitor.
FlagsAt(b, p) ==
  /\ p[1] = at.t /\ p[2] \in DOMAIN doc[at.t].body /\ p[2] < at.s
  /\ doc[at.t].body[p[2]].kind = "flags"
  /\ doc[at.t].body[p[2]].key = b[2] /\ doc[at.t].body[p[2]].cond = b[3]
Within == phase = "merge_blocks" /\ (at.s > 1 \/ at.i = 2) /\ InDocument /\ ~Outside(Block)
FlagsRemembered == Within => \A b \in DOMAIN blocks : b[1] = "flags" => FlagsAt(b, blocks[b])

LEMMA ThrowsWhenFlagsMeet ==
  ASSUME MInv, FlagsRemembered, Merge, phase' = "thrown"
  PROVE  FlagsMeet'
<1>1. /\ doc \in Docs /\ at \in Positions /\ phase = "merge_blocks" /\ InSection /\ (at.s > 1 \/ at.i = 2)
      /\ Slot \in DOMAIN blocks /\ Section.kind = "flags" /\ Section.linked /\ doc' = doc
      /\ ~LeftAlone
  BY PhasesDiffer DEF MInv, Typed, Merge, Mergeable, Entered, Ends
<1>2. /\ InDocument /\ at.t \in DOMAIN doc /\ at.s \in DOMAIN doc[at.t].body
      /\ Section = doc[at.t].body[at.s] /\ at.s \in Nat
  BY <1>1, Here, PositionFields
<1>3. Within
  BY <1>1, <1>2 DEF Within, LeftAlone
<1>4. Slot[1] = "flags" /\ Slot[2] = Section.key /\ Slot[3] = Section.cond
  BY <1>1 DEF Slot
<1> DEFINE p == blocks[Slot]
<1>5. FlagsAt(Slot, p)
  BY <1>1, <1>3, <1>4 DEF FlagsRemembered
<1> HIDE DEF p
<1>6. p[2] # at.s /\ p[2] \in DOMAIN doc[at.t].body
  <2>1. p[2] \in Nat
    BY <1>1, <1>2, <1>5, Indices DEF FlagsAt
  <2>2. QED
    BY <1>2, <1>5, <2>1 DEF FlagsAt
<1>7. FlagsMeet
  BY <1>1, <1>2, <1>4, <1>5, <1>6 DEF FlagsAt, FlagsMeet
<1>8. QED
  BY <1>1, <1>7 DEF FlagsMeet

LEMMA FlagsOnward ==
  ASSUME doc \in Docs, at \in Positions, FlagsRemembered, InSection, at' = NextSection, phase' = phase,
         phase = "merge_blocks", at.s > 1 \/ at.i = 2,
         doc'[at.t].kind = doc[at.t].kind,
         DOMAIN doc'[at.t].body = DOMAIN doc[at.t].body,
         \A r \in DOMAIN doc[at.t].body : r # at.s => SameSlot(doc'[at.t].body[r], doc[at.t].body[r]),
         NEW b, b[1] = "flags", b \in DOMAIN blocks, NEW p, p = blocks[b], Within'
  PROVE  FlagsAt(b, p)'
<1>1. /\ InDocument /\ at.t \in DOMAIN doc /\ at.s \in Nat /\ Block = doc[at.t]
      /\ at'.t = at.t /\ at'.s = at.s + 1
  BY Here, PositionFields DEF NextSection, Positions
<1>2. Within
  <2>1. ~Outside(doc'[at'.t])
    BY DEF Within, Block
  <2>2. ~Outside(Block)
    BY <1>1, <2>1 DEF Outside
  <2>3. QED
    BY <1>1, <2>2 DEF Within
<1>3. FlagsAt(b, p)
  BY <1>2 DEF FlagsRemembered
<1>4. p[2] \in Nat
  BY <1>1, <1>3, Indices DEF FlagsAt
<1>5. p[2] # at.s /\ p[2] < at.s + 1
  BY <1>1, <1>3, <1>4 DEF FlagsAt
<1>6. QED
  BY <1>1, <1>3, <1>5 DEF FlagsAt, SameSlot

LEMMA FlagsStay ==
  ASSUME MInv, FlagsRemembered, Next
  PROVE  FlagsRemembered'
<1>1. doc \in Docs /\ at \in Positions
  BY DEF MInv, Typed
<1>2. CASE TargetsNext
  <2>1. phase' = "merge_blocks" => at' = Start
    BY <1>2, TargetsPhases, PhasesDiffer
  <2>2. ~Within'
    BY <2>1 DEF Within, Start
  <2>3. QED
    BY <2>2 DEF FlagsRemembered
<1>3. CASE EnterBlock
  <2>1. CASE Outside(Block)
    BY <1>3, <2>1 DEF EnterBlock, FlagsRemembered, Within, Block
  <2>2. CASE ~Outside(Block)
    <3>1. \A b \in DOMAIN blocks' : b[1] # "flags"
      BY <1>3, <2>2 DEF EnterBlock, Kept
    <3>2. QED
      BY <3>1 DEF FlagsRemembered
  <2>3. QED
    BY <2>1, <2>2
<1>4. CASE LeaveBlock
  <2>1. at'.s = 1 /\ at'.i = 1
    BY <1>4 DEF LeaveBlock, NextBlock, Start
  <2>2. QED
    BY <2>1 DEF FlagsRemembered, Within
<1>5. CASE PassSection
  <2>1. /\ phase = "merge_blocks" /\ phase' = phase /\ InSection /\ (at.s > 1 \/ at.i = 2)
        /\ at' = NextSection /\ doc' = doc /\ blocks' = blocks
    BY <1>5 DEF PassSection, Entered
  <2>2. \A r : SameSlot(doc'[at.t].body[r], doc[at.t].body[r])
    BY <2>1 DEF SameSlot
  <2>3. ASSUME NEW b \in DOMAIN blocks, b[1] = "flags", Within' PROVE FlagsAt(b, blocks[b])'
    <3> DEFINE p == blocks[b]
    <3>1. p' = p
      BY <2>1
    <3>2. FlagsAt(b, p)'
      BY <1>1, <2>1, <2>2, <2>3, FlagsOnward
    <3>3. QED
      BY <3>2
  <2>4. QED
    BY <2>1, <2>3 DEF FlagsRemembered
<1>6. CASE DropFlags
  <2>1. /\ phase = "merge_blocks" /\ phase' = phase /\ InSection /\ (at.s > 1 \/ at.i = 2)
        /\ at' = NextSection /\ doc' = Without(doc, at.t, at.s) /\ blocks' = blocks /\ Section.kind = "flags"
    BY <1>6 DEF DropFlags, Entered, Without
  <2>2. at.t \in DOMAIN doc /\ at.s \in DOMAIN doc[at.t].body /\ doc[at.t].body[at.s].kind = "flags"
    BY <1>1, <2>1, Here
  <2>3. /\ \A u \in DOMAIN doc : doc'[u].kind = doc[u].kind /\ DOMAIN doc'[u].body = DOMAIN doc[u].body
        /\ \A u \in DOMAIN doc : \A r \in DOMAIN doc[u].body :
             u # at.t \/ r # at.s => SameSlot(doc'[u].body[r], doc[u].body[r])
    BY <1>1, <2>1, <2>2, WithoutKeeps
  <2>4. ASSUME NEW b \in DOMAIN blocks, b[1] = "flags", Within' PROVE FlagsAt(b, blocks[b])'
    BY <1>1, <2>1, <2>2, <2>3, <2>4, FlagsOnward
  <2>5. QED
    BY <2>1, <2>4 DEF FlagsRemembered
<1>7. CASE Remember
  <2>1. /\ phase = "merge_blocks" /\ phase' = phase /\ InSection /\ (at.s > 1 \/ at.i = 2)
        /\ at' = NextSection /\ doc' = doc /\ Slot \notin DOMAIN blocks
        /\ blocks' = [b \in DOMAIN blocks \union {Slot} |-> IF b = Slot THEN <<at.t, at.s>> ELSE blocks[b]]
    BY <1>7 DEF Remember, Mergeable, Entered
  <2>2. \A r : SameSlot(doc'[at.t].body[r], doc[at.t].body[r])
    BY <2>1 DEF SameSlot
  <2>3. ASSUME NEW b \in DOMAIN blocks, b[1] = "flags", Within' PROVE FlagsAt(b, blocks[b])'
    <3>1. PICK p : p = blocks[b]
      OBVIOUS
    <3>2. FlagsAt(b, p)'
      BY <1>1, <2>1, <2>2, <2>3, <3>1, FlagsOnward
    <3>3. blocks'[b] = p
      BY <2>1, <3>1
    <3>4. QED
      BY <3>2, <3>3 DEF FlagsAt
  <2>4. ASSUME NEW b, b = Slot, b[1] = "flags" PROVE FlagsAt(b, blocks[b])'
    <3>1. /\ at.s \in DOMAIN doc[at.t].body /\ Section = doc[at.t].body[at.s] /\ at.s \in Nat
          /\ at'.t = at.t /\ at'.s = at.s + 1
      BY <1>1, <2>1, Here, PositionFields DEF NextSection, Positions
    <3>2. Section.kind = b[1] /\ Section.key = b[2] /\ Section.cond = b[3]
      BY <2>4 DEF Slot
    <3>3. blocks'[b][1] = at.t /\ blocks'[b][2] = at.s
      BY <2>1, <2>4
    <3>4. QED
      BY <2>1, <2>4, <3>1, <3>2, <3>3 DEF FlagsAt
  <2>5. QED
    BY <2>1, <2>3, <2>4 DEF FlagsRemembered
<1>8. CASE Merge
  <2>1. CASE phase' = "thrown"
    BY <2>1 DEF FlagsRemembered, Within
  <2>2. CASE phase' # "thrown"
    <3> DEFINE into == blocks[Slot]
    <3>1. /\ phase = "merge_blocks" /\ phase' = phase /\ InSection /\ (at.s > 1 \/ at.i = 2)
          /\ at' = NextSection /\ doc' = Merged(into) /\ blocks' = blocks /\ Slot \in DOMAIN blocks
          /\ Section.kind # "install"
      BY <1>8, <2>2 DEF Merge, Mergeable, Entered, LeftAlone
    <3>2. into[1] \in DOMAIN doc /\ into[2] \in DOMAIN doc[into[1]].body
      BY <3>1 DEF MInv, Mergers
    <3> HIDE DEF into
    <3>3. /\ \A u \in DOMAIN doc : doc'[u].kind = doc[u].kind /\ DOMAIN doc'[u].body = DOMAIN doc[u].body
          /\ \A u \in DOMAIN doc : \A r \in DOMAIN doc[u].body :
               u # at.t \/ r # at.s => SameSlot(doc'[u].body[r], doc[u].body[r])
      BY <1>1, <3>1, <3>2, MergedKeeps
    <3>4. at.t \in DOMAIN doc
      BY <1>1, <3>1, Here
    <3>5. ASSUME NEW b \in DOMAIN blocks, b[1] = "flags", Within' PROVE FlagsAt(b, blocks[b])'
      BY <1>1, <3>1, <3>3, <3>4, <3>5, FlagsOnward
    <3>6. QED
      BY <3>1, <3>5 DEF FlagsRemembered
  <2>3. QED
    BY <2>1, <2>2
<1>9. CASE EmitSection \/ NextPhase \/ PrintPrograms \/ PrintLibraries \/ FinishTargets
  <2>1. phase' # "merge_blocks"
    <3>1. CASE EmitSection
      BY <3>1 DEF EmitSection, Emitting, EmitOrder
    <3>2. CASE NextPhase
      BY <3>2, Emits, Successors DEF NextPhase
    <3>3. CASE PrintPrograms \/ PrintLibraries \/ FinishTargets
      BY <3>3 DEF PrintPrograms, PrintLibraries, FinishTargets
    <3>4. QED
      BY <1>9, <3>1, <3>2, <3>3
  <2>2. QED
    BY <2>1 DEF FlagsRemembered, Within
<1>10. QED
  BY <1>2, <1>3, <1>4, <1>5, <1>6, <1>7, <1>8, <1>9 DEF Next

-----------------------------------------------------------------------------
\* Rule files.  When the visitor of imports has come to the end, all files
\* that the document and the files it has read ask for have been read, so
\* these have all that FilesOf has.
Asks(b, x) == b.kind = "extern" /\ x = <<b.name, b.base>>

LEMMA ExternsMean ==
  ASSUME NEW decls, NEW x
  PROVE  x \in Externs(decls) <=> \E b \in Range(decls) : Asks(b, x)
BY DEF Externs, Asks

LEMMA ImportedHas ==
  ASSUME NEW f \in DOMAIN RuleFiles
  PROVE  /\ RuleFiles[f] \in Seq(Blocks) /\ Imported(f) \in Seq(Blocks)
         /\ RuleFiles[f] = << >> => Range(Imported(f)) = {}
         /\ \A b : b \in Range(Imported(f)) <=>
              \E k \in DOMAIN RuleFiles[f] :
                b = RuleFiles[f][k] /\ (k = 1 => RuleFiles[f][1].kind # "extern")
<1> DEFINE decls == RuleFiles[f]
<1>1. decls \in Seq(Blocks)
  BY TargetsAssumption
<1>2. Imported(f) = IF decls # << >> /\ decls[1].kind = "extern" THEN Tail(decls) ELSE decls
  BY DEF Imported
<1> HIDE DEF decls
<1>3. Len(decls) \in Nat /\ DOMAIN decls = 1..Len(decls)
  BY <1>1, LenProperties
<1>4. CASE decls # << >> /\ decls[1].kind = "extern"
  <2>1. /\ Tail(decls) \in Seq(Blocks) /\ Len(Tail(decls)) = Len(decls) - 1
        /\ \A i \in 1..(Len(decls) - 1) : Tail(decls)[i] = decls[i + 1]
    BY <1>1, <1>4, HeadTailProperties
  <2>2. DOMAIN Tail(decls) = 1..(Len(decls) - 1)
    BY <2>1, LenProperties
  <2>3. ASSUME NEW b
        PROVE  b \in Range(Tail(decls)) <=>
                 \E k \in DOMAIN decls : b = decls[k] /\ (k = 1 => decls[1].kind # "extern")
    <3>1. b \in Range(Tail(decls)) <=> \E i \in 1..(Len(decls) - 1) : b = decls[i + 1]
      BY <2>1, <2>2 DEF Range
    <3>2. ASSUME NEW i \in 1..(Len(decls) - 1) PROVE i + 1 \in DOMAIN decls /\ i + 1 # 1
      BY <1>3
    <3>3. ASSUME NEW k \in DOMAIN decls, k # 1 PROVE k - 1 \in 1..(Len(decls) - 1) /\ (k - 1) + 1 = k
      BY <1>3, <3>3
    <3>4. ASSUME b \in Range(Tail(decls))
          PROVE  \E k \in DOMAIN decls : b = decls[k] /\ (k = 1 => decls[1].kind # "extern")
      BY <3>1, <3>2, <3>4
    <3>5. ASSUME NEW k \in DOMAIN decls, b = decls[k], k = 1 => decls[1].kind # "extern"
          PROVE  b \in Range(Tail(decls))
      <4>1. k # 1
        BY <1>4, <3>5
      <4>2. k - 1 \in 1..(Len(decls) - 1) /\ b = decls[(k - 1) + 1]
        BY <3>3, <3>5, <4>1
      <4>3. QED
        BY <3>1, <4>2
    <3>6. QED
      BY <3>4, <3>5
  <2>4. QED
    BY <1>1, <1>2, <1>4, <2>1, <2>3 DEF decls
<1>5. CASE ~(decls # << >> /\ decls[1].kind = "extern")
  <2>1. Imported(f) = decls
    BY <1>2, <1>5
  <2>2. decls = << >> => Range(decls) = {}
    BY ShortRows
  <2>3. ASSUME NEW b
        PROVE  b \in Range(decls) <=>
                 \E k \in DOMAIN decls : b = decls[k] /\ (k = 1 => decls[1].kind # "extern")
    <3>1. decls = << >> => DOMAIN decls = {}
      BY ShortRows
    <3>2. QED
      BY <1>5, <3>1 DEF Range
  <2>4. QED
    BY <1>1, <2>1, <2>2, <2>3 DEF decls
<1>6. QED
  BY <1>4, <1>5

LEMMA RowOfSet ==
  ASSUME NEW S, IsFiniteSet(S), NEW o, o = SetToSeq(S)
  PROVE  /\ Cardinality(S) \in Nat /\ o \in [1..Cardinality(S) -> S]
         /\ \A x \in S : \E k \in 1..Cardinality(S) : o[k] = x
<1> DEFINE n == Cardinality(S)
           zero == [x \in S |-> 0]
<1>1. n \in Nat
  BY FS_CardinalityType
<1>2. zero \in [S -> Nat]
  OBVIOUS
<1> HIDE DEF zero
<1>3. PICK p : p \in ByRank(S, zero)
  BY <1>2, RowByRank
<1>4. p \in [1..n -> S] /\ \A i, j \in 1..n : i # j => p[i] # p[j]
  BY <1>3 DEF ByRank, SetToSeqs
<1>5. IsInjective(p)
  BY <1>4 DEF IsInjective
<1>6. o \in [1..n -> S] /\ IsInjective(o)
  <2>1. \E q \in [1..n -> S] : IsInjective(q)
    BY <1>4, <1>5
  <2>2. o = CHOOSE q \in [1..n -> S] : IsInjective(q)
    BY DEF SetToSeq
  <2>3. QED
    BY <2>1, <2>2
<1>7. o \in SetToSeqs(S) /\ DOMAIN o = 1..n
  BY <1>6 DEF SetToSeqs, IsInjective
<1>8. \A x \in S : \E k \in 1..n : o[k] = x
  BY <1>7, RowHasAll
<1>9. QED
  BY <1>1, <1>6, <1>8

LEMMA CombinedAsks ==
  ASSUME NEW d \in Projects, NEW x
  PROVE  x \in Externs(Combined(d)) <=> x \in Externs(d) \/ \E f \in FilesOf(d) : x \in Externs(Imported(f))
<1> DEFINE S == FilesOf(d)
           files == SetToSeq(S)
           n == Cardinality(S)
           rows == [k \in DOMAIN files |-> Imported(files[k])]
           all == FlattenSeq(rows)
           V == Seq(Blocks)
<1>1. Combined(d) = d \o all
  BY DEF Combined
<1>2. d \in Seq(Blocks)
  BY TargetsAssumption
<1>3. S \subseteq DOMAIN RuleFiles /\ IsFiniteSet(S)
  <2>1. S \subseteq DOMAIN RuleFiles
    BY DEF FilesOf
  <2>2. QED
    BY <2>1, TargetsAssumption, FS_Subset
<1> HIDE DEF S
<1>4. n \in Nat /\ files \in [1..n -> S] /\ \A f \in S : \E k \in 1..n : files[k] = f
  BY <1>3, RowOfSet
<1> HIDE DEF files, n
<1>5. \A f \in S : Imported(f) \in V
  BY <1>3, ImportedHas
<1> HIDE DEF V
<1>6. rows \in [1..n -> V] /\ \A k \in 1..n : rows[k] = Imported(files[k])
  BY <1>4, <1>5
<1> HIDE DEF rows
<1>7. rows \in Seq(V) /\ Len(rows) = n
  BY <1>4, <1>6, SeqDef, LenProperties
<1>8. rows \in Seq(Seq(Blocks))
  BY <1>7 DEF V
<1>9. all \in Seq(Blocks) /\ Range(all) = UNION {Range(rows[k]) : k \in 1..Len(rows)}
  BY <1>8, FlattenType, FlattenRange
<1> HIDE DEF all
<1>10. Range(Combined(d)) = Range(d) \union Range(all)
  BY <1>1, <1>2, <1>9, RangeOfConcat
<1>11. ASSUME NEW b
       PROVE  b \in Range(Combined(d)) <=> b \in Range(d) \/ \E f \in S : b \in Range(Imported(f))
  <2>1. b \in Range(all) <=> \E k \in 1..n : b \in Range(Imported(files[k]))
    BY <1>6, <1>7, <1>9
  <2>2. b \in Range(all) <=> \E f \in S : b \in Range(Imported(f))
    BY <1>4, <2>1
  <2>3. QED
    BY <1>10, <2>2
<1>12. QED
  BY <1>11, ExternsMean DEF S

\* FilesOf has the files that are asked for, and no other set that does is
\* smaller.
LEMMA FilesAsked ==
  ASSUME NEW d \in Projects
  PROVE  /\ \A x \in Externs(Combined(d)) : x[1] \in DOMAIN RuleFiles => x[1] \in FilesOf(d)
         /\ \A files \in SUBSET DOMAIN RuleFiles :
              /\ \A x \in Externs(d) : x[1] \in DOMAIN RuleFiles => x[1] \in files
              /\ \A f \in files : \A x \in Externs(Imported(f)) : x[1] \in DOMAIN RuleFiles => x[1] \in files
              => FilesOf(d) \subseteq files
<1> DEFINE asked(files) == {e[1] : e \in Externs(d) \union UNION {Externs(Imported(f)) : f \in files}}
           closed(files) == asked(files) \intersect DOMAIN RuleFiles \subseteq files
<1>1. FilesOf(d) = {f \in DOMAIN RuleFiles : \A files \in SUBSET DOMAIN RuleFiles : closed(files) => f \in files}
  BY DEF FilesOf
<1>2. ASSUME NEW files, NEW f
      PROVE  f \in asked(files) <=>
               \/ \E x \in Externs(d) : f = x[1]
               \/ \E g \in files : \E x \in Externs(Imported(g)) : f = x[1]
  OBVIOUS
<1> HIDE DEF asked
<1>3. ASSUME NEW x \in Externs(Combined(d)), x[1] \in DOMAIN RuleFiles,
             NEW files \in SUBSET DOMAIN RuleFiles, closed(files)
      PROVE  x[1] \in files
  <2>1. FilesOf(d) \subseteq files
    BY <1>1, <1>3
  <2>2. x[1] \in asked(files)
    BY <1>2, <1>3, <2>1, CombinedAsks
  <2>3. QED
    BY <1>3, <2>2
<1>4. ASSUME NEW files \in SUBSET DOMAIN RuleFiles,
             \A x \in Externs(d) : x[1] \in DOMAIN RuleFiles => x[1] \in files,
             \A f \in files : \A x \in Externs(Imported(f)) : x[1] \in DOMAIN RuleFiles => x[1] \in files
      PROVE  FilesOf(d) \subseteq files
  <2>1. closed(files)
    BY <1>2, <1>4
  <2>2. QED
    BY <1>1, <2>1
<1>5. QED
  BY <1>1, <1>3, <1>4

-----------------------------------------------------------------------------
\* What the visitor has yet to come to.
Ahead(b) == \E t \in DOMAIN doc : t >= at.t /\ doc[t] = b
Settled(x) == x[2] = "double" /\ x[1] \in imported

ImportsSoFar(d) ==
  /\ imported \subseteq DOMAIN RuleFiles
  /\ phase = "imports" =>
       /\ \A b : Ahead(b) /\ b.kind = "extern" => <<b.name, b.base>> \in Externs(project)
       /\ \A x : x \in Externs(d) \/ (\E f \in imported : x \in Externs(Imported(f))) =>
            Settled(x) \/ \E b : Ahead(b) /\ Asks(b, x)
  /\ phase \notin {"imports"} \union Ends => ~FilesMissing

Importing == \E d \in Projects : project = Combined(d) /\ ImportsSoFar(d)

LEMMA SplicedAhead ==
  ASSUME doc \in Docs, at \in Positions, InDocument, NEW decls \in Docs, decls # << >>,
         NEW new, new = Spliced(decls), NEW b
  PROVE  (\E k \in DOMAIN new : k >= at.t + 1 /\ new[k] = b) <=>
           \/ \E j \in DOMAIN decls : j # 1 /\ decls[j] = b
           \/ \E k \in DOMAIN doc : k >= at.t + 1 /\ doc[k] = b
<1> DEFINE n == Len(doc)
           m == Len(decls)
           t == at.t
           first == SubSeq(doc, 1, t - 1)
           last == SubSeq(doc, t + 1, n)
<1>1. /\ doc \in Seq(WordBlocks) /\ n \in Nat /\ DOMAIN doc = 1..n /\ t \in Nat \ {0} /\ t <= n
      /\ decls \in Seq(WordBlocks) /\ m \in Nat /\ DOMAIN decls = 1..m
  BY DocFields, PositionFields DEF Docs, InDocument
<1>2. m # 0
  BY <1>1, EmptySeq
<1>3. /\ first \in Seq(WordBlocks) /\ Len(first) = t - 1
      /\ last \in Seq(WordBlocks) /\ Len(last) = n - t
      /\ \A i \in 1..(n - t) : last[i] = doc[t + i]
  <2>1. \A i \in 1..n : doc[i] \in WordBlocks
    BY <1>1, DocFields
  <2>2. /\ first \in Seq(WordBlocks) /\ Len(first) = t - 1
    <3>1. (\A i \in 1..(t - 1) : doc[i] \in WordBlocks) /\ 1 \in Int /\ t - 1 \in Int
      BY <1>1, <2>1
    <3>2. /\ first \in Seq(WordBlocks)
          /\ Len(first) = IF 1 <= t - 1 THEN (t - 1) - 1 + 1 ELSE 0
      BY <3>1, SubSeqProperties
    <3> HIDE DEF first, t
    <3>3. QED
      BY <1>1, <3>2
  <2>3. /\ last \in Seq(WordBlocks) /\ Len(last) = n - t
        /\ \A i \in 1..(n - t) : last[i] = doc[t + i]
    <3>1. (\A i \in (t + 1)..n : doc[i] \in WordBlocks) /\ t + 1 \in Int /\ n \in Int
      BY <1>1, <2>1
    <3>2. /\ last \in Seq(WordBlocks)
          /\ Len(last) = IF t + 1 <= n THEN n - (t + 1) + 1 ELSE 0
          /\ \A i \in 1..(n - (t + 1) + 1) : last[i] = doc[t + 1 + i - 1]
      BY <3>1, SubSeqProperties
    <3> HIDE DEF last, t, n
    <3>3. Len(last) = n - t /\ n - (t + 1) + 1 = n - t
      BY <1>1, <3>2
    <3>4. \A i \in 1..(n - t) : t + 1 + i - 1 = t + i
      BY <1>1
    <3>5. QED
      BY <3>2, <3>3, <3>4
  <2>4. QED
    BY <2>2, <2>3
<1>4. new = (first \o decls) \o last
  BY DEF Spliced
<1> HIDE DEF first, last
<1> DEFINE w == first \o decls
<1>5. /\ IsRow(w) /\ Len(w) = t - 1 + m
      /\ \A i \in 1..m : w[t - 1 + i] = decls[i]
  <2>1. IsRow(first) /\ IsRow(decls)
    BY <1>1, <1>3, RowOf
  <2>2. /\ IsRow(first \o decls) /\ Len(first \o decls) = Len(first) + Len(decls)
        /\ \A i \in 1..Len(decls) : (first \o decls)[Len(first) + i] = decls[i]
    BY ONLY <2>1, RowsJoined
  <2>3. QED
    BY <1>3, <2>2
<1> HIDE DEF w
<1>6. /\ DOMAIN new = 1..(t - 1 + m + (n - t))
      /\ \A i \in 1..(t - 1 + m) : new[i] = w[i]
      /\ \A i \in 1..(n - t) : new[t - 1 + m + i] = last[i]
  <2>1. new = w \o last /\ IsRow(last) /\ IsRow(w)
    BY <1>3, <1>4, <1>5, RowOf DEF w
  <2>2. /\ DOMAIN (w \o last) = 1..(Len(w) + Len(last))
        /\ \A i \in 1..Len(w) : (w \o last)[i] = w[i]
        /\ \A i \in 1..Len(last) : (w \o last)[Len(w) + i] = last[i]
    BY ONLY <2>1, RowsJoined
  <2>3. QED
    BY <1>3, <1>5, <2>1, <2>2
<1> HIDE DEF n, m, t
<1>7. ASSUME NEW k \in DOMAIN new, k >= t + 1, new[k] = b
      PROVE  \/ \E j \in DOMAIN decls : j # 1 /\ decls[j] = b
             \/ \E j \in DOMAIN doc : j >= t + 1 /\ doc[j] = b
  <2>1. k \in 1..(t - 1 + m + (n - t))
    BY <1>6
  <2>2. CASE k <= t - 1 + m
    <3> DEFINE j == k - (t - 1)
    <3>1. j \in 1..m /\ j # 1 /\ k = t - 1 + j /\ k \in 1..(t - 1 + m)
      BY <1>1, <1>7, <2>1, <2>2
    <3> HIDE DEF j
    <3>2. new[k] = w[k] /\ w[t - 1 + j] = decls[j]
      BY <1>5, <1>6, <3>1
    <3>3. decls[j] = b
      BY <1>7, <3>1, <3>2
    <3>4. QED
      BY <1>1, <3>1, <3>3
  <2>3. CASE ~(k <= t - 1 + m)
    <3> DEFINE i == k - (t - 1 + m)
    <3>1. i \in 1..(n - t) /\ k = t - 1 + m + i
      BY <1>1, <2>1, <2>3
    <3> HIDE DEF i
    <3>2. new[t - 1 + m + i] = last[i] /\ last[i] = doc[t + i]
      BY <1>3, <1>6, <3>1
    <3>3. t + i \in 1..n /\ t + i >= t + 1
      BY <1>1, <3>1
    <3>4. doc[t + i] = b
      BY <1>7, <3>1, <3>2
    <3>5. QED
      BY <1>1, <3>3, <3>4
  <2>4. QED
    BY <2>2, <2>3
<1>8. ASSUME NEW j \in DOMAIN decls, j # 1, decls[j] = b
      PROVE  \E k \in DOMAIN new : k >= t + 1 /\ new[k] = b
  <2> DEFINE k == t - 1 + j
  <2>1. j \in 1..m /\ k \in 1..(t - 1 + m) /\ k \in 1..(t - 1 + m + (n - t)) /\ k >= t + 1
    BY <1>1, <1>8
  <2>2. new[k] = decls[j]
    BY <1>5, <1>6, <2>1
  <2> HIDE DEF k
  <2>3. QED
    BY <1>6, <1>8, <2>1, <2>2
<1>9. ASSUME NEW j \in DOMAIN doc, j >= t + 1, doc[j] = b
      PROVE  \E k \in DOMAIN new : k >= t + 1 /\ new[k] = b
  <2> DEFINE i == j - t
             k == t - 1 + m + i
  <2>1. /\ i \in 1..(n - t) /\ t + i = j /\ k = t - 1 + m + i
        /\ k \in 1..(t - 1 + m + (n - t)) /\ k >= t + 1
    BY <1>1, <1>2, <1>9
  <2> HIDE DEF i, k
  <2>2. new[k] = doc[j]
    BY <1>3, <1>6, <2>1
  <2>3. QED
    BY <1>6, <1>9, <2>1, <2>2
<1>10. QED
  BY <1>7, <1>8, <1>9 DEF t

LEMMA ImportAhead ==
  ASSUME MInv, NEW d \in Projects, project = Combined(d), ImportsSoFar(d), ImportFile
  PROVE  ImportsSoFar(d)'
<1> DEFINE f == Block.name
           x0 == <<Block.name, Block.base>>
<1>1. /\ doc \in Docs /\ at \in Positions /\ InDocument /\ phase = "imports" /\ phase' = phase
      /\ Block.kind = "extern" /\ Block.base = "double" /\ f \in DOMAIN RuleFiles
      /\ imported' = imported \union {f} /\ project' = project
      /\ doc' = (IF RuleFiles[f] = << >> THEN doc ELSE Spliced(RuleFiles[f]))
      /\ at'.t = at.t + 1 /\ at.t \in Nat
  BY PositionFields DEF MInv, Typed, ImportFile, NextBlock, Start
<1>2. at.t \in DOMAIN doc /\ doc[at.t] = Block
  BY <1>1, Here
<1>3. x0[1] = f /\ x0[2] = "double" /\ x0 \in Externs(project)
  <2>1. Ahead(Block)
    BY <1>1, <1>2 DEF Ahead
  <2>2. QED
    BY <1>1, <2>1 DEF ImportsSoFar
<1>4. f \in FilesOf(d)
  BY <1>1, <1>3, FilesAsked
<1>5. \A x \in Externs(Imported(f)) : x \in Externs(project)
  BY <1>4, CombinedAsks
<1>6. ASSUME NEW b
      PROVE  /\ Ahead(b)' => Ahead(b) \/ (b.kind = "extern" => b \in Range(Imported(f)))
             /\ Ahead(b) => b = Block \/ Ahead(b)'
             /\ b \in Range(Imported(f)) /\ b.kind = "extern" => Ahead(b)'
  <2>1. Ahead(b) <=> b = Block \/ \E k \in DOMAIN doc : k >= at.t + 1 /\ doc[k] = b
    <3>1. \A k \in DOMAIN doc : k \in Nat
      BY <1>1, DocFields
    <3>2. ASSUME NEW k \in DOMAIN doc PROVE k >= at.t <=> k = at.t \/ k >= at.t + 1
      BY <1>1, <3>1
    <3>3. QED
      BY <1>2, <3>2 DEF Ahead
  <2>2. Ahead(b)' <=> \E k \in DOMAIN doc' : k >= at.t + 1 /\ doc'[k] = b
    BY <1>1 DEF Ahead
  <2>3. CASE RuleFiles[f] = << >>
    <3>1. Range(Imported(f)) = {}
      BY <1>1, <2>3, ImportedHas
    <3>2. doc' = doc
      BY <1>1, <2>3
    <3>3. Ahead(b)' <=> \E k \in DOMAIN doc : k >= at.t + 1 /\ doc[k] = b
      BY <2>2, <3>2
    <3>4. QED
      BY <2>1, <3>1, <3>3
  <2>4. CASE RuleFiles[f] # << >>
    <3> DEFINE decls == RuleFiles[f]
    <3>1. decls \in Docs
      <4>1. decls \in Seq(Blocks)
        BY <1>1, ImportedHas
      <4> HIDE DEF decls
      <4>2. QED
        BY <4>1, BlocksOfWords, SeqMonotonic DEF Docs
    <3>2. doc' = Spliced(decls)
      BY <1>1, <2>4
    <3>3. b \in Range(Imported(f)) <=>
            \E k \in DOMAIN decls : b = decls[k] /\ (k = 1 => decls[1].kind # "extern")
      BY <1>1, ImportedHas
    <3>4. decls # << >>
      BY <2>4
    <3> HIDE DEF decls
    <3>5. Ahead(b)' <=> \/ \E j \in DOMAIN decls : j # 1 /\ decls[j] = b
                        \/ \E k \in DOMAIN doc : k >= at.t + 1 /\ doc[k] = b
      <4>1. PICK new : new = doc'
        OBVIOUS
      <4>2. (\E k \in DOMAIN new : k >= at.t + 1 /\ new[k] = b) <=>
              \/ \E j \in DOMAIN decls : j # 1 /\ decls[j] = b
              \/ \E k \in DOMAIN doc : k >= at.t + 1 /\ doc[k] = b
        BY <1>1, <3>1, <3>2, <3>4, <4>1, SplicedAhead
      <4>3. QED
        BY <2>2, <4>1, <4>2
    <3>6. b \in Range(RuleFiles[f]) <=> \E j \in DOMAIN decls : b = decls[j]
      BY DEF Range, decls
    <3>7. ASSUME b.kind = "extern", b \in Range(Imported(f)) PROVE \E j \in DOMAIN decls : j # 1 /\ decls[j] = b
      BY <3>3, <3>7
    <3>8. ASSUME NEW j \in DOMAIN decls, j # 1, decls[j] = b
          PROVE  b \in Range(RuleFiles[f]) /\ b \in Range(Imported(f))
      BY <3>3, <3>6, <3>8
    <3>9. QED
      BY <2>1, <3>5, <3>7, <3>8
  <2>5. QED
    BY <2>3, <2>4
<1>7. ASSUME NEW b, Ahead(b)', b.kind = "extern" PROVE <<b.name, b.base>> \in Externs(project)
  <2>1. CASE Ahead(b)
    BY <1>1, <1>7, <2>1 DEF ImportsSoFar
  <2>2. CASE b \in Range(Imported(f))
    <3> DEFINE x == <<b.name, b.base>>
    <3>1. Asks(b, x)
      BY <1>7 DEF Asks
    <3> HIDE DEF x
    <3>2. x \in Externs(Imported(f))
      BY <2>2, <3>1, ExternsMean
    <3>3. QED
      BY <1>5, <3>2 DEF x
  <2>3. QED
    BY <1>6, <1>7, <2>1, <2>2
<1>8. ASSUME NEW x, x \in Externs(d) \/ (\E g \in imported' : x \in Externs(Imported(g)))
      PROVE  Settled(x)' \/ \E b : Ahead(b)' /\ Asks(b, x)
  <2>1. CASE x \in Externs(Imported(f))
    <3>1. PICK b \in Range(Imported(f)) : Asks(b, x)
      BY <2>1, ExternsMean
    <3>2. Ahead(b)'
      BY <1>6, <3>1 DEF Asks
    <3>3. QED
      BY <3>1, <3>2
  <2>2. CASE x \in Externs(d) \/ (\E g \in imported : x \in Externs(Imported(g)))
    <3>1. Settled(x) \/ \E b : Ahead(b) /\ Asks(b, x)
      BY <1>1, <2>2 DEF ImportsSoFar
    <3>2. CASE Settled(x)
      BY <1>1, <3>2 DEF Settled
    <3>3. ASSUME NEW b, Ahead(b), Asks(b, x)
          PROVE  Settled(x)' \/ \E c : Ahead(c)' /\ Asks(c, x)
      <4>1. CASE b = Block
        <5>1. x = x0
          BY <3>3, <4>1 DEF Asks
        <5>2. QED
          BY <1>1, <1>3, <5>1 DEF Settled
      <4>2. CASE Ahead(b)'
        BY <3>3, <4>2
      <4>3. QED
        BY <1>6, <3>3, <4>1, <4>2
    <3>4. QED
      BY <3>1, <3>2, <3>3
  <2>3. QED
    BY <1>1, <1>8, <2>1, <2>2
<1>9. imported' \subseteq DOMAIN RuleFiles
  BY <1>1 DEF ImportsSoFar
<1>10. phase' = "imports"
  BY <1>1
<1>11. (\A b : Ahead(b) /\ b.kind = "extern" => <<b.name, b.base>> \in Externs(project))'
  BY <1>1, <1>7
<1>12. (\A x : x \in Externs(d) \/ (\E g \in imported : x \in Externs(Imported(g))) =>
            Settled(x) \/ \E b : Ahead(b) /\ Asks(b, x))'
  BY <1>8
<1>13. QED
  BY <1>9, <1>10, <1>11, <1>12 DEF ImportsSoFar

LEMMA PassAhead ==
  ASSUME MInv, NEW d \in Projects, project = Combined(d), ImportsSoFar(d), PassDeclaration
  PROVE  ImportsSoFar(d)'
<1>1. /\ doc \in Docs /\ at \in Positions /\ InDocument /\ phase = "imports" /\ phase' = phase
      /\ Block.kind = "extern" => Block.base = "double" /\ Block.name \in imported
      /\ imported' = imported /\ project' = project /\ doc' = doc
      /\ at'.t = at.t + 1 /\ at.t \in Nat
  BY PositionFields DEF MInv, Typed, PassDeclaration, NextBlock, Start, Seen
<1>2. at.t \in DOMAIN doc /\ doc[at.t] = Block
  BY <1>1, Here
<1>3. ASSUME NEW b PROVE (Ahead(b)' => Ahead(b)) /\ (Ahead(b) => b = Block \/ Ahead(b)')
  <2>1. \A k \in DOMAIN doc : k \in Nat
    BY <1>1, DocFields
  <2>2. ASSUME NEW k \in DOMAIN doc PROVE k >= at.t <=> k = at.t \/ k >= at.t + 1
    BY <1>1, <2>1
  <2>3. QED
    BY <1>1, <1>2, <2>2 DEF Ahead
<1>4. ASSUME NEW x, x \in Externs(d) \/ (\E g \in imported : x \in Externs(Imported(g)))
      PROVE  Settled(x)' \/ \E b : Ahead(b)' /\ Asks(b, x)
  <2>1. Settled(x) \/ \E b : Ahead(b) /\ Asks(b, x)
    BY <1>1, <1>4 DEF ImportsSoFar
  <2>2. CASE Settled(x)
    BY <1>1, <2>2 DEF Settled
  <2>3. ASSUME NEW b, Ahead(b), Asks(b, x)
        PROVE  Settled(x)' \/ \E c : Ahead(c)' /\ Asks(c, x)
    <3>1. CASE b = Block
      <4>1. x[1] = Block.name /\ x[2] = Block.base /\ Block.kind = "extern"
        BY <2>3, <3>1 DEF Asks
      <4>2. QED
        BY <1>1, <4>1 DEF Settled
    <3>2. CASE Ahead(b)'
      BY <2>3, <3>2
    <3>3. QED
      BY <1>3, <2>3, <3>1, <3>2
  <2>4. QED
    BY <2>1, <2>2, <2>3
<1>5. imported' \subseteq DOMAIN RuleFiles /\ phase' = "imports"
  BY <1>1 DEF ImportsSoFar
<1>6. (\A b : Ahead(b) /\ b.kind = "extern" => <<b.name, b.base>> \in Externs(project))'
  <2>1. ASSUME NEW b, Ahead(b)', b.kind = "extern" PROVE <<b.name, b.base>> \in Externs(project)
    BY <1>1, <1>3, <2>1 DEF ImportsSoFar
  <2>2. QED
    BY <1>1, <2>1
<1>7. (\A x : x \in Externs(d) \/ (\E g \in imported : x \in Externs(Imported(g))) =>
            Settled(x) \/ \E b : Ahead(b) /\ Asks(b, x))'
  BY <1>1, <1>4
<1>8. QED
  BY <1>5, <1>6, <1>7 DEF ImportsSoFar

LEMMA AllImported ==
  ASSUME MInv, NEW d \in Projects, project = Combined(d), ImportsSoFar(d), phase = "imports", ~InDocument
  PROVE  ~FilesMissing
<1>1. ASSUME NEW b, Ahead(b) PROVE FALSE
  <2>1. doc \in Docs /\ at.t \in Nat /\ ~(at.t <= Len(doc))
    BY PositionFields DEF MInv, Typed, InDocument
  <2>2. PICK t \in DOMAIN doc : t >= at.t
    BY <1>1 DEF Ahead
  <2>3. t \in 1..Len(doc) /\ Len(doc) \in Nat
    BY <2>1, DocFields
  <2>4. QED
    BY <2>1, <2>2, <2>3
<1>2. ASSUME NEW x, x \in Externs(d) \/ (\E f \in imported : x \in Externs(Imported(f)))
      PROVE  x[2] = "double" /\ x[1] \in imported
  BY <1>1, <1>2 DEF ImportsSoFar, Settled
<1>3. imported \in SUBSET DOMAIN RuleFiles
  BY DEF ImportsSoFar
<1>4. FilesOf(d) \subseteq imported
  BY <1>2, <1>3, FilesAsked
<1>5. ASSUME NEW x \in Externs(project) PROVE x \in {<<f, "double">> : f \in DOMAIN RuleFiles}
  <2>1. x[2] = "double" /\ x[1] \in imported
    BY <1>2, <1>4, CombinedAsks
  <2>2. PICK b \in Range(project) : Asks(b, x)
    BY ExternsMean
  <2>3. x = <<x[1], x[2]>>
    BY <2>2 DEF Asks
  <2>4. QED
    BY <1>3, <2>1, <2>3
<1>6. QED
  BY <1>5 DEF FilesMissing

\* Behind imports nothing is imported, and only two steps throw.
LEMMA TargetsLater ==
  ASSUME TargetsNext, phase # "imports"
  PROVE  project' = project /\ imported' = imported /\ phase' \notin {"imports", "thrown"}
<1>1. CASE NextTargetPhase
  BY <1>1 DEF NextTargetPhase, After, TargetPhases
<1>2. CASE AddDefaultFlags
  BY <1>2 DEF AddDefaultFlags, After
<1>3. CASE ImportFile \/ PassDeclaration \/ ImportFails
  BY <1>3 DEF ImportFile, PassDeclaration, ImportFails
<1>4. CASE InsertGlobal \/ VisitBlock \/ VisitBase
  BY <1>4 DEF InsertGlobal, VisitBlock, VisitBase
<1>5. CASE CopyBase
  BY <1>5 DEF CopyBase
<1>6. CASE CopyMovingBase \/ PassFlags \/ ImportFlagsCrashes
  BY <1>6 DEF CopyMovingBase, PassFlags, ImportFlagsCrashes
<1>7. CASE ImportFlags
  <2>1. phase = "resolve_flagsref" /\ phase' \in {phase, "exhausted"} /\ project' = project /\ imported' = imported
    BY <1>7 DEF ImportFlags
  <2>2. QED
    BY <2>1
<1>8. CASE DefaultDest \/ RemoveTemplate
  BY <1>8 DEF DefaultDest, RemoveTemplate
<1>9. QED
  BY <1>1, <1>2, <1>3, <1>4, <1>5, <1>6, <1>7, <1>8 DEF TargetsNext

LEMMA Later ==
  ASSUME Next, phase # "imports"
  PROVE  /\ project' = project /\ imported' = imported /\ phase' # "imports" /\ phase \notin Ends
         /\ phase' = "thrown" => Merge \/ PrintLibraries
<1>1. CASE TargetsNext
  BY <1>1, TargetsLater, TargetsPhases, PhasesDiffer
<1>2. CASE EnterBlock \/ LeaveBlock \/ PassSection \/ DropFlags \/ Remember
  BY <1>2 DEF EnterBlock, LeaveBlock, PassSection, DropFlags, Remember, Mergeable, Entered, Ends
<1>3. CASE Merge
  <2>1. phase = "merge_blocks" /\ phase' \in {phase, "thrown"} /\ project' = project /\ imported' = imported
    BY <1>3 DEF Merge, Mergeable, Entered
  <2>2. QED
    BY <1>3, <2>1 DEF Ends
<1>4. CASE EmitSection
  <2>1. Emitting /\ phase' \in {phase, "crashed"} /\ project' = project /\ imported' = imported
    BY <1>4 DEF EmitSection
  <2>2. QED
    BY <2>1, Emits DEF Ends
<1>5. CASE NextPhase
  BY <1>5, Emits, Successors DEF NextPhase, Ends
<1>6. CASE PrintPrograms \/ FinishTargets
  BY <1>6 DEF PrintPrograms, FinishTargets, Ends
<1>7. CASE PrintLibraries
  <2>1. phase = "emit_targets" /\ phase' \in {phase, "thrown"} /\ project' = project /\ imported' = imported
    BY <1>7 DEF PrintLibraries
  <2>2. QED
    BY <1>7, <2>1 DEF Ends
<1>8. QED
  BY <1>1, <1>2, <1>3, <1>4, <1>5, <1>6, <1>7 DEF Next

LEMMA ImportsStep ==
  ASSUME MInv, NEW d \in Projects, project = Combined(d), ImportsSoFar(d), Next
  PROVE  project' = project /\ ImportsSoFar(d)'
<1>1. CASE phase # "imports"
  <2>1. project' = project /\ imported' = imported /\ phase' # "imports" /\ phase \notin Ends
    BY <1>1, Later
  <2>2. ~FilesMissing
    BY <1>1, <2>1 DEF ImportsSoFar
  <2>3. ~FilesMissing'
    BY <2>1, <2>2 DEF FilesMissing
  <2>4. QED
    BY <2>1, <2>3 DEF ImportsSoFar
<1>2. CASE phase = "imports"
  <2>1. NextTargetPhase \/ ImportFile \/ PassDeclaration \/ ImportFails
    <3>1. TargetsNext
      <4>1. ~Emitting
        BY <1>2, Emits DEF EmitPhases
      <4>2. QED
        BY <1>2, <4>1 DEF Next, EnterBlock, LeaveBlock, PassSection, DropFlags, Remember, Merge, Mergeable,
                          Entered, EmitSection, NextPhase, PrintPrograms, PrintLibraries, FinishTargets
    <3>2. QED
      BY <1>2, <3>1 DEF TargetsNext, AddDefaultFlags, InsertGlobal, VisitBlock, VisitBase, CopyBase,
                        CopyMovingBase, PassFlags, ImportFlags, ImportFlagsCrashes, DefaultDest,
                        RemoveTemplate, InFlags
  <2>2. CASE ImportFile
    BY <2>2, ImportAhead DEF ImportFile
  <2>3. CASE PassDeclaration
    BY <2>3, PassAhead DEF PassDeclaration
  <2>4. CASE ImportFails
    <3>1. phase' \in Ends /\ phase' # "imports" /\ imported' = imported /\ project' = project
      BY <2>4 DEF ImportFails, Ends
    <3>2. QED
      BY <3>1 DEF ImportsSoFar
  <2>5. CASE NextTargetPhase
    <3>1. ~FilesMissing
      BY <1>2, <2>5, AllImported DEF NextTargetPhase
    <3>2. phase' \in {"default_flags", "failed"} /\ imported' = imported /\ project' = project
      BY <1>2, <2>5 DEF NextTargetPhase, After
    <3>3. ~FilesMissing'
      BY <3>1, <3>2 DEF FilesMissing
    <3>4. QED
      BY <3>2, <3>3 DEF ImportsSoFar
  <2>6. QED
    BY <2>1, <2>2, <2>3, <2>4, <2>5
<1>3. QED
  BY <1>1, <1>2

-----------------------------------------------------------------------------
\* Why a run throws.
LEMMA ThrowsFirst ==
  ASSUME MInv, FlagsRemembered, Importing, Next, phase' = "thrown"
  PROVE  FilesMissing' \/ FlagsMeet' \/ Circle(Linked)'
<1>1. PICK d \in Projects : project = Combined(d) /\ ImportsSoFar(d)
  BY DEF Importing
<1>2. CASE Merge
  BY <1>2, ThrowsWhenFlagsMeet
<1>3. CASE PrintLibraries
  <2>1. /\ doc \in Docs /\ doc' = doc /\ phase = "emit_targets"
    BY <1>3 DEF MInv, Typed, PrintLibraries
  <2>2. Orders(Group("library", Dirs[at.t])) = {}
    BY <1>3, <2>1 DEF PrintLibraries
  <2>3. Circle(Linked)
    BY <2>1, <2>2, OrdersExist
  <2>4. Linked' = Linked
    BY <2>1 DEF Linked, LinkedBy
  <2>5. QED
    BY <2>3, <2>4 DEF Circle
<1>4. CASE phase = "imports"
  <2>1. ImportFails
    <3>1. CASE TargetsNext
      <4>1. CASE ImportFails
        BY <4>1
      <4>2. CASE NextTargetPhase
        BY <1>4, <4>2 DEF NextTargetPhase, After
      <4>3. CASE ~ImportFails /\ ~NextTargetPhase
        BY <1>4, <3>1, <4>3 DEF TargetsNext, ImportFile, PassDeclaration, AddDefaultFlags, InsertGlobal,
                          VisitBlock, VisitBase, CopyBase, CopyMovingBase, PassFlags, ImportFlags,
                          ImportFlagsCrashes, DefaultDest, RemoveTemplate, InFlags
      <4>4. QED
        BY <4>1, <4>2, <4>3
    <3>2. CASE ~TargetsNext
      <4>1. ~Emitting
        BY <1>4, Emits DEF EmitPhases
      <4>2. QED
        BY <1>4, <3>2, <4>1
           DEF Next, EnterBlock, LeaveBlock, PassSection, DropFlags, Remember, Merge, Mergeable,
               Entered, EmitSection, NextPhase, PrintPrograms, PrintLibraries, FinishTargets
    <3>3. QED
      BY <3>1, <3>2
  <2> DEFINE x == <<Block.name, Block.base>>
  <2>2. /\ InDocument /\ Block.kind = "extern" /\ Block.base = "double"
        /\ Block.name \notin DOMAIN RuleFiles /\ project' = project
    BY <2>1 DEF ImportFails
  <2>3. Ahead(Block)
    <3>1. at.t \in DOMAIN doc /\ Block = doc[at.t] /\ at.t \in Nat
      BY <2>2, Here, PositionFields DEF MInv, Typed
    <3>2. QED
      BY <3>1 DEF Ahead
  <2>4. x \in Externs(project)
    BY <1>1, <1>4, <2>2, <2>3 DEF ImportsSoFar
  <2>5. x[1] \notin DOMAIN RuleFiles
    BY <2>2
  <2> HIDE DEF x
  <2>6. x \notin {<<f, "double">> : f \in DOMAIN RuleFiles}
    BY <2>5
  <2>7. QED
    BY <2>2, <2>4, <2>6 DEF FilesMissing
<1>5. QED
  BY <1>2, <1>3, <1>4, Later

\* The invariant of the theorem.
EndsInv == MInv /\ FlagsRemembered /\ Importing /\ ThrowsForAReason

LEMMA EndsAtFirst == Init => EndsInv
<1> SUFFICES ASSUME Init PROVE EndsInv
  OBVIOUS
<1>1. MInv
  BY InvAtFirst
<1>2. /\ doc \in Projects /\ project = Combined(doc) /\ phase = "imports" /\ at = Start /\ imported = {}
  BY DEF Init, TargetsInit
<1>3. FlagsRemembered /\ ThrowsForAReason
  BY <1>2 DEF FlagsRemembered, Within, ThrowsForAReason
<1>4. \A b : Ahead(b) <=> b \in Range(doc)
  <2>1. \A t \in DOMAIN doc : t >= at.t
    <3>1. doc \in Docs
      BY <1>1 DEF MInv, Typed
    <3>2. QED
      BY <1>2, <3>1, DocFields DEF Start
  <2>2. QED
    BY <2>1 DEF Ahead, Range
<1>5. ASSUME NEW b, Ahead(b), b.kind = "extern" PROVE <<b.name, b.base>> \in Externs(project)
  <2> DEFINE x == <<b.name, b.base>>
  <2>1. Asks(b, x)
    BY <1>5 DEF Asks
  <2> HIDE DEF x
  <2>2. x \in Externs(doc)
    BY <1>4, <1>5, <2>1, ExternsMean
  <2>3. x \in Externs(project)
    BY <1>2, <2>2, CombinedAsks
  <2>4. QED
    BY <2>3 DEF x
<1>6. ASSUME NEW x, x \in Externs(doc) \/ (\E f \in imported : x \in Externs(Imported(f)))
      PROVE  \E b : Ahead(b) /\ Asks(b, x)
  BY <1>2, <1>4, <1>6, ExternsMean
<1>7. ImportsSoFar(doc)
  BY <1>2, <1>5, <1>6 DEF ImportsSoFar
<1>8. Importing
  BY <1>2, <1>7 DEF Importing
<1>9. QED
  BY <1>1, <1>3, <1>8 DEF EndsInv

LEMMA EndsGoOn == EndsInv /\ [Next]_vars => EndsInv'
<1> SUFFICES ASSUME EndsInv, [Next]_vars PROVE EndsInv'
  OBVIOUS
<1>1. MInv'
  BY InvGoesOn DEF EndsInv
<1>2. CASE Next
  <2>1. FlagsRemembered'
    BY <1>2, FlagsStay DEF EndsInv
  <2>2. Importing'
    <3>1. PICK d \in Projects : project = Combined(d) /\ ImportsSoFar(d)
      BY DEF EndsInv, Importing
    <3>2. project' = project /\ ImportsSoFar(d)'
      BY <1>2, <3>1, ImportsStep DEF EndsInv
    <3>3. QED
      BY <3>1, <3>2 DEF Importing
  <2>3. ThrowsForAReason'
    BY <1>2, ThrowsFirst DEF EndsInv, ThrowsForAReason
  <2>4. QED
    BY <1>1, <2>1, <2>2, <2>3 DEF EndsInv
<1>3. CASE UNCHANGED vars
  <2>1. /\ doc' = doc /\ at' = at /\ phase' = phase /\ blocks' = blocks /\ project' = project
        /\ imported' = imported
    BY <1>3 DEF vars
  <2>2. FlagsRemembered'
    BY <2>1 DEF EndsInv, FlagsRemembered, Within, InDocument, Block, FlagsAt
  <2>3. Importing'
    BY <2>1 DEF EndsInv, Importing, ImportsSoFar, Ahead, Settled, FilesMissing
  <2>4. ThrowsForAReason'
    <3>1. FilesMissing' <=> FilesMissing
      BY <2>1 DEF FilesMissing
    <3>2. FlagsMeet' <=> FlagsMeet
      BY <2>1 DEF FlagsMeet
    <3>3. Linked' = Linked
      BY <2>1 DEF Linked, LinkedBy
    <3>4. Circle(Linked)' <=> Circle(Linked)
      BY <3>3 DEF Circle
    <3>5. QED
      BY <2>1, <3>1, <3>2, <3>4 DEF EndsInv, ThrowsForAReason
  <2>5. QED
    BY <1>1, <2>2, <2>3, <2>4 DEF EndsInv
<1>4. QED
  BY <1>2, <1>3

LEMMA EndsMean == EndsInv => FilesAreThere /\ ThrowsForAReason
<1> SUFFICES ASSUME EndsInv PROVE FilesAreThere /\ ThrowsForAReason
  OBVIOUS
<1>1. phase = "done" => ~FilesMissing
  BY DEF EndsInv, Importing, ImportsSoFar, Ends
<1>2. QED
  BY <1>1 DEF EndsInv, FilesAreThere

\* For every document and all rule files, a Makefile is printed only when all
\* rule files that are asked for, in whatever order they ask for each other,
\* are there (imports.cpp:43-67); and an exception that ends a run comes of one
\* that is not, of two sections of flags in one target (merge_blocks.cpp:41-55, 85)
\* or of libraries of one directory that are linked in a circle: otherwise they
\* can be sorted (emit_targets.cpp:108-142, util/graph.h).
THEOREM MakefileThrowsForAReason == Spec => [](FilesAreThere /\ ThrowsForAReason)
BY EndsAtFirst, EndsGoOn, EndsMean, PTL DEF Spec
=============================================================================
