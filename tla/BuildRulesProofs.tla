-------------------------- MODULE BuildRulesProofs ---------------------------
(***************************************************************************)
(* Theorems of the way from the table to the rules in the Makefile, for    *)
(* all documents and tables: a rule is printed once, what is needed gets   *)
(* its recipe and nothing else does, errors are for the gaps only, and     *)
(* recursion is no deeper than there are files unless rules need each      *)
(* other.                                                                  *)
(***************************************************************************)
EXTENDS BuildRules, SetInduction

Phases == {"infer_target_objects", "instantiate_rules", "emit_rules", "aborted",
           "failed", "overflow", "done"}

Calls == [files : Seq(Name), accept : BOOLEAN, at : Nat \ {0}]

Lines == [kind : {"if", "rule", "endif"}, what : Name \union Cond \union {NoCond}]

\* The document: the names that its sources are given are names.
Document ==
  /\ blocks \in Seq(Blocks)
  /\ \A b \in DOMAIN blocks :
       /\ ~blocks[b].target => blocks[b].sources = << >>
       /\ \A s \in Range(blocks[b].sources) : ObjectOf[b][s] \in Name /\ SubdirOf[s] \in Name
       /\ Range(blocks[b].plain) \subseteq Name

\* The table: it has recipes for known files.
Tabled ==
  /\ files \in SUBSET Name
  /\ DOMAIN table \subseteq files
  /\ \A f \in DOMAIN table : table[f] \in Recipes

TypeInv ==
  /\ members \in [0..Len(blocks) -> Seq(Name)]
  /\ phase \in Phases
  /\ block \in Nat \ {0}
  /\ list \in Nat \ {0}
  /\ objs \in [DOMAIN blocks -> Seq(Name)]
  /\ calls \in Seq(Calls)
  /\ done \in SUBSET Name
  /\ errors \in SUBSET Name
  /\ node \in Nat \ {0}
  /\ seen \in SUBSET Name
  /\ lines \in Seq(Lines)

\* Before rules are instantiated.
Early == phase \in {"infer_target_objects", "aborted"}

\* Nothing has been instantiated early on; and where infer_target_objects has
\* been there are recipes for the objects.
Inferred ==
  /\ Early => /\ calls = << >> /\ done = {} /\ errors = {} /\ list = 1
              /\ \A b \in 0..Len(blocks) : members[b] = << >>
  /\ \A b \in DOMAIN blocks :
       ~Early \/ b < block => objs[b] = Objects(b) /\ Range(Objects(b)) \subseteq DOMAIN table

\* What is asked for, done or missed is needed.
Sound ==
  /\ phase \notin {"instantiate_rules", "overflow"} => calls = << >>
  /\ \A i \in DOMAIN calls :
       /\ Range(calls[i].files) \subseteq Everything
       /\ ~calls[i].accept => Range(calls[i].files) \subseteq ToBuild
  /\ done \subseteq Everything \intersect DOMAIN table
  /\ errors \subseteq (Everything \ files) \union (ToBuild \ DOMAIN table)

\* A file has been seen to, for a caller who accepts that it exists or not.
Handled(f, accept) ==
  IF f \in DOMAIN table THEN f \in done ELSE f \notin files \/ ~accept => f \in errors

\* One of these calls will come to it.
Pending(row, f, accept) ==
  \E i \in DOMAIN row : /\ row[i].accept = accept
                        /\ \E j \in DOMAIN row[i].files :
                             j >= row[i].at /\ row[i].files[j] = f

Settled(f, accept) == Handled(f, accept) \/ Pending(calls, f, accept)

\* instantiate_rules has come to list l of block b, or beyond.
Came(b, l) ==
  \/ phase \in {"emit_rules", "failed", "done"}
  \/ phase = "instantiate_rules" /\ (b < block \/ (b = block /\ l < list))

\* What has been asked for, and what that is made of, has been seen to or will.
Complete ==
  /\ phase = "instantiate_rules" /\ calls # << >> => block <= Len(blocks)
  /\ phase \in {"emit_rules", "done"} => errors = {}
  /\ phase = "failed" => errors # {}
  /\ phase # "overflow" =>
       \A f \in done : \A g \in Range(table[f].prereqs) : Settled(g, TRUE)
  /\ \A b \in DOMAIN blocks : \A l \in DOMAIN Lists(b) :
       Came(b, l) => \A f \in Range(Lists(b)[l].files) : Settled(f, Lists(b)[l].accept)

\* The recipes with code that are done have one place in n blocks.
Placing(n, row, dones, recipes) ==
  /\ \A b \in 0..n : IsInjective(row[b])
  /\ \A b, c \in 0..n : b # c => Range(row[b]) \intersect Range(row[c]) = {}
  /\ \A b \in 0..n : \A f \in Range(row[b]) : f \in dones /\ recipes[f].code
  /\ \A f \in dones : recipes[f].code => \E b \in 0..n : f \in Range(row[b])

Placed == Placing(Len(blocks), members, done, table)

\* Lines with a rule for each of these targets, one only, and for no other.
OneFor(row, targets) ==
  /\ \A i \in DOMAIN row : row[i].kind = "rule" => row[i].what \in targets
  /\ \A i, j \in DOMAIN row : row[i] = row[j] /\ row[i].kind = "rule" => i = j
  /\ \A f \in targets : Line("rule", f) \in Range(row)

\* The Makefile has one rule for each target that emit_rules came by.
Emitted ==
  /\ phase \notin {"emit_rules", "done"} => node = 1 /\ seen = {} /\ lines = << >>
  /\ OneFor(lines, seen)
  /\ \A k \in 1..(node - 1) : k \in DOMAIN RuleNodes => RuleNodes[k].target \in seen
  /\ phase = "done" => node > Len(RuleNodes)

\* The file that call i has gone behind.
Behind(i) == calls[i].files[calls[i].at - 1]

\* Each call is for what the file needs that the call around it has come to.
Chain ==
  /\ \A i \in DOMAIN calls : i + 1 \in DOMAIN calls =>
       /\ calls[i].at - 1 \in DOMAIN calls[i].files
       /\ Behind(i) \in DOMAIN table
       /\ calls[i + 1].files = table[Behind(i)].prereqs
  /\ phase = "overflow" => InCall /\ MaxDepth <= Len(calls) /\ File \in DOMAIN table

Inv == Document /\ Tabled /\ TypeInv /\ Inferred /\ Sound /\ Complete /\ Placed /\ Emitted /\ Chain
-----------------------------------------------------------------------------
Entry == [files : Seq(Name), accept : BOOLEAN]

\* What the lists of a block are.
LEMMA ListsTyped ==
  ASSUME Document, TypeInv, NEW b \in DOMAIN blocks
  PROVE  /\ Lists(b) \in Seq(Entry)
         /\ \A l \in DOMAIN Lists(b) : Lists(b)[l] \in Entry
<1>1. blocks[b] \in Blocks /\ objs[b] \in Seq(Name)
  BY ElementOfSeq, LenProperties DEF Document, TypeInv
<1>2. blocks[b].lists \in Seq(Entry)
  BY <1>1 DEF Blocks, Entry
<1>3. [files |-> objs[b], accept |-> FALSE] \in Entry
  BY <1>1 DEF Entry
<1>4. Lists(b) \in Seq(Entry)
  <2> DEFINE more == IF blocks[b].target THEN <<[files |-> objs[b], accept |-> FALSE]>> ELSE << >>
  <2>1. more \in Seq(Entry)
    BY <1>3
  <2> HIDE DEF more
  <2>2. QED
    BY <1>2, <2>1, ConcatProperties DEF Lists, more
<1>5. QED
  BY <1>4, ElementOfSeq, LenProperties

\* The objects of a target are names.
LEMMA ObjectsTyped ==
  ASSUME Document, NEW b \in DOMAIN blocks
  PROVE  /\ Objects(b) \in Seq(Name)
         /\ DOMAIN Objects(b) = DOMAIN blocks[b].sources
         /\ \A i \in DOMAIN blocks[b].sources :
              /\ Objects(b)[i] \in Name
              /\ Objects(b)[i] = ObjectOf[b][blocks[b].sources[i]]
              /\ SubdirOf[blocks[b].sources[i]] \in Name
<1>1. blocks[b] \in Blocks
  BY ElementOfSeq, LenProperties DEF Document
<1>2. blocks[b].sources \in Seq(Name)
  BY <1>1 DEF Blocks
<1>3. \A i \in DOMAIN blocks[b].sources :
        /\ ObjectOf[b][blocks[b].sources[i]] \in Name
        /\ SubdirOf[blocks[b].sources[i]] \in Name
  BY DEF Document, Range
<1>4. DOMAIN blocks[b].sources = 1..Len(blocks[b].sources) /\ Len(blocks[b].sources) \in Nat
  BY <1>2, LenProperties
<1>5. QED
  BY <1>3, <1>4 DEF Objects

\* The row of calls when the innermost has gone on.
LEMMA AdvancedCalls ==
  ASSUME calls \in Seq(Calls), calls # << >>
  PROVE  /\ Advanced \in Seq(Calls)
         /\ Len(calls) \in DOMAIN calls /\ Len(calls) \in Nat
         /\ DOMAIN calls = 1..Len(calls)
         /\ Len(Advanced) = Len(calls) /\ DOMAIN Advanced = DOMAIN calls
         /\ \A i \in DOMAIN calls :
              /\ calls[i] \in Calls
              /\ Advanced[i].files = calls[i].files
              /\ Advanced[i].accept = calls[i].accept
              /\ Advanced[i].at = IF i = Len(calls) THEN calls[i].at + 1 ELSE calls[i].at
<1>1. /\ Len(calls) \in Nat /\ DOMAIN calls = 1..Len(calls)
      /\ \A i \in DOMAIN calls : calls[i] \in Calls
  BY ElementOfSeq, LenProperties
<1>2. Len(calls) \in 1..Len(calls)
  <2>1. Len(calls) # 0
    BY EmptySeq
  <2>2. QED
    BY <1>1, <2>1
<1>3. /\ DOMAIN Advanced = DOMAIN calls
      /\ \A i \in DOMAIN calls :
           Advanced[i] = IF i = Len(calls) THEN [calls[i] EXCEPT !.at = @ + 1] ELSE calls[i]
  BY <1>1, <1>2 DEF Advanced
<1>4. \A i \in DOMAIN calls : /\ Advanced[i] \in Calls
                              /\ Advanced[i].files = calls[i].files
                              /\ Advanced[i].accept = calls[i].accept
                              /\ Advanced[i].at = IF i = Len(calls) THEN calls[i].at + 1
                                                  ELSE calls[i].at
  <2>1. TAKE i \in DOMAIN calls
  <2> DEFINE Row == Seq(Name)
             c == calls[i]
             next == [c EXCEPT !.at = @ + 1]
  <2>2. Calls = [files : Row, accept : BOOLEAN, at : Nat \ {0}] /\ c \in Calls
    BY <1>1 DEF Calls
  <2>3. Advanced[i] = IF i = Len(calls) THEN next ELSE c
    BY <1>3
  <2> HIDE DEF Row, c
  <2>4. next \in Calls /\ next.files = c.files /\ next.accept = c.accept /\ next.at = c.at + 1
    BY <2>2
  <2> HIDE DEF next
  <2>5. QED
    BY <2>2, <2>3, <2>4 DEF c
<1> DEFINE k == Calls
           n == Len(calls)
<1>5. n \in Nat /\ DOMAIN Advanced = 1..n /\ \A i \in 1..n : Advanced[i] \in k
  BY <1>1, <1>3, <1>4
<1>6. Advanced = [i \in 1..n |-> Advanced[i]]
  BY <1>3, <1>5 DEF Advanced
<1> HIDE DEF k, n, Advanced
<1>7. Advanced \in Seq(k) /\ Len(Advanced) = n
  BY <1>5, <1>6, IsASeq
<1>8. QED
  BY <1>1, <1>2, <1>3, <1>4, <1>7 DEF k, n

\* The innermost call, and the file it has come to.
LEMMA TopTyped ==
  ASSUME calls \in Seq(Calls), InCall
  PROVE  /\ calls # << >> /\ Top = calls[Len(calls)] /\ Len(calls) \in DOMAIN calls
         /\ Top.files \in Seq(Name) /\ Top.accept \in BOOLEAN /\ Top.at \in Nat \ {0}
         /\ Top.at \in DOMAIN Top.files
         /\ File \in Name /\ File \in Range(Top.files)
<1>1. calls # << >> /\ Len(calls) \in DOMAIN calls /\ calls[Len(calls)] \in Calls
  BY AdvancedCalls DEF InCall
<1>2. Top = calls[Len(calls)]
  BY DEF Top, Last
<1> HIDE DEF Top
<1>3. Top.files \in Seq(Name) /\ Top.accept \in BOOLEAN /\ Top.at \in Nat \ {0}
  BY <1>1, <1>2 DEF Calls
<1>4. Top.at \in 1..Len(Top.files)
  BY <1>3, LenProperties DEF InCall
<1>5. Top.at \in DOMAIN Top.files
  BY <1>3, <1>4, LenProperties
<1>6. File \in Name
  BY <1>3, <1>4, ElementOfSeq DEF File
<1>7. QED
  BY <1>1, <1>2, <1>3, <1>5, <1>6 DEF File, Range

\* The row of calls when the innermost returns.
LEMMA FrontCalls ==
  ASSUME calls \in Seq(Calls), calls # << >>
  PROVE  /\ Front(calls) \in Seq(Calls)
         /\ DOMAIN Front(calls) = 1..(Len(calls) - 1)
         /\ \A i \in DOMAIN Front(calls) : i \in DOMAIN calls /\ Front(calls)[i] = calls[i]
<1> DEFINE T == Calls
           n == Len(calls)
           u == SubSeq(calls, 1, n - 1)
<1>1. n \in Nat \ {0} /\ DOMAIN calls = 1..n /\ \A i \in 1..(n - 1) : i \in 1..n /\ calls[i] \in T
  BY AdvancedCalls
<1>2. Front(calls) = u
  BY DEF Front
<1> HIDE DEF T, n
<1>3. 1 \in Int /\ n - 1 \in Int
  BY <1>1
<1>4. \A i \in 1..(n - 1) : calls[i] \in T
  BY <1>1
<1>5. /\ u \in Seq(T) /\ Len(u) = IF 1 <= n - 1 THEN (n - 1) - 1 + 1 ELSE 0
      /\ \A i \in 1..(n - 1) - 1 + 1 : u[i] = calls[1 + i - 1]
  BY <1>3, <1>4, SubSeqProperties
<1>6. Len(u) = n - 1 /\ \A i \in 1..(n - 1) : u[i] = calls[i]
  BY <1>1, <1>5
<1> HIDE DEF u
<1>7. DOMAIN u = 1..(n - 1)
  BY <1>5, <1>6, LenProperties
<1>8. QED
  BY <1>1, <1>2, <1>5, <1>6, <1>7 DEF T, n

\* The row of calls when the innermost calls again.
LEMMA DeeperCalls ==
  ASSUME calls \in Seq(Calls), calls # << >>, NEW fs \in Seq(Name), NEW row,
         row = Advanced \o <<Call(fs, TRUE)>>
  PROVE  /\ row \in Seq(Calls)
         /\ DOMAIN row = 1..(Len(calls) + 1)
         /\ \A i \in DOMAIN calls : i \in DOMAIN row /\ row[i] = Advanced[i]
         /\ Len(calls) + 1 \in DOMAIN row /\ row[Len(calls) + 1] = Call(fs, TRUE)
<1> DEFINE T == Calls
           c == Call(fs, TRUE)
           n == Len(calls)
           adv == Advanced
<1>1. n \in Nat /\ adv \in Seq(T) /\ Len(adv) = n /\ DOMAIN calls = 1..n
  BY AdvancedCalls
<1>2. c \in T
  BY DEF Call, Calls
<1> DEFINE one == <<c>>
<1>3. row = adv \o one
  OBVIOUS
<1> HIDE DEF T, c, n, adv
<1>4. one \in Seq(T) /\ Len(one) = 1 /\ one[1] = c
  BY <1>2
<1> HIDE DEF one
<1>5. /\ row \in Seq(T) /\ Len(row) = n + 1
      /\ \A i \in 1..(n + 1) : row[i] = IF i <= n THEN adv[i] ELSE one[i - n]
  <2>1. /\ adv \o one \in Seq(T)
        /\ Len(adv \o one) = Len(adv) + Len(one)
        /\ \A i \in 1..Len(adv) + Len(one) :
             (adv \o one)[i] = IF i <= Len(adv) THEN adv[i] ELSE one[i - Len(adv)]
    BY ONLY <1>1, <1>4, ConcatProperties
  <2>2. QED
    BY ONLY <1>1, <1>3, <1>4, <2>1
<1>6. DOMAIN row = 1..(n + 1)
  BY <1>5, LenProperties
<1>7. /\ \A i \in 1..n : i \in 1..(n + 1) /\ row[i] = adv[i]
      /\ n + 1 \in 1..(n + 1) /\ row[n + 1] = c
  <2>1. n + 1 \in 1..(n + 1) /\ ~(n + 1 <= n) /\ (n + 1) - n = 1
    BY <1>1
  <2>2. row[n + 1] = c
    BY <1>4, <1>5, <2>1
  <2>3. \A i \in 1..n : i \in 1..(n + 1) /\ i <= n
    BY <1>1
  <2>4. QED
    BY <1>5, <2>1, <2>2, <2>3
<1>8. QED
  BY <1>1, <1>5, <1>6, <1>7 DEF T, c, n, adv

-----------------------------------------------------------------------------
Node == [target : Name, cond : Cond \union {NoCond}]

\* What is put into the document has recipes.
Recorded == \A b \in 0..Len(blocks) : Range(members[b]) \subseteq DOMAIN table

\* The rules that emit_rules comes by, among them all that were instantiated.
LEMMA NodesOfRules ==
  ASSUME ProjectAssumption, Document, Tabled, TypeInv, Recorded
  PROVE  /\ RuleNodes \in Seq(Node)
         /\ \A b \in 0..Len(blocks) : \A i \in DOMAIN members[b] :
              \E k \in DOMAIN RuleNodes : RuleNodes[k].target = members[b][i]
<1> DEFINE n == Len(blocks)
           T == Node
           plain(b) == [i \in DOMAIN blocks[b].plain |->
                          [target |-> blocks[b].plain[i], cond |-> NoCond]]
           added(b) == [i \in DOMAIN members[b] |->
                          [target |-> members[b][i], cond |-> table[members[b][i]].cond]]
           rows == [b \in 1..n |-> plain(b) \o added(b)]
           flat == FlattenSeq(rows)
<1>1. n \in Nat /\ DOMAIN blocks = 1..n /\ 0 \in 0..n /\ \A b \in 1..n : b \in 0..n
  BY LenProperties DEF Document
<1>2. ASSUME NEW b \in 1..n PROVE plain(b) \in Seq(T)
  <2> DEFINE m == Len(blocks[b].plain)
  <2>1. blocks[b] \in Blocks
    BY <1>1, <1>2, ElementOfSeq DEF Document
  <2>2. blocks[b].plain \in Seq(Name)
    BY <2>1 DEF Blocks
  <2>3. m \in Nat /\ DOMAIN blocks[b].plain = 1..m /\ \A i \in 1..m : blocks[b].plain[i] \in Name
    BY <2>2, LenProperties, ElementOfSeq
  <2>4. \A i \in 1..m : [target |-> blocks[b].plain[i], cond |-> NoCond] \in T
    BY <2>3 DEF Node
  <2> HIDE DEF m, T
  <2>5. QED
    BY <2>3, <2>4
<1>3. ASSUME NEW b \in 0..n PROVE added(b) \in Seq(T) /\ DOMAIN added(b) = DOMAIN members[b]
  <2> DEFINE m == Len(members[b])
  <2>1. members[b] \in Seq(Name)
    BY <1>3 DEF TypeInv
  <2>2. m \in Nat /\ DOMAIN members[b] = 1..m /\ \A i \in 1..m : members[b][i] \in Name
    BY <2>1, LenProperties, ElementOfSeq
  <2>3. \A i \in 1..m : members[b][i] \in DOMAIN table
    BY <1>3, <2>2 DEF Recorded, Range
  <2>4. \A i \in 1..m : table[members[b][i]].cond \in Cond \union {NoCond}
    BY <2>3 DEF Tabled, Recipes
  <2>5. \A i \in 1..m : [target |-> members[b][i], cond |-> table[members[b][i]].cond] \in T
    BY <2>2, <2>4 DEF Node
  <2> HIDE DEF m, T
  <2>6. QED
    BY <2>2, <2>5
<1> HIDE DEF n, T, plain
<1>4. \A b \in 1..n : plain(b) \o added(b) \in Seq(T)
  <2>1. TAKE b \in 1..n
  <2>2. plain(b) \in Seq(T) /\ added(b) \in Seq(T)
    BY <1>1, <1>2, <1>3
  <2> HIDE DEF added
  <2>3. QED
    BY <2>2, ConcatProperties
<1>5. rows \in Seq(Seq(T)) /\ Len(rows) = n
  <2> DEFINE V == Seq(T)
             both(b) == plain(b) \o added(b)
  <2>1. \A b \in 1..n : both(b) \in V
    BY <1>4
  <2>2. rows = [b \in 1..n |-> both(b)]
    OBVIOUS
  <2> HIDE DEF V, both, rows
  <2>3. rows \in Seq(V) /\ Len(rows) = n
    BY <1>1, <2>1, <2>2
  <2>4. QED
    BY <2>3 DEF V
<1>6. \A b \in 1..n : rows[b] = plain(b) \o added(b)
  OBVIOUS
<1>7. RuleNodes = flat \o added(0)
  BY <1>1 DEF RuleNodes, n, plain
<1> HIDE DEF added, rows
<1>8. flat \in Seq(T) /\ Range(flat) = UNION {Range(rows[k]) : k \in 1..n}
  BY <1>5, FlattenType, FlattenRange
<1> HIDE DEF flat
<1>9. added(0) \in Seq(T)
  BY <1>1, <1>3
<1>10. RuleNodes \in Seq(T) /\ Range(RuleNodes) = Range(flat) \union Range(added(0))
  BY <1>7, <1>8, <1>9, ConcatProperties, RangeOfConcat
<1>11. ASSUME NEW b \in 0..n, NEW i \in DOMAIN members[b]
       PROVE  \E k \in DOMAIN RuleNodes : RuleNodes[k].target = members[b][i]
  <2>1. i \in DOMAIN added(b) /\ added(b)[i].target = members[b][i]
    BY <1>11, <1>3 DEF added
  <2>2. added(b)[i] \in Range(added(b))
    BY <2>1 DEF Range
  <2>3. added(b)[i] \in Range(RuleNodes)
    <3>1. CASE b = 0
      BY <1>10, <2>2, <3>1
    <3>2. CASE b # 0
      <4>1. b \in 1..n
        BY <1>1, <3>2
      <4>2. plain(b) \in Seq(T) /\ added(b) \in Seq(T)
        BY <1>2, <1>3, <4>1
      <4>3. Range(added(b)) \subseteq Range(rows[b])
        <5>1. Range(plain(b) \o added(b)) = Range(plain(b)) \union Range(added(b))
          BY ONLY <4>2, RangeOfConcat
        <5>2. QED
          BY <1>6, <4>1, <5>1
      <4>4. added(b)[i] \in Range(flat)
        BY <1>8, <2>2, <4>1, <4>3
      <4>5. QED
        BY <1>10, <4>4
    <3>3. QED
      BY <3>1, <3>2
  <2>4. QED
    BY <2>1, <2>3 DEF Range
<1>12. QED
  BY <1>10, <1>11 DEF n, T

-----------------------------------------------------------------------------
\* A source that an object is made of.
LEMMA SourceKnown ==
  ASSUME Document, NEW b \in DOMAIN blocks, NEW o \in Range(Objects(b))
  PROVE  /\ SubdirOf[SourceOf(b, o)] \in Name
         /\ \E i \in DOMAIN blocks[b].sources :
              SourceOf(b, o) = blocks[b].sources[i] /\ Objects(b)[i] = o
<1> DEFINE all == blocks[b].sources
           Of == {i \in DOMAIN all : Objects(b)[i] = o}
<1>1. blocks[b] \in Blocks
  BY ElementOfSeq, LenProperties DEF Document
<1>2. all \in Seq(Name)
  BY <1>1 DEF Blocks
<1>3. DOMAIN all \in SUBSET Nat /\ DOMAIN Objects(b) = DOMAIN all
  BY <1>2, LenProperties, ObjectsTyped
<1>4. Of \in SUBSET Nat /\ Of # {}
  BY <1>3 DEF Range
<1>5. \E m \in Of : \A k \in Of : m <= k
  <2> HIDE DEF Of
  <2>1. QED
    BY <1>4, LeastNumber
<1>6. \E i \in DOMAIN all :
         Objects(b)[i] = o /\ \A j \in DOMAIN all : Objects(b)[j] = o => i <= j
  BY <1>5
<1> HIDE DEF Of
<1>7. PICK i \in DOMAIN all : SourceOf(b, o) = all[i] /\ Objects(b)[i] = o
  BY <1>6 DEF SourceOf
<1>8. SubdirOf[all[i]] \in Name
  BY <1>7, ObjectsTyped
<1>9. QED
  BY <1>7, <1>8

\* infer_target_objects knows what it has made.
LEMMA InferObjectsTyped ==
  ASSUME ProjectAssumption, Document, Tabled, TypeInv, InferObjects
  PROVE  Document' /\ Tabled' /\ TypeInv'
<1> DEFINE objects == Range(Objects(block))
<1>1. block \in DOMAIN blocks
  BY LenProperties DEF Document, TypeInv, InferObjects
<1>2. Objects(block) \in Seq(Name) /\ objects \in SUBSET Name
  <2>1. Objects(block) \in Seq(Name)
    BY <1>1, ObjectsTyped
  <2>2. QED
    BY <2>1, ElementOfSeq, LenProperties DEF Range
<1>3. \A f \in objects : SubdirOf[SourceOf(block, f)] \in Name
  BY <1>1, SourceKnown
<1>4. Document'
  BY DEF InferObjects, Document
<1>5. Tabled'
  <2>1. CASE UNCHANGED <<files, table>>
    BY <2>1 DEF Tabled
  <2>2. CASE files' = Known(block) /\ table' = WithObjects(block)
    <3>1. files' = files \union objects /\ DOMAIN table' = DOMAIN table \union objects
      BY <2>2 DEF Known, WithObjects
    <3>2. ASSUME NEW f \in objects, f \notin DOMAIN table PROVE table'[f] \in Recipes
      <4>1. table'[f] = Recipe(<<SubdirOf[SourceOf(block, f)]>>, FALSE, NoCond)
        BY <2>2, <3>2 DEF WithObjects
      <4>2. <<SubdirOf[SourceOf(block, f)]>> \in Seq(Name)
        BY <1>3, <3>2
      <4>3. QED
        BY <4>1, <4>2 DEF Recipe, Recipes
    <3>3. ASSUME NEW f \in DOMAIN table PROVE table'[f] = table[f]
      BY <2>2, <3>3 DEF WithObjects
    <3> HIDE DEF objects
    <3>4. \A f \in DOMAIN table' : table'[f] \in Recipes
      BY <3>1, <3>2, <3>3 DEF Tabled
    <3>5. QED
      BY <1>2, <3>1, <3>4 DEF Tabled
  <2>3. QED
    BY <2>1, <2>2 DEF InferObjects
<1>6. TypeInv'
  <2>1. /\ UNCHANGED <<blocks, members, list, calls, done, errors, node, seen, lines>>
        /\ block' \in Nat \ {0} /\ phase' \in Phases
    BY DEF InferObjects, TypeInv, Phases
  <2>2. objs' \in [DOMAIN blocks -> Seq(Name)]
    <3> DEFINE V == Seq(Name)
               o == Objects(block)
    <3>1. o \in V /\ objs \in [DOMAIN blocks -> V]
      BY <1>2 DEF TypeInv
    <3>2. objs' = objs \/ objs' = [objs EXCEPT ![block] = o]
      BY DEF InferObjects
    <3> HIDE DEF V, o
    <3>3. objs' \in [DOMAIN blocks -> V]
      BY <1>1, <3>1, <3>2
    <3>4. QED
      BY <3>3 DEF V
  <2>3. QED
    BY <2>1, <2>2 DEF TypeInv
<1>7. QED
  BY <1>4, <1>5, <1>6

\* The calls are for lists of files, or for what recipes say.
LEMMA CallsTyped ==
  ASSUME ProjectAssumption, Document, Tabled, TypeInv,
         NextList \/ ReportMissing \/ AcceptExisting \/ Instantiate \/ Return
  PROVE  calls' \in Seq(Calls)
<1>1. calls \in Seq(Calls)
  BY DEF TypeInv
<1>2. CASE calls' = calls
  BY <1>1, <1>2
<1>3. CASE calls # << >> /\ calls' = Advanced
  BY <1>1, <1>3, AdvancedCalls
<1>4. CASE calls # << >> /\ calls' = Front(calls)
  BY <1>1, <1>4, FrontCalls
<1>5. CASE NextList
  <2> DEFINE l == Lists(block)[list]
  <2>1. CASE list <= Len(Lists(block))
    <3>1. block \in DOMAIN blocks
      BY <1>5, LenProperties DEF Document, TypeInv, NextList
    <3>2. list \in DOMAIN Lists(block)
      BY <2>1, <3>1, ListsTyped, LenProperties DEF TypeInv
    <3>3. l \in Entry
      BY <3>1, <3>2, ListsTyped
    <3>4. Call(l.files, l.accept) \in Calls
      BY <3>3 DEF Entry, Call, Calls
    <3>5. calls' = <<Call(l.files, l.accept)>>
      BY <1>5, <2>1 DEF NextList
    <3> HIDE DEF l
    <3>6. QED
      BY <3>4, <3>5
  <2>2. QED
    BY <1>2, <1>5, <2>1 DEF NextList
<1>6. CASE Instantiate
  <2>1. CASE Len(calls) < MaxDepth
    <3>1. calls # << >> /\ calls' = Advanced \o <<Call(table[File].prereqs, TRUE)>>
      BY <1>6, <2>1 DEF Instantiate, InCall, Deeper
    <3>2. table[File].prereqs \in Seq(Name)
      BY <1>6 DEF Instantiate, Tabled, Recipes
    <3>3. QED
      BY <1>1, <3>1, <3>2, DeeperCalls
  <2>2. QED
    BY <1>2, <1>6, <2>1 DEF Instantiate
<1>7. QED
  BY <1>2, <1>3, <1>4, <1>5, <1>6 DEF ReportMissing, AcceptExisting, Return, InCall

\* What is added to the document has its place there.
LEMMA MembersTyped ==
  ASSUME Document, Tabled, TypeInv, Complete, Instantiate
  PROVE  /\ Home(block) \in 0..Len(blocks)
         /\ members' \in [0..Len(blocks) -> Seq(Name)]
         /\ File \in Name
         /\ \/ ~Wanting(File) /\ members' = members
            \/ /\ Wanting(File)
               /\ members'[Home(block)] = Append(members[Home(block)], File)
               /\ \A b \in 0..Len(blocks) : b # Home(block) => members'[b] = members[b]
<1>1. File \in Name
  BY TopTyped DEF Instantiate, TypeInv
<1>2. block \in 1..Len(blocks) /\ Len(blocks) \in Nat
  BY LenProperties DEF Document, TypeInv, Complete, Instantiate, InCall
<1> DEFINE h == Home(block)
           n == Len(blocks)
           V == Seq(Name)
<1>3. h \in 0..n
  BY <1>2 DEF Home
<1>4. members \in [0..n -> V]
  BY DEF TypeInv
<1>5. CASE ~Wanting(File)
  BY <1>1, <1>3, <1>4, <1>5 DEF Instantiate
<1>6. CASE Wanting(File)
  <2> DEFINE more == Append(members[h], File)
  <2>1. more \in V
    BY <1>1, <1>3, <1>4, AppendProperties
  <2>2. members' = [members EXCEPT ![h] = more]
    BY <1>6 DEF Instantiate
  <2> HIDE DEF more, h, n, V
  <2>3. members' \in [0..n -> V] /\ members'[h] = more
        /\ \A b \in 0..n : b # h => members'[b] = members[b]
    BY <1>3, <1>4, <2>1, <2>2
  <2>4. QED
    BY <1>1, <1>3, <1>6, <2>3 DEF more, h, n, V
<1>7. QED
  BY <1>5, <1>6

\* The line that is printed for a rule, and its condition.
LEMMA LinesTyped ==
  ASSUME Document, TypeInv, RuleNodes \in Seq(Node), EmitRule
  PROVE  /\ RuleNodes[node] \in Node
         /\ node \in DOMAIN RuleNodes
         /\ \E opening, rest \in Seq(Lines) :
              /\ lines' = (lines \o opening) \o rest
              /\ lines \in Seq(Lines)
              /\ lines \o opening \in Seq(Lines)
              /\ lines' \in Seq(Lines)
              /\ \A l \in Range(opening) : l.kind # "rule"
              /\ IF Printed(RuleNodes[node].target) THEN rest = << >>
                 ELSE \E closing \in Seq(Lines) :
                        /\ rest = <<Line("rule", RuleNodes[node].target)>> \o closing
                        /\ \A l \in Range(closing) : l.kind # "rule"
<1> DEFINE n == RuleNodes[node]
           cond == n.cond # NoCond
           opening == When(cond, Line("if", n.cond))
           closing == When(cond, Line("endif", n.cond))
           one == <<Line("rule", n.target)>>
           rest == IF Printed(n.target) THEN << >> ELSE one \o closing
           T == Lines
<1>1. node \in 1..Len(RuleNodes)
  BY LenProperties DEF EmitRule, TypeInv
<1>2. n \in Node /\ node \in DOMAIN RuleNodes
  BY <1>1, ElementOfSeq, LenProperties
<1>3. /\ Line("if", n.cond) \in T /\ Line("endif", n.cond) \in T /\ Line("rule", n.target) \in T
      /\ Line("if", n.cond).kind # "rule" /\ Line("endif", n.cond).kind # "rule"
  <2> DEFINE c == n.cond
             t == n.target
  <2>1. c \in Cond \union {NoCond} /\ t \in Name
    BY <1>2 DEF Node
  <2> HIDE DEF n, c, t
  <2>2. QED
    BY <2>1 DEF Line, Lines, c, t
<1>4. ASSUME NEW l \in T, l.kind # "rule"
      PROVE  When(cond, l) \in Seq(T) /\ \A x \in Range(When(cond, l)) : x.kind # "rule"
  <2> HIDE DEF T
  <2>1. <<l>> \in Seq(T) /\ << >> \in Seq(T) /\ Range(<<l>>) = {l} /\ Range(<< >>) = {}
    BY DEF Range
  <2>2. When(cond, l) = <<l>> \/ When(cond, l) = << >>
    BY DEF When
  <2> HIDE DEF cond
  <2>3. CASE When(cond, l) = <<l>>
    <3>1. When(cond, l) \in Seq(T) /\ Range(When(cond, l)) = {l}
      BY ONLY <2>1, <2>3
    <3>2. QED
      BY ONLY <1>4, <3>1
  <2>4. CASE When(cond, l) = << >>
    <3>1. When(cond, l) \in Seq(T) /\ Range(When(cond, l)) = {}
      BY ONLY <2>1, <2>4
    <3>2. QED
      BY ONLY <3>1
  <2>5. QED
    BY ONLY <2>2, <2>3, <2>4
<1> HIDE DEF T
<1>5. /\ opening \in Seq(T) /\ closing \in Seq(T)
      /\ \A l \in Range(opening) : l.kind # "rule"
      /\ \A l \in Range(closing) : l.kind # "rule"
  <2> HIDE DEF n, cond
  <2>1. QED
    BY <1>3, <1>4
<1>6. lines' = (lines \o opening) \o rest
  BY DEF EmitRule
<1>7. one \in Seq(T)
  <2> HIDE DEF n
  <2>1. QED
    BY <1>3
<1> HIDE DEF n, cond, opening, closing, one
<1>8. rest \in Seq(T)
  BY <1>5, <1>7, ConcatProperties, EmptySeq
<1>9. lines \in Seq(T)
  BY DEF TypeInv, T
<1>10. IF Printed(n.target) THEN rest = << >> ELSE rest = one \o closing
  OBVIOUS
<1> HIDE DEF rest
<1>11. lines \o opening \in Seq(T)
  BY <1>5, <1>9, ConcatProperties
<1>12. (lines \o opening) \o rest \in Seq(T)
  BY <1>8, <1>11, ConcatProperties
<1>13. QED
  BY <1>2, <1>5, <1>6, <1>8, <1>9, <1>10, <1>11, <1>12 DEF n, one, T

\* A Makefile with these lines is one still, and the target has been seen.
LEMMA EmitTyped ==
  ASSUME Document, TypeInv, RuleNodes \in Seq(Node), EmitRule
  PROVE  TypeInv'
<1>1. RuleNodes[node] \in Node /\ lines' \in Seq(Lines)
  BY LinesTyped
<1>2. seen' \in SUBSET Name /\ node' \in Nat \ {0}
  <2>1. RuleNodes[node].target \in Name
    BY <1>1 DEF Node
  <2>2. QED
    BY <2>1 DEF EmitRule, TypeInv
<1>3. UNCHANGED <<blocks, members, phase, block, list, objs, calls, done, errors>>
  BY DEF EmitRule
<1>4. QED
  BY <1>1, <1>2, <1>3 DEF TypeInv

\* What is in the document has been done, and has a recipe.
LEMMA MembersRecorded ==
  ASSUME Sound, Placed
  PROVE  Recorded /\ \A b \in 0..Len(blocks) : Range(members[b]) \subseteq done
BY DEF Sound, Placed, Placing, Recorded

LEMMA TypeStep ==
  ASSUME ProjectAssumption, Inv, [Next]_vars
  PROVE  Document' /\ Tabled' /\ TypeInv'
<1>1. Document /\ Tabled /\ TypeInv /\ Complete /\ RuleNodes \in Seq(Node)
  BY MembersRecorded, NodesOfRules DEF Inv
<1> DEFINE Walks == NextList \/ ReportMissing \/ AcceptExisting \/ Instantiate \/ Return
<1>2. CASE InferObjects
  BY <1>1, <1>2, InferObjectsTyped
<1>3. ASSUME ~InferObjects PROVE Document' /\ Tabled'
  <2>1. UNCHANGED <<blocks, files, table>>
    BY <1>3 DEF Next, NextPhase, NextList, ReportMissing, AcceptExisting, Instantiate, Return,
                EmitRule, Finish, vars
  <2>2. QED
    BY <1>1, <2>1 DEF Document, Tabled
<1>4. CASE NextPhase
  <2>1. UNCHANGED <<blocks, members, list, objs, calls, done, errors, node, seen, lines>>
        /\ block' \in Nat \ {0} /\ phase' \in Phases
    BY <1>4 DEF NextPhase, Phases
  <2>2. TypeInv'
    BY <1>1, <2>1 DEF TypeInv
  <2>3. QED
    BY <1>3, <1>4, <2>2 DEF NextPhase, InferObjects
<1>5. CASE Walks
  <2>1. calls' \in Seq(Calls)
    BY <1>1, <1>5, CallsTyped
  <2>2. members' \in [0..Len(blocks) -> Seq(Name)] /\ done' \in SUBSET Name
    <3>1. CASE Instantiate
      <4>1. members' \in [0..Len(blocks) -> Seq(Name)] /\ File \in Name
        BY <1>1, <3>1, MembersTyped
      <4>2. QED
        BY <1>1, <3>1, <4>1 DEF Instantiate, TypeInv
    <3>2. QED
      BY <1>1, <1>5, <3>1 DEF TypeInv, NextList, ReportMissing, AcceptExisting, Return
  <2>3. errors' \in SUBSET Name
    <3>1. CASE ReportMissing
      <4>1. File \in Name
        BY <1>1, <3>1, TopTyped DEF ReportMissing, TypeInv
      <4>2. QED
        BY <1>1, <3>1, <4>1 DEF ReportMissing, TypeInv
    <3>2. QED
      BY <1>1, <1>5, <3>1 DEF TypeInv, NextList, Instantiate, AcceptExisting, Return
  <2>4. block' \in Nat \ {0} /\ list' \in Nat \ {0} /\ phase' \in Phases
    <3>1. /\ block' = block \/ block' = block + 1
          /\ list' = list \/ list' = list + 1 \/ list' = 1
          /\ phase' = phase \/ phase' = "overflow"
      <4>1. CASE NextList
        BY <4>1 DEF NextList
      <4>2. QED
        BY <1>5, <4>1 DEF ReportMissing, AcceptExisting, Instantiate, Return
    <3>2. QED
      BY <1>1, <3>1 DEF TypeInv, Phases
  <2>5. UNCHANGED <<blocks, objs, node, seen, lines>>
    BY <1>5 DEF NextList, ReportMissing, AcceptExisting, Instantiate, Return
  <2>6. TypeInv'
    BY <1>1, <2>1, <2>2, <2>3, <2>4, <2>5 DEF TypeInv
  <2>7. ~InferObjects
    BY <1>5 DEF InferObjects, NextList, ReportMissing, AcceptExisting, Instantiate, Return
  <2>8. QED
    BY <1>3, <2>6, <2>7
<1>6. CASE EmitRule
  BY <1>1, <1>3, <1>6, EmitTyped DEF EmitRule, InferObjects
<1>7. CASE Finish
  <2>1. TypeInv'
    BY <1>1, <1>7 DEF Finish, TypeInv, Phases
  <2>2. QED
    BY <1>3, <1>7, <2>1 DEF Finish, InferObjects
<1>8. CASE UNCHANGED vars
  BY <1>1, <1>8 DEF vars, Document, Tabled, TypeInv
<1>9. QED
  BY <1>2, <1>4, <1>5, <1>6, <1>7, <1>8 DEF Next

-----------------------------------------------------------------------------
\* Once rules are instantiated, what is needed does not change any more.
LEMMA NeedsStay ==
  ASSUME UNCHANGED <<blocks, table>>
  PROVE  Everything' = Everything /\ ToBuild' = ToBuild
BY DEF Everything, ToBuild, ToHave, Needed, Objects

\* What some files need has them, has what its recipes need, and no more.
LEMMA NeededLeast ==
  ASSUME ProjectAssumption, Tabled, NEW fs \in SUBSET Name
  PROVE  /\ Needed(fs) \in SUBSET Name
         /\ fs \subseteq Needed(fs)
         /\ \A f \in Needed(fs) \intersect DOMAIN table :
              Range(table[f].prereqs) \subseteq Needed(fs)
         /\ \A X \in SUBSET Name :
              /\ fs \subseteq X
              /\ \A f \in X \intersect DOMAIN table : Range(table[f].prereqs) \subseteq X
              => Needed(fs) \subseteq X
<1> DEFINE next == [f \in Name |-> IF f \in DOMAIN table THEN Range(table[f].prereqs) ELSE {}]
<1>1. next \in [Name -> SUBSET Name]
  <2>1. \A f \in DOMAIN table : table[f].prereqs \in Seq(Name)
    BY DEF Tabled, Recipes
  <2>2. \A s \in Seq(Name) : Range(s) \subseteq Name
    BY ElementOfSeq, LenProperties DEF Range
  <2>3. \A f \in Name : (IF f \in DOMAIN table THEN Range(table[f].prereqs) ELSE {}) \in SUBSET Name
    BY <2>1, <2>2
  <2>4. QED
    BY <2>3
<1>2. \A f \in DOMAIN table : f \in Name /\ next[f] = Range(table[f].prereqs)
  BY DEF Tabled
<1>3. \A f \in Name \ DOMAIN table : next[f] = {}
  OBVIOUS
<1>4. Needed(fs) = Reach(Name, fs, next) /\ IsFiniteSet(Name)
  BY DEF Needed, ProjectAssumption
<1> HIDE DEF next
<1>5. /\ Needed(fs) \in SUBSET Name
      /\ fs \subseteq Needed(fs)
      /\ \A x \in Needed(fs) : next[x] \subseteq Needed(fs)
      /\ \A X \in SUBSET Name :
           fs \subseteq X /\ (\A x \in X : next[x] \subseteq X) => Needed(fs) \subseteq X
  BY <1>1, <1>4, ReachLeast
<1>6. ASSUME NEW X \in SUBSET Name, fs \subseteq X,
             \A f \in X \intersect DOMAIN table : Range(table[f].prereqs) \subseteq X
      PROVE  Needed(fs) \subseteq X
  <2>1. \A x \in X : next[x] \subseteq X
    BY <1>2, <1>3, <1>6
  <2>2. QED
    BY <1>5, <1>6, <2>1
<1>7. QED
  BY <1>2, <1>5, <1>6

\* All that is asked for is needed, and so is what that is made of.
LEMMA EverythingClosed ==
  ASSUME ProjectAssumption, Document, Tabled
  PROVE  /\ Everything \in SUBSET Name
         /\ ToBuild \subseteq Everything /\ ToHave \subseteq Everything
         /\ \A f \in Everything \intersect DOMAIN table :
              Range(table[f].prereqs) \subseteq Everything
         /\ \A X \in SUBSET Name :
              /\ ToBuild \subseteq X /\ ToHave \subseteq X
              /\ \A f \in X \intersect DOMAIN table : Range(table[f].prereqs) \subseteq X
              => Everything \subseteq X
<1> DEFINE start == ToBuild \union ToHave
<1>1. start \in SUBSET Name
  <2>1. ASSUME NEW b \in DOMAIN blocks
        PROVE  /\ Range(Objects(b)) \subseteq Name
               /\ \A i \in DOMAIN blocks[b].lists : Range(blocks[b].lists[i].files) \subseteq Name
               /\ {SubdirOf[s] : s \in Range(blocks[b].sources)} \subseteq Name
    <3>1. Range(Objects(b)) \subseteq Name
      BY ObjectsTyped DEF Range
    <3>2. blocks[b] \in Blocks
      BY ElementOfSeq, LenProperties DEF Document
    <3>3. blocks[b].lists \in Seq(Entry)
      BY <3>2 DEF Blocks, Entry
    <3>4. \A i \in DOMAIN blocks[b].lists : blocks[b].lists[i] \in Entry
      BY <3>3, ElementOfSeq, LenProperties
    <3>5. \A i \in DOMAIN blocks[b].lists : blocks[b].lists[i].files \in Seq(Name)
      BY <3>4 DEF Entry
    <3>6. \A s \in Seq(Name) : Range(s) \subseteq Name
      BY ElementOfSeq, LenProperties DEF Range
    <3>7. QED
      BY <3>1, <3>5, <3>6 DEF Document
  <2>2. ToBuild \subseteq Name
    BY <2>1 DEF ToBuild
  <2>3. ToHave \subseteq Name
    BY <2>1 DEF ToHave
  <2>4. QED
    BY <2>2, <2>3
<1>2. Everything = Needed(start)
  BY DEF Everything
<1> HIDE DEF start
<1>3. /\ Everything \in SUBSET Name
      /\ start \subseteq Everything
      /\ \A f \in Everything \intersect DOMAIN table :
           Range(table[f].prereqs) \subseteq Everything
      /\ \A X \in SUBSET Name :
           /\ start \subseteq X
           /\ \A f \in X \intersect DOMAIN table : Range(table[f].prereqs) \subseteq X
           => Everything \subseteq X
  BY <1>1, <1>2, NeededLeast
<1>4. start = ToBuild \union ToHave
  BY DEF start
<1>5. QED
  BY <1>3, <1>4

-----------------------------------------------------------------------------
LEMMA InferredStep ==
  ASSUME Inv, [Next]_vars
  PROVE  Inferred'
<1>1. Document /\ TypeInv /\ Inferred
  BY DEF Inv
<1>2. blocks' = blocks /\ \A b : Objects(b)' = Objects(b)
  BY DEF Next, InferObjects, NextPhase, NextList, ReportMissing, AcceptExisting, Instantiate,
         Return, EmitRule, Finish, vars, Objects
<1>3. CASE InferObjects
  <2>1. Early /\ UNCHANGED <<members, list, calls, done, errors>>
    BY <1>3 DEF InferObjects, Early
  <2>2. calls' = << >> /\ done' = {} /\ errors' = {} /\ list' = 1
        /\ \A b \in 0..Len(blocks)' : members'[b] = << >>
    BY <1>1, <1>2, <2>1 DEF Inferred
  <2>3. ASSUME NEW b \in DOMAIN blocks, ~Early' \/ b < block'
        PROVE  objs'[b] = Objects(b) /\ Range(Objects(b)) \subseteq DOMAIN table'
    <3>1. CASE UNCHANGED <<block, objs, files, table>> /\ phase' = "aborted"
      <4>1. b < block
        BY <2>3, <3>1 DEF Early
      <4>2. objs[b] = Objects(b) /\ Range(Objects(b)) \subseteq DOMAIN table
        BY <1>1, <4>1 DEF Inferred
      <4>3. QED
        BY <3>1, <4>2
    <3>2. CASE /\ objs' = [objs EXCEPT ![block] = Objects(block)]
               /\ table' = WithObjects(block)
               /\ block' = block + 1
               /\ UNCHANGED phase
      <4>1. b < block + 1 /\ b \in Nat /\ block \in Nat
        <5>1. phase' = "infer_target_objects" /\ block' = block + 1
          BY <1>3, <3>2 DEF InferObjects
        <5>2. b < block + 1
          BY <2>3, <5>1 DEF Early
        <5>3. b \in Nat /\ block \in Nat
          BY <1>1, LenProperties DEF Document, TypeInv
        <5>4. QED
          BY <5>2, <5>3
      <4>2. DOMAIN table' = DOMAIN table \union Range(Objects(block))
        BY <3>2 DEF WithObjects
      <4>3. DOMAIN objs = DOMAIN blocks
        BY <1>1 DEF TypeInv
      <4>4. CASE b = block
        BY <3>2, <4>2, <4>3, <4>4
      <4>5. CASE b # block
        <5>1. b < block
          BY <4>1, <4>5
        <5>2. objs[b] = Objects(b) /\ Range(Objects(b)) \subseteq DOMAIN table
          BY <1>1, <5>1 DEF Inferred
        <5>3. QED
          BY <3>2, <4>2, <4>3, <4>5, <5>2
      <4>6. QED
        BY <4>4, <4>5
    <3>3. QED
      BY <1>3, <3>1, <3>2 DEF InferObjects
  <2>4. QED
    BY <1>2, <2>2, <2>3 DEF Inferred
<1>4. CASE NextPhase
  <2>1. ~Early' /\ UNCHANGED <<objs, table>> /\ block > Len(blocks)
    BY <1>4 DEF NextPhase, Early
  <2>2. \A b \in DOMAIN blocks : b < block
    BY <1>1, <2>1, LenProperties DEF Document, TypeInv
  <2>3. QED
    BY <1>1, <1>2, <2>1, <2>2 DEF Inferred
<1>5. ASSUME NextList \/ ReportMissing \/ AcceptExisting \/ Instantiate \/ Return \/ EmitRule
             \/ Finish
      PROVE  Inferred'
  <2>1. ~Early /\ ~Early' /\ UNCHANGED <<objs, table>>
    BY <1>5 DEF NextList, ReportMissing, AcceptExisting, Instantiate, Return, EmitRule, Finish, Early
  <2>2. QED
    BY <1>1, <1>2, <2>1 DEF Inferred
<1>6. CASE UNCHANGED vars
  BY <1>1, <1>2, <1>6 DEF Inferred, Early, vars
<1>7. QED
  BY <1>3, <1>4, <1>5, <1>6 DEF Next

\* What a list asks for is needed.
LEMMA ListsNeeded ==
  ASSUME ProjectAssumption, Document, Tabled, TypeInv, Inferred, ~Early,
         NEW b \in DOMAIN blocks, NEW l \in DOMAIN Lists(b)
  PROVE  /\ Range(Lists(b)[l].files) \subseteq Everything
         /\ ~Lists(b)[l].accept => Range(Lists(b)[l].files) \subseteq ToBuild
<1> DEFINE own == blocks[b].lists
           last == [files |-> objs[b], accept |-> FALSE]
           one == IF blocks[b].target THEN <<last>> ELSE << >>
<1>1. blocks[b] \in Blocks /\ objs[b] = Objects(b) /\ objs[b] \in Seq(Name)
  BY ElementOfSeq, LenProperties DEF Document, TypeInv, Inferred
<1>2. own \in Seq(Entry) /\ last \in Entry
  BY <1>1 DEF Blocks, Entry
<1>3. Lists(b) = own \o one
  BY DEF Lists
<1>4. \/ one = <<last>> /\ one \in Seq(Entry) /\ Len(one) = 1 /\ one[1] = last
      \/ one = << >> /\ one \in Seq(Entry) /\ Len(one) = 0
  <2> HIDE DEF last
  <2>1. QED
    BY <1>2
<1> HIDE DEF one
<1>5. /\ Len(own \o one) = Len(own) + Len(one) /\ own \o one \in Seq(Entry)
      /\ \A i \in 1..Len(own) + Len(one) :
           (own \o one)[i] = IF i <= Len(own) THEN own[i] ELSE one[i - Len(own)]
  BY <1>2, <1>4, ConcatProperties
<1>6. Len(own) \in Nat /\ DOMAIN own = 1..Len(own) /\ DOMAIN (own \o one) = 1..Len(own \o one)
  BY <1>2, <1>5, LenProperties
<1>7. CASE l \in DOMAIN own /\ Lists(b)[l] = own[l]
  <2>1. Range(own[l].files) \subseteq ToHave
    BY <1>7 DEF ToHave
  <2>2. ~own[l].accept => Range(own[l].files) \subseteq ToBuild
    BY <1>7 DEF ToBuild
  <2>3. QED
    BY <1>7, <2>1, <2>2, EverythingClosed
<1>8. CASE Lists(b)[l] = last
  <2>1. Range(objs[b]) \subseteq ToBuild
    BY <1>1 DEF ToBuild
  <2>2. QED
    BY <1>8, <2>1, EverythingClosed
<1>9. (l \in DOMAIN own /\ Lists(b)[l] = own[l]) \/ Lists(b)[l] = last
  <2> HIDE DEF own, last
  <2>1. l \in 1..Len(own) + Len(one)
    BY <1>3, <1>5, <1>6
  <2>2. CASE l <= Len(own)
    BY <1>3, <1>5, <1>6, <2>1, <2>2
  <2>3. CASE ~(l <= Len(own))
    <3>1. Len(one) # 0 /\ l \in Int
      BY ONLY <1>6, <2>1, <2>3
    <3>2. Len(one) = 1 /\ one[1] = last
      BY ONLY <1>4, <3>1
    <3>3. l - Len(own) = 1
      BY ONLY <1>6, <2>1, <2>3, <3>2
    <3>4. QED
      BY ONLY <1>3, <1>5, <2>1, <2>3, <3>2, <3>3
  <2>4. QED
    BY <2>2, <2>3
<1>10. QED
  BY <1>7, <1>8, <1>9

\* Calls that ask for what is needed.
CallsSound(row) ==
  \A i \in DOMAIN row :
    /\ Range(row[i].files) \subseteq Everything
    /\ ~row[i].accept => Range(row[i].files) \subseteq ToBuild

\* The file that the innermost call has come to is needed.
LEMMA FileNeeded ==
  ASSUME TypeInv, Sound, InCall
  PROVE  File \in Everything /\ (~Top.accept => File \in ToBuild)
<1>1. Top = calls[Len(calls)] /\ Len(calls) \in DOMAIN calls /\ File \in Range(Top.files)
  BY TopTyped DEF TypeInv
<1> HIDE DEF Top, File
<1>2. QED
  BY <1>1 DEF Sound

LEMMA SoundStep ==
  ASSUME ProjectAssumption, Inv, [Next]_vars
  PROVE  Sound'
<1>1. Document /\ Tabled /\ TypeInv /\ Inferred /\ Sound /\ Complete
  BY DEF Inv
<1>2. calls \in Seq(Calls)
  BY <1>1 DEF TypeInv
<1>3. CASE InferObjects
  <2>1. calls' = << >> /\ done' = {} /\ errors' = {}
    BY <1>1, <1>3 DEF InferObjects, Inferred, Early
  <2>2. DOMAIN << >> = {}
    OBVIOUS
  <2>3. QED
    BY <2>1, <2>2 DEF Sound
<1>4. ASSUME ~InferObjects
      PROVE  /\ UNCHANGED <<blocks, files, table>>
             /\ Everything' = Everything /\ ToBuild' = ToBuild
  <2>1. UNCHANGED <<blocks, files, table>>
    BY <1>4 DEF Next, NextPhase, NextList, ReportMissing, AcceptExisting, Instantiate, Return,
                EmitRule, Finish, vars
  <2>2. QED
    BY <2>1, NeedsStay
<1> DEFINE Kept == done' = done /\ errors' = errors
<1>5. CASE NextPhase
  <2>1. ~InferObjects /\ Kept /\ calls' = calls
    BY <1>5 DEF NextPhase, InferObjects
  <2>2. phase' \notin {"instantiate_rules", "overflow"} => calls = << >>
    <3>1. block > Len(blocks) /\ ~(block <= Len(blocks))
      BY <1>1, <1>5, LenProperties DEF NextPhase, TypeInv, Document
    <3>2. CASE phase = "instantiate_rules"
      BY <1>1, <3>1, <3>2 DEF Complete
    <3>3. CASE phase = "infer_target_objects"
      BY <1>1, <3>3 DEF Sound
    <3>4. QED
      BY <1>5, <3>2, <3>3 DEF NextPhase
  <2>3. QED
    BY <1>1, <1>4, <2>1, <2>2 DEF Sound
<1>6. ASSUME phase = "instantiate_rules", phase' \in {"instantiate_rules", "overflow"},
             ~InferObjects, CallsSound(calls'),
             done' \subseteq Everything \intersect DOMAIN table,
             errors' \subseteq (Everything \ files) \union (ToBuild \ DOMAIN table)
      PROVE  Sound'
  BY <1>4, <1>6 DEF Sound, CallsSound
<1>7. CallsSound(calls) /\ done \subseteq Everything \intersect DOMAIN table
      /\ errors \subseteq (Everything \ files) \union (ToBuild \ DOMAIN table)
  BY <1>1 DEF Sound, CallsSound
<1>8. calls # << >> => CallsSound(Advanced)
  BY <1>2, <1>7, AdvancedCalls DEF CallsSound
<1>9. calls # << >> => CallsSound(Front(calls))
  BY <1>2, <1>7, FrontCalls DEF CallsSound
<1>10. CASE NextList
  <2>1. phase = "instantiate_rules" /\ phase' = phase /\ Kept /\ ~InferObjects
    BY <1>10 DEF NextList, InferObjects
  <2>2. CallsSound(calls')
    <3>1. CASE list <= Len(Lists(block))
      <4> DEFINE l == Lists(block)[list]
                 c == Call(l.files, l.accept)
      <4>1. block \in DOMAIN blocks
        BY <1>1, <1>10, LenProperties DEF Document, TypeInv, NextList
      <4>2. list \in DOMAIN Lists(block)
        BY <1>1, <3>1, <4>1, ListsTyped, LenProperties DEF TypeInv
      <4>3. Range(l.files) \subseteq Everything /\ (~l.accept => Range(l.files) \subseteq ToBuild)
        BY <1>1, <2>1, <4>1, <4>2, ListsNeeded DEF Early
      <4>4. calls' = <<c>> /\ c.files = l.files /\ c.accept = l.accept
        BY <1>10, <3>1 DEF NextList, Call
      <4> HIDE DEF l, c
      <4>5. QED
        BY <4>3, <4>4 DEF CallsSound
    <3>2. QED
      BY <1>7, <1>10, <3>1 DEF NextList
  <2>3. QED
    BY <1>6, <1>7, <2>1, <2>2
<1>11. CASE ReportMissing
  <2>1. /\ phase = "instantiate_rules" /\ phase' = phase /\ ~InferObjects /\ done' = done
        /\ InCall /\ calls # << >> /\ calls' = Advanced /\ errors' = errors \union {File}
        /\ Missing(File)
    BY <1>11 DEF ReportMissing, InferObjects, InCall
  <2>2. File \in Everything /\ (~Top.accept => File \in ToBuild)
    BY <1>1, <2>1, FileNeeded
  <2>3. File \in (Everything \ files) \union (ToBuild \ DOMAIN table)
    BY <2>1, <2>2 DEF Missing
  <2>4. QED
    BY <1>6, <1>7, <1>8, <2>1, <2>3
<1>12. CASE AcceptExisting
  <2>1. /\ phase = "instantiate_rules" /\ phase' = phase /\ ~InferObjects /\ Kept
        /\ calls # << >> /\ calls' = Advanced
    BY <1>12 DEF AcceptExisting, InferObjects, InCall
  <2>2. QED
    BY <1>6, <1>7, <1>8, <2>1
<1>13. CASE Instantiate
  <2>1. /\ phase = "instantiate_rules" /\ phase' \in {"instantiate_rules", "overflow"}
        /\ ~InferObjects /\ errors' = errors
        /\ InCall /\ calls # << >> /\ File \in DOMAIN table /\ done' = done \union {File}
        /\ calls' = calls \/ calls' = Advanced \o Deeper(File)
    BY <1>13 DEF Instantiate, InferObjects, InCall
  <2>2. File \in Everything
    BY <1>1, <2>1, FileNeeded
  <2> DEFINE fs == table[File].prereqs
             row == Advanced \o <<Call(fs, TRUE)>>
  <2>3. fs \in Seq(Name) /\ Range(fs) \subseteq Everything
    BY <1>1, <2>1, <2>2, EverythingClosed DEF Tabled, Recipes
  <2>4. CallsSound(row)
    <3> HIDE DEF fs
    <3>1. /\ DOMAIN row = 1..(Len(calls) + 1)
          /\ \A i \in DOMAIN calls : i \in DOMAIN row /\ row[i] = Advanced[i]
          /\ row[Len(calls) + 1] = Call(fs, TRUE)
      BY <1>2, <2>1, <2>3, DeeperCalls
    <3>2. DOMAIN calls = 1..Len(calls) /\ Len(calls) \in Nat /\ DOMAIN Advanced = DOMAIN calls
      BY <1>2, <2>1, AdvancedCalls
    <3> HIDE DEF row
    <3>3. \A i \in DOMAIN row : i \in DOMAIN calls \/ i = Len(calls) + 1
      BY <3>1, <3>2
    <3>4. Call(fs, TRUE).files = fs /\ Call(fs, TRUE).accept
      BY DEF Call
    <3>5. CallsSound(Advanced)
      BY <1>8, <2>1
    <3>6. QED
      BY <2>3, <3>1, <3>2, <3>3, <3>4, <3>5 DEF CallsSound
  <2>5. calls' = calls \/ calls' = row
    BY <2>1 DEF Deeper
  <2> HIDE DEF row
  <2>6. QED
    BY <1>6, <1>7, <2>1, <2>2, <2>4, <2>5
<1>14. CASE Return
  <2>1. /\ phase = "instantiate_rules" /\ phase' = phase /\ ~InferObjects /\ Kept
        /\ calls # << >> /\ calls' = Front(calls)
    BY <1>14 DEF Return, InferObjects
  <2>2. QED
    BY <1>6, <1>7, <1>9, <2>1
<1>15. CASE EmitRule \/ Finish
  <2>1. /\ phase = "emit_rules" /\ phase' \notin {"instantiate_rules", "overflow"}
        /\ ~InferObjects /\ Kept /\ calls' = calls
    BY <1>15 DEF EmitRule, Finish, InferObjects
  <2>2. QED
    BY <1>1, <1>4, <2>1 DEF Sound
<1>16. CASE UNCHANGED vars
  <2>1. UNCHANGED <<blocks, table>>
    BY <1>16 DEF vars
  <2>2. QED
    BY <1>1, <1>16, <2>1, NeedsStay DEF vars, Sound
<1>17. QED
  BY <1>3, <1>5, <1>10, <1>11, <1>12, <1>13, <1>14, <1>15, <1>16 DEF Next

-----------------------------------------------------------------------------
\* A recipe is put in one place, when it is done.
LEMMA PlacedStep ==
  ASSUME ProjectAssumption, Inv, [Next]_vars
  PROVE  Placed'
<1>1. Document /\ Tabled /\ TypeInv /\ Inferred /\ Sound /\ Complete /\ Placed
  BY DEF Inv
<1>2. blocks' = blocks
  BY DEF Next, InferObjects, NextPhase, NextList, ReportMissing, AcceptExisting, Instantiate,
         Return, EmitRule, Finish, vars
<1>3. CASE InferObjects
  <2>1. members' = members /\ done = {} /\ done' = {}
    BY <1>1, <1>3 DEF InferObjects, Inferred, Early
  <2>2. Placing(Len(blocks), members, {}, table)
    BY <1>1, <2>1 DEF Placed
  <2>3. Placing(Len(blocks), members, {}, table')
    BY <2>2 DEF Placing
  <2>4. QED
    BY <1>2, <2>1, <2>3 DEF Placed
<1>4. CASE UNCHANGED <<members, done, table>>
  BY <1>1, <1>2, <1>4 DEF Placed
<1>5. CASE Instantiate
  <2> DEFINE h == Home(block)
             n == Len(blocks)
             f == File
             at == members[h]
             more == members'
             dones == done \union {f}
  <2>1. /\ h \in 0..n /\ f \in Name
        /\ \/ ~Wanting(f) /\ more = members
           \/ /\ Wanting(f)
              /\ more[h] = Append(at, f)
              /\ \A b \in 0..n : b # h => more[b] = members[b]
    BY <1>1, <1>5, MembersTyped
  <2>2. table' = table /\ done' = dones
    BY <1>5 DEF Instantiate
  <2>3. Placing(n, members, done, table) /\ \A b \in 0..n : Range(members[b]) \subseteq done
    BY <1>1, MembersRecorded DEF Placed
  <2>4. CASE ~Wanting(f)
    <3>1. more = members /\ (table[f].code => f \in done)
      BY <2>1, <2>4 DEF Wanting
    <3> HIDE DEF f, h, n, more
    <3>2. Placing(n, members, dones, table)
      BY <2>3, <3>1 DEF Placing
    <3> HIDE DEF dones
    <3>3. QED
      BY <1>2, <2>2, <3>1, <3>2 DEF Placed, more, n
  <2>5. CASE Wanting(f)
    <3>1. at \in Seq(Name)
      BY <1>1, <2>1 DEF TypeInv
    <3>2. f \notin done /\ table[f].code
      BY <2>5 DEF Wanting
    <3>3. \A b \in 0..n : f \notin Range(members[b])
      BY <2>3, <3>2
    <3> HIDE DEF f, h, n, more
    <3>4. /\ more[h] = Append(at, f)
          /\ \A b \in 0..n : b # h => more[b] = members[b]
      BY <2>1, <2>5
    <3>5. IsInjective(at) /\ f \notin Range(at)
      BY <2>1, <2>3, <3>3 DEF Placing
    <3>6. Range(more[h]) = Range(members[h]) \union {f} /\ IsInjective(more[h])
      <4> HIDE DEF at
      <4>1. Range(Append(at, f)) = Range(at) \union {f} /\ IsInjective(Append(at, f))
        BY <2>1, <3>1, <3>5, RangeOfAppend
      <4>2. QED
        BY <3>4, <4>1 DEF at
    <3>7. \A b \in 0..n : IsInjective(more[b])
      BY <2>3, <3>4, <3>6 DEF Placing
    <3>8. \A b, c \in 0..n : b # c => Range(more[b]) \intersect Range(more[c]) = {}
      <4>1. SUFFICES ASSUME NEW b \in 0..n, NEW c \in 0..n, b # c
                     PROVE  Range(more[b]) \intersect Range(more[c]) = {}
        OBVIOUS
      <4>2. /\ Range(members[b]) \intersect Range(members[c]) = {}
            /\ f \notin Range(members[b]) /\ f \notin Range(members[c])
        BY <2>3, <3>3, <4>1 DEF Placing
      <4>3. QED
        BY <3>4, <3>6, <4>1, <4>2
    <3>9. \A b \in 0..n : \A g \in Range(more[b]) : g \in dones /\ table[g].code
      BY <2>3, <3>2, <3>4, <3>6 DEF Placing
    <3>10. \A g \in dones : table[g].code => \E b \in 0..n : g \in Range(more[b])
      <4>1. SUFFICES ASSUME NEW g \in dones, table[g].code PROVE \E b \in 0..n : g \in Range(more[b])
        OBVIOUS
      <4>2. CASE g = f
        BY <2>1, <3>6, <4>2
      <4>3. CASE g # f
        <5>1. PICK b \in 0..n : g \in Range(members[b])
          BY <2>3, <4>1, <4>3 DEF Placing
        <5>2. g \in Range(more[b])
          BY <3>4, <3>6, <5>1
        <5>3. QED
          BY <5>2
      <4>4. QED
        BY <4>2, <4>3
    <3> HIDE DEF dones
    <3>11. Placing(n, more, dones, table)
      BY <3>7, <3>8, <3>9, <3>10 DEF Placing
    <3>12. QED
      BY <1>2, <2>2, <3>11 DEF Placed, more, n
  <2>6. QED
    BY <2>4, <2>5
<1>6. QED
  BY <1>3, <1>4, <1>5 DEF Next, NextPhase, NextList, ReportMissing, AcceptExisting, Return,
     EmitRule, Finish, vars

\* Lines that are no rules do not matter.
LEMMA QuietLines ==
  ASSUME NEW s \in Seq(Lines), NEW t \in Seq(Lines), NEW targets,
         OneFor(s, targets), \A l \in Range(t) : l.kind # "rule"
  PROVE  OneFor(s \o t, targets)
<1> DEFINE T == Lines
           m == Len(s)
           n == Len(t)
<1> SUFFICES ASSUME NEW u, u = s \o t PROVE OneFor(u, targets)
  OBVIOUS
<1>1. /\ s \in Seq(T) /\ t \in Seq(T) /\ m \in Nat /\ n \in Nat
      /\ DOMAIN s = 1..m /\ DOMAIN t = 1..n
  BY LenProperties
<1> HIDE DEF T
<1>2. /\ s \o t \in Seq(T)
      /\ Len(s \o t) = m + n
      /\ \A i \in 1..m + n : (s \o t)[i] = IF i <= m THEN s[i] ELSE t[i - m]
  BY <1>1, ConcatProperties
<1> HIDE DEF m, n
<1>3. DOMAIN u = 1..(m + n)
  BY <1>2, LenProperties
<1>4. \A i \in 1..m : i \in 1..(m + n) /\ u[i] = s[i]
  BY <1>1, <1>2
<1>5. \A i \in 1..(m + n) : u[i].kind = "rule" => i \in 1..m
  <2>1. SUFFICES ASSUME NEW i \in 1..(m + n), ~(i <= m) PROVE u[i].kind # "rule"
    BY <1>1
  <2>2. i - m \in 1..n /\ u[i] = t[i - m]
    BY <1>1, <1>2, <2>1
  <2>3. t[i - m] \in Range(t)
    BY <1>1, <2>2 DEF Range
  <2>4. QED
    BY <2>2, <2>3
<1>6. Range(s) \subseteq Range(u)
  BY <1>1, <1>3, <1>4 DEF Range
<1>7. \A i \in DOMAIN u : u[i].kind = "rule" => u[i].what \in targets
  <2>1. \A i \in 1..m : s[i].kind = "rule" => s[i].what \in targets
    BY <1>1 DEF OneFor
  <2>2. QED
    BY <1>3, <1>4, <1>5, <2>1
<1>8. \A i, j \in DOMAIN u : u[i] = u[j] /\ u[i].kind = "rule" => i = j
  <2>1. \A i, j \in 1..m : s[i] = s[j] /\ s[i].kind = "rule" => i = j
    BY <1>1 DEF OneFor
  <2>2. SUFFICES ASSUME NEW i \in DOMAIN u, NEW j \in DOMAIN u, u[i] = u[j], u[i].kind = "rule"
                 PROVE  i = j
    OBVIOUS
  <2>3. i \in 1..m /\ j \in 1..m
    BY <1>3, <1>5, <2>2
  <2>4. QED
    BY <1>4, <2>1, <2>2, <2>3
<1>9. QED
  BY <1>6, <1>7, <1>8 DEF OneFor

\* A rule for a target that has none.
LEMMA RuleLine ==
  ASSUME NEW s \in Seq(Lines), NEW targets, OneFor(s, targets), NEW f \in Name, f \notin targets
  PROVE  /\ <<Line("rule", f)>> \in Seq(Lines)
         /\ OneFor(s \o <<Line("rule", f)>>, targets \union {f})
<1> DEFINE l == Line("rule", f)
           m == Len(s)
           T == Lines
<1>1. l \in T /\ l.kind = "rule" /\ l.what = f
  BY DEF Line, Lines
<1>2. s \in Seq(T) /\ m \in Nat /\ DOMAIN s = 1..m
  BY LenProperties
<1>3. \A g : g = f => Line("rule", g) = l
  OBVIOUS
<1> HIDE DEF l, T
<1>4. <<l>> \in Seq(T) /\ Append(s, l) = s \o <<l>>
  BY <1>1, <1>2, AppendIsConcat
<1> DEFINE u == Append(s, l)
<1>5. /\ u \in Seq(T) /\ Len(u) = m + 1
      /\ \A i \in 1..m : u[i] = s[i]
      /\ u[m + 1] = l
  BY <1>1, <1>2, AppendProperties
<1>6. Range(u) = Range(s) \union {l}
  BY <1>1, <1>2, RangeOfAppend
<1> HIDE DEF u, m
<1>7. DOMAIN u = 1..(m + 1) /\ \A i \in 1..(m + 1) : i \in 1..m \/ i = m + 1
  BY <1>2, <1>5, LenProperties
<1>8. \A i \in 1..m : s[i].kind = "rule" => s[i].what \in targets
  BY <1>2 DEF OneFor
<1>9. \A i, j \in 1..m : s[i] = s[j] /\ s[i].kind = "rule" => i = j
  BY <1>2 DEF OneFor
<1>10. \A i \in DOMAIN u : u[i].kind = "rule" => u[i].what \in targets \union {f}
  BY <1>1, <1>5, <1>7, <1>8
<1>11. \A i \in 1..m : s[i] # l
  BY <1>1, <1>8
<1>12. \A i, j \in DOMAIN u : u[i] = u[j] /\ u[i].kind = "rule" => i = j
  BY <1>5, <1>7, <1>9, <1>11
<1>13. \A g \in targets \union {f} : Line("rule", g) \in Range(u)
  BY <1>3, <1>6 DEF OneFor
<1>14. OneFor(u, targets \union {f})
  BY <1>10, <1>12, <1>13 DEF OneFor
<1>15. QED
  BY <1>4, <1>14 DEF u, l, T

\* The rules of the document stay while they are printed.
LEMMA NodesStay ==
  ASSUME UNCHANGED <<blocks, members, table>>
  PROVE  RuleNodes' = RuleNodes
BY DEF RuleNodes

\* The lines that are printed for a rule keep it to one for each target.
LEMMA OneMore ==
  ASSUME Document, TypeInv, RuleNodes \in Seq(Node), EmitRule, OneFor(lines, seen)
  PROVE  OneFor(lines', seen')
<1> DEFINE f == RuleNodes[node].target
           T == Lines
<1>1. PICK opening \in Seq(T), rest \in Seq(T) :
        /\ lines' = (lines \o opening) \o rest
        /\ lines \in Seq(T)
        /\ lines \o opening \in Seq(T)
        /\ \A l \in Range(opening) : l.kind # "rule"
        /\ IF Printed(f) THEN rest = << >>
           ELSE \E closing \in Seq(T) :
                  /\ rest = <<Line("rule", f)>> \o closing
                  /\ \A l \in Range(closing) : l.kind # "rule"
  BY LinesTyped
<1>2. f \in Name /\ seen' = seen \union {f}
  <2>1. RuleNodes[node] \in Node
    BY LinesTyped
  <2>2. QED
    BY <2>1 DEF Node, EmitRule
<1>3. OneFor(lines \o opening, seen)
  BY <1>1, QuietLines DEF T
<1> DEFINE head == lines \o opening
<1>4. CASE f \in seen
  <2>1. rest = << >> /\ seen' = seen
    BY <1>1, <1>2, <1>4 DEF Printed
  <2> HIDE DEF T, head, f
  <2>2. head \o << >> = head
    BY <1>1, ConcatEmptySeq DEF head
  <2>3. QED
    BY <1>1, <1>3, <2>1, <2>2 DEF head
<1>5. CASE f \notin seen
  <2>1. PICK closing \in Seq(T) :
          /\ rest = <<Line("rule", f)>> \o closing
          /\ \A l \in Range(closing) : l.kind # "rule"
    BY <1>1, <1>5 DEF Printed
  <2>2. head \in Seq(T) /\ OneFor(head, seen)
    BY <1>1, <1>3
  <2> HIDE DEF head, f
  <2>3. <<Line("rule", f)>> \in Seq(T) /\ OneFor(head \o <<Line("rule", f)>>, seen \union {f})
    BY <1>2, <1>5, <2>2, RuleLine DEF T
  <2> DEFINE one == <<Line("rule", f)>>
  <2>4. one \in Seq(T) /\ OneFor(head \o one, seen')
    BY <1>2, <2>3
  <2> HIDE DEF one
  <2>5. head \o one \in Seq(T) /\ (head \o one) \o closing = head \o (one \o closing)
    <3> HIDE DEF T
    <3>1. head \o one \in Seq(T)
      BY ONLY <2>2, <2>4, ConcatProperties
    <3>2. closing \in Seq(T)
      BY <2>1
    <3>3. (head \o one) \o closing = head \o (one \o closing)
      <4>1. head \in Seq(T)
        BY <2>2
      <4>2. one \in Seq(T)
        BY <2>4
      <4>3. \A s, t, u \in Seq(T) : (s \o t) \o u = s \o (t \o u)
        BY ONLY ConcatAssociative, SMTT(30)
      <4>4. QED
        BY ONLY <3>2, <4>1, <4>2, <4>3, Zenon
    <3>4. QED
      BY <3>1, <3>3
  <2>6. OneFor((head \o one) \o closing, seen')
    BY <2>1, <2>4, <2>5, QuietLines DEF T
  <2>7. lines' = head \o (one \o closing)
    BY <1>1, <2>1 DEF head, one
  <2>8. QED
    BY <2>5, <2>6, <2>7
<1>6. QED
  BY <1>4, <1>5

LEMMA EmittedStep ==
  ASSUME ProjectAssumption, Inv, [Next]_vars
  PROVE  Emitted'
<1>1. /\ Document /\ TypeInv /\ Emitted
      /\ RuleNodes \in Seq(Node) /\ node \in Nat \ {0}
  BY MembersRecorded, NodesOfRules DEF Inv, TypeInv
<1>2. ASSUME phase \notin {"emit_rules", "done"}, UNCHANGED <<node, seen, lines>>,
             phase' # "done"
      PROVE  Emitted'
  <2>1. node' = 1 /\ seen' = {} /\ lines' = << >> /\ OneFor(lines', seen')
    BY <1>1, <1>2 DEF Emitted
  <2>2. \A k \in 1..(node' - 1) : FALSE
    BY <2>1
  <2>3. QED
    BY <1>2, <2>1, <2>2 DEF Emitted
<1>3. CASE EmitRule
  <2>1. phase = "emit_rules" /\ phase' = phase /\ OneFor(lines', seen')
    BY <1>1, <1>3, OneMore DEF EmitRule, Emitted
  <2>2. RuleNodes' = RuleNodes
    BY <1>3, NodesStay DEF EmitRule
  <2>3. node' = node + 1 /\ seen' = seen \union {RuleNodes[node].target}
    BY <1>3 DEF EmitRule
  <2>4. \A k \in 1..(node' - 1) : k \in DOMAIN RuleNodes => RuleNodes[k].target \in seen'
    <3>1. SUFFICES ASSUME NEW k \in 1..node, k \in DOMAIN RuleNodes
                   PROVE  RuleNodes[k].target \in seen'
      BY <1>1, <2>3
    <3>2. CASE k = node
      BY <2>3, <3>2
    <3>3. CASE k # node
      <4>1. k \in 1..(node - 1)
        BY <1>1, <3>1, <3>3
      <4>2. QED
        BY <1>1, <2>3, <3>1, <4>1 DEF Emitted
    <3>4. QED
      BY <3>2, <3>3
  <2>5. QED
    BY <2>1, <2>2, <2>4 DEF Emitted
<1>4. CASE Finish
  <2>1. RuleNodes' = RuleNodes
    BY <1>4, NodesStay DEF Finish
  <2>2. phase' = "done" /\ node > Len(RuleNodes) /\ UNCHANGED <<node, seen, lines>>
    BY <1>4 DEF Finish
  <2>3. QED
    BY <1>1, <2>1, <2>2 DEF Emitted
<1>5. CASE UNCHANGED vars
  <2>1. RuleNodes' = RuleNodes
    BY <1>5, NodesStay DEF vars
  <2>2. QED
    BY <1>1, <1>5, <2>1 DEF vars, Emitted
<1>6. ASSUME InferObjects \/ NextPhase \/ NextList \/ ReportMissing \/ AcceptExisting \/ Instantiate
             \/ Return
      PROVE  /\ phase \notin {"emit_rules", "done"} /\ UNCHANGED <<node, seen, lines>>
             /\ phase' # "done"
  BY <1>6 DEF InferObjects, NextPhase, NextList, ReportMissing, AcceptExisting, Instantiate, Return
<1>7. QED
  BY <1>2, <1>3, <1>4, <1>5, <1>6 DEF Next

-----------------------------------------------------------------------------
\* The calls under way are a chain, from one file to what it needs.
LEMMA ChainStep ==
  ASSUME ProjectAssumption, Inv, [Next]_vars
  PROVE  Chain'
<1>1. /\ Document /\ Tabled /\ TypeInv /\ Inferred /\ Sound /\ Chain
      /\ calls \in Seq(Calls)
  BY DEF Inv, TypeInv
<1> DEFINE Linked(row) ==
             \A i \in DOMAIN row : i + 1 \in DOMAIN row =>
               /\ row[i].at - 1 \in DOMAIN row[i].files
               /\ row[i].files[row[i].at - 1] \in DOMAIN table
               /\ row[i + 1].files = table[row[i].files[row[i].at - 1]].prereqs
<1>2. Linked(calls)
  BY <1>1 DEF Chain, Behind
<1>3. ASSUME Linked(calls'), UNCHANGED table, phase' # "overflow" PROVE Chain'
  BY <1>3 DEF Chain, Behind
<1>4. Linked(<< >>) /\ \A c : Linked(<<c>>)
  <2>1. DOMAIN << >> = {} /\ \A c : DOMAIN <<c>> = {1}
    OBVIOUS
  <2>2. QED
    BY <2>1
<1>5. calls # << >> => Linked(Advanced)
  <2>1. SUFFICES ASSUME calls # << >>, NEW i \in DOMAIN Advanced, i + 1 \in DOMAIN Advanced
                 PROVE  /\ Advanced[i].at - 1 \in DOMAIN Advanced[i].files
                        /\ Advanced[i].files[Advanced[i].at - 1] \in DOMAIN table
                        /\ Advanced[i + 1].files = table[Advanced[i].files[Advanced[i].at - 1]].prereqs
    OBVIOUS
  <2>2. /\ i \in DOMAIN calls /\ i + 1 \in DOMAIN calls /\ i # Len(calls)
    BY <1>1, <2>1, AdvancedCalls
  <2>3. /\ Advanced[i].files = calls[i].files /\ Advanced[i].at = calls[i].at
        /\ Advanced[i + 1].files = calls[i + 1].files
    BY <1>1, <2>1, <2>2, AdvancedCalls
  <2>4. QED
    BY <1>2, <2>2, <2>3
<1>6. calls # << >> => Linked(Front(calls))
  <2>1. SUFFICES ASSUME calls # << >>, NEW i \in DOMAIN Front(calls), i + 1 \in DOMAIN Front(calls)
                 PROVE  /\ Front(calls)[i].at - 1 \in DOMAIN Front(calls)[i].files
                        /\ Front(calls)[i].files[Front(calls)[i].at - 1] \in DOMAIN table
                        /\ Front(calls)[i + 1].files
                             = table[Front(calls)[i].files[Front(calls)[i].at - 1]].prereqs
    OBVIOUS
  <2>2. /\ i \in DOMAIN calls /\ Front(calls)[i] = calls[i]
        /\ i + 1 \in DOMAIN calls /\ Front(calls)[i + 1] = calls[i + 1]
    BY <1>1, <2>1, FrontCalls
  <2>3. QED
    BY <1>2, <2>2
<1>7. ASSUME Instantiate, Len(calls) < MaxDepth PROVE Linked(calls')
  <2> DEFINE fs == table[File].prereqs
             row == calls'
             n == Len(calls)
  <2>1. InCall /\ calls # << >> /\ File \in DOMAIN table /\ row = Advanced \o <<Call(fs, TRUE)>>
    BY <1>7 DEF Instantiate, InCall, Deeper
  <2>2. fs \in Seq(Name)
    BY <1>1, <2>1 DEF Tabled, Recipes
  <2>3. n \in Nat /\ n \in DOMAIN calls /\ DOMAIN calls = 1..n /\ DOMAIN Advanced = 1..n
    BY <1>1, <2>1, AdvancedCalls
  <2>4. /\ Advanced[n].files = Top.files /\ Advanced[n].at = Top.at + 1
        /\ Top.at \in DOMAIN Top.files /\ Top.at \in Nat
    BY <1>1, <2>1, <2>3, TopTyped, AdvancedCalls
  <2>5. Top.files[Top.at] = File /\ Call(fs, TRUE).files = fs
    BY DEF File, Call
  <2>6. /\ DOMAIN row = 1..(n + 1)
        /\ \A i \in 1..n : row[i] = Advanced[i]
        /\ row[n + 1] = Call(fs, TRUE)
    <3> HIDE DEF fs
    <3>1. QED
      BY <1>1, <2>1, <2>2, <2>3, DeeperCalls
  <2>7. (Top.at + 1) - 1 = Top.at
    BY <2>4
  <2> HIDE DEF row, n
  <2>8. Linked(Advanced)
    BY <1>5, <2>1
  <2>9. SUFFICES ASSUME NEW i \in DOMAIN row, i + 1 \in DOMAIN row
                 PROVE  /\ row[i].at - 1 \in DOMAIN row[i].files
                        /\ row[i].files[row[i].at - 1] \in DOMAIN table
                        /\ row[i + 1].files = table[row[i].files[row[i].at - 1]].prereqs
    BY DEF row
  <2>10. i \in 1..n /\ row[i] = Advanced[i]
    BY <2>3, <2>6, <2>9
  <2>11. CASE i = n
    <3>1. row[i].files = Top.files /\ row[i].at - 1 = Top.at
      BY <2>4, <2>7, <2>10, <2>11
    <3>2. row[i + 1].files = fs
      BY <2>5, <2>6, <2>11
    <3>3. QED
      BY <2>1, <2>4, <2>5, <3>1, <3>2
  <2>12. CASE i # n
    <3>1. i + 1 \in 1..n
      BY <2>3, <2>10, <2>12
    <3>2. row[i + 1] = Advanced[i + 1]
      BY <2>6, <3>1
    <3>3. QED
      BY <2>3, <2>8, <2>10, <3>1, <3>2
  <2>13. QED
    BY <2>11, <2>12
<1>8. CASE InferObjects
  <2>1. calls' = << >> /\ phase' # "overflow"
    BY <1>1, <1>8 DEF InferObjects, Inferred, Early
  <2>2. DOMAIN << >> = {}
    OBVIOUS
  <2>3. QED
    BY <2>1, <2>2 DEF Chain
<1>9. CASE NextList
  <2>1. /\ table' = table /\ phase' # "overflow"
        /\ (\E c : calls' = <<c>>) \/ calls' = calls
    BY <1>9 DEF NextList
  <2> HIDE DEF Linked
  <2>2. QED
    BY <1>2, <1>3, <1>4, <2>1
<1>10. CASE ReportMissing \/ AcceptExisting
  <2>1. table' = table /\ phase' # "overflow" /\ calls # << >> /\ calls' = Advanced
    BY <1>10 DEF ReportMissing, AcceptExisting, InCall
  <2> HIDE DEF Linked
  <2>2. QED
    BY <1>3, <1>5, <2>1
<1>11. CASE Return
  <2>1. table' = table /\ phase' # "overflow" /\ calls # << >> /\ calls' = Front(calls)
    BY <1>11 DEF Return
  <2> HIDE DEF Linked
  <2>2. QED
    BY <1>3, <1>6, <2>1
<1>12. CASE Instantiate
  <2>1. CASE Len(calls) < MaxDepth
    <3>1. table' = table /\ phase' # "overflow"
      BY <1>12, <2>1 DEF Instantiate
    <3> HIDE DEF Linked
    <3>2. QED
      BY <1>3, <1>7, <1>12, <2>1, <3>1
  <2>2. CASE ~(Len(calls) < MaxDepth)
    <3>1. /\ UNCHANGED <<table, calls>> /\ phase' = "overflow" /\ InCall /\ File \in DOMAIN table
      BY <1>12, <2>2 DEF Instantiate
    <3>2. MaxDepth <= Len(calls)
      BY <1>1, <2>2, LenProperties DEF ProjectAssumption
    <3>3. InCall' = InCall /\ File' = File
      BY <3>1 DEF InCall, File, Top
    <3>4. QED
      BY <1>1, <3>1, <3>2, <3>3 DEF Chain, Behind
  <2>3. QED
    BY <2>1, <2>2
<1>13. CASE NextPhase \/ EmitRule \/ Finish
  <2>1. UNCHANGED <<table, calls>> /\ phase' # "overflow"
    BY <1>13 DEF NextPhase, EmitRule, Finish
  <2> HIDE DEF Linked
  <2>2. QED
    BY <1>2, <1>3, <2>1
<1>14. CASE UNCHANGED vars
  <2>1. UNCHANGED <<table, calls, phase>> /\ InCall' = InCall /\ File' = File
    BY <1>14 DEF vars, InCall, File, Top
  <2>2. QED
    BY <1>1, <2>1 DEF Chain, Behind
<1>15. QED
  BY <1>8, <1>9, <1>10, <1>11, <1>12, <1>13, <1>14 DEF Next

-----------------------------------------------------------------------------
\* When the innermost call goes on, it leaves only its file behind.
LEMMA AdvancedPending ==
  ASSUME calls \in Seq(Calls), InCall, NEW f, NEW a, Pending(calls, f, a)
  PROVE  Pending(Advanced, f, a) \/ (f = File /\ a = Top.accept)
<1>1. PICK i \in DOMAIN calls : /\ calls[i].accept = a
                                /\ \E j \in DOMAIN calls[i].files :
                                     j >= calls[i].at /\ calls[i].files[j] = f
  BY DEF Pending
<1>2. PICK j \in DOMAIN calls[i].files : j >= calls[i].at /\ calls[i].files[j] = f
  BY <1>1
<1>3. calls # << >> /\ Top = calls[Len(calls)]
  BY TopTyped
<1>4. /\ calls[i] \in Calls /\ DOMAIN Advanced = DOMAIN calls
      /\ Advanced[i].files = calls[i].files /\ Advanced[i].accept = calls[i].accept
      /\ Advanced[i].at = IF i = Len(calls) THEN calls[i].at + 1 ELSE calls[i].at
  BY <1>3, AdvancedCalls
<1>5. calls[i].files \in Seq(Name) /\ calls[i].at \in Nat
  BY <1>4 DEF Calls
<1>6. j \in Nat
  BY <1>5, LenProperties
<1>7. CASE i = Len(calls) /\ j = calls[i].at
  BY <1>1, <1>2, <1>3, <1>7 DEF File
<1>8. CASE i # Len(calls) \/ j # calls[i].at
  <2>1. j >= Advanced[i].at
    BY <1>2, <1>4, <1>5, <1>6, <1>8
  <2>2. QED
    BY <1>1, <1>2, <1>4, <2>1 DEF Pending
<1>9. QED
  BY <1>7, <1>8

\* When it returns, it leaves nothing behind.
LEMMA FrontPending ==
  ASSUME calls \in Seq(Calls), calls # << >>, ~InCall, NEW f, NEW a, Pending(calls, f, a)
  PROVE  Pending(Front(calls), f, a)
<1>1. PICK i \in DOMAIN calls : /\ calls[i].accept = a
                                /\ \E j \in DOMAIN calls[i].files :
                                     j >= calls[i].at /\ calls[i].files[j] = f
  BY DEF Pending
<1>2. PICK j \in DOMAIN calls[i].files : j >= calls[i].at /\ calls[i].files[j] = f
  BY <1>1
<1>3. /\ calls[i] \in Calls /\ Len(calls) \in Nat /\ DOMAIN calls = 1..Len(calls)
      /\ Top = calls[Len(calls)]
  BY AdvancedCalls DEF Top, Last
<1>4. calls[i].files \in Seq(Name) /\ calls[i].at \in Nat
  BY <1>3 DEF Calls
<1>5. j \in 1..Len(calls[i].files) /\ Len(calls[i].files) \in Nat
  BY <1>4, LenProperties
<1>6. i # Len(calls)
  BY <1>2, <1>3, <1>4, <1>5 DEF InCall
<1>7. i \in 1..(Len(calls) - 1)
  BY <1>3, <1>6
<1>8. i \in DOMAIN Front(calls) /\ Front(calls)[i] = calls[i]
  BY <1>7, FrontCalls
<1>9. QED
  BY <1>1, <1>2, <1>8 DEF Pending

\* A further call will come to its files, and forgets none.
LEMMA DeeperPending ==
  ASSUME calls \in Seq(Calls), calls # << >>, NEW fs \in Seq(Name), NEW row,
         row = Advanced \o <<Call(fs, TRUE)>>
  PROVE  /\ \A f, a : Pending(Advanced, f, a) => Pending(row, f, a)
         /\ \A f \in Range(fs) : Pending(row, f, TRUE)
<1> DEFINE n == Len(calls) + 1
           c == Call(fs, TRUE)
<1>1. /\ \A i \in DOMAIN calls : i \in DOMAIN row /\ row[i] = Advanced[i]
      /\ n \in DOMAIN row /\ row[n] = c
      /\ DOMAIN Advanced = DOMAIN calls
  BY DeeperCalls, AdvancedCalls
<1>2. c.files = fs /\ c.accept = TRUE /\ c.at = 1
  BY DEF Call
<1> HIDE DEF n, c
<1>3. \A f, a : Pending(Advanced, f, a) => Pending(row, f, a)
  BY ONLY <1>1 DEF Pending
<1>4. ASSUME NEW f \in Range(fs) PROVE Pending(row, f, TRUE)
  <2>1. PICK j \in DOMAIN fs : fs[j] = f
    BY DEF Range
  <2>2. j >= 1
    BY LenProperties
  <2>3. QED
    BY <1>1, <1>2, <2>1, <2>2 DEF Pending
<1>5. QED
  BY <1>3, <1>4

\* What is settled stays settled, if no call forgets a file.
LEMMA SettledStays ==
  ASSUME UNCHANGED <<files, table>>, done \subseteq done', errors \subseteq errors',
         \A f, a : Pending(calls, f, a) => Pending(calls', f, a) \/ Handled(f, a)'
  PROVE  \A f, a : Settled(f, a) => Settled(f, a)'
<1>1. \A f, a : Handled(f, a) => Handled(f, a)'
  BY DEF Handled
<1>2. \A f, a : Settled(f, a)' <=> Handled(f, a)' \/ Pending(calls', f, a)
  BY DEF Settled, Pending
<1>3. QED
  BY <1>1, <1>2 DEF Settled

\* The walk over the table settles what it comes to.
LEMMA WalkSettles ==
  ASSUME ProjectAssumption, Document, Tabled, TypeInv,
         \/ NextList \/ ReportMissing \/ AcceptExisting \/ Return
         \/ Instantiate /\ Len(calls) < MaxDepth
  PROVE  /\ \A f, a : Settled(f, a) => Settled(f, a)'
         /\ \A f \in done' \ done : \A g \in Range(table[f].prereqs) : Settled(g, TRUE)'
<1>1. calls \in Seq(Calls) /\ DOMAIN table \subseteq files
  BY DEF TypeInv, Tabled
<1>2. UNCHANGED <<files, table>> /\ done \subseteq done' /\ errors \subseteq errors'
  BY DEF NextList, ReportMissing, AcceptExisting, Return, Instantiate
<1>3. CASE NextList
  <2>1. \A f, a : ~Pending(calls, f, a)
    <3>1. DOMAIN << >> = {}
      OBVIOUS
    <3>2. QED
      BY <1>3, <3>1 DEF NextList, Pending
  <2>2. done' = done
    BY <1>3 DEF NextList
  <2>3. QED
    BY <1>2, <2>1, <2>2, SettledStays
<1>4. CASE ReportMissing \/ AcceptExisting
  <2>1. InCall /\ calls' = Advanced /\ done' = done
    BY <1>4 DEF ReportMissing, AcceptExisting
  <2>2. ASSUME NEW f, NEW a, f = File, a = Top.accept
        PROVE  Handled(f, a)'
    <3>1. CASE ReportMissing
      <4>1. f \in errors' /\ f \notin DOMAIN table
        BY <1>1, <2>2, <3>1 DEF ReportMissing, Missing
      <4>2. QED
        BY <1>2, <4>1 DEF Handled
    <3>2. CASE AcceptExisting
      <4>1. f \in files /\ f \notin DOMAIN table /\ a
        BY <2>2, <3>2 DEF AcceptExisting, Missing
      <4>2. QED
        BY <1>2, <4>1 DEF Handled
    <3>3. QED
      BY <1>4, <3>1, <3>2
  <2>3. ASSUME NEW f, NEW a, Pending(calls, f, a)
        PROVE  Pending(calls', f, a) \/ Handled(f, a)'
    BY <1>1, <2>1, <2>2, <2>3, AdvancedPending
  <2>4. QED
    BY <1>2, <2>1, <2>3, SettledStays
<1>5. CASE Return
  <2>1. calls # << >> /\ ~InCall /\ calls' = Front(calls) /\ done' = done
    BY <1>5 DEF Return
  <2>2. \A f, a : Pending(calls, f, a) => Pending(calls', f, a)
    BY <1>1, <2>1, FrontPending
  <2>3. QED
    BY <1>2, <2>1, <2>2, SettledStays
<1>6. CASE Instantiate /\ Len(calls) < MaxDepth
  <2> DEFINE fs == table[File].prereqs
  <2>1. /\ InCall /\ calls # << >> /\ File \in DOMAIN table /\ done' = done \union {File}
        /\ calls' = Advanced \o <<Call(fs, TRUE)>>
    BY <1>6 DEF Instantiate, InCall, Deeper
  <2>2. fs \in Seq(Name)
    BY <2>1 DEF Tabled, Recipes
  <2>3. ASSUME NEW f, NEW a, f = File PROVE Handled(f, a)'
    BY <1>2, <2>1, <2>3 DEF Handled
  <2> HIDE DEF fs
  <2>4. /\ \A f, a : Pending(Advanced, f, a) => Pending(calls', f, a)
        /\ \A f \in Range(fs) : Pending(calls', f, TRUE)
    BY <1>1, <2>1, <2>2, DeeperPending
  <2>5. ASSUME NEW f, NEW a, Pending(calls, f, a)
        PROVE  Pending(calls', f, a) \/ Handled(f, a)'
    BY <1>1, <2>1, <2>3, <2>4, <2>5, AdvancedPending
  <2>6. \A f \in Range(fs) : Settled(f, TRUE)'
    BY <2>4 DEF Settled, Pending
  <2>7. QED
    BY <1>2, <2>1, <2>5, <2>6, SettledStays DEF fs
<1>7. QED
  BY <1>3, <1>4, <1>5, <1>6

\* The files of list l of block b have been asked for.
Asked(b, l) == \A f \in Range(Lists(b)[l].files) : Settled(f, Lists(b)[l].accept)

\* instantiate_rules leaves no list out, and loses no file on its way.
LEMMA CompleteStep ==
  ASSUME ProjectAssumption, Inv, [Next]_vars
  PROVE  Complete'
<1>1. /\ Document /\ Tabled /\ TypeInv /\ Inferred /\ Sound /\ Complete /\ Emitted
      /\ Document' /\ TypeInv'
  BY TypeStep DEF Inv
<1>2. /\ Len(blocks) \in Nat /\ DOMAIN blocks = 1..Len(blocks)
      /\ block \in Nat \ {0} /\ list \in Nat \ {0}
      /\ \A b \in DOMAIN blocks : /\ Len(Lists(b)) \in Nat
                                  /\ DOMAIN Lists(b) = 1..Len(Lists(b))
  BY <1>1, ListsTyped, LenProperties DEF Document, TypeInv
<1> DEFINE Closed == \A f \in done : \A g \in Range(table[f].prereqs) : Settled(g, TRUE)
           AllAsked == \A b \in DOMAIN blocks : \A l \in DOMAIN Lists(b) : Came(b, l) => Asked(b, l)
           Ended == /\ phase = "instantiate_rules" /\ calls # << >> => block <= Len(blocks)
                    /\ phase \in {"emit_rules", "done"} => errors = {}
                    /\ phase = "failed" => errors # {}
<1>3. /\ Ended /\ AllAsked
      /\ phase # "overflow" => Closed
  BY <1>1 DEF Complete, Asked
<1>4. ASSUME Ended', AllAsked', phase' # "overflow" => Closed'
      PROVE  Complete'
  BY <1>4 DEF Complete, Asked
<1>5. ASSUME UNCHANGED <<blocks, objs>>
      PROVE  DOMAIN blocks' = DOMAIN blocks /\ \A b : Lists(b)' = Lists(b)
  BY <1>5 DEF Lists
<1>6. ASSUME UNCHANGED <<blocks, objs, files, table, calls, done, errors>>
      PROVE  /\ \A f, a : Settled(f, a)' <=> Settled(f, a)
             /\ \A b, l : Asked(b, l)' <=> Asked(b, l)
             /\ Closed' <=> Closed
  <2>1. \A f, a : Settled(f, a)' <=> Settled(f, a)
    BY <1>6 DEF Settled, Handled, Pending
  <2>2. \A b : Lists(b)' = Lists(b)
    BY <1>5, <1>6
  <2>3. QED
    BY <1>6, <2>1, <2>2 DEF Asked
<1>7. CASE InferObjects
  <2>1. /\ calls' = << >> /\ done' = {} /\ phase' \in {"infer_target_objects", "aborted"}
    BY <1>1, <1>7 DEF InferObjects, Inferred, Early
  <2>2. Ended'
    BY <2>1
  <2>3. Closed'
    BY <2>1
  <2>4. \A b, l : ~Came(b, l)'
    BY <2>1 DEF Came
  <2>5. AllAsked'
    BY <2>4
  <2>6. QED
    BY <1>4, <2>2, <2>3, <2>5
<1>8. CASE NextPhase
  <2>1. /\ UNCHANGED <<blocks, objs, files, table, calls, done, errors, list>>
        /\ block > Len(blocks) /\ block' = 1 /\ ~(block <= Len(blocks))
    BY <1>2, <1>8 DEF NextPhase
  <2>2. CASE phase = "infer_target_objects" /\ phase' = "instantiate_rules"
    <3>1. calls = << >> /\ done = {} /\ list = 1
      BY <1>1, <2>2 DEF Inferred, Early
    <3>2. Ended'
      BY <2>1, <2>2, <3>1
    <3>3. Closed'
      BY <2>1, <3>1
    <3>4. ASSUME NEW b \in DOMAIN blocks, NEW l \in DOMAIN Lists(b)
          PROVE  ~Came(b, l)'
      <4>1. b \in Nat \ {0} /\ l \in Nat \ {0}
        BY <1>2
      <4>2. ~(b < 1) /\ ~(l < 1)
        BY <4>1
      <4>3. QED
        BY <2>1, <2>2, <3>1, <4>2 DEF Came
    <3>5. AllAsked'
      BY <1>5, <2>1, <3>4
    <3>6. QED
      BY <1>4, <3>2, <3>3, <3>5
  <2>3. CASE /\ phase = "instantiate_rules"
             /\ phase' = IF errors = {} THEN "emit_rules" ELSE "failed"
    <3>1. Ended'
      BY <2>1, <2>3
    <3>2. Closed'
      BY <1>3, <1>6, <2>1, <2>3
    <3>3. ASSUME NEW b \in DOMAIN blocks, NEW l \in DOMAIN Lists(b)
          PROVE  Asked(b, l)'
      <4>1. b < block
        BY <1>2, <2>1
      <4>2. Came(b, l)
        BY <2>3, <4>1 DEF Came
      <4>3. QED
        BY <1>3, <1>6, <2>1, <4>2
    <3>4. AllAsked'
      BY <1>5, <2>1, <3>3
    <3>5. QED
      BY <1>4, <3>1, <3>2, <3>4
  <2>4. QED
    BY <1>8, <2>2, <2>3 DEF NextPhase
<1>9. ASSUME phase = "instantiate_rules", phase' = phase, UNCHANGED <<blocks, objs, table>>,
             \A f, a : Settled(f, a) => Settled(f, a)',
             \A f \in done' \ done : \A g \in Range(table[f].prereqs) : Settled(g, TRUE)',
             calls' # << >> => block' <= Len(blocks),
             \A b \in DOMAIN blocks : \A l \in DOMAIN Lists(b) :
               Came(b, l)' => Came(b, l) \/ Asked(b, l)'
      PROVE  Complete'
  <2>1. Ended'
    BY <1>9
  <2>2. Closed'
    <3>1. SUFFICES ASSUME NEW f \in done', NEW g \in Range(table[f].prereqs) PROVE Settled(g, TRUE)'
      BY <1>9
    <3>2. CASE f \in done
      BY <1>3, <1>9, <3>1, <3>2
    <3>3. CASE f \notin done
      BY <1>9, <3>1, <3>3
    <3>4. QED
      BY <3>2, <3>3
  <2>3. \A b : Lists(b)' = Lists(b)
    BY <1>5, <1>9
  <2>4. \A b, l : Asked(b, l) => Asked(b, l)'
    BY <1>9, <2>3 DEF Asked
  <2>5. AllAsked'
    BY <1>3, <1>5, <1>9, <2>4
  <2>6. QED
    BY <1>4, <2>1, <2>2, <2>5
<1>10. CASE NextList
  <2>1. /\ phase = "instantiate_rules" /\ phase' = phase /\ UNCHANGED <<blocks, objs, table>>
        /\ calls = << >> /\ block \in DOMAIN blocks /\ block <= Len(blocks)
    BY <1>2, <1>10 DEF NextList
  <2>2. /\ \A f, a : Settled(f, a) => Settled(f, a)'
        /\ \A f \in done' \ done : \A g \in Range(table[f].prereqs) : Settled(g, TRUE)'
    BY <1>1, <1>10, WalkSettles
  <2>3. calls' # << >> => block' <= Len(blocks)
    BY <1>10, <2>1 DEF NextList
  <2>4. ASSUME NEW b \in DOMAIN blocks, NEW l \in DOMAIN Lists(b), Came(b, l)', ~Came(b, l)
        PROVE  Asked(b, l)'
    <3>1. b \in Nat \ {0} /\ l \in Nat \ {0} /\ l <= Len(Lists(b)) /\ Len(Lists(b)) \in Nat
      BY <1>2
    <3>2. /\ b < block' \/ (b = block' /\ l < list')
          /\ ~(b < block) /\ ~(b = block /\ l < list)
      BY <2>1, <2>4 DEF Came
    <3>3. list <= Len(Lists(block))
      <4>1. SUFFICES ASSUME ~(list <= Len(Lists(block))) PROVE FALSE
        OBVIOUS
      <4>2. list' = 1 /\ block' = block + 1
        BY <1>10, <4>1 DEF NextList
      <4>3. b = block /\ ~(l < list)
        BY <1>2, <3>1, <3>2, <4>2
      <4>4. QED
        BY <1>2, <2>4, <3>1, <4>1, <4>3
    <3>4. calls' = <<Call(Lists(block)[list].files, Lists(block)[list].accept)>>
          /\ list' = list + 1 /\ block' = block
      BY <1>10, <3>3 DEF NextList
    <3>5. b = block /\ l = list
      BY <1>2, <3>1, <3>2, <3>4
    <3> DEFINE fs == Lists(b)[l].files
               accept == Lists(b)[l].accept
               c == Call(fs, accept)
    <3>6. calls' = <<c>> /\ c.files = fs /\ c.accept = accept /\ c.at = 1
      BY <3>4, <3>5 DEF Call
    <3>7. fs \in Seq(Name)
      <4>1. Lists(b)[l] \in Entry
        BY <1>1, ListsTyped
      <4>2. QED
        BY <4>1 DEF Entry
    <3>8. Asked(b, l)' <=> \A f \in Range(fs) : Settled(f, accept)'
      <4>1. Lists(b)' = Lists(b)
        BY <1>5, <2>1
      <4>2. QED
        BY <4>1 DEF Asked
    <3>9. ASSUME NEW f \in Range(fs), NEW a, a = accept PROVE Settled(f, a)'
      <4> HIDE DEF fs, accept, c
      <4>1. PICK j \in DOMAIN fs : fs[j] = f
        BY DEF Range
      <4>2. j >= 1
        BY <3>7, <4>1, LenProperties
      <4>3. 1 \in DOMAIN calls' /\ calls'[1] = c
        BY <3>6
      <4>4. Pending(calls', f, a)
        BY <3>6, <3>9, <4>1, <4>2, <4>3 DEF Pending
      <4>5. QED
        BY <4>4 DEF Settled, Pending
    <3>10. \A f \in Range(fs) : Settled(f, accept)'
      <4>1. Lists(b)' = Lists(b)
        BY <1>5, <2>1
      <4>2. QED
        BY <3>9, <4>1
    <3>11. QED
      BY <3>8, <3>10
  <2>5. QED
    BY <1>9, <2>1, <2>2, <2>3, <2>4
<1>11. CASE ReportMissing \/ AcceptExisting \/ Return \/ (Instantiate /\ Len(calls) < MaxDepth)
  <2>1. /\ phase = "instantiate_rules" /\ phase' = phase
        /\ UNCHANGED <<blocks, objs, table, block, list>> /\ calls # << >>
    BY <1>11 DEF ReportMissing, AcceptExisting, Return, Instantiate, InCall
  <2>2. /\ \A f, a : Settled(f, a) => Settled(f, a)'
        /\ \A f \in done' \ done : \A g \in Range(table[f].prereqs) : Settled(g, TRUE)'
    BY <1>1, <1>11, WalkSettles
  <2>3. block' <= Len(blocks)
    BY <1>3, <2>1
  <2>4. \A b, l : Came(b, l)' <=> Came(b, l)
    BY <2>1 DEF Came
  <2>5. QED
    BY <1>9, <2>1, <2>2, <2>3, <2>4
<1>12. CASE Instantiate /\ ~(Len(calls) < MaxDepth)
  <2>1. phase' = "overflow"
    BY <1>12 DEF Instantiate
  <2>2. Ended' /\ \A b, l : ~Came(b, l)'
    BY <2>1 DEF Came
  <2>3. AllAsked'
    BY <2>2
  <2>4. QED
    BY <1>4, <2>1, <2>2, <2>3
<1>13. CASE EmitRule \/ Finish
  <2>1. /\ UNCHANGED <<blocks, objs, files, table, calls, done, errors>>
        /\ phase = "emit_rules" /\ phase' \in {"emit_rules", "done"}
    BY <1>13 DEF EmitRule, Finish
  <2>2. Ended'
    BY <1>3, <2>1
  <2>3. Closed'
    BY <1>3, <1>6, <2>1
  <2>4. AllAsked'
    <3>1. \A b \in DOMAIN blocks : \A l \in DOMAIN Lists(b) : Asked(b, l)
      BY <1>3, <2>1 DEF Came
    <3>2. QED
      BY <1>5, <1>6, <2>1, <3>1
  <2>5. QED
    BY <1>4, <2>2, <2>3, <2>4
<1>14. CASE UNCHANGED vars
  <2>1. UNCHANGED <<blocks, objs, files, table, calls, done, errors, phase, block, list>>
    BY <1>14 DEF vars
  <2>2. Ended' /\ \A b, l : Came(b, l)' <=> Came(b, l)
    BY <1>3, <2>1 DEF Came
  <2>3. phase' # "overflow" => Closed'
    BY <1>3, <1>6, <2>1
  <2>4. AllAsked'
    BY <1>3, <1>5, <1>6, <2>1, <2>2
  <2>5. QED
    BY <1>4, <2>2, <2>3, <2>4
<1>15. QED
  BY <1>7, <1>8, <1>10, <1>11, <1>12, <1>13, <1>14 DEF Next

-----------------------------------------------------------------------------
LEMMA Starts ==
  ASSUME ProjectAssumption, Init
  PROVE  Inv
<1>1. PICK p \in Projects : blocks = p.blocks /\ files = p.files /\ table = p.table
  BY DEF Init
<1>2. /\ members = [b \in 0..Len(blocks) |-> << >>]
      /\ phase = "infer_target_objects" /\ block = 1 /\ list = 1
      /\ objs = [b \in DOMAIN blocks |-> << >>]
      /\ calls = << >> /\ done = {} /\ errors = {} /\ node = 1 /\ seen = {} /\ lines = << >>
  BY DEF Init
<1>3. blocks \in Seq(Blocks)
  BY <1>1 DEF ProjectAssumption
<1>4. Document
  <2>1. ASSUME NEW b \in DOMAIN blocks PROVE Range(blocks[b].plain) \subseteq Name
    <3>1. blocks[b] \in Blocks
      BY <1>3, ElementOfSeq, LenProperties
    <3>2. blocks[b].plain \in Seq(Name)
      BY <3>1 DEF Blocks
    <3>3. QED
      BY <3>2, ElementOfSeq, LenProperties DEF Range
  <2>2. \A b \in DOMAIN blocks :
          /\ ~blocks[b].target => blocks[b].sources = << >>
          /\ \A s \in Range(blocks[b].sources) : ObjectOf[b][s] \in Name /\ SubdirOf[s] \in Name
    BY <1>1 DEF ProjectAssumption
  <2>3. QED
    BY <1>3, <2>1, <2>2 DEF Document
<1>5. Tabled
  BY <1>1 DEF ProjectAssumption, Tabled
<1>6. DOMAIN << >> = {} /\ \A s : DOMAIN s = {} => Range(s) = {} /\ IsInjective(s)
  BY DEF Range, IsInjective
<1>7. TypeInv
  <2>1. \A T : << >> \in Seq(T)
    BY EmptySeq
  <2> DEFINE V == Seq(Name)
             n == Len(blocks)
  <2>2. << >> \in V /\ calls \in Seq(Calls) /\ lines \in Seq(Lines)
    BY <1>2, <2>1
  <2>3. members = [b \in 0..n |-> << >>]
    BY <1>2
  <2> HIDE DEF V, n
  <2>4. members \in [0..n -> V] /\ objs \in [DOMAIN blocks -> V]
    BY <1>2, <2>2, <2>3
  <2>5. QED
    BY <1>2, <2>2, <2>4 DEF TypeInv, Phases, V, n
<1>8. \A b \in 0..Len(blocks) : members[b] = << >>
  BY <1>2
<1>9. Inferred
  <2>1. \A b \in DOMAIN blocks : ~(b < 1)
    BY <1>3, LenProperties
  <2>2. QED
    BY <1>2, <1>8, <2>1 DEF Inferred, Early
<1>10. Sound
  BY <1>2, <1>6 DEF Sound
<1>11. Complete
  <2>1. \A b, l : ~Came(b, l)
    <3>1. SUFFICES ASSUME NEW b, NEW l PROVE ~Came(b, l)
      OBVIOUS
    <3>2. QED
      BY <1>2 DEF Came
  <2>2. QED
    BY <1>2, <2>1 DEF Complete
<1>12. Placed
  BY <1>2, <1>6, <1>8 DEF Placed, Placing
<1>13. Emitted
  BY <1>2, <1>6 DEF Emitted, OneFor
<1>14. Chain
  BY <1>2, <1>6 DEF Chain
<1>15. QED
  BY <1>4, <1>5, <1>7, <1>9, <1>10, <1>11, <1>12, <1>13, <1>14 DEF Inv

\* All of this holds in every state: the document and the table are what they
\* say, the walk is sound and loses nothing, and rules are printed once.
THEOREM RulesInvariant ==
  Spec => []Inv
<1>1. Init => Inv
  BY ProjectAssumption, Starts
<1>2. Inv /\ [Next]_vars => Inv'
  BY ProjectAssumption, TypeStep, InferredStep, SoundStep, CompleteStep, PlacedStep, EmittedStep, ChainStep DEF Inv
<1>3. QED
  BY <1>1, <1>2, PTL DEF Spec

\* What is printed for a target is printed once, and in the end for all: a
\* target that was printed is in the set seen, and every rule was come by
\* (emit_rules::visit (t_rule)).
THEOREM RulesPrintedOnce ==
  Spec => []OneRuleInMakefile
<1>1. Inv => OneRuleInMakefile
  <2> SUFFICES ASSUME Inv PROVE OneRuleInMakefile
    OBVIOUS
  <2>1. /\ Document /\ Tabled /\ TypeInv /\ Recorded /\ Emitted
        /\ RuleNodes \in Seq(Node)
        /\ \A b \in 0..Len(blocks) : \A i \in DOMAIN members[b] :
             \E k \in DOMAIN RuleNodes : RuleNodes[k].target = members[b][i]
    BY ProjectAssumption, MembersRecorded, NodesOfRules DEF Inv
  <2>2. ASSUME phase = "done", NEW b \in DOMAIN members, NEW i \in DOMAIN members[b]
        PROVE  Line("rule", members[b][i]) \in Range(lines)
    <3>1. b \in 0..Len(blocks)
      BY <2>1 DEF TypeInv
    <3>2. PICK k \in DOMAIN RuleNodes : RuleNodes[k].target = members[b][i]
      BY <2>1, <2>2, <3>1
    <3>3. k \in 1..(node - 1)
      <4>1. k \in 1..Len(RuleNodes) /\ Len(RuleNodes) \in Nat
        BY <2>1, LenProperties
      <4>2. node > Len(RuleNodes) /\ node \in Nat
        BY <2>1, <2>2 DEF Emitted, TypeInv
      <4>3. QED
        BY <4>1, <4>2
    <3>4. RuleNodes[k].target \in seen
      BY <2>1, <3>3 DEF Emitted
    <3>5. QED
      BY <2>1, <3>2, <3>4 DEF Emitted, OneFor
  <2>3. QED
    BY <2>1, <2>2 DEF OneRuleInMakefile, Emitted, OneFor
<1>2. QED
  BY <1>1, RulesInvariant, PTL

-----------------------------------------------------------------------------
\* The lists of a block are the ones in it, and for a target its objects.
LEMMA ListsHave ==
  ASSUME Document, TypeInv, NEW b \in DOMAIN blocks
  PROVE  /\ \A i \in DOMAIN blocks[b].lists :
              i \in DOMAIN Lists(b) /\ Lists(b)[i] = blocks[b].lists[i]
         /\ blocks[b].target =>
              \E l \in DOMAIN Lists(b) : Lists(b)[l] = [files |-> objs[b], accept |-> FALSE]
<1> DEFINE own == blocks[b].lists
           last == [files |-> objs[b], accept |-> FALSE]
           one == IF blocks[b].target THEN <<last>> ELSE << >>
           n == Len(own)
<1>1. blocks[b] \in Blocks /\ objs[b] \in Seq(Name)
  BY ElementOfSeq, LenProperties DEF Document, TypeInv
<1>2. own \in Seq(Entry) /\ last \in Entry
  BY <1>1 DEF Blocks, Entry
<1>3. Lists(b) = own \o one
  BY DEF Lists
<1>4. /\ one \in Seq(Entry) /\ Len(one) \in {0, 1}
      /\ blocks[b].target => Len(one) = 1 /\ one[1] = last
  <2> HIDE DEF last
  <2>1. QED
    BY <1>2
<1> HIDE DEF one, last
<1>5. /\ Len(own \o one) = Len(own) + Len(one) /\ own \o one \in Seq(Entry)
      /\ \A i \in 1..Len(own) + Len(one) :
           (own \o one)[i] = IF i <= Len(own) THEN own[i] ELSE one[i - Len(own)]
  BY <1>2, <1>4, ConcatProperties
<1>6. n \in Nat /\ DOMAIN own = 1..n /\ DOMAIN (own \o one) = 1..(n + Len(one))
  BY <1>2, <1>5, LenProperties
<1>7. \A i \in DOMAIN own : i \in DOMAIN (own \o one) /\ (own \o one)[i] = own[i]
  BY <1>4, <1>5, <1>6
<1>8. ASSUME blocks[b].target
      PROVE  n + 1 \in DOMAIN (own \o one) /\ (own \o one)[n + 1] = last
  <2>1. Len(one) = 1 /\ one[1] = last
    BY <1>4, <1>8
  <2> HIDE DEF own, n
  <2>2. n + 1 \in 1..(n + Len(one)) /\ ~(n + 1 <= n) /\ (n + 1) - n = 1
    BY <1>6, <2>1
  <2>3. QED
    BY <1>5, <1>6, <2>1, <2>2 DEF n
<1>9. QED
  BY <1>3, <1>7, <1>8 DEF last

\* When the walk is over it has been to everything that is needed, and has
\* missed what there is no way to have.
LEMMA WalkIsOver ==
  ASSUME ProjectAssumption, Inv, phase \in {"emit_rules", "failed", "done"}, ~Displaced
  PROVE  /\ done = Everything \intersect DOMAIN table
         /\ errors = (Everything \ files) \union (ToBuild \ DOMAIN table)
<1>1. /\ Document /\ Tabled /\ TypeInv /\ Inferred /\ Sound /\ Complete
      /\ ~Early /\ DOMAIN table \subseteq files
  BY DEF Inv, Tabled, Early
<1>2. \A f, a : Settled(f, a) => Handled(f, a)
  <2>1. calls = << >> /\ DOMAIN << >> = {}
    BY <1>1 DEF Sound
  <2>2. QED
    BY <2>1 DEF Settled, Pending
<1>3. \A f : Handled(f, FALSE) => Handled(f, TRUE)
  BY DEF Handled
<1>4. ASSUME NEW b \in DOMAIN blocks, NEW l \in DOMAIN Lists(b), NEW f \in Range(Lists(b)[l].files)
      PROVE  Handled(f, Lists(b)[l].accept)
  BY <1>1, <1>2 DEF Complete, Came
<1>5. ASSUME NEW b \in DOMAIN blocks, NEW f \in Range(Objects(b))
      PROVE  Handled(f, FALSE)
  <2>1. blocks[b].target
    <3>1. blocks[b].sources # << >>
      BY ObjectsTyped, <1>1 DEF Range
    <3>2. QED
      BY <1>1, <3>1 DEF Document
  <2>2. objs[b] = Objects(b)
    BY <1>1 DEF Inferred
  <2>3. PICK l \in DOMAIN Lists(b) : Lists(b)[l] = [files |-> objs[b], accept |-> FALSE]
    BY <1>1, <2>1, ListsHave
  <2>4. Lists(b)[l].files = Objects(b) /\ Lists(b)[l].accept = FALSE
    BY <2>2, <2>3
  <2>5. QED
    BY <1>4, <2>4
<1>6. ASSUME NEW b \in DOMAIN blocks, NEW i \in DOMAIN blocks[b].lists,
             NEW f \in Range(blocks[b].lists[i].files)
      PROVE  Handled(f, blocks[b].lists[i].accept) /\ blocks[b].lists[i].accept \in BOOLEAN
  <2>1. i \in DOMAIN Lists(b) /\ Lists(b)[i] = blocks[b].lists[i]
    BY <1>1, ListsHave
  <2>2. Lists(b)[i] \in Entry
    BY <1>1, <2>1, ListsTyped
  <2>3. QED
    BY <1>4, <2>1, <2>2 DEF Entry
<1>7. \A f \in ToBuild : Handled(f, FALSE)
  <2>1. SUFFICES ASSUME NEW f \in ToBuild PROVE Handled(f, FALSE)
    OBVIOUS
  <2>2. PICK b \in DOMAIN blocks :
          \/ f \in Range(Objects(b))
          \/ \E i \in DOMAIN blocks[b].lists :
               ~blocks[b].lists[i].accept /\ f \in Range(blocks[b].lists[i].files)
    BY <2>1 DEF ToBuild
  <2>3. CASE f \in Range(Objects(b))
    BY <1>5, <2>3
  <2>4. ASSUME NEW i \in DOMAIN blocks[b].lists,
               ~blocks[b].lists[i].accept, f \in Range(blocks[b].lists[i].files)
        PROVE  Handled(f, FALSE)
    <3>1. blocks[b].lists[i].accept = FALSE
      BY <1>6, <2>4
    <3>2. QED
      BY <1>6, <2>4, <3>1
  <2>5. QED
    BY <2>2, <2>3, <2>4
<1>8. \A f \in ToHave : Handled(f, TRUE)
  <2>1. SUFFICES ASSUME NEW f \in ToHave PROVE Handled(f, TRUE)
    OBVIOUS
  <2>2. PICK b \in DOMAIN blocks :
          \/ \E s \in Range(blocks[b].sources) : f = SubdirOf[s]
          \/ \E i \in DOMAIN blocks[b].lists : f \in Range(blocks[b].lists[i].files)
    BY <2>1 DEF ToHave
  <2>3. ASSUME NEW s \in Range(blocks[b].sources), f = SubdirOf[s]
        PROVE  Handled(f, TRUE)
    <3>1. PICK i \in DOMAIN blocks[b].sources : s = blocks[b].sources[i]
      BY <2>3 DEF Range
    <3> DEFINE o == Objects(b)[i]
    <3>2. f \in Range(table[o].prereqs)
      BY <2>3, <3>1 DEF Displaced
    <3>3. o \in Range(Objects(b))
      BY <1>1, <3>1, ObjectsTyped DEF Range
    <3>4. o \in DOMAIN table
      BY <1>1, <3>3 DEF Inferred
    <3> HIDE DEF o
    <3>5. o \in done
      BY <1>5, <3>3, <3>4 DEF Handled
    <3>6. Settled(f, TRUE)
      BY <1>1, <3>2, <3>5 DEF Complete
    <3>7. QED
      BY <1>2, <3>6
  <2>4. ASSUME NEW i \in DOMAIN blocks[b].lists, f \in Range(blocks[b].lists[i].files)
        PROVE  Handled(f, TRUE)
    <3>1. CASE blocks[b].lists[i].accept = TRUE
      BY <1>6, <2>4, <3>1
    <3>2. CASE blocks[b].lists[i].accept = FALSE
      BY <1>3, <1>6, <2>4, <3>2
    <3>3. QED
      BY <1>6, <2>4, <3>1, <3>2
  <2>5. QED
    BY <2>2, <2>3, <2>4
<1>9. \A f \in Everything : Handled(f, TRUE)
  <2> DEFINE X == {f \in Name : Handled(f, TRUE)}
  <2>1. Everything \in SUBSET Name /\ ToBuild \subseteq Everything /\ ToHave \subseteq Everything
    BY <1>1, EverythingClosed
  <2>2. X \in SUBSET Name /\ ToBuild \subseteq X /\ ToHave \subseteq X
    BY <1>3, <1>7, <1>8, <2>1
  <2>3. ASSUME NEW f \in X \intersect DOMAIN table PROVE Range(table[f].prereqs) \subseteq X
    <3>1. f \in done
      BY <2>3 DEF Handled
    <3>2. \A g \in Range(table[f].prereqs) : Handled(g, TRUE)
      BY <1>1, <1>2, <3>1 DEF Complete
    <3>3. Range(table[f].prereqs) \subseteq Name
      <4>1. table[f].prereqs \in Seq(Name)
        BY <1>1, <2>3 DEF Tabled, Recipes
      <4>2. QED
        BY <4>1, ElementOfSeq, LenProperties DEF Range
    <3>4. QED
      BY <3>2, <3>3
  <2> HIDE DEF X
  <2>4. Everything \subseteq X
    BY <1>1, <2>2, <2>3, EverythingClosed
  <2>5. QED
    BY <2>4 DEF X
<1>10. done = Everything \intersect DOMAIN table
  <2>1. \A f \in Everything \intersect DOMAIN table : f \in done
    BY <1>9 DEF Handled
  <2>2. QED
    BY <1>1, <2>1 DEF Sound
<1>11. (Everything \ files) \union (ToBuild \ DOMAIN table) \subseteq errors
  BY <1>1, <1>7, <1>9 DEF Handled
<1>12. QED
  BY <1>1, <1>10, <1>11 DEF Sound

\* A run fails for gaps, and for all of them: the errors are the files that
\* are needed, at whatever distance, and cannot be had, and those to build
\* that have no rule (instantiate_rules::instantiate).
THEOREM ErrorsAreGaps ==
  Spec => []ErrorsForGaps
<1>1. Inv => ErrorsForGaps
  <2>1. ASSUME Inv, phase \in {"emit_rules", "failed", "done"}, ~Displaced
        PROVE  errors = (Everything \ files) \union (ToBuild \ DOMAIN table)
    BY ProjectAssumption, <2>1, WalkIsOver
  <2>2. Inv => (phase = "failed" => errors # {})
    BY DEF Inv, Complete
  <2>3. QED
    BY <2>1, <2>2 DEF ErrorsForGaps
<1>2. QED
  BY <1>1, RulesInvariant, PTL

\* When there are no errors the document has the recipes of what is needed
\* and of nothing else, each in one place (instantiate_rules::instantiate).
THEOREM RecipesAreNeeded ==
  Spec => []RecipesForNeeds
<1>1. Inv => RecipesForNeeds
  <2> SUFFICES ASSUME Inv, phase \in {"emit_rules", "done"}, ~Displaced
               PROVE  LET all == FlattenSeq([b \in 1..Len(blocks) |-> members[b]]) \o members[0]
                      IN  /\ Everything \subseteq files
                          /\ Range(all) = {f \in Everything \intersect DOMAIN table : table[f].code}
                          /\ IsInjective(all)
    BY DEF RecipesForNeeds
  <2>1. /\ Document /\ TypeInv /\ Complete
        /\ Placing(Len(blocks), members, done, table)
        /\ done = Everything \intersect DOMAIN table
        /\ errors = (Everything \ files) \union (ToBuild \ DOMAIN table)
    BY ProjectAssumption, WalkIsOver DEF Inv, Placed
  <2>2. Everything \subseteq files
    BY <2>1 DEF Complete
  <2> DEFINE n == Len(blocks)
             V == Seq(Name)
             rows == [b \in 1..n |-> members[b]]
             flat == FlattenSeq(rows)
             last == members[0]
  <2>3. /\ n \in Nat /\ 0 \in 0..n /\ \A b \in 1..n : b \in 0..n /\ b # 0
        /\ \A b \in 0..n : b = 0 \/ b \in 1..n
        /\ members \in [0..n -> V]
    BY <2>1, LenProperties DEF Document, TypeInv
  <2>4. rows \in Seq(Seq(Name)) /\ Len(rows) = n /\ \A b \in 1..n : rows[b] = members[b]
    <3> HIDE DEF n, V
    <3>1. rows \in Seq(V) /\ Len(rows) = n /\ \A b \in 1..n : rows[b] = members[b]
      BY <2>3
    <3>2. QED
      BY <3>1 DEF V
  <2>5. last \in Seq(Name)
    BY <2>3
  <2>6. Placing(n, members, done, table)
    BY <2>1
  <2> HIDE DEF n, rows
  <2>7. flat \in Seq(Name)
    BY <2>4, FlattenType
  <2>8. /\ Range(flat) = UNION {Range(rows[k]) : k \in 1..n}
        /\ /\ \A k \in 1..n : IsInjective(rows[k])
           /\ \A k, l \in 1..n : k # l => Range(rows[k]) \intersect Range(rows[l]) = {}
           => IsInjective(flat)
    BY <2>4, FlattenRange
  <2> HIDE DEF flat, last
  <2>9. IsInjective(flat)
    BY <2>3, <2>4, <2>6, <2>8 DEF Placing
  <2>10. IsInjective(last) /\ Range(flat) \intersect Range(last) = {}
    <3>1. \A k \in 1..n : Range(rows[k]) \intersect Range(last) = {}
      BY <2>3, <2>4, <2>6 DEF Placing, last
    <3>2. QED
      BY <2>3, <2>6, <2>8, <3>1 DEF Placing, last
  <2>11. /\ Range(flat \o last) = Range(flat) \union Range(last)
         /\ IsInjective(flat \o last)
    BY <2>5, <2>7, <2>9, <2>10, RangeOfConcat
  <2>12. Range(flat) \union Range(last) = {f \in done : table[f].code}
    <3>1. \A f \in Range(last) : f \in done /\ table[f].code
      BY <2>3, <2>6 DEF Placing, last
    <3>2. \A f \in Range(flat) : f \in done /\ table[f].code
      BY <2>3, <2>4, <2>6, <2>8 DEF Placing
    <3>3. ASSUME NEW f \in done, table[f].code PROVE f \in Range(flat) \union Range(last)
      <4>1. PICK b \in 0..n : f \in Range(members[b])
        BY <2>6, <3>3 DEF Placing
      <4>2. CASE b = 0
        BY <4>1, <4>2 DEF last
      <4>3. CASE b \in 1..n
        BY <2>4, <2>8, <4>1, <4>3
      <4>4. QED
        BY <2>3, <4>2, <4>3
    <3>4. QED
      BY <3>1, <3>2, <3>3
  <2>13. QED
    BY <2>1, <2>2, <2>11, <2>12 DEF flat, rows, last, n
<1>2. QED
  BY <1>1, RulesInvariant, PTL

-----------------------------------------------------------------------------
\* The files that calls are behind, and the one the innermost has come to.
LEMMA ChainOfFiles ==
  ASSUME Tabled, TypeInv, Chain, phase = "overflow"
  PROVE  \E g \in [1..Len(calls) -> Name] :
           /\ \A i \in 1..Len(calls) : g[i] \in DOMAIN table
           /\ \A i \in 1..Len(calls) :
                i + 1 \in 1..Len(calls) => g[i + 1] \in Range(table[g[i]].prereqs)
<1> DEFINE n == Len(calls)
           g == [i \in 1..n |-> IF i = n THEN File ELSE Behind(i)]
<1>1. calls \in Seq(Calls) /\ InCall /\ File \in DOMAIN table
  BY DEF TypeInv, Chain
<1>2. /\ n \in Nat /\ DOMAIN calls = 1..n
      /\ Top = calls[n] /\ File \in Range(Top.files)
  BY <1>1, TopTyped, LenProperties
<1>3. \A i \in 1..n : /\ i # n => i + 1 \in 1..n
                      /\ i + 1 \in 1..n => i # n
  <2> HIDE DEF n
  <2>1. QED
    BY ONLY <1>2
<1>4. \A i \in 1..n : g[i] \in DOMAIN table /\ g[i] \in Range(calls[i].files)
  <2>1. SUFFICES ASSUME NEW i \in 1..n PROVE g[i] \in DOMAIN table /\ g[i] \in Range(calls[i].files)
    OBVIOUS
  <2>2. CASE i = n
    BY <1>1, <1>2, <2>2
  <2>3. CASE i # n
    <3>1. i + 1 \in 1..n
      BY <1>3, <2>1, <2>3
    <3>2. calls[i].at - 1 \in DOMAIN calls[i].files /\ Behind(i) \in DOMAIN table
      BY <1>2, <2>1, <3>1 DEF Chain
    <3>3. Behind(i) \in Range(calls[i].files)
      BY <3>2 DEF Behind, Range
    <3>4. QED
      BY <2>1, <2>3, <3>2, <3>3
  <2>4. QED
    BY <2>2, <2>3
<1>5. ASSUME NEW i \in 1..n, i + 1 \in 1..n
      PROVE  g[i + 1] \in Range(table[g[i]].prereqs)
  <2>1. i # n
    BY <1>3, <1>5
  <2>2. g[i] = Behind(i)
    BY <2>1
  <2>3. calls[i + 1].files = table[Behind(i)].prereqs
    BY <1>2, <1>5 DEF Chain
  <2>4. QED
    BY <1>4, <1>5, <2>2, <2>3
<1>6. \A i \in 1..n : g[i] \in Name
  BY <1>4 DEF Tabled
<1>7. g \in [1..n -> Name]
  BY <1>6
<1> HIDE DEF g
<1>8. QED
  BY <1>4, <1>5, <1>7

\* A row of files in which each needs the next has none twice, unless rules
\* need each other.
LEMMA ChainIsShort ==
  ASSUME ProjectAssumption, Tabled, Acyclic, NEW n \in Nat, NEW g \in [1..n -> Name],
         \A i \in 1..n : g[i] \in DOMAIN table,
         \A i \in 1..n : i + 1 \in 1..n => g[i + 1] \in Range(table[g[i]].prereqs)
  PROVE  n <= Cardinality(Name)
<1>1. ASSUME NEW x \in 1..n, NEW y \in 1..n, x < y PROVE g[x] # g[y]
  <2> DEFINE fs == Range(table[g[x]].prereqs)
             R == Needed(fs)
             S == {d \in Nat : x + 1 + d <= n => g[x + 1 + d] \in R}
  <2>1. fs \in SUBSET Name
    <3>1. table[g[x]].prereqs \in Seq(Name)
      BY DEF Tabled, Recipes
    <3>2. QED
      BY <3>1, ElementOfSeq, LenProperties DEF Range
  <2>2. fs \subseteq R /\ \A f \in R \intersect DOMAIN table : Range(table[f].prereqs) \subseteq R
    BY <2>1, NeededLeast
  <2>3. x + 1 \in 1..n
    BY <1>1
  <2>4. g[x + 1] \in R
    BY <2>2, <2>3
  <2> HIDE DEF R
  <2>5. 0 \in S
    BY <2>4
  <2>6. ASSUME NEW d \in Nat, d \in S PROVE d + 1 \in S
    <3>1. SUFFICES ASSUME x + 1 + (d + 1) <= n PROVE g[x + 1 + (d + 1)] \in R
      OBVIOUS
    <3> DEFINE k == x + 1 + d
    <3>2. k \in 1..n /\ k + 1 \in 1..n /\ k + 1 = x + 1 + (d + 1) /\ k <= n
      BY <3>1
    <3>3. g[k] \in R
      BY <2>6, <3>2
    <3> HIDE DEF k
    <3>4. g[k + 1] \in R
      BY <2>2, <3>2, <3>3
    <3>5. QED
      BY <3>2, <3>4
  <2> HIDE DEF S
  <2>7. y - (x + 1) \in Nat /\ x + 1 + (y - (x + 1)) = y
    BY <1>1
  <2>8. y - (x + 1) \in S
    BY <2>5, <2>6, <2>7, SetInduction
  <2>9. g[y] \in R
    BY <2>7, <2>8 DEF S
  <2>10. g[x] \notin R
    BY DEF Acyclic, R
  <2>11. QED
    BY <2>9, <2>10
<1>2. \A x, y \in 1..n : x # y => g[x] # g[y]
  <2>1. SUFFICES ASSUME NEW x \in 1..n, NEW y \in 1..n, x # y PROVE g[x] # g[y]
    OBVIOUS
  <2>2. x < y \/ y < x
    BY <2>1
  <2>3. QED
    BY <1>1, <2>2
<1>3. IsFiniteSet(Name) /\ Cardinality(Name) \in Nat
  BY FS_CardinalityType DEF ProjectAssumption
<1>4. IsFiniteSet(1..n) /\ Cardinality(1..n) = n
  BY FS_Interval
<1>5. ~(Cardinality(Name) < Cardinality(1..n))
  BY <1>2, <1>3, <1>4, FS_PigeonHole
<1>6. QED
  BY <1>3, <1>4, <1>5

\* The recursion runs out of stack only where rules need each other, if the
\* stack has room for one call for each file: a call is always for what the
\* file needs that the call around it has come to
\* (instantiate_rules::instantiate).
THEOREM OnlyCyclesOverflow ==
  ASSUME Cardinality(Name) < MaxDepth
  PROVE  Spec => []OverflowsOnCyclesOnly
<1>1. Inv => OverflowsOnCyclesOnly
  <2> SUFFICES ASSUME Inv, phase = "overflow", Acyclic PROVE FALSE
    BY DEF OverflowsOnCyclesOnly
  <2>1. Tabled /\ TypeInv /\ Chain
    BY DEF Inv
  <2>2. PICK g \in [1..Len(calls) -> Name] :
           /\ \A i \in 1..Len(calls) : g[i] \in DOMAIN table
           /\ \A i \in 1..Len(calls) :
                i + 1 \in 1..Len(calls) => g[i + 1] \in Range(table[g[i]].prereqs)
    BY <2>1, ChainOfFiles
  <2>3. Len(calls) \in Nat
    BY <2>1, LenProperties DEF TypeInv
  <2>4. Len(calls) <= Cardinality(Name)
    BY <2>1, <2>2, <2>3, ProjectAssumption, ChainIsShort
  <2>5. MaxDepth <= Len(calls) /\ MaxDepth \in Nat /\ Cardinality(Name) \in Nat
    BY <2>1, ProjectAssumption, FS_CardinalityType DEF Chain, ProjectAssumption
  <2>6. QED
    BY <2>3, <2>4, <2>5
<1>2. QED
  BY <1>1, RulesInvariant, PTL
=============================================================================
