------------------------ MODULE InferenceEngineProofs ------------------------
(***************************************************************************)
(* Theorems of the inference engine, for every set of files and rules and  *)
(* every interleaving of the threads.                                      *)
(***************************************************************************)
EXTENDS InferenceEngine, TLAPS

USE EngineAssumption

\* A match is a stem.
LEMMA MatchIsStem ==
  ASSUME NEW r \in Rule, NEW k \in Slots(r), NEW f \in File
  PROVE  MatchStem(Prereqs[r][k], f) \in Stem \union {NoMatch}
<1>1. Prereqs[r][k] \in File \union Pattern
  BY DEF Slots
<1>2. CASE Prereqs[r][k] \in Pattern
  BY <1>2 DEF MatchStem
<1>3. CASE Prereqs[r][k] \notin Pattern
  BY <1>3 DEF MatchStem
<1>4. QED
  BY <1>2, <1>3

LEMMA HitsAreStems ==
  ASSUME NEW r \in Rule, NEW f \in File
  PROVE  Hits(r, f) \subseteq Stem
BY MatchIsStem DEF Hits

\* What pushing file f does to the map of rule r, stem by stem.
LEMMA PushEntry ==
  ASSUME NEW r \in Rule, NEW f, NEW s \in Seen(r) \union Hits(r, f),
         NEW k \in Slots(r)
  PROVE  /\ DOMAIN Push(r, f) = Seen(r) \union Hits(r, f)
         /\ Push(r, f)[s] = [j \in Slots(r) |-> Push(r, f)[s][j]]
         /\ MatchStem(Prereqs[r][k], f) = s => Push(r, f)[s][k] = f
         /\ MatchStem(Prereqs[r][k], f) # s => Push(r, f)[s][k] =
              IF s \in Seen(r) THEN partials[r][s][k] ELSE Prereqs[r][k]
BY DEF Push

\* A recipe made from a complete partial rule.
LEMMA RecipeTyped ==
  ASSUME NEW r \in Rule, NEW s \in Stem, NEW p, p \in [Slots(r) -> File]
  PROVE  Recipe(r, s, p) \in Recipes
<1>1. p \in UNION {[Slots(x) -> File] : x \in Rule}
  OBVIOUS
<1>2. TargetOf[r][s] \in File
  OBVIOUS
<1>3. QED
  BY <1>1, <1>2 DEF Recipe, Recipes

-----------------------------------------------------------------------------
LEMMA InitTypeOK == Init => TypeOK
BY DEF Init, TypeOK, NoPartials, Seen, Settled, Stopped

LEMMA NextTypeOK == TypeOK /\ [Next]_vars => TypeOK'
<1> SUFFICES ASSUME TypeOK, [Next]_vars PROVE TypeOK'
  OBVIOUS
<1>1. CASE UNCHANGED vars
  BY <1>1 DEF vars, TypeOK, Seen
<1>2. ASSUME NEW f \in Source, AddFile(f) PROVE TypeOK'
  BY <1>2 DEF AddFile, TypeOK, Seen
<1>3. ASSUME NEW r \in Rule, AddCompleteRule(r) PROVE TypeOK'
  <2>1. Prereqs[r] \in [Slots(r) -> File]
    BY <1>3 DEF AddCompleteRule, Slots
  <2>2. Recipe(r, EmptyStem, Prereqs[r]) \in Recipes
    BY <2>1, RecipeTyped
  <2>3. TargetOf[r][EmptyStem] \in File
    OBVIOUS
  <2>4. QED
    BY <1>3, <2>2, <2>3 DEF AddCompleteRule, TypeOK, Seen
<1>4. ASSUME NEW r \in Rule, AddBaseRule(r) PROVE TypeOK'
  BY <1>4 DEF AddBaseRule, TypeOK, Seen
<1>5. CASE StartInference
  BY <1>5 DEF StartInference, NextPass, TypeOK, Seen, Settled, Stopped
<1>6. ASSUME NEW r \in Rule, NEW f \in File, MatchFile(r, f) PROVE TypeOK'
  <2>1. /\ DOMAIN partials' = Rule
        /\ \A q \in Rule : q # r => partials'[q] = partials[q]
        /\ partials'[r] = Push(r, f)
        /\ todo' \in [Rule -> SUBSET File]
    BY <1>6 DEF MatchFile, TypeOK
  <2>2. ASSUME NEW q \in Rule PROVE
          /\ Seen(q)' \subseteq Stem
          /\ \A s \in Seen(q)' :
               partials'[q][s] \in [Slots(q) -> File \union Pattern]
    <3>1. CASE q # r
      BY <2>1, <3>1 DEF TypeOK, Seen
    <3>2. CASE q = r
      <4>1. Seen(r)' \subseteq Stem
        BY <2>1, PushEntry, HitsAreStems DEF TypeOK, Seen, Push
      <4>2. ASSUME NEW s \in Seen(r)'
            PROVE  partials'[r][s] \in [Slots(r) -> File \union Pattern]
        <5>1. s \in Seen(r) \union Hits(r, f)
          BY <2>1 DEF Seen, Push
        <5>2. ASSUME NEW k \in Slots(r) PROVE Push(r, f)[s][k] \in File \union Pattern
          <6>1. s \in Seen(r) => partials[r][s][k] \in File \union Pattern
            BY DEF TypeOK
          <6>2. Prereqs[r][k] \in File \union Pattern
            BY DEF Slots
          <6>3. QED
            BY <5>1, <6>1, <6>2 DEF Push
        <5>3. Push(r, f)[s] = [j \in Slots(r) |-> Push(r, f)[s][j]]
          BY <5>1 DEF Push
        <5>4. QED
          BY <2>1, <5>2, <5>3
      <4>3. QED
        BY <3>2, <4>1, <4>2
    <3>3. QED
      BY <3>1, <3>2
  <2>3. QED
    BY <1>6, <2>1, <2>2 DEF MatchFile, TypeOK
<1>7. CASE SelfDependency
  BY <1>7 DEF SelfDependency, TypeOK, Seen, Settled, Stopped
<1>8. CASE ResolvePartials
  <2>1. ASSUME NEW e \in Resolvable
        PROVE  /\ TargetOf[e[1]][e[2]] \in File
               /\ Recipe(e[1], e[2], partials[e[1]][e[2]]) \in Recipes
    <3>1. e[1] \in Rule /\ e[2] \in Stem /\ Complete(e[1], e[2])
      BY DEF Resolvable
    <3>2. partials[e[1]][e[2]] \in [Slots(e[1]) -> File]
      BY <3>1 DEF Complete, TypeOK
    <3>3. QED
      BY <3>1, <3>2, RecipeTyped
  <2>2. NewFiles \subseteq File
    BY <2>1 DEF NewFiles
  <2>3. inferred' \subseteq Recipes
    BY <1>8, <2>1 DEF ResolvePartials, TypeOK
  <2>4. /\ DOMAIN partials' = Rule
        /\ \A r \in Rule :
             /\ Seen(r)' \subseteq Stem
             /\ \A s \in Seen(r)' :
                  partials'[r][s] \in [Slots(r) -> File \union Pattern]
    BY <1>8 DEF ResolvePartials, TypeOK, Seen, Unresolved
  <2>5. QED
    BY <1>8, <2>2, <2>3, <2>4
       DEF ResolvePartials, NextPass, TypeOK, Settled, Stopped
<1>9. CASE Select
  BY <1>9 DEF Select, MostPrecise, TypeOK, Seen, Settled, Stopped
<1>10. CASE DuplicateTarget
  BY <1>10 DEF DuplicateTarget, TypeOK, Seen, Settled, Stopped
<1>11. CASE Publish
  BY <1>11 DEF Publish, TypeOK, Seen, Settled, Stopped
<1>12. QED
  BY <1>1, <1>2, <1>3, <1>4, <1>5, <1>6, <1>7, <1>8, <1>9, <1>10, <1>11
     DEF Next, Collect, Infer

\* The variables of the engine keep their types.
THEOREM TypeCorrect == Spec => []TypeOK
BY InitTypeOK, NextTypeOK, PTL DEF Spec

-----------------------------------------------------------------------------
(***************************************************************************)
(* The inductive invariant.  Only MatchFile and ResolvePartials disturb it *)
(* in more than one place, so each has a lemma of its own.                 *)
(***************************************************************************)
LEMMA InitIInv == Init => IInv
BY InitTypeOK
   DEF Init, IInv, WorkInv, PartialInv, CoverInv, QuietInv, RecipeSound,
       NoPartials, Seen, Settled

LEMMA MatchFileIInv ==
  ASSUME IInv, TypeOK', NEW r \in Rule, NEW f \in File, MatchFile(r, f)
  PROVE  IInv'
<1>1. /\ pc = "match" /\ pc' = "match" /\ f \in todo[r]
      /\ UNCHANGED <<files, baserules, rules, inferred>>
      /\ todo'[r] = todo[r] \ {f}
      /\ Seen(r)' = Seen(r) \union Hits(r, f)
      /\ partials'[r] = Push(r, f)
      /\ \A q \in Rule : q # r =>
           /\ todo'[q] = todo[q]
           /\ Seen(q)' = Seen(q)
           /\ partials'[q] = partials[q]
  BY DEF MatchFile, IInv, TypeOK, Seen, Push
<1>2. f \in files /\ r \in baserules
  BY <1>1 DEF IInv, WorkInv
<1>3. WorkInv'
  BY <1>1 DEF IInv, WorkInv
<1>4. PartialInv'
  <2> SUFFICES ASSUME NEW q \in Rule
               PROVE  /\ Seen(q)' # {} => q \in baserules' /\ pc' # "collect"
                      /\ \A s \in Seen(q)' :
                           /\ \E k \in Slots(q) : \E g \in files' :
                                MatchStem(Prereqs[q][k], g) = s
                           /\ \A k \in Slots(q) :
                                \/ partials'[q][s][k] = Prereqs[q][k]
                                \/ /\ Prereqs[q][k] \in Pattern
                                   /\ partials'[q][s][k] \in files'
                                   /\ StemOf[Prereqs[q][k]][partials'[q][s][k]] = s
    BY DEF PartialInv
  <2>1. CASE q # r
    BY <1>1, <2>1 DEF IInv, PartialInv
  <2>2. CASE q = r
    <3>1. ASSUME NEW s \in Seen(r)'
          PROVE  \E k \in Slots(r) : \E g \in files' :
                   MatchStem(Prereqs[r][k], g) = s
      <4>1. CASE s \in Seen(r)
        BY <1>1, <4>1 DEF IInv, PartialInv
      <4>2. CASE s \in Hits(r, f)
        BY <1>1, <1>2, <4>2 DEF Hits
      <4>3. QED
        BY <1>1, <4>1, <4>2
    <3>2. ASSUME NEW s \in Seen(r)', NEW k \in Slots(r)
          PROVE  \/ partials'[r][s][k] = Prereqs[r][k]
                 \/ /\ Prereqs[r][k] \in Pattern
                    /\ partials'[r][s][k] \in files'
                    /\ StemOf[Prereqs[r][k]][partials'[r][s][k]] = s
      <4>1. s \in Seen(r) \union Hits(r, f) /\ s \in Stem
        BY <1>1 DEF TypeOK
      <4>2. CASE MatchStem(Prereqs[r][k], f) = s
        <5>1. partials'[r][s][k] = f
          BY <1>1, <4>1, <4>2 DEF Push
        <5>2. QED
          BY <1>1, <1>2, <4>1, <4>2, <5>1 DEF MatchStem
      <4>3. CASE MatchStem(Prereqs[r][k], f) # s
        <5>1. partials'[r][s][k] =
                IF s \in Seen(r) THEN partials[r][s][k] ELSE Prereqs[r][k]
          BY <1>1, <4>1, <4>3 DEF Push
        <5>2. QED
          BY <1>1, <5>1 DEF IInv, PartialInv
      <4>4. QED
        BY <4>2, <4>3
    <3>3. QED
      BY <1>1, <1>2, <2>2, <3>1, <3>2
  <2>3. QED
    BY <2>1, <2>2
<1>5. CoverInv'
  <2> SUFFICES ASSUME NEW q \in baserules, NEW g \in files \ todo'[q],
                      NEW k \in Slots(q), NEW s,
                      s = MatchStem(Prereqs[q][k], g), s # NoMatch,
                      TargetOf[q][s] \notin files
               PROVE  s \in Seen(q)' /\ partials'[q][s][k] \in File
    BY <1>1 DEF CoverInv
  <2>0. q \in Rule /\ g \in File
    BY DEF IInv, TypeOK
  <2>1. CASE q # r
    <3>1. g \in files \ todo[q]
      BY <1>1, <2>0, <2>1
    <3>2. s \in Seen(q) /\ partials[q][s][k] \in File
      BY <1>1, <3>1 DEF IInv, CoverInv
    <3>3. QED
      BY <1>1, <2>0, <2>1, <3>2
  <2>2. CASE q = r /\ g = f
    <3>1. s \in Hits(r, f)
      BY <2>2 DEF Hits
    <3>2. partials'[r][s][k] = f
      BY <1>1, <2>2, <3>1 DEF Push
    <3>3. QED
      BY <1>1, <2>2, <3>1, <3>2
  <2>3. CASE q = r /\ g # f
    <3>1. g \notin todo[r]
      BY <1>1, <2>3
    <3>2. s \in Seen(r) /\ partials[r][s][k] \in File
      BY <1>1, <2>3, <3>1 DEF IInv, CoverInv
    <3>3. partials'[r][s][k] \in {f, partials[r][s][k]}
      BY <1>1, <2>3, <3>2 DEF Push
    <3>4. QED
      BY <1>1, <2>3, <3>2, <3>3
  <2>4. QED
    BY <2>1, <2>2, <2>3
<1>6. QuietInv'
  BY <1>1 DEF QuietInv, Settled
<1>7. RecipeSound'
  BY <1>1 DEF IInv, RecipeSound, SoundRecipe
<1>8. QED
  BY <1>3, <1>4, <1>5, <1>6, <1>7 DEF IInv

LEMMA ResolveIInv ==
  ASSUME IInv, TypeOK', ResolvePartials
  PROVE  IInv'
<1>1. /\ pc = "match" /\ UNCHANGED <<baserules, rules>>
      /\ \A r \in Rule : todo[r] = {}
      /\ files' = files \union NewFiles
      /\ \A r \in Rule : /\ Seen(r)' = Unresolved(r)
                         /\ \A s \in Unresolved(r) : partials'[r][s] = partials[r][s]
      /\ \A r \in Rule : todo'[r] = IF r \in baserules THEN NewFiles ELSE {}
      /\ pc' = IF NewFiles = {} THEN "select" ELSE "match"
  BY DEF ResolvePartials, Joined, NextPass, Seen
<1>2. WorkInv'
  BY <1>1 DEF WorkInv
<1>3. PartialInv'
  <2>1. ASSUME NEW r \in Rule, Seen(r)' # {}
        PROVE  r \in baserules' /\ pc' # "collect"
    <3>1. Seen(r) # {}
      BY <1>1, <2>1 DEF Unresolved
    <3>2. r \in baserules
      BY <3>1 DEF IInv, PartialInv
    <3>3. QED
      BY <1>1, <3>2
  <2>2. ASSUME NEW r \in Rule, NEW s \in Seen(r)'
        PROVE  s \in Seen(r) /\ partials'[r][s] = partials[r][s]
    BY <1>1 DEF Unresolved
  <2>3. QED
    <3>1. ASSUME NEW r \in Rule, NEW s \in Seen(r)'
          PROVE  /\ \E k \in Slots(r) : \E f \in files' :
                      MatchStem(Prereqs[r][k], f) = s
                 /\ \A k \in Slots(r) :
                      \/ partials'[r][s][k] = Prereqs[r][k]
                      \/ /\ Prereqs[r][k] \in Pattern
                         /\ partials'[r][s][k] \in files'
                         /\ StemOf[Prereqs[r][k]][partials'[r][s][k]] = s
      <4>1. s \in Seen(r) /\ partials'[r][s] = partials[r][s]
        BY <2>2
      <4>2. /\ \E k \in Slots(r) : \E f \in files : MatchStem(Prereqs[r][k], f) = s
            /\ \A k \in Slots(r) :
                 \/ partials[r][s][k] = Prereqs[r][k]
                 \/ /\ Prereqs[r][k] \in Pattern
                    /\ partials[r][s][k] \in files
                    /\ StemOf[Prereqs[r][k]][partials[r][s][k]] = s
        BY <4>1 DEF IInv, PartialInv
      <4>3. QED
        BY <1>1, <4>1, <4>2
    <3>2. QED
      BY <2>1, <3>1 DEF PartialInv
<1>4. CoverInv'
  <2> SUFFICES ASSUME NEW r \in baserules, NEW f \in files' \ todo'[r],
                      NEW k \in Slots(r), NEW s,
                      s = MatchStem(Prereqs[r][k], f), s # NoMatch,
                      TargetOf[r][s] \notin files'
               PROVE  s \in Seen(r)' /\ partials'[r][s][k] \in File
    BY <1>1 DEF CoverInv
  <2>1. r \in Rule /\ f \in files /\ f \in File /\ TargetOf[r][s] \notin files
    BY <1>1 DEF IInv, TypeOK
  <2>2. s \in Seen(r) /\ partials[r][s][k] \in File
    BY <1>1, <2>1 DEF IInv, CoverInv
  <2>3. <<r, s>> \notin Resolvable
    BY <1>1 DEF NewFiles
  <2>4. QED
    BY <1>1, <2>1, <2>2, <2>3 DEF Unresolved
<1>5. QuietInv'
  <2> SUFFICES ASSUME pc' \in Settled, NEW r \in Rule, NEW s \in Seen(r)',
                      Complete(r, s)'
               PROVE  SelfDependent(r, s)'
    BY DEF QuietInv
  <2>1. s \in Seen(r) /\ partials'[r][s] = partials[r][s] /\ s \in Stem
    <3>1. s \in Unresolved(r)
      BY <1>1
    <3>2. s \in Seen(r)
      BY <3>1 DEF Unresolved
    <3>3. s \in Stem
      BY <3>2 DEF IInv, TypeOK
    <3>4. QED
      BY <1>1, <3>1, <3>2, <3>3
  <2>2. <<r, s>> \notin Resolvable
    BY <1>1 DEF Unresolved
  <2>3. Complete(r, s)
    BY <2>1 DEF Complete
  <2>4. SelfDependent(r, s)
    BY <2>1, <2>2, <2>3 DEF Resolvable
  <2>5. QED
    BY <2>1, <2>4 DEF SelfDependent
<1>6. RecipeSound'
  <2>1. ASSUME NEW q \in inferred \union rules PROVE SoundRecipe(q)'
    BY <1>1 DEF IInv, RecipeSound, SoundRecipe
  <2>2. ASSUME NEW e \in Resolvable, NEW q,
               q = Recipe(e[1], e[2], partials[e[1]][e[2]])
        PROVE  SoundRecipe(q)'
    <3> DEFINE r == e[1]
               s == e[2]
    <3>1. /\ r \in Rule /\ s \in Seen(r)
          /\ Complete(r, s) /\ ~SelfDependent(r, s)
      BY DEF Resolvable, Complete
    <3>2. q.rule = r /\ q.stem = s /\ q.target = TargetOf[r][s]
            /\ q.prereqs = partials[r][s]
      BY <2>2 DEF Recipe
    <3>3. ASSUME NEW k \in Slots(r)
          PROVE  /\ partials[r][s][k] # TargetOf[r][s]
                 /\ IF Prereqs[r][k] \in Pattern
                    THEN /\ partials[r][s][k] \in files
                         /\ StemOf[Prereqs[r][k]][partials[r][s][k]] = s
                    ELSE partials[r][s][k] = Prereqs[r][k]
      <4>1. partials[r][s][k] \in File /\ partials[r][s][k] # TargetOf[r][s]
        BY <3>1 DEF Complete, SelfDependent
      <4>2. partials[r][s][k] \notin Pattern
        BY <4>1
      <4>3. QED
        BY <3>1, <4>1, <4>2 DEF IInv, PartialInv
    <3> HIDE DEF r, s
    <3>4. QED
      BY <1>1, <3>2, <3>3 DEF SoundRecipe
  <2>3. (inferred \union rules)' = inferred \union rules \union
          {Recipe(e[1], e[2], partials[e[1]][e[2]]) : e \in Resolvable}
    BY <1>1 DEF ResolvePartials
  <2>4. ASSUME NEW q \in (inferred \union rules)' PROVE SoundRecipe(q)'
    <3>1. CASE q \in inferred \union rules
      BY <2>1, <3>1
    <3>2. CASE \E e \in Resolvable : q = Recipe(e[1], e[2], partials[e[1]][e[2]])
      <4>1. PICK e \in Resolvable : q = Recipe(e[1], e[2], partials[e[1]][e[2]])
        BY <3>2
      <4>2. QED
        BY <2>2, <4>1
    <3>3. QED
      BY <2>3, <3>1, <3>2
  <2>5. QED
    BY <2>4 DEF RecipeSound
<1>7. QED
  BY <1>2, <1>3, <1>4, <1>5, <1>6 DEF IInv

LEMMA NextIInv == IInv /\ [Next]_vars => IInv'
<1> SUFFICES ASSUME IInv, [Next]_vars PROVE IInv'
  OBVIOUS
<1>0. TypeOK'
  BY NextTypeOK DEF IInv
<1> USE <1>0
<1> USE DEF IInv, WorkInv, PartialInv, CoverInv, QuietInv, RecipeSound, SoundRecipe
<1>1. CASE UNCHANGED vars
  BY <1>1 DEF vars, Seen, Complete, SelfDependent
<1>2. ASSUME NEW f \in Source, AddFile(f) PROVE IInv'
  BY <1>2 DEF AddFile, Seen, Settled
<1>3. ASSUME NEW r \in Rule, AddCompleteRule(r) PROVE IInv'
  BY <1>3 DEF AddCompleteRule, Recipe, Seen, Settled
<1>4. ASSUME NEW r \in Rule, AddBaseRule(r) PROVE IInv'
  BY <1>4 DEF AddBaseRule, Seen, Settled
<1>5. CASE StartInference
  BY <1>5 DEF StartInference, NextPass, Seen, TypeOK
<1>6. ASSUME NEW r \in Rule, NEW f \in File, MatchFile(r, f) PROVE IInv'
  BY <1>6, MatchFileIInv
<1>7. CASE SelfDependency
  BY <1>7 DEF SelfDependency, Joined, Seen, Settled
<1>8. CASE ResolvePartials
  BY <1>8, ResolveIInv
<1>9. CASE Select
  BY <1>9 DEF Select, MostPrecise, Seen, Settled, Complete, SelfDependent
<1>10. CASE DuplicateTarget
  BY <1>10 DEF DuplicateTarget, Seen, Settled, Complete, SelfDependent
<1>11. CASE Publish
  BY <1>11 DEF Publish, Seen, Settled, Complete, SelfDependent
<1>12. QED
  BY <1>1, <1>2, <1>3, <1>4, <1>5, <1>6, <1>7, <1>8, <1>9, <1>10, <1>11
     DEF Next, Collect, Infer

LEMMA Inductive == Spec => []IInv
BY InitIInv, NextIInv, PTL DEF Spec

\* Recipes are built from parts of one stem that known files have, and never
\* from their own target.
THEOREM RecipesAreSound == Spec => []RecipeSound
<1>1. IInv => RecipeSound
  BY DEF IInv
<1>2. QED
  BY <1>1, Inductive, PTL

\* In a quiet state, what can be realised from the known files has been.
LEMMA QuietIsClosed ==
  ASSUME TypeOK, PartialInv, CoverInv, pc # "collect",
         \A r \in Rule : todo[r] = {},
         \A r \in Rule : \A s \in Seen(r) : Complete(r, s) => SelfDependent(r, s),
         NEW r \in baserules, NEW s \in Stem, Realisable(r, s, files)
  PROVE  TargetOf[r][s] \in files
<1> SUFFICES ASSUME TargetOf[r][s] \notin files PROVE FALSE
  OBVIOUS
<1>1. r \in Rule /\ s # NoMatch
  BY DEF TypeOK
<1>2. ASSUME NEW k \in Slots(r), NEW f \in files, MatchStem(Prereqs[r][k], f) = s
      PROVE  s \in Seen(r) /\ partials[r][s][k] \in File
  BY <1>1, <1>2 DEF CoverInv
<1>3. s \in Seen(r)
  BY <1>2 DEF Realisable
<1>4. ASSUME NEW k \in Slots(r)
      PROVE  /\ partials[r][s][k] \in File
             /\ partials[r][s][k] # TargetOf[r][s]
  <2>1. CASE Prereqs[r][k] \in Pattern
    <3>1. partials[r][s][k] \in File
      BY <1>2, <2>1 DEF Realisable
    <3>2. partials[r][s][k] \in files
      BY <1>1, <1>3, <2>1, <3>1 DEF PartialInv
    <3>3. QED
      BY <3>1, <3>2
  <2>2. CASE Prereqs[r][k] \notin Pattern
    <3>1. partials[r][s][k] = Prereqs[r][k]
      BY <1>1, <1>3, <2>2 DEF PartialInv
    <3>2. Prereqs[r][k] \in File
      BY <1>1, <2>2 DEF Slots
    <3>3. Prereqs[r][k] # TargetOf[r][s]
      BY <2>2 DEF Realisable
    <3>4. QED
      BY <3>1, <3>2, <3>3
  <2>3. QED
    BY <2>1, <2>2
<1>5. Complete(r, s) /\ ~SelfDependent(r, s)
  BY <1>3, <1>4 DEF Complete, SelfDependent
<1>6. QED
  BY <1>1, <1>3, <1>5

\* When inference is over no rule can build a file that is not known.
THEOREM RulesAreExhausted == Spec => []Closed
<1>1. IInv => Closed
  <2> SUFFICES ASSUME IInv, pc \in Settled, NEW r \in baserules, NEW s \in Stem,
                      Realisable(r, s, files)
               PROVE  TargetOf[r][s] \in files
    BY DEF Closed
  <2>1. pc # "collect" /\ pc # "match"
    BY DEF Settled
  <2>2. \A q \in Rule : todo[q] = {}
    BY <2>1 DEF IInv, WorkInv
  <2>3. QED
    BY <2>1, <2>2, QuietIsClosed DEF IInv, QuietInv
<1>2. QED
  BY <1>1, Inductive, PTL

-----------------------------------------------------------------------------
(***************************************************************************)
(* The engine implements the build graph.                                  *)
(***************************************************************************)
\* A complete partial rule that is not self-dependent is realisable.
LEMMA ResolvableIsRealisable ==
  ASSUME PartialInv, NEW r \in Rule, NEW s \in Seen(r),
         Complete(r, s), ~SelfDependent(r, s)
  PROVE  r \in baserules /\ Realisable(r, s, files)
<1>1. r \in baserules /\ \E k \in Slots(r), f \in files : MatchStem(Prereqs[r][k], f) = s
  BY DEF PartialInv
<1>2. ASSUME NEW k \in Slots(r)
      PROVE  IF Prereqs[r][k] \in Pattern
             THEN \E f \in files : MatchStem(Prereqs[r][k], f) = s
             ELSE Prereqs[r][k] # TargetOf[r][s]
  <2>1. partials[r][s][k] \in File /\ partials[r][s][k] # TargetOf[r][s]
    BY DEF Complete, SelfDependent
  <2>2. QED
    BY <2>1 DEF PartialInv, MatchStem
<1>3. QED
  BY <1>1, <1>2 DEF Realisable

LEMMA BuildableIsBuildable ==
  ASSUME NEW R, NEW F
  PROVE  Graph!Buildable(R, F) =
           {TargetOf[e[1]][e[2]] :
              e \in {d \in Rule \X Stem : d[1] \in R /\ Realisable(d[1], d[2], F)}}
BY DEF Graph!Buildable, Graph!Realisable, Realisable, Graph!MatchStem, MatchStem,
       Graph!Slots, Slots

LEMMA StepImplements ==
  IInv /\ [Next]_vars => [Graph!GraphNext]_<<files, baserules, Stage>>
<1> SUFFICES ASSUME IInv, [Next]_vars
             PROVE  [Graph!GraphNext]_<<files, baserules, Stage>>
  OBVIOUS
<1>1. CASE UNCHANGED vars
  BY <1>1 DEF vars, Stage
<1>2. ASSUME NEW f \in Source, AddFile(f) PROVE Graph!Declare
  BY <1>2 DEF AddFile, Graph!Declare, Stage, IInv, TypeOK
<1>3. ASSUME NEW r \in Rule, AddCompleteRule(r) PROVE Graph!Declare
  <2>1. TargetOf[r][EmptyStem] \in File
    OBVIOUS
  <2>2. QED
    BY <1>3, <2>1 DEF AddCompleteRule, Graph!Declare, Stage, IInv, TypeOK
<1>4. ASSUME NEW r \in Rule, AddBaseRule(r) PROVE Graph!Declare
  BY <1>4 DEF AddBaseRule, Graph!Declare, Stage, IInv, TypeOK
<1>5. CASE StartInference
  <2>1. Graph!Begin
    BY <1>5 DEF StartInference, NextPass, Graph!Begin, Stage
  <2>2. QED
    BY <2>1 DEF Graph!GraphNext
<1>6. ASSUME NEW r \in Rule, NEW f \in File, MatchFile(r, f)
      PROVE  UNCHANGED <<files, baserules, Stage>>
  BY <1>6 DEF MatchFile, Stage
<1>7. CASE SelfDependency
  <2>0. PICK r \in Rule : \E s \in Seen(r) : s = TargetOf[r][s]
    BY <1>7 DEF SelfDependency
  <2>1. PICK s \in Seen(r) : s = TargetOf[r][s]
    BY <2>0
  <2>2. r \in baserules /\ s \in Stem
    BY <2>1 DEF IInv, TypeOK, PartialInv
  <2>3. PICK k \in Slots(r), f \in files : MatchStem(Prereqs[r][k], f) = s
    BY <2>1 DEF IInv, PartialInv
  <2>4. k \in Graph!Slots(r) /\ Graph!MatchStem(Prereqs[r][k], f) = s
    BY <2>3 DEF Graph!Slots, Slots, Graph!MatchStem, MatchStem
  <2>5. Graph!Fail
    BY <1>7, <2>1, <2>2, <2>4 DEF SelfDependency, Joined, Graph!Fail, Stage
  <2>6. QED
    BY <2>5 DEF Graph!GraphNext
<1>8. CASE ResolvePartials
  <2>1. /\ pc = "match" /\ UNCHANGED baserules
        /\ \A r \in Rule : todo[r] = {}
        /\ files' = files \union NewFiles
        /\ pc' = IF NewFiles = {} THEN "select" ELSE "match"
    BY <1>8 DEF ResolvePartials, Joined, NextPass
  <2>2. CASE NewFiles = {}
    <3>1. \A r \in Rule : \A s \in Seen(r) : Complete(r, s) => SelfDependent(r, s)
      <4> SUFFICES ASSUME NEW r \in Rule, NEW s \in Seen(r),
                          Complete(r, s), ~SelfDependent(r, s)
                   PROVE  FALSE
        OBVIOUS
      <4>1. <<r, s>> \in Resolvable
        BY DEF Resolvable, IInv, TypeOK
      <4>2. TargetOf[<<r, s>>[1]][<<r, s>>[2]] \in NewFiles
        BY <4>1 DEF NewFiles
      <4>3. QED
        BY <2>2, <4>2
    <3>2. \A r \in baserules, s \in Stem :
             Realisable(r, s, files) => TargetOf[r][s] \in files
      BY <2>1, <3>1, QuietIsClosed DEF IInv
    <3>3. Graph!Buildable(baserules, files) \subseteq files
      BY <3>2, BuildableIsBuildable
    <3>4. Graph!Settle
      BY <2>1, <2>2, <3>3 DEF Graph!Settle, Stage
    <3>5. QED
      BY <3>4 DEF Graph!GraphNext
  <2>3. CASE NewFiles # {}
    <3>1. NewFiles \subseteq Graph!Buildable(baserules, files)
      <4>1. ASSUME NEW e \in Resolvable
            PROVE  e[1] \in baserules /\ Realisable(e[1], e[2], files)
        BY ResolvableIsRealisable DEF Resolvable, Complete, IInv
      <4>2. Resolvable \subseteq Rule \X Stem
        BY DEF Resolvable
      <4>3. QED
        BY <4>1, <4>2, BuildableIsBuildable DEF NewFiles
    <3>2. Stage = "grow" /\ Stage' = "grow"
      BY <2>1, <2>3 DEF Stage
    <3>3. CASE files' = files
      BY <2>1, <3>2, <3>3
    <3>4. CASE files' # files
      <4>1. Graph!Grow
        BY <2>1, <3>1, <3>2, <3>4 DEF Graph!Grow
      <4>2. QED
        BY <4>1 DEF Graph!GraphNext
    <3>5. QED
      BY <3>3, <3>4
  <2>4. QED
    BY <2>2, <2>3
<1>9. CASE Select
  BY <1>9 DEF Select, Stage
<1>10. CASE DuplicateTarget
  BY <1>10 DEF DuplicateTarget, Stage
<1>11. CASE Publish
  BY <1>11 DEF Publish, Stage
<1>12. QED
  BY <1>1, <1>2, <1>3, <1>4, <1>5, <1>6, <1>7, <1>8, <1>9, <1>10, <1>11
     DEF Next, Collect, Infer, Graph!GraphNext

\* Whatever the rules, the files and the schedule of the threads, the engine
\* finds what the build graph allows and stops only when that is exhausted.
THEOREM Refinement == Spec => ImplementsBuildGraph
<1>1. Init => Graph!GraphInit
  BY DEF Init, Graph!GraphInit, Stage
<1>2. QED
  BY <1>1, StepImplements, Inductive, PTL
     DEF Spec, ImplementsBuildGraph, Graph!GraphSpec, Graph!graphVars
-----------------------------------------------------------------------------
(***************************************************************************)
(* What the phases after inference find in the published table.            *)
(***************************************************************************)
\* Between Select and Publish every inferred recipe has an equal among the
\* rules that is at least as precisely matched; at the end the table has one.
SelectInv ==
  /\ pc = "publish" =>
       \A q \in inferred : \E p \in rules :
         SameRecipe(p, q) /\ StemSize[p.stem] <= StemSize[q.stem]
  /\ RecipeForEveryTarget

\* ~inference keeps of the rules what SelectInv promises of them: but for the
\* doubles there is one rule per target, so the table has the precise one.
LEMMA PublishKeeps ==
  ASSUME SelectInv, Publish
  PROVE  SelectInv'
<1>1. /\ pc = "publish" /\ pc' = "done" /\ inferred' = inferred
      /\ ~AmbiguousTarget
  BY DEF Publish
<1>2. PICK table \in SUBSET rules :
        /\ \A q \in rules : \E p \in table : p.target = q.target
        /\ rules' = table
  BY DEF Publish
<1>3. ASSUME NEW q \in inferred
      PROVE  \E p \in table :
               /\ p.target = q.target
               /\ q.target \notin Doubles =>
                    SameRecipe(p, q) /\ StemSize[p.stem] <= StemSize[q.stem]
  <2>1. PICK p \in rules : SameRecipe(p, q) /\ StemSize[p.stem] <= StemSize[q.stem]
    BY <1>1 DEF SelectInv
  <2>2. PICK t \in table : t.target = p.target
    BY <1>2
  <2>3. t.target = q.target
    BY <2>1, <2>2 DEF SameRecipe
  <2>4. q.target \notin Doubles => t = p
    BY <1>1, <2>2, <2>3 DEF AmbiguousTarget
  <2>5. QED
    BY <2>1, <2>3, <2>4
<1>4. QED
  BY <1>1, <1>2, <1>3 DEF SelectInv, RecipeForEveryTarget

LEMMA SelectIInv == SelectInv /\ [Next]_vars => SelectInv'
<1> SUFFICES ASSUME SelectInv, [Next]_vars PROVE SelectInv'
  OBVIOUS
<1>1. ASSUME pc' \notin {"publish", "done"} PROVE SelectInv'
  BY <1>1 DEF SelectInv, RecipeForEveryTarget
<1>2. CASE UNCHANGED vars
  BY <1>2 DEF vars, SelectInv, RecipeForEveryTarget
<1>3. CASE Collect \/ StartInference
  BY <1>1, <1>3 DEF Collect, AddFile, AddCompleteRule, AddBaseRule,
                    StartInference, NextPass
<1>4. CASE \E r \in Rule, f \in File : MatchFile(r, f)
  BY <1>1, <1>4 DEF MatchFile
<1>5. CASE SelfDependency \/ ResolvePartials \/ DuplicateTarget
  BY <1>1, <1>5 DEF SelfDependency, ResolvePartials, NextPass, DuplicateTarget
<1>6. CASE Select
  <2>1. PICK kept \in SUBSET inferred :
          MostPrecise(inferred, kept) /\ rules' = rules \union kept
    BY <1>6 DEF Select
  <2>2. ASSUME NEW q \in inferred
        PROVE  \E p \in kept :
                 SameRecipe(p, q) /\ StemSize[p.stem] <= StemSize[q.stem]
    BY <2>1 DEF MostPrecise
  <2>3. inferred' = inferred /\ pc' = "publish"
    BY <1>6 DEF Select
  <2>4. QED
    BY <2>1, <2>2, <2>3 DEF SelectInv, RecipeForEveryTarget
<1>7. CASE Publish
  BY <1>7, PublishKeeps
<1>8. QED
  BY <1>2, <1>3, <1>4, <1>5, <1>6, <1>7 DEF Next, Infer

\* rule_info::find never misses a file inference found a recipe for, and finds
\* the most precisely matched of equal recipes.
THEOREM TableIsComplete == Spec => []RecipeForEveryTarget
<1>1. Init => SelectInv
  BY DEF Init, SelectInv, RecipeForEveryTarget
<1>2. SelectInv => RecipeForEveryTarget
  BY DEF SelectInv
<1>3. QED
  BY <1>1, <1>2, SelectIInv, PTL DEF Spec

\* No file is forgotten, and none becomes known after the declarations but by
\* a recipe inferred in the same step.
THEOREM NewFilesHaveRecipes == Spec => FilesExplained
<1>1. [Next]_vars => [/\ files \subseteq files'
                      /\ pc # "collect" =>
                           \A f \in files' \ files : \E q \in inferred' : q.target = f]_vars
  <2> SUFFICES ASSUME [Next]_vars
               PROVE  /\ files \subseteq files'
                      /\ pc # "collect" =>
                           \A f \in files' \ files : \E q \in inferred' : q.target = f
    OBVIOUS
  <2>1. CASE UNCHANGED vars
    BY <2>1 DEF vars
  <2>2. CASE Collect \/ StartInference
    BY <2>2 DEF Collect, AddFile, AddCompleteRule, AddBaseRule, StartInference
  <2>3. CASE ResolvePartials
    <3>1. ASSUME NEW f \in NewFiles PROVE \E q \in inferred' : q.target = f
      <4>1. PICK e \in Resolvable : f = TargetOf[e[1]][e[2]]
        BY DEF NewFiles
      <4>2. Recipe(e[1], e[2], partials[e[1]][e[2]]) \in inferred'
        BY <2>3 DEF ResolvePartials
      <4>3. QED
        BY <4>1, <4>2 DEF Recipe
    <3>2. files' = files \union NewFiles
      BY <2>3 DEF ResolvePartials
    <3>3. QED
      BY <3>1, <3>2
  <2>4. CASE Infer /\ ~ResolvePartials
    BY <2>4 DEF Infer, MatchFile, SelfDependency, Select, DuplicateTarget, Publish
  <2>5. QED
    BY <2>1, <2>2, <2>3, <2>4 DEF Next
<1>2. QED
  BY <1>1, PTL DEF Spec, FilesExplained
=============================================================================
