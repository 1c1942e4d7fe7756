--------------------------- MODULE InferenceEngine ---------------------------
(***************************************************************************)
(* The pattern rule inference engine (util/inference_engine.cpp) and the   *)
(* destructor of the inference phase that runs it and publishes what it    *)
(* found (phases/inference.cpp).                                           *)
(*                                                                         *)
(* The engine is given files and rules.  It matches every file of the      *)
(* current frontier against every prerequisite of every rule, the rules    *)
(* being shared out to OpenMP threads; after the threads have joined it    *)
(* turns the partial rules that have become complete into recipes, and the *)
(* targets of those recipes are the frontier of the next pass.  When a     *)
(* pass finds nothing it keeps the most precisely matched of the equal     *)
(* recipes and hands the rest of the program one recipe per target.        *)
(*                                                                         *)
(* The multiset of inferred rules is a set here: a second copy of one      *)
(* recipe is dropped by Select and read by nobody before.                  *)
(***************************************************************************)
EXTENDS PatternRules, FiniteSets

VARIABLES
  pc,         (* what the main thread is doing                             *)
  files,      (* info.files: the files known to exist or to be buildable   *)
  baserules,  (* info.baserules: rules that have prerequisites             *)
  rules,      (* info.rules, and in the end rule_info::rules               *)
  frontier,   (* inferred.files: what this pass looks at                   *)
  inferred,   (* inferred.rules                                            *)
  todo,       (* todo[r]: files the iteration for rule r has yet to visit  *)
  partials    (* partials[i]: the partial rules of a rule, by stem         *)

vars == <<pc, files, baserules, rules, frontier, inferred, todo, partials>>

(***************************************************************************)
(* partials[r] maps the stems seen so far to a partial rule, the vector of *)
(* prerequisites that resolve_partial would merge from the instances       *)
(* pushed under that stem: a later realisation of a prerequisite           *)
(* overwrites an earlier one.                                              *)
(***************************************************************************)
NoPartials == [r \in Rule |-> << >>]

Seen(r) == DOMAIN partials[r]

\* The stems rule r's prerequisites have for file f.
Hits(r, f) == {MatchStem(Prereqs[r][k], f) : k \in Slots(r)} \ {NoMatch}

\* Mutant of Push: one partial rule per rule, whatever the stem.
PushWithoutStem(r, f) ==
  [s \in Seen(r) \union Hits(r, f) |->
     LET base == IF Seen(r) = {} THEN Prereqs[r]
                 ELSE partials[r][CHOOSE t \in Seen(r) : TRUE]
     IN  [k \in Slots(r) |->
            IF MatchStem(Prereqs[r][k], f) = s THEN f ELSE base[k]]]

\* The instances of rule r with the matched prerequisites replaced by f.
Push(r, f) ==
  [s \in Seen(r) \union Hits(r, f) |->
     LET base == IF s \in Seen(r) THEN partials[r][s] ELSE Prereqs[r]
     IN  [k \in Slots(r) |->
            IF MatchStem(Prereqs[r][k], f) = s THEN f ELSE base[k]]]

\* Mutant of Complete: one final prerequisite is enough.
CompleteInPart(r, s) ==
  s \in Seen(r) /\ \E k \in Slots(r) : partials[r][s][k] \in File

\* Every prerequisite of the merged rule is final, that is, a plain file.
Complete(r, s) ==
  s \in Seen(r) /\ \A k \in Slots(r) : partials[r][s][k] \in File

SelfDependent(r, s) ==
  \E k \in Slots(r) : partials[r][s][k] = TargetOf[r][s]

Recipe(r, s, prereqs) ==
  [rule |-> r, stem |-> s, target |-> TargetOf[r][s], prereqs |-> prereqs]

\* rule_eq: the code, the condition and the stem do not count.
SameRecipe(p, q) == p.target = q.target /\ p.prereqs = q.prereqs
-----------------------------------------------------------------------------
Init ==
  /\ pc = "collect"
  /\ files = {}
  /\ baserules = {}
  /\ rules = {}
  /\ frontier = {}
  /\ inferred = {}
  /\ todo = [r \in Rule |-> {}]
  /\ partials = NoPartials

\* inference_engine::add_file, for source files and for target names.
AddFile(f) ==
  /\ pc = "collect"
  /\ files' = files \union {f}
  /\ UNCHANGED <<pc, baserules, rules, frontier, inferred, todo, partials>>

\* inference_engine::add_rule for a rule without prerequisites.
AddCompleteRule(r) ==
  /\ pc = "collect"
  /\ Slots(r) = {}
  /\ files' = files \union {TargetOf[r][EmptyStem]}
  /\ rules' = rules \union {Recipe(r, EmptyStem, Prereqs[r])}
  /\ UNCHANGED <<pc, baserules, frontier, inferred, todo, partials>>

\* inference_engine::add_rule for a rule that has prerequisites.
AddBaseRule(r) ==
  /\ pc = "collect"
  /\ Slots(r) # {}
  /\ baserules' = baserules \union {r}
  /\ UNCHANGED <<pc, files, rules, frontier, inferred, todo, partials>>

\* Mutant of NextPass: the test for an empty frontier is missing.
NextPassAlways(new) ==
  /\ frontier' = new
  /\ todo' = [r \in Rule |-> IF r \in baserules THEN new ELSE {}]
  /\ pc' = "match"

\* The head of the while loop: fork a team of threads over the rules when
\* the last pass has found files, else go on with what has been inferred.
NextPass(new) ==
  /\ frontier' = new
  /\ todo' = [r \in Rule |-> IF r \in baserules THEN new ELSE {}]
  /\ pc' = IF new = {} THEN "select" ELSE "match"

StartInference ==
  /\ pc = "collect"
  /\ NextPass(files)
  /\ UNCHANGED <<files, baserules, rules, inferred, partials>>

\* One step of the parallel loop of infer_partials: the iteration that owns
\* rule r visits the next file, in the order of an unordered set.
MatchFile(r, f) ==
  /\ pc = "match"
  /\ f \in todo[r]
  /\ todo' = [todo EXCEPT ![r] = @ \ {f}]
  /\ partials' = [partials EXCEPT ![r] = Push(r, f)]
  /\ UNCHANGED <<pc, files, baserules, rules, frontier, inferred>>

\* The partial rules resolve_partial turns into recipes; a complete rule that
\* would need its own target is left in the map.
Resolvable ==
  {e \in Rule \X Stem : Complete(e[1], e[2]) /\ ~SelfDependent(e[1], e[2])}

\* Mutant of NewFiles: the file is added before the check for a rule that
\* needs its own target.
NewFilesUnchecked ==
  {TargetOf[e[1]][e[2]] : e \in {d \in Rule \X Stem : Complete(d[1], d[2])}}

NewFiles == {TargetOf[e[1]][e[2]] : e \in Resolvable}

\* Mutant of Unresolved: the whole map is cleared after a pass.
UnresolvedNone(r) == {}

\* The partial rules that stay in r's map.
Unresolved(r) == {s \in Seen(r) : <<r, s>> \notin Resolvable}

Joined == pc = "match" /\ \A r \in Rule : todo[r] = {}

\* resolve_partial throws: a rule that names its own target.  The exception
\* leaves a destructor, nothing of this run survives it.
SelfDependency ==
  /\ Joined
  /\ \E r \in Rule : \E s \in Seen(r) :
        Complete(r, s) /\ SelfDependent(r, s) /\ s = TargetOf[r][s]
  /\ pc' = "failed"
  /\ UNCHANGED <<files, baserules, rules, frontier, inferred, todo, partials>>

\* resolve_partial and the end of the loop body of infer.
ResolvePartials ==
  /\ Joined
  /\ \A r \in Rule : \A s \in Seen(r) :
        Complete(r, s) /\ SelfDependent(r, s) => s # TargetOf[r][s]
  /\ inferred' = inferred \union
       {Recipe(e[1], e[2], partials[e[1]][e[2]]) : e \in Resolvable}
  /\ partials' = [r \in Rule |-> [s \in Unresolved(r) |-> partials[r][s]]]
  /\ files' = files \union NewFiles
  /\ NextPass(NewFiles)
  /\ UNCHANGED <<baserules, rules>>

\* Mutant of MostPrecise: the sort puts the longest stem first.
LeastPrecise(all, kept) ==
  /\ kept \subseteq all
  /\ \A q \in all : \E p \in kept : SameRecipe(p, q)
  /\ \A p, q \in kept : SameRecipe(p, q) => p = q
  /\ \A p \in kept, q \in all :
        SameRecipe(p, q) => StemSize[p.stem] >= StemSize[q.stem]

\* kept is what "find most precisely matching rule" leaves of a multiset: of
\* equal recipes, the first one after sorting by the size of the stem.  The
\* sort is not stable, a tie is broken either way.
MostPrecise(all, kept) ==
  /\ kept \subseteq all
  /\ \A q \in all : \E p \in kept : SameRecipe(p, q)
  /\ \A p, q \in kept : SameRecipe(p, q) => p = q
  /\ \A p \in kept, q \in all :
        SameRecipe(p, q) => StemSize[p.stem] <= StemSize[q.stem]

Select ==
  /\ pc = "select"
  /\ \E kept \in SUBSET inferred :
        MostPrecise(inferred, kept) /\ rules' = rules \union kept
  /\ pc' = "publish"
  /\ UNCHANGED <<files, baserules, frontier, inferred, todo, partials>>

\* ~inference: two rules for one target trip the assertion.
AmbiguousTarget ==
  \E p, q \in rules : p # q /\ p.target = q.target /\ p.target \notin Doubles

DuplicateTarget ==
  /\ pc = "publish"
  /\ AmbiguousTarget
  /\ pc' = "aborted"
  /\ UNCHANGED <<files, baserules, rules, frontier, inferred, todo, partials>>

\* ~inference: rule_info::rules is keyed by the target, so of several rules
\* for "clean" the one that comes first stays.
Publish ==
  /\ pc = "publish"
  /\ ~AmbiguousTarget
  /\ \E table \in SUBSET rules :
        /\ \A q \in rules : \E p \in table : p.target = q.target
        /\ \A p, q \in table : p.target = q.target => p = q
        /\ rules' = table
  /\ pc' = "done"
  /\ UNCHANGED <<files, baserules, frontier, inferred, todo, partials>>

Collect ==
  \/ \E f \in Source : AddFile(f)
  \/ \E r \in Rule : AddCompleteRule(r)
  \/ \E r \in Rule : AddBaseRule(r)

Infer ==
  \/ \E r \in Rule, f \in File : MatchFile(r, f)
  \/ SelfDependency
  \/ ResolvePartials
  \/ Select
  \/ DuplicateTarget
  \/ Publish

Next == Collect \/ StartInference \/ Infer

Spec == Init /\ [][Next]_vars

\* The engine is a plain loop: once started it takes every step it can.
FairSpec == Spec /\ WF_vars(Infer)
-----------------------------------------------------------------------------
Recipes == [rule : Rule, stem : Stem, target : File,
            prereqs : UNION {[Slots(r) -> File] : r \in Rule}]

Stopped == {"done", "failed", "aborted"}

Settled == {"select", "publish", "done", "aborted"}

\* The values the variables of the engine can have.
TypeOK ==
  /\ pc \in {"collect", "match"} \union Settled \union Stopped
  /\ files \subseteq File
  /\ baserules \subseteq Rule
  /\ rules \subseteq Recipes
  /\ frontier \subseteq File
  /\ inferred \subseteq Recipes
  /\ todo \in [Rule -> SUBSET File]
  /\ DOMAIN partials = Rule
  /\ \A r \in Rule :
       /\ Seen(r) \subseteq Stem
       /\ \A s \in Seen(r) : partials[r][s] \in [Slots(r) -> File \union Pattern]

SoundRecipe(q) ==
  /\ q.target = TargetOf[q.rule][q.stem]
  /\ \A k \in Slots(q.rule) :
       /\ q.prereqs[k] # q.target
       /\ IF Prereqs[q.rule][k] \in Pattern
          THEN /\ q.prereqs[k] \in files
               /\ StemOf[Prereqs[q.rule][k]][q.prereqs[k]] = q.stem
          ELSE q.prereqs[k] = Prereqs[q.rule][k]

\* Recipes of one stem are never mixed up with those of another, whichever
\* thread and pass found the parts: each pattern of an inferred recipe is
\* realised by a known file with the recipe's own stem, each plain
\* prerequisite is the rule's, and no recipe needs its own target.
RecipeSound == \A q \in inferred \union rules : SoundRecipe(q)

\* When the passes are over no rule has been overlooked, although each pass
\* looks only at the files the last one found and the parts of a rule may
\* turn up in different passes: the known files are closed under the rules.
Closed ==
  pc \in Settled =>
    \A r \in baserules, s \in Stem :
      Realisable(r, s, files) => TargetOf[r][s] \in files

\* What the phases after inference rely on (rule_info::find by target): no
\* file found buildable is without a recipe in the published table, and
\* where one recipe was found twice, the more precisely matched one is there.
RecipeForEveryTarget ==
  pc = "done" =>
    \A q \in inferred : \E p \in rules :
      /\ p.target = q.target
      /\ q.target \notin Doubles =>
           SameRecipe(p, q) /\ StemSize[p.stem] <= StemSize[q.stem]

\* A file becomes known after the declarations only by a recipe inferred in
\* the same step, and no file is ever forgotten.
FilesExplained ==
  [][/\ files \subseteq files'
     /\ pc # "collect" =>
          \A f \in files' \ files : \E q \in inferred' : q.target = f]_vars

\* The stage of the build graph at each point of the engine.
Stage == CASE pc = "collect" -> "declare"
           [] pc = "match"   -> "grow"
           [] pc = "failed"  -> "failed"
           [] OTHER          -> "settled"

Graph == INSTANCE BuildGraph WITH
  known <- files,
  graph <- baserules,
  stage <- Stage

\* The engine is an implementation of the build graph: pass by pass, thread
\* by thread, it finds the files that can be built and no others.
ImplementsBuildGraph == Graph!GraphSpec

\* Which file is inferred from which, one rule away, of those that are known.
Steps ==
  LET from(r, f) == {<<f, TargetOf[r][s]>> : s \in {s \in Hits(r, f) : Realisable(r, s, files)}}
  IN  UNION {UNION {from(r, f) : f \in files} : r \in baserules}

\* Rules infer some files from each other, or one from itself: however far one
\* goes back from one of them there is another.
Circular ==
  LET steps == Steps
  IN  \E fs \in SUBSET {e[2] : e \in steps} :
        fs # {} /\ \A f \in fs : \E g \in fs : <<g, f>> \in steps

\* Unless rules infer files from each other, inference comes to an end, in a
\* table, an exception or a failed assertion, although nobody asks whether an
\* inferred file was known before (inference_engine.cpp:274-281).  Where they
\* do nothing is claimed: inference_engine.h:31 gives O(r * f) for all rules.
Terminates == [](Joined => ~Circular) => ((pc # "collect") ~> (pc \in Stopped))

(***************************************************************************)
(* The inductive invariant behind RecipeSound, Closed and the refinement.  *)
(***************************************************************************)
\* Work is shared out only during a pass, to rules that take part in it.
WorkInv ==
  \A r \in Rule :
    /\ todo[r] \subseteq files
    /\ todo[r] # {} => r \in baserules /\ pc = "match"

\* A partial rule belongs to a rule of the engine, some known file has its
\* stem, and what is realised in it is realised by a known file of that stem.
PartialInv ==
  \A r \in Rule :
    /\ Seen(r) # {} => r \in baserules /\ pc # "collect"
    /\ \A s \in Seen(r) :
         /\ \E k \in Slots(r) : \E f \in files : MatchStem(Prereqs[r][k], f) = s
         /\ \A k \in Slots(r) :
              \/ partials[r][s][k] = Prereqs[r][k]
              \/ /\ Prereqs[r][k] \in Pattern
                 /\ partials[r][s][k] \in files
                 /\ StemOf[Prereqs[r][k]][partials[r][s][k]] = s

\* A match that has been made is not lost: it is noted in the partial rule
\* until the rule's target is known.
CoverInv ==
  pc # "collect" =>
    \A r \in baserules : \A f \in files \ todo[r] : \A k \in Slots(r) :
      LET s == MatchStem(Prereqs[r][k], f)
      IN  s # NoMatch =>
            \/ TargetOf[r][s] \in files
            \/ s \in Seen(r) /\ partials[r][s][k] \in File

\* When the passes are over, what is complete is left for one reason only.
QuietInv ==
  pc \in Settled =>
    \A r \in Rule : \A s \in Seen(r) : Complete(r, s) => SelfDependent(r, s)

IInv == TypeOK /\ WorkInv /\ PartialInv /\ CoverInv /\ QuietInv /\ RecipeSound
=============================================================================
