----------------------------- MODULE MCInference -----------------------------
(***************************************************************************)
(* Instances of the inference engine.  Names are sequences of path parts,  *)
(* stems and targets are computed from them by the matchers of StemMatch.  *)
(* Each instance is a table of rules, the target and the prerequisites of  *)
(* each, and the files that may be declared; the names that can appear are *)
(* finitely many, and a name outside of them stands for all others.        *)
(***************************************************************************)
EXTENDS InferenceEngine, StemMatch, TLC

CONSTANTS
  Recipe0,   (* [rule name -> [target, prereqs]]                           *)
  Derived    (* the files that can be built besides the declared ones      *)

EmptyName == << >>
None      == <<"no match">>
Elsewhere == <<"elsewhere">>

MCRule    == DOMAIN Recipe0
MCFile    == Source \union Derived \union {Elsewhere}
MCPrereqs == [r \in MCRule |-> Recipe0[r].prereqs]
MCPattern == {p \in UNION {Range(MCPrereqs[r]) : r \in MCRule} :
                {Wild, Wild2} \intersect Range(p) # {}}
MCStemOf  == [p \in MCPattern |-> [f \in MCFile |-> PatternStem(p, f, None)]]
MCStem    == (MCFile \union {<< >>}
                \union UNION {Range(MCStemOf[p]) : p \in MCPattern}) \ {None}
MCTargetOf ==
  [r \in MCRule |-> [s \in MCStem |->
     LET t == Substitute(Recipe0[r].target, s)
     IN  IF t \in MCFile THEN t ELSE Elsewhere]]
MCStemSize == [s \in MCStem |-> Len(s)]
MCDoubles  == {<<"clean">>} \intersect MCFile

R(target, prereqs) == [target |-> target, prereqs |-> prereqs]

(***************************************************************************)
(* The default rule for headers of a grammar (extra/rules/yacc.mq) and a   *)
(* rule for objects that needs a header, fed by the two rules of the       *)
(* example of rules.pod:46-62, both of which match.                        *)
(***************************************************************************)
ChainRules ==
  [h     |-> R(<<"%", ".h">>, <<(<<"%%", ".y">>)>>),
   o     |-> R(<<"%", ".o">>, <<(<<"%", ".c">>), (<<"%", ".h">>)>>),
   all   |-> R(<<"%", ".c">>, <<(<<"%", ".y">>)>>),
   src   |-> R(<<"src", "/", "%", ".c">>, <<(<<"src", "/", "%", ".y">>)>>)]
ChainSource == {<<"src", "/", "a", ".y">>, <<"a", ".c">>, <<"b", ".h">>}

(***************************************************************************)
(* Rules in each other's way: two for one object, as the default rules for *)
(* C and C++ are (extra/rules/c.mq, c++.mq), one that names its own target *)
(* and one that does so for one stem only; and two rules for clean.        *)
(***************************************************************************)
ConflictRules ==
  [c     |-> R(<<"%", ".o">>, <<(<<"%", ".c">>)>>),
   y     |-> R(<<"%", ".o">>, <<(<<"%", ".y">>)>>),
   mixed |-> R(<<"%", ".c">>, <<(<<"%", ".y">>), (<<"a", ".c">>)>>),
   self  |-> R(<<"a", ".y">>, <<(<<"a", ".y">>)>>),
   clean |-> R(<<"clean">>, << >>),
   tidy  |-> R(<<"clean">>, << >>)]
ConflictSource == {<<"a", ".c">>, <<"a", ".y">>}

(***************************************************************************)
(* Rules that turn a file into another and back: declared one without the  *)
(* other they end, together they do not.                                   *)
(***************************************************************************)
CircleRules ==
  [all   |-> R(<<"%", ".c">>, <<(<<"%", ".y">>)>>),
   back  |-> R(<<"%", ".y">>, <<(<<"%", ".c">>)>>)]
CircleSource == {<<"a", ".c">>, <<"a", ".y">>}

(***************************************************************************)
(* A project declares rules and files of one of the three kinds.           *)
(***************************************************************************)
MCRecipe  == ChainRules @@ ConflictRules @@ CircleRules
MCSource  == ChainSource \union ConflictSource \union CircleSource
MCDerived == {<<"a", ".h">>, <<"a", ".o">>, <<"src", "/", "a", ".c">>, <<"clean">>}
Declared  == baserules \union {q.rule : q \in rules}
Kind(names, sources) ==
  Declared \subseteq DOMAIN names /\ files \intersect MCSource \subseteq sources
OneKind ==
  pc = "collect" =>
    Kind(ChainRules, ChainSource) \/ Kind(ConflictRules, ConflictSource) \/ Kind(CircleRules, CircleSource)
=============================================================================
