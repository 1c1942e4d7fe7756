----------------------------- MODULE BuildGraph ------------------------------
(***************************************************************************)
(* What the inference engine promises: the files it knows are those        *)
(* declared and those some rule can build from known files, and when it    *)
(* settles no rule can build another one.  Nothing is said of passes,      *)
(* threads or partial rules.  InferenceEngine implements this.             *)
(***************************************************************************)
EXTENDS PatternRules

VARIABLES
  known,    (* the files of the graph                                      *)
  graph,    (* the rules of the graph                                      *)
  stage     (* "declare", "grow", "settled" or "failed"                    *)

graphVars == <<known, graph, stage>>

\* The files one rule away from the known ones.
Buildable(rs, fs) ==
  {TargetOf[e[1]][e[2]] :
     e \in {d \in Rule \X Stem : d[1] \in rs /\ Realisable(d[1], d[2], fs)}}

GraphInit == known = {} /\ graph = {} /\ stage = "declare"

Declare ==
  /\ stage = "declare"
  /\ known \subseteq known' /\ known' \subseteq File
  /\ graph \subseteq graph' /\ graph' \subseteq Rule
  /\ UNCHANGED stage

\* Declaring ends; a graph without files is settled as it is.
Begin ==
  /\ stage = "declare"
  /\ stage' = IF known = {} THEN "settled" ELSE "grow"
  /\ UNCHANGED <<known, graph>>

Grow ==
  /\ stage = "grow"
  /\ known \subseteq known' /\ known' # known
  /\ known' \subseteq known \union Buildable(graph, known)
  /\ UNCHANGED <<graph, stage>>

Settle ==
  /\ stage = "grow" /\ stage' = "settled"
  /\ Buildable(graph, known) \subseteq known
  /\ UNCHANGED <<known, graph>>

\* A rule whose target is the very name that one of its prerequisites matched.
Fail ==
  /\ stage = "grow" /\ stage' = "failed"
  /\ \E r \in graph, f \in known : \E k \in Slots(r) :
       LET s == MatchStem(Prereqs[r][k], f)
       IN  s # NoMatch /\ TargetOf[r][s] = s
  /\ UNCHANGED <<known, graph>>

GraphNext == Declare \/ Begin \/ Grow \/ Settle \/ Fail

GraphSpec == GraphInit /\ [][GraphNext]_graphVars
=============================================================================
