---------------------------- MODULE PatternRules -----------------------------
(***************************************************************************)
(* Files, stems and pattern rules, as the inference engine sees them       *)
(* (util/inference_engine.h).  A string is abstracted to what is compared: *)
(* File, Stem and Pattern are sets, StemOf[p][f] is what                   *)
(* prerequisite::stem answers for pattern p and file f, and TargetOf[r][s] *)
(* is the target of rule r with its "%" replaced by s.  StemMatch models   *)
(* the matchers character by character.                                    *)
(***************************************************************************)
EXTENDS Naturals

CONSTANTS
  File,       (* paths, existing or buildable                              *)
  Source,     (* paths that may be declared                                *)
  Rule,       (* the rules of the project, one per t_rule                  *)
  Pattern,    (* wildcard and regex prerequisites                          *)
  Stem,       (* what a "%" can stand for; a plain file is its own stem    *)
  EmptyStem,  (* the default value of rule::stem                           *)
  NoMatch,    (* prerequisite::stem returned false                         *)
  Prereqs,    (* Prereqs[r]: rule r's prerequisites, File or Pattern       *)
  StemOf,     (* StemOf[p][f]: the stem of file f under pattern p          *)
  TargetOf,   (* TargetOf[r][s]: the target of rule r for stem s           *)
  StemSize,   (* StemSize[s]: stem.size ()                                 *)
  Doubles     (* targets for which allow_doubles answers true              *)

Slots(r) == DOMAIN Prereqs[r]

ASSUME EngineAssumption ==
  /\ Source \subseteq File
  /\ File \subseteq Stem
  /\ EmptyStem \in Stem
  /\ NoMatch \notin Stem
  /\ File \intersect Pattern = {}
  /\ \A r \in Rule : Prereqs[r] \in [Slots(r) -> File \union Pattern]
  /\ StemOf \in [Pattern -> [File -> Stem \union {NoMatch}]]
  /\ TargetOf \in [Rule -> [Stem -> File]]
  /\ StemSize \in [Stem -> Nat]
  /\ Doubles \subseteq File

\* prerequisite::stem: a plain file matches itself, and is its own stem.
MatchStem(p, f) ==
  IF p \in Pattern THEN StemOf[p][f]
  ELSE IF p = f THEN f ELSE NoMatch

\* Rule r can be realised with stem s from the files in known: a prerequisite
\* of r has stem s, and every pattern of r does.  A plain prerequisite is
\* final from the start, so it need not be known, but it must not be the
\* target.
Realisable(r, s, known) ==
  /\ \E k \in Slots(r), f \in known : MatchStem(Prereqs[r][k], f) = s
  /\ \A k \in Slots(r) :
       IF Prereqs[r][k] \in Pattern
       THEN \E f \in known : MatchStem(Prereqs[r][k], f) = s
       ELSE Prereqs[r][k] # TargetOf[r][s]
=============================================================================
