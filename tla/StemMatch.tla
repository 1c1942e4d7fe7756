------------------------------ MODULE StemMatch ------------------------------
(***************************************************************************)
(* The matchers behind prerequisite::stem (util/inference_engine/*.h) on   *)
(* names that are sequences of characters, and the substitution of a stem  *)
(* in the target of a rule.                                                *)
(***************************************************************************)
EXTENDS Naturals, Sequences, SequencesExt

Wild  == "%"
Wild2 == "%%"
Slash == "/"

\* The position of the wildcard w in a pattern, and what is around it.
At(p, w)     == CHOOSE i \in 1..Len(p) : p[i] = w /\ w \notin {p[j] : j \in 1..(i - 1)}
Before(p, w) == SubSeq(p, 1, At(p, w) - 1)
After(p, w)  == SubSeq(p, At(p, w) + 1, Len(p))

Around(p, w, name) ==
  IsPrefix(Before(p, w), name) /\ IsSuffix(After(p, w), name)

Middle(p, w, name) ==
  SubSeq(name, Len(Before(p, w)) + 1, Len(name) - Len(After(p, w)))

\* file_t<wildcard>::stem: compare from the front up to the "%", then from
\* the back; what is left over is the stem, and it may be empty.
WildcardStem(p, name, none) ==
  IF Around(p, Wild, name) THEN Middle(p, Wild, name) ELSE none

\* The part of a path after its last slash.
LastSegment(name) ==
  LET slashes == {i \in 1..Len(name) : name[i] = Slash}
  IN  IF slashes = {} THEN name ELSE SubSeq(name, Max(slashes) + 1, Len(name))

\* file_t<boost::regex>::stem for "%%", which make_regex writes as
\* ".*?([^/]+)": the whole last segment of what lies in between, not empty.
RegexStem(p, name, none) ==
  IF Around(p, Wild2, name) /\ LastSegment(Middle(p, Wild2, name)) # << >>
  THEN LastSegment(Middle(p, Wild2, name)) ELSE none

PatternStem(p, name, none) ==
  IF Wild2 \in Range(p) THEN RegexStem(p, name, none)
  ELSE WildcardStem(p, name, none)

\* replace_first (target, "%", stem)
Substitute(target, stem) ==
  IF Wild \in Range(target)
  THEN Before(target, Wild) \o stem \o After(target, Wild)
  ELSE target
=============================================================================
