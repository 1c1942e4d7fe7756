---------------------------- MODULE Reachability -----------------------------
(***************************************************************************)
(* What can be reached from some elements of a finite set: the parents of  *)
(* a node, the bodies a variable refers to, the files something is made    *)
(* of.                                                                     *)
(***************************************************************************)
EXTENDS Naturals, FiniteSets

\* start, what next has for it, what next has for that, and so on.
Reach(base, start, next) ==
  LET reached[k \in 0..Cardinality(base)] ==
        IF k = 0 THEN start
        ELSE reached[k - 1] \union UNION {next[x] : x \in reached[k - 1]}
  IN  reached[Cardinality(base)]
=============================================================================
